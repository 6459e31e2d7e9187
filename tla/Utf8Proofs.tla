----------------------------- MODULE Utf8Proofs -----------------------------
(***************************************************************************)
(* What as_bytes and from_utf8_lossy do for texts of any length.           *)
(*                                                                         *)
(* The recursion over the characters is unfolded without an induction      *)
(* theorem: a set of natural numbers that is not empty has a least member, *)
(* and the least length at which a claim fails is no length at all.        *)
(***************************************************************************)
EXTENDS Utf8, SequenceTheorems, WellFoundedInduction, TLAPS

LEMMA Associative ==
  ASSUME NEW A
  PROVE  \A p, q, s \in Seq(A) : (p \o q) \o s = p \o (q \o s)
BY ConcatAssociative

LEMMA AssociativeUtf8 ==
  ASSUME NEW p \in Seq(Utf8Byte), NEW q \in Seq(Utf8Byte), NEW s \in Seq(Utf8Byte)
  PROVE  (p \o q) \o s = p \o (q \o s)
<1>1. PICK A : A = Utf8Byte
  OBVIOUS
<1>2. p \in Seq(A) /\ q \in Seq(A) /\ s \in Seq(A)
  BY <1>1, Zenon
<1> QED BY ONLY <1>2, Associative

LEMMA AssociativeChar ==
  ASSUME NEW p \in Seq(Char), NEW q \in Seq(Char), NEW s \in Seq(Char)
  PROVE  (p \o q) \o s = p \o (q \o s)
<1>1. PICK A : A = Char
  OBVIOUS
<1>2. p \in Seq(A) /\ q \in Seq(A) /\ s \in Seq(A)
  BY <1>1, Zenon
<1> QED BY ONLY <1>2, Associative

LEMMA PairConcat ==
  ASSUME NEW i \in Nat, NEW j \in Nat
  PROVE  <<i>> \o <<j>> = <<i, j>>
<1> DEFINE s == <<i>>
           t == <<j>>
           z == <<i, j>>
<1>1. /\ s \in Seq(Nat) /\ Len(s) = 1 /\ s[1] = i
      /\ t \in Seq(Nat) /\ Len(t) = 1 /\ t[1] = j
  OBVIOUS
<1>2. z \in Seq(Nat) /\ Len(z) = 2 /\ z[1] = i /\ z[2] = j
  OBVIOUS
<1> HIDE DEF s, t, z
<1>3. /\ s \o t \in Seq(Nat) /\ Len(s \o t) = 2
      /\ (s \o t)[1] = i /\ (s \o t)[2] = j
  <2>1. /\ s \o t \in Seq(Nat) /\ Len(s \o t) = Len(s) + Len(t)
        /\ \A k \in 1..(Len(s) + Len(t)) :
             (s \o t)[k] = IF k <= Len(s) THEN s[k] ELSE t[k - Len(s)]
    BY <1>1, ConcatProperties, Zenon
  <2>2. 1 + 1 = 2 /\ 1 \in 1..2 /\ 2 \in 1..2 /\ 1 <= 1 /\ ~(2 <= 1) /\ 2 - 1 = 1
    OBVIOUS
  <2> QED BY <1>1, <2>1, <2>2
<1>4. \A k \in 1..2 : k = 1 \/ k = 2
  OBVIOUS
<1>5. \A k \in 1..Len(s \o t) : (s \o t)[k] = z[k]
  BY <1>2, <1>3, <1>4
<1>6. s \o t = z
  BY <1>2, <1>3, <1>5, SeqEqual
<1> QED BY <1>6 DEF s, t, z

LEMMA Least ==
  ASSUME NEW T, T \subseteq Nat, T # {}
  PROVE  \E x \in T : \A y \in T : x <= y
<1>1. PICK x \in T : \A y \in T : ~(<<y, x>> \in OpToRel(<, Nat))
  BY NatLessThanWellFounded, WFMin
<1>2. \A y \in T : ~(y < x)
  BY <1>1 DEF OpToRel
<1> QED BY <1>2

\* The form in which the other lemmas use it: a set of lengths that holds 0
\* and with every length the next holds all of them.
LEMMA Lengths ==
  ASSUME NEW S, 0 \in S, \A n \in Nat : n \in S => n + 1 \in S
  PROVE  Nat \subseteq S
<1> SUFFICES ASSUME Nat \ S # {} PROVE FALSE
  OBVIOUS
<1>1. PICK x \in Nat \ S : \A y \in Nat \ S : x <= y
  BY Least
<1>2. x # 0 /\ x - 1 \in Nat /\ (x - 1) + 1 = x /\ ~(x <= x - 1)
  BY <1>1
<1>3. x - 1 \in S
  BY <1>1, <1>2
<1> QED BY <1>1, <1>2, <1>3

\* The same up to a bound.
LEMMA LengthsUpto ==
  ASSUME NEW k \in Nat, NEW S, 0 \in S, \A n \in 0..(k - 1) : n \in S => n + 1 \in S
  PROVE  0..k \subseteq S
<1> DEFINE U == S \cup {n \in Nat : n > k}
<1>1. \A n \in Nat : n \in U => n + 1 \in U
  <2> TAKE n \in Nat
  <2>1. CASE n < k
    <3>1. n \in 0..(k - 1) /\ ~(n > k)
      BY <2>1
    <3> QED BY <3>1
  <2>2. CASE ~(n < k)
    BY <2>2
  <2> QED BY <2>1, <2>2
<1>2. Nat \subseteq U
  <2>1. 0 \in U
    OBVIOUS
  <2> HIDE DEF U
  <2> QED BY <1>1, <2>1, Lengths
<1>3. \A n \in 0..k : n \in Nat /\ ~(n > k)
  OBVIOUS
<1> QED BY <1>2, <1>3

\* And for sequences: a set that holds the empty one and with every sequence
\* those one element longer.
LEMMA Sequences ==
  ASSUME NEW A, NEW S, <<>> \in S,
         \A s \in Seq(A), e \in A : s \in S => Append(s, e) \in S
  PROVE  Seq(A) \subseteq S
<1> DEFINE L == {n \in Nat : \A s \in Seq(A) : Len(s) = n => s \in S}
<1>1. 0 \in L
  BY EmptySeq
<1>2. ASSUME NEW n \in Nat, n \in L PROVE n + 1 \in L
  <2> SUFFICES ASSUME NEW s \in Seq(A), Len(s) = n + 1 PROVE s \in S
    OBVIOUS
  <2>1. s # <<>>
    BY EmptySeq
  <2>2. PICK t \in Seq(A), e \in A : s = Append(t, e)
    BY <2>1, SequenceEmptyOrAppend
  <2>3. Len(t) \in Nat /\ Len(s) = Len(t) + 1
    BY <2>2, AppendProperties, LenProperties
  <2>4. t \in S
    BY <1>2, <2>3
  <2> QED BY <2>2, <2>4
<1>3. Nat \subseteq L
  <2> HIDE DEF L
  <2> QED BY <1>1, <1>2, Lengths
<1> QED BY <1>3, LenProperties

-----------------------------------------------------------------------------
LEMMA EncodeUtf8 ==
  ASSUME NEW ch \in Char
  PROVE  /\ encode_utf8[ch] \in Seq(Utf8Byte)
         /\ Len(encode_utf8[ch]) \in 1..2
<1>1. Char = {"letter", "nl", "mark", "dash", "fffd"}
  BY DEF Char, encode_utf8
<1>2. \A b \in Utf8Byte : <<b>> \in Seq(Utf8Byte) /\ Len(<<b>>) = 1
  OBVIOUS
<1>3. /\ encode_utf8["letter"] = <<1>> /\ encode_utf8["nl"] = <<2>>
      /\ encode_utf8["mark"] = <<3>> /\ encode_utf8["fffd"] = <<6>>
      /\ encode_utf8["dash"] = DASH_UTF8
  BY DEF encode_utf8
<1>4. 1 \in Utf8Byte /\ 2 \in Utf8Byte /\ 3 \in Utf8Byte
      /\ 4 \in Utf8Byte /\ 5 \in Utf8Byte /\ 6 \in Utf8Byte
  BY DEF Utf8Byte
<1>5. <<4, 5>> \in Seq(Utf8Byte) /\ Len(<<4, 5>>) = 2
  BY <1>4
<1>6. DASH_UTF8 \in Seq(Utf8Byte) /\ Len(DASH_UTF8) \in 1..2
  <2>1. CASE DASH_UTF8 = <<4>>
    BY <1>2, <1>4, <2>1
  <2>2. CASE DASH_UTF8 = <<4, 5>>
    BY <1>5, <2>2
  <2> QED BY <2>1, <2>2, DashAssumption
<1>7. CASE ch = "dash"
  BY <1>3, <1>6, <1>7
<1>8. CASE ch # "dash"
  <2>1. PICK b \in Utf8Byte : encode_utf8[ch] = <<b>>
    BY <1>1, <1>3, <1>4, <1>8
  <2> QED BY <1>2, <2>1
<1> QED BY <1>7, <1>8

\* The function in the definition of as_bytes exists.
LEMMA BytesExist ==
  ASSUME NEW s, NEW k \in Nat
  PROVE  \E f : f = [n \in 0..k |->
                       IF n = 0 THEN <<>> ELSE f[n - 1] \o encode_utf8[s[n]]]
<1> DEFINE Ok(j) == \E f : f = [n \in 0..j |->
                                  IF n = 0 THEN <<>> ELSE f[n - 1] \o encode_utf8[s[n]]]
           S == {j \in Nat : Ok(j)}
<1>1. Ok(0)
  <2>1. [n \in 0..0 |-> <<>>] =
          [n \in 0..0 |-> IF n = 0 THEN <<>>
                          ELSE [i \in 0..0 |-> <<>>][n - 1] \o encode_utf8[s[n]]]
    OBVIOUS
  <2> QED BY <2>1
<1>2. ASSUME NEW j \in Nat, Ok(j) PROVE Ok(j + 1)
  <2>1. PICK f : f = [n \in 0..j |->
                        IF n = 0 THEN <<>> ELSE f[n - 1] \o encode_utf8[s[n]]]
    BY <1>2
  <2> DEFINE g == [n \in 0..(j + 1) |->
                     IF n = 0 THEN <<>> ELSE f[n - 1] \o encode_utf8[s[n]]]
  <2>2. \A n \in 0..(j + 1) : n # 0 => n - 1 \in 0..j
    OBVIOUS
  <2>3. \A n \in 0..j : g[n] = f[n]
    BY <2>1
  <2>4. g = [n \in 0..(j + 1) |->
               IF n = 0 THEN <<>> ELSE g[n - 1] \o encode_utf8[s[n]]]
    BY <2>2, <2>3
  <2> QED BY <2>4
<1>3. 0 \in S /\ \A j \in Nat : j \in S => j + 1 \in S
  BY <1>1, <1>2
<1> HIDE DEF Ok
<1>4. k \in S
  <2> HIDE DEF S
  <2> QED BY <1>3, Lengths
<1> QED BY <1>4 DEF Ok

LEMMA BytesDef ==
  ASSUME NEW s, Len(s) \in Nat
  PROVE  \E f : /\ f = [n \in 0..Len(s) |->
                          IF n = 0 THEN <<>> ELSE f[n - 1] \o encode_utf8[s[n]]]
                /\ as_bytes(s) = f[Len(s)]
<1> DEFINE Rec(f) == f = [n \in 0..Len(s) |->
                            IF n = 0 THEN <<>> ELSE f[n - 1] \o encode_utf8[s[n]]]
<1>1. \E f : Rec(f)
  BY BytesExist
<1>2. as_bytes(s) = (CHOOSE f : Rec(f))[Len(s)]
  BY DEF as_bytes
<1>3. Rec(CHOOSE f : Rec(f))
  BY <1>1
<1> QED BY <1>2, <1>3

LEMMA BytesEmpty == as_bytes(<<>>) = <<>>
<1>1. Len(<<>>) = 0
  OBVIOUS
<1>2. PICK f : /\ f = [n \in 0..0 |->
                         IF n = 0 THEN <<>> ELSE f[n - 1] \o encode_utf8[<<>>[n]]]
               /\ as_bytes(<<>>) = f[0]
  BY <1>1, BytesDef
<1>3. f[0] = <<>>
  BY <1>2
<1> QED BY <1>2, <1>3

LEMMA BytesAppend ==
  ASSUME NEW s \in Seq(Char), NEW ch \in Char
  PROVE  as_bytes(Append(s, ch)) = as_bytes(s) \o encode_utf8[ch]
<1> DEFINE k == Len(s)
           t == Append(s, ch)
<1>1. /\ k \in Nat /\ Len(t) = k + 1 /\ t[k + 1] = ch
      /\ \A i \in 1..k : t[i] = s[i]
  BY AppendProperties, LenProperties
<1>2. PICK f : /\ f = [n \in 0..k |->
                         IF n = 0 THEN <<>> ELSE f[n - 1] \o encode_utf8[s[n]]]
               /\ as_bytes(s) = f[k]
  BY <1>1, BytesDef
<1>3. PICK g : /\ g = [n \in 0..(k + 1) |->
                         IF n = 0 THEN <<>> ELSE g[n - 1] \o encode_utf8[t[n]]]
               /\ as_bytes(t) = g[k + 1]
  <2>1. Len(t) \in Nat
    BY <1>1
  <2> HIDE DEF t
  <2> QED BY <1>1, <2>1, BytesDef
<1> HIDE DEF k, t
<1> DEFINE S == {n \in 0..k : g[n] = f[n]}
<1>4. 0 \in S
  BY <1>1, <1>2, <1>3
<1>5. ASSUME NEW n \in 0..(k - 1), n \in S PROVE n + 1 \in S
  <2>1. /\ n + 1 \in 0..k /\ n + 1 \in 0..(k + 1) /\ n + 1 \in 1..k
        /\ n + 1 # 0 /\ (n + 1) - 1 = n
    BY <1>1
  <2>2. f[n + 1] = f[n] \o encode_utf8[s[n + 1]]
    BY <1>2, <2>1
  <2>3. g[n + 1] = g[n] \o encode_utf8[t[n + 1]]
    BY <1>3, <2>1
  <2> QED BY <1>1, <1>5, <2>1, <2>2, <2>3
<1>6. k \in S
  <2>1. k \in 0..k
    BY <1>1
  <2> HIDE DEF S
  <2> QED BY <1>1, <1>4, <1>5, <2>1, LengthsUpto
<1>7. g[k + 1] = g[k] \o encode_utf8[t[k + 1]]
  <2>1. k + 1 \in 0..(k + 1) /\ k + 1 # 0 /\ (k + 1) - 1 = k
    BY <1>1
  <2> QED BY <1>3, <2>1
<1> QED BY <1>1, <1>2, <1>3, <1>6, <1>7 DEF t

LEMMA BytesType ==
  ASSUME NEW s \in Seq(Char)
  PROVE  as_bytes(s) \in Seq(Utf8Byte) /\ Len(as_bytes(s)) \in Nat
<1> DEFINE S == {t \in Seq(Char) : as_bytes(t) \in Seq(Utf8Byte)}
<1>1. <<>> \in S
  BY BytesEmpty, EmptySeq
<1>2. ASSUME NEW t \in Seq(Char), NEW ch \in Char, t \in S
      PROVE  Append(t, ch) \in S
  <2>1. as_bytes(t) \in Seq(Utf8Byte) /\ encode_utf8[ch] \in Seq(Utf8Byte)
    BY <1>2, EncodeUtf8
  <2>2. as_bytes(t) \o encode_utf8[ch] \in Seq(Utf8Byte)
    BY <2>1, ConcatProperties
  <2> QED BY <2>2, BytesAppend, AppendProperties
<1>3. s \in S
  <2> HIDE DEF S
  <2> QED BY <1>1, <1>2, Sequences
<1> QED BY <1>3, LenProperties

LEMMA BytesConcat ==
  ASSUME NEW s \in Seq(Char), NEW t \in Seq(Char)
  PROVE  as_bytes(s \o t) = as_bytes(s) \o as_bytes(t)
<1> DEFINE S == {u \in Seq(Char) : as_bytes(s \o u) = as_bytes(s) \o as_bytes(u)}
<1>1. <<>> \in S
  BY BytesEmpty, BytesType, ConcatEmptySeq, EmptySeq
<1>2. ASSUME NEW u \in Seq(Char), NEW ch \in Char, u \in S
      PROVE  Append(u, ch) \in S
  <2>1. s \o Append(u, ch) = Append(s \o u, ch)
    BY AppendProperties
  <2>2. as_bytes(s \o Append(u, ch)) = (as_bytes(s) \o as_bytes(u)) \o encode_utf8[ch]
    BY <1>2, <2>1, BytesAppend, ConcatProperties
  <2>3. as_bytes(s) \o as_bytes(Append(u, ch)) = as_bytes(s) \o (as_bytes(u) \o encode_utf8[ch])
    BY BytesAppend
  <2>4. (as_bytes(s) \o as_bytes(u)) \o encode_utf8[ch] = as_bytes(s) \o (as_bytes(u) \o encode_utf8[ch])
    <3>1. /\ as_bytes(s) \in Seq(Utf8Byte) /\ as_bytes(u) \in Seq(Utf8Byte)
          /\ encode_utf8[ch] \in Seq(Utf8Byte)
      BY BytesType, EncodeUtf8
    <3> QED BY <3>1, AssociativeUtf8, Zenon
  <2> QED BY <2>2, <2>3, <2>4, AppendProperties
<1>3. t \in S
  <2> HIDE DEF S
  <2> QED BY <1>1, <1>2, Sequences
<1> QED BY <1>3

-----------------------------------------------------------------------------
(***************************************************************************)
(* from_utf8_lossy recurses from the back: every step moves on by one byte *)
(* or by the length of the character found.                                *)
(***************************************************************************)
\* The character found at a position, and where the search goes on.
CharFound(bytes, i) == IF CharsAt(bytes, i) = {} THEN "fffd"
                       ELSE CHOOSE c \in CharsAt(bytes, i) : TRUE
Onward(bytes, i) == IF CharsAt(bytes, i) = {} THEN i + 1
                    ELSE i + Len(encode_utf8[CHOOSE c \in CharsAt(bytes, i) : TRUE])

LEMMA FoundFacts ==
  ASSUME NEW bytes, NEW n \in Nat, n = Len(bytes), NEW i \in 1..n
  PROVE  /\ CharFound(bytes, i) \in Char
         /\ Onward(bytes, i) \in (i + 1)..(n + 1)
<1>1. CASE CharsAt(bytes, i) = {}
  <2>1. "fffd" \in Char
    BY DEF Char, encode_utf8
  <2> QED BY <1>1, <2>1 DEF CharFound, Onward
<1>2. CASE CharsAt(bytes, i) # {}
  <2> DEFINE c == CHOOSE c \in CharsAt(bytes, i) : TRUE
  <2>1. c \in CharsAt(bytes, i)
    BY <1>2
  <2>2. CharFound(bytes, i) = c /\ Onward(bytes, i) = i + Len(encode_utf8[c])
    BY <1>2 DEF CharFound, Onward
  <2> HIDE DEF c
  <2>3. c \in Char /\ (i + Len(encode_utf8[c])) - 1 <= Len(bytes)
    BY <2>1 DEF CharsAt
  <2>4. Len(encode_utf8[c]) \in 1..2
    BY <2>3, EncodeUtf8
  <2>5. i + Len(encode_utf8[c]) \in (i + 1)..(n + 1)
    <3>1. PICK l \in 1..2 : l = Len(encode_utf8[c])
      BY <2>4
    <3>2. (i + l) - 1 <= n
      BY <2>3, <3>1
    <3>3. i + l \in (i + 1)..(n + 1)
      BY <3>2
    <3> QED BY <3>1, <3>3
  <2> QED BY <2>2, <2>3, <2>5
<1> QED BY <1>1, <1>2

LEMMA LossyExist ==
  ASSUME NEW bytes, NEW n \in Nat, n = Len(bytes)
  PROVE  \E f : f = [i \in 1..(n + 1) |->
                       IF i > n THEN <<>> ELSE <<CharFound(bytes, i)>> \o f[Onward(bytes, i)]]
<1> DEFINE Ok(m) == \E f : f = [i \in m..(n + 1) |->
                                  IF i > n THEN <<>> ELSE <<CharFound(bytes, i)>> \o f[Onward(bytes, i)]]
           S == {k \in 0..n : Ok((n + 1) - k)}
<1>1. Ok(n + 1)
  <2> DEFINE f == [i \in (n + 1)..(n + 1) |-> <<>>]
  <2>1. \A i \in (n + 1)..(n + 1) : i > n
    OBVIOUS
  <2>2. f = [i \in (n + 1)..(n + 1) |->
               IF i > n THEN <<>> ELSE <<CharFound(bytes, i)>> \o f[Onward(bytes, i)]]
    BY <2>1
  <2> QED BY <2>2
<1>2. ASSUME NEW m \in 1..n, Ok(m + 1) PROVE Ok(m)
  <2>1. PICK f : f = [i \in (m + 1)..(n + 1) |->
                        IF i > n THEN <<>> ELSE <<CharFound(bytes, i)>> \o f[Onward(bytes, i)]]
    BY <1>2
  <2> DEFINE g == [i \in m..(n + 1) |->
                     IF i > n THEN <<>> ELSE <<CharFound(bytes, i)>> \o f[Onward(bytes, i)]]
  <2>2. \A i \in m..(n + 1) : ~(i > n) => Onward(bytes, i) \in (m + 1)..(n + 1)
    <3> SUFFICES ASSUME NEW i \in m..(n + 1), ~(i > n) PROVE Onward(bytes, i) \in (m + 1)..(n + 1)
      OBVIOUS
    <3>1. i \in 1..n /\ i >= m
      OBVIOUS
    <3>2. Onward(bytes, i) \in (i + 1)..(n + 1)
      BY <3>1, FoundFacts
    <3> QED BY <3>1, <3>2
  <2>3. \A i \in (m + 1)..(n + 1) : i \in m..(n + 1)
    OBVIOUS
  <2>4. \A i \in (m + 1)..(n + 1) : g[i] = f[i]
    BY <2>1, <2>3
  <2>5. g = [i \in m..(n + 1) |-> IF i > n THEN <<>> ELSE <<CharFound(bytes, i)>> \o g[Onward(bytes, i)]]
    BY <2>2, <2>4
  <2> QED BY <2>5
<1> HIDE DEF Ok
<1>3. 0 \in S
  <2>1. (n + 1) - 0 = n + 1 /\ 0 \in 0..n
    OBVIOUS
  <2> QED BY <1>1, <2>1
<1>4. ASSUME NEW k \in 0..(n - 1), k \in S PROVE k + 1 \in S
  <2>1. /\ (n + 1) - (k + 1) \in 1..n /\ ((n + 1) - (k + 1)) + 1 = (n + 1) - k
        /\ k + 1 \in 0..n
    OBVIOUS
  <2> QED BY <1>2, <1>4, <2>1
<1>5. n \in S
  <2>1. n \in 0..n
    OBVIOUS
  <2> HIDE DEF S
  <2> QED BY <1>3, <1>4, <2>1, LengthsUpto
<1>6. (n + 1) - n = 1
  OBVIOUS
<1>7. Ok(1)
  BY <1>5, <1>6
<1> QED BY <1>7 DEF Ok

LEMMA LossyDef ==
  ASSUME NEW bytes, Len(bytes) \in Nat
  PROVE  \E f : /\ f = [i \in 1..(Len(bytes) + 1) |->
                          IF i > Len(bytes) THEN <<>>
                          ELSE <<CharFound(bytes, i)>> \o f[Onward(bytes, i)]]
                /\ from_utf8_lossy(bytes) = f[1]
<1> DEFINE Body(f) == [i \in 1..(Len(bytes) + 1) |->
                         IF i > Len(bytes) THEN <<>>
                         ELSE <<CharFound(bytes, i)>> \o f[Onward(bytes, i)]]
           Code(f) == [i \in 1..(Len(bytes) + 1) |->
                         IF i > Len(bytes) THEN <<>>
                         ELSE IF CharsAt(bytes, i) = {} THEN <<"fffd">> \o f[i + 1]
                         ELSE LET c == CHOOSE c \in CharsAt(bytes, i) : TRUE
                              IN  <<c>> \o f[i + Len(encode_utf8[c])]]
<1>1. \A f : Code(f) = Body(f)
  <2> TAKE f
  <2>1. ASSUME NEW i \in 1..(Len(bytes) + 1), ~(i > Len(bytes))
        PROVE  (IF CharsAt(bytes, i) = {} THEN <<"fffd">> \o f[i + 1]
                ELSE LET c == CHOOSE c \in CharsAt(bytes, i) : TRUE
                     IN  <<c>> \o f[i + Len(encode_utf8[c])])
               = <<CharFound(bytes, i)>> \o f[Onward(bytes, i)]
    <3>1. CASE CharsAt(bytes, i) = {}
      BY <3>1 DEF CharFound, Onward
    <3>2. CASE CharsAt(bytes, i) # {}
      <4> DEFINE c == CHOOSE c \in CharsAt(bytes, i) : TRUE
      <4>1. CharFound(bytes, i) = c /\ Onward(bytes, i) = i + Len(encode_utf8[c])
        BY <3>2 DEF CharFound, Onward
      <4> QED BY <3>2, <4>1
    <3> QED BY <3>1, <3>2
  <2> QED BY <2>1, Zenon
<1>2. \E f : f = Body(f)
  BY LossyExist
<1>3. from_utf8_lossy(bytes) = (CHOOSE f : f = Code(f))[1]
  BY DEF from_utf8_lossy
<1> HIDE DEF Body, Code
<1>4. (CHOOSE f : f = Code(f)) = Code(CHOOSE f : f = Code(f))
  BY <1>1, <1>2
<1>5. PICK f : f = Code(f) /\ from_utf8_lossy(bytes) = f[1]
  BY <1>3, <1>4
<1> QED BY <1>1, <1>5 DEF Body

(* Whatever bytes are read off a disk, from_utf8_lossy makes a text of     *)
(* them.                                                                   *)
LEMMA LossyType ==
  ASSUME NEW bytes, Len(bytes) \in Nat
  PROVE  from_utf8_lossy(bytes) \in Seq(Char)
<1> DEFINE n == Len(bytes)
<1>1. PICK f : /\ f = [i \in 1..(n + 1) |->
                         IF i > n THEN <<>>
                         ELSE <<CharFound(bytes, i)>> \o f[Onward(bytes, i)]]
               /\ from_utf8_lossy(bytes) = f[1]
  BY LossyDef
<1> DEFINE S == {k \in 0..n : \A i \in ((n + 1) - k)..(n + 1) : f[i] \in Seq(Char)}
<1>2. n \in Nat
  OBVIOUS
<1>3. \A i \in 1..n : CharFound(bytes, i) \in Char /\ Onward(bytes, i) \in (i + 1)..(n + 1)
  BY FoundFacts
<1> HIDE DEF n
<1>4. 0 \in S
  <2>1. f[n + 1] = <<>>
    <3>1. n + 1 \in 1..(n + 1) /\ n + 1 > n
      BY <1>2
    <3> QED BY <1>1, <3>1
  <2>2. 0 \in 0..n /\ \A i \in ((n + 1) - 0)..(n + 1) : i = n + 1
    BY <1>2
  <2> QED BY <2>1, <2>2, EmptySeq
<1>5. ASSUME NEW k \in 0..(n - 1), k \in S PROVE k + 1 \in S
  <2> DEFINE m == (n + 1) - (k + 1)
  <2>1. /\ m \in 1..n /\ k + 1 \in 0..n /\ m \in 1..(n + 1) /\ ~(m > n)
        /\ \A i \in m..(n + 1) : i = m \/ i \in ((n + 1) - k)..(n + 1)
        /\ \A i \in (m + 1)..(n + 1) : i \in ((n + 1) - k)..(n + 1)
    BY <1>2
  <2> HIDE DEF m
  <2>2. f[Onward(bytes, m)] \in Seq(Char)
    BY <1>3, <1>5, <2>1
  <2>3. <<CharFound(bytes, m)>> \in Seq(Char)
    <3>1. \A c \in Char : <<c>> \in Seq(Char)
      OBVIOUS
    <3> QED BY <1>3, <2>1, <3>1, Zenon
  <2>4. f[m] = <<CharFound(bytes, m)>> \o f[Onward(bytes, m)]
    BY <1>1, <2>1
  <2>5. f[m] \in Seq(Char)
    BY <2>2, <2>3, <2>4, ConcatProperties
  <2>6. \A i \in m..(n + 1) : f[i] \in Seq(Char)
    BY <1>5, <2>1, <2>5
  <2> QED BY <2>1, <2>6 DEF m
<1>6. n \in S
  <2>1. n \in 0..n
    BY <1>2
  <2> HIDE DEF S
  <2> QED BY <1>2, <1>4, <1>5, <2>1, LengthsUpto
<1>7. 1 \in ((n + 1) - n)..(n + 1)
  BY <1>2
<1> QED BY <1>1, <1>6, <1>7

LEMMA LossyEmpty == from_utf8_lossy(<<>>) = <<>>
<1>1. Len(<<>>) = 0 /\ Len(<<>>) \in Nat
  OBVIOUS
<1> DEFINE e == <<>>
<1>2. PICK f : /\ f = [i \in 1..(0 + 1) |->
                         IF i > 0 THEN <<>> ELSE <<CharFound(e, i)>> \o f[Onward(e, i)]]
               /\ from_utf8_lossy(e) = f[1]
  BY <1>1, LossyDef
<1>3. 1 \in 1..(0 + 1) /\ 1 > 0
  OBVIOUS
<1> QED BY <1>2, <1>3

LEMMA SuffixFacts ==
  ASSUME NEW b \in Seq(Nat), NEW p \in 1..(Len(b) + 1)
  PROVE  LET s == SubSeq(b, p, Len(b))
         IN  /\ s \in Seq(Nat) /\ Len(s) = (Len(b) + 1) - p
             /\ \A i \in 1..Len(s) : s[i] = b[(p - 1) + i]
<1> DEFINE s == SubSeq(b, p, Len(b))
<1>1. Len(b) \in Nat /\ p \in Int /\ Len(b) \in Int
  BY LenProperties
<1>2. \A i \in p..Len(b) : b[i] \in Nat
  BY <1>1, ElementOfSeq
<1>3. /\ s \in Seq(Nat)
      /\ Len(s) = IF p <= Len(b) THEN (Len(b) - p) + 1 ELSE 0
      /\ \A i \in 1..((Len(b) - p) + 1) : s[i] = b[(p + i) - 1]
  BY <1>1, <1>2, SubSeqProperties
<1>4. Len(s) = (Len(b) + 1) - p
  BY <1>1, <1>3
<1>5. \A i \in 1..Len(s) : i \in 1..((Len(b) - p) + 1) /\ (p + i) - 1 = (p - 1) + i
  BY <1>1, <1>4
<1> HIDE DEF s
<1>6. \A i \in 1..Len(s) : s[i] = b[(p - 1) + i]
  BY <1>3, <1>5
<1> QED BY <1>3, <1>4, <1>6 DEF s

LEMMA CharsAtDef ==
  ASSUME NEW b \in Seq(Nat), NEW i \in Int, NEW c \in Char, NEW l \in 1..2,
         l = Len(encode_utf8[c])
  PROVE  c \in CharsAt(b, i)
           <=> (i + l) - 1 <= Len(b) /\ SubSeq(b, i, (i + l) - 1) = encode_utf8[c]
BY DEF CharsAt

\* What is found at a position does not depend on what lies before it.
LEMMA CharsAtSuffix ==
  ASSUME NEW b \in Seq(Nat), NEW p \in 1..(Len(b) + 1),
         NEW s \in Seq(Nat), Len(s) = (Len(b) + 1) - p,
         \A i \in 1..Len(s) : s[i] = b[(p - 1) + i],
         NEW i \in 1..Len(s)
  PROVE  CharsAt(s, i) = CharsAt(b, (p - 1) + i)
<1> SUFFICES ASSUME NEW c \in Char
             PROVE  c \in CharsAt(s, i) <=> c \in CharsAt(b, (p - 1) + i)
  BY DEF CharsAt
<1>1. Len(encode_utf8[c]) \in 1..2
  BY EncodeUtf8
<1>2. PICK l \in 1..2 : l = Len(encode_utf8[c])
  BY <1>1
<1>3. Len(b) \in Nat /\ Len(s) \in Nat /\ i \in Nat /\ p \in Nat /\ p >= 1
  BY LenProperties
<1>4. (i + l) - 1 <= Len(s) <=> (((p - 1) + i) + l) - 1 <= Len(b)
  BY <1>3
<1>5. ASSUME (i + l) - 1 <= Len(s)
      PROVE  SubSeq(s, i, (i + l) - 1) = SubSeq(b, (p - 1) + i, (((p - 1) + i) + l) - 1)
  <2> DEFINE u == SubSeq(s, i, (i + l) - 1)
             v == SubSeq(b, (p - 1) + i, (((p - 1) + i) + l) - 1)
  <2>1. \A j \in i..((i + l) - 1) : s[j] \in Nat
    <3>1. \A j \in i..((i + l) - 1) : j \in 1..Len(s)
      BY <1>3, <1>5
    <3> QED BY <3>1, ElementOfSeq
  <2>2. \A j \in ((p - 1) + i)..((((p - 1) + i) + l) - 1) : b[j] \in Nat
    <3>1. \A j \in ((p - 1) + i)..((((p - 1) + i) + l) - 1) : j \in 1..Len(b)
      BY <1>3, <1>4, <1>5
    <3> QED BY <3>1, ElementOfSeq
  <2>3. i \in Int /\ (i + l) - 1 \in Int /\ i <= (i + l) - 1 /\ (((i + l) - 1) - i) + 1 = l
    BY <1>3
  <2>4. /\ u \in Seq(Nat) /\ Len(u) = l
        /\ \A j \in 1..l : u[j] = s[(i + j) - 1]
    BY <2>1, <2>3, SubSeqProperties
  <2>5. /\ (p - 1) + i \in Int /\ (((p - 1) + i) + l) - 1 \in Int
        /\ (p - 1) + i <= (((p - 1) + i) + l) - 1
        /\ (((((p - 1) + i) + l) - 1) - ((p - 1) + i)) + 1 = l
    BY <1>3
  <2>6. /\ v \in Seq(Nat) /\ Len(v) = l
        /\ \A j \in 1..l : v[j] = b[(((p - 1) + i) + j) - 1]
    BY <2>2, <2>5, SubSeqProperties
  <2>7. \A j \in 1..l : /\ (i + j) - 1 \in 1..Len(s)
                        /\ (p - 1) + ((i + j) - 1) = (((p - 1) + i) + j) - 1
    BY <1>3, <1>5
  <2> HIDE DEF u, v
  <2>8. \A j \in 1..l : u[j] = v[j]
    BY <2>4, <2>6, <2>7
  <2>9. u = v
    BY <2>4, <2>6, <2>8, SeqEqual
  <2> QED BY <2>9 DEF u, v
<1>6. c \in CharsAt(s, i)
        <=> (i + l) - 1 <= Len(s) /\ SubSeq(s, i, (i + l) - 1) = encode_utf8[c]
  <2>1. i \in Int
    BY <1>3
  <2> QED BY <1>2, <2>1, CharsAtDef, Zenon
<1>7. c \in CharsAt(b, (p - 1) + i)
        <=> /\ (((p - 1) + i) + l) - 1 <= Len(b)
            /\ SubSeq(b, (p - 1) + i, (((p - 1) + i) + l) - 1) = encode_utf8[c]
  <2>1. (p - 1) + i \in Int
    BY <1>3
  <2> QED BY <1>2, <2>1, CharsAtDef, Zenon
<1> QED BY <1>4, <1>5, <1>6, <1>7, Zenon

\* One step of the decoder: a character, and then what is left.
LEMMA LossyStep ==
  ASSUME NEW b \in Seq(Nat), b # <<>>
  PROVE  /\ Onward(b, 1) \in 2..(Len(b) + 1)
         /\ from_utf8_lossy(b) =
              <<CharFound(b, 1)>> \o from_utf8_lossy(SubSeq(b, Onward(b, 1), Len(b)))
<1> DEFINE n == Len(b)
           p == Onward(b, 1)
           s == SubSeq(b, p, Len(b))
           m == Len(s)
<1>1. n \in Nat /\ 1 \in 1..n
  BY EmptySeq, LenProperties
<1>2. \A i \in 1..n : Onward(b, i) \in (i + 1)..(n + 1)
  BY <1>1, FoundFacts
<1>3. p \in 2..(n + 1) /\ p \in 1..(n + 1) /\ p \in Nat
  BY <1>1, <1>2
<1>4. /\ s \in Seq(Nat) /\ m = (n + 1) - p /\ m \in Nat
      /\ \A i \in 1..m : s[i] = b[(p - 1) + i]
  BY <1>3, SuffixFacts, LenProperties
<1>5. PICK f : /\ f = [i \in 1..(n + 1) |->
                         IF i > n THEN <<>> ELSE <<CharFound(b, i)>> \o f[Onward(b, i)]]
               /\ from_utf8_lossy(b) = f[1]
  BY <1>1, LossyDef
<1>6. PICK g : /\ g = [i \in 1..(m + 1) |->
                         IF i > m THEN <<>> ELSE <<CharFound(s, i)>> \o g[Onward(s, i)]]
               /\ from_utf8_lossy(s) = g[1]
  BY <1>4, LossyDef
<1> HIDE DEF s
<1>7. \A i \in 1..m : Onward(s, i) \in (i + 1)..(m + 1)
  BY <1>4, FoundFacts
<1>8. ASSUME NEW i \in 1..m
      PROVE  /\ CharFound(s, i) = CharFound(b, (p - 1) + i)
             /\ (p - 1) + Onward(s, i) = Onward(b, (p - 1) + i)
  <2>1. CharsAt(s, i) = CharsAt(b, (p - 1) + i)
    BY <1>3, <1>4, CharsAtSuffix
  <2>2. CharFound(s, i) = CharFound(b, (p - 1) + i)
    BY <2>1 DEF CharFound
  <2>3. CASE CharsAt(s, i) = {}
    <3>1. Onward(s, i) = i + 1 /\ Onward(b, (p - 1) + i) = ((p - 1) + i) + 1
      BY <2>1, <2>3 DEF Onward
    <3> HIDE DEF p
    <3> QED BY <1>3, <2>2, <3>1
  <2>4. CASE CharsAt(s, i) # {}
    <3> DEFINE c == CHOOSE c \in CharsAt(s, i) : TRUE
    <3>1. /\ Onward(s, i) = i + Len(encode_utf8[c])
          /\ Onward(b, (p - 1) + i) = ((p - 1) + i) + Len(encode_utf8[c])
      BY <2>1, <2>4 DEF Onward
    <3>2. c \in Char
      BY <2>4 DEF CharsAt
    <3>3. Len(encode_utf8[c]) \in 1..2
      BY <3>2, EncodeUtf8
    <3> HIDE DEF p, c
    <3>4. \A x, y \in Nat : \A l \in 1..2 : (x - 1) + (y + l) = ((x - 1) + y) + l
      OBVIOUS
    <3>5. (p - 1) + (i + Len(encode_utf8[c])) = ((p - 1) + i) + Len(encode_utf8[c])
      <4>1. PICK l \in 1..2 : l = Len(encode_utf8[c])
        BY <3>3
      <4>2. i \in Nat
        BY <1>4
      <4>3. (p - 1) + (i + l) = ((p - 1) + i) + l
        BY <1>3, <3>4, <4>2
      <4> QED BY <4>1, <4>3
    <3> QED BY <2>2, <3>1, <3>5
  <2> QED BY <2>3, <2>4
<1> HIDE DEF n, p, m
<1> DEFINE S == {k \in 0..m : \A i \in ((m + 1) - k)..(m + 1) : g[i] = f[(p - 1) + i]}
<1>9. 0 \in S
  <2>1. /\ m + 1 \in 1..(m + 1) /\ m + 1 > m
        /\ (p - 1) + (m + 1) \in 1..(n + 1) /\ (p - 1) + (m + 1) > n
        /\ 0 \in 0..m /\ \A i \in ((m + 1) - 0)..(m + 1) : i = m + 1
    BY <1>1, <1>3, <1>4
  <2>2. g[m + 1] = <<>> /\ f[(p - 1) + (m + 1)] = <<>>
    BY <1>5, <1>6, <2>1
  <2> QED BY <2>1, <2>2
<1>10. ASSUME NEW k \in 0..(m - 1), k \in S PROVE k + 1 \in S
  <2> DEFINE q == (m + 1) - (k + 1)
  <2>1. /\ q \in 1..m /\ k + 1 \in 0..m /\ q \in 1..(m + 1) /\ ~(q > m)
        /\ (p - 1) + q \in 1..(n + 1) /\ ~((p - 1) + q > n)
        /\ \A i \in q..(m + 1) : i = q \/ i \in ((m + 1) - k)..(m + 1)
        /\ \A i \in (q + 1)..(m + 1) : i \in ((m + 1) - k)..(m + 1)
    BY <1>1, <1>3, <1>4
  <2> HIDE DEF q
  <2>2. g[Onward(s, q)] = f[(p - 1) + Onward(s, q)]
    BY <1>7, <1>10, <2>1
  <2>3. g[q] = <<CharFound(s, q)>> \o g[Onward(s, q)]
    BY <1>6, <2>1
  <2>4. f[(p - 1) + q] = <<CharFound(b, (p - 1) + q)>> \o f[Onward(b, (p - 1) + q)]
    BY <1>5, <2>1
  <2>5. g[q] = f[(p - 1) + q]
    BY <1>8, <2>1, <2>2, <2>3, <2>4
  <2>6. \A i \in q..(m + 1) : g[i] = f[(p - 1) + i]
    BY <1>10, <2>1, <2>5
  <2> QED BY <2>1, <2>6 DEF q
<1>11. m \in S
  <2>1. m \in 0..m
    BY <1>4
  <2> HIDE DEF S
  <2> QED BY <1>4, <1>9, <1>10, <2>1, LengthsUpto
<1>12. g[1] = f[p]
  <2>1. 1 \in ((m + 1) - m)..(m + 1) /\ (p - 1) + 1 = p
    BY <1>3, <1>4
  <2> QED BY <1>11, <2>1
<1>13. f[1] = <<CharFound(b, 1)>> \o f[p]
  <2>1. 1 \in 1..(n + 1) /\ ~(1 > n)
    BY <1>1
  <2> QED BY <1>5, <2>1 DEF p
<1> QED BY <1>3, <1>5, <1>6, <1>12, <1>13 DEF n, p, s

\* The two parts of a concatenation.
LEMMA ConcatParts ==
  ASSUME NEW u \in Seq(Nat), NEW v \in Seq(Nat), NEW l \in Nat, l = Len(u)
  PROVE  /\ \A i \in 1..l : SubSeq(u \o v, 1, i) = SubSeq(u, 1, i)
         /\ SubSeq(u \o v, l + 1, Len(u \o v)) = v
<1>1. /\ u \o v \in Seq(Nat) /\ Len(u \o v) = l + Len(v) /\ Len(v) \in Nat
      /\ \A i \in 1..l : (u \o v)[i] = u[i]
      /\ \A i \in 1..Len(v) : (u \o v)[l + i] = v[i]
  <2>1. /\ u \o v \in Seq(Nat) /\ Len(u \o v) = Len(u) + Len(v) /\ Len(v) \in Nat
        /\ \A i \in 1..(Len(u) + Len(v)) :
             (u \o v)[i] = IF i <= Len(u) THEN u[i] ELSE v[i - Len(u)]
    BY ConcatProperties, LenProperties
  <2>2. \A i \in 1..l : (u \o v)[i] = u[i]
    BY <2>1
  <2>3. ASSUME NEW i \in 1..Len(v) PROVE (u \o v)[l + i] = v[i]
    <3>1. l + i \in 1..(Len(u) + Len(v)) /\ ~(l + i <= Len(u)) /\ (l + i) - Len(u) = i
      BY <2>1
    <3> QED BY <2>1, <3>1
  <2> QED BY <2>1, <2>2, <2>3
<1> DEFINE w == u \o v
<1> HIDE DEF w
<1>2. ASSUME NEW i \in 1..l PROVE SubSeq(w, 1, i) = SubSeq(u, 1, i)
  <2>1. /\ \A j \in 1..i : w[j] \in Nat /\ u[j] \in Nat /\ w[j] = u[j]
    BY <1>1, ElementOfSeq DEF w
  <2>2. /\ SubSeq(w, 1, i) \in Seq(Nat) /\ Len(SubSeq(w, 1, i)) = i
        /\ \A j \in 1..i : SubSeq(w, 1, i)[j] = w[j]
    BY <2>1, SubSeqProperties
  <2>3. /\ SubSeq(u, 1, i) \in Seq(Nat) /\ Len(SubSeq(u, 1, i)) = i
        /\ \A j \in 1..i : SubSeq(u, 1, i)[j] = u[j]
    BY <2>1, SubSeqProperties
  <2> QED BY <2>1, <2>2, <2>3, SeqEqual
<1>3. SubSeq(w, l + 1, Len(w)) = v
  <2> DEFINE s == SubSeq(w, l + 1, Len(w))
  <2>1. w \in Seq(Nat) /\ l + 1 \in 1..(Len(w) + 1)
    BY <1>1 DEF w
  <2>2. /\ s \in Seq(Nat) /\ Len(s) = (Len(w) + 1) - (l + 1)
        /\ \A i \in 1..Len(s) : s[i] = w[((l + 1) - 1) + i]
    BY <2>1, SuffixFacts
  <2> HIDE DEF s
  <2>3. Len(s) = Len(v)
    BY <1>1, <2>2 DEF w
  <2>4. ASSUME NEW i \in 1..Len(s) PROVE s[i] = v[i]
    <3>1. ((l + 1) - 1) + i = l + i /\ i \in 1..Len(v)
      BY <1>1, <2>3
    <3>2. s[i] = w[l + i]
      BY <2>2, <3>1
    <3> QED BY <1>1, <3>1, <3>2 DEF w
  <2> QED BY <2>2, <2>3, <2>4, SeqEqual DEF s
<1> QED BY <1>2, <1>3 DEF w

LEMMA EncodeNat ==
  ASSUME NEW c \in Char
  PROVE  encode_utf8[c] \in Seq(Nat) /\ Len(encode_utf8[c]) \in 1..2
<1>1. Utf8Byte \subseteq Nat
  BY DEF Utf8Byte
<1> QED BY <1>1, EncodeUtf8, SeqMonotonic

\* No two characters start with the same byte.
LEMMA FirstByte ==
  ASSUME NEW c \in Char, NEW d \in Char, encode_utf8[c][1] = encode_utf8[d][1]
  PROVE  c = d
<1>1. Char = {"letter", "nl", "mark", "dash", "fffd"}
  BY DEF Char, encode_utf8
<1>2. DASH_UTF8[1] = 4
  BY DashAssumption
<1>3. /\ encode_utf8["letter"][1] = 1 /\ encode_utf8["nl"][1] = 2
      /\ encode_utf8["mark"][1] = 3 /\ encode_utf8["dash"][1] = 4
      /\ encode_utf8["fffd"][1] = 6
  BY <1>2 DEF encode_utf8
<1> QED BY <1>1, <1>3

(* A character that was written is read again, whatever follows it.        *)
LEMMA LossyChar ==
  ASSUME NEW c \in Char, NEW b \in Seq(Nat)
  PROVE  from_utf8_lossy(encode_utf8[c] \o b) = <<c>> \o from_utf8_lossy(b)
<1> DEFINE u == encode_utf8[c]
           w == u \o b
<1>1. u \in Seq(Nat) /\ Len(u) \in 1..2
  BY EncodeNat
<1>2. PICK l \in 1..2 : l = Len(u)
  BY <1>1
<1> HIDE DEF u
<1>3. /\ w \in Seq(Nat) /\ Len(w) = l + Len(b) /\ Len(b) \in Nat
      /\ w # <<>>
  <2>1. w \in Seq(Nat) /\ Len(w) = l + Len(b) /\ Len(b) \in Nat
    BY <1>1, <1>2, ConcatProperties, LenProperties
  <2> QED BY <2>1, EmptySeq
<1>4. \A i \in 1..l : SubSeq(w, 1, i) = SubSeq(u, 1, i)
  BY <1>1, <1>2, ConcatParts
<1>5. SubSeq(w, l + 1, Len(w)) = b
  BY <1>1, <1>2, ConcatParts
<1> HIDE DEF w
<1>6. CharsAt(w, 1) = {c}
  <2>1. c \in CharsAt(w, 1)
    <3>1. SubSeq(w, 1, l) = u
      BY <1>1, <1>2, <1>4, SubSeqFull
    <3>2. (1 + l) - 1 = l /\ l <= Len(w) /\ 1 \in Int
      BY <1>3
    <3>3. (1 + l) - 1 <= Len(w) /\ SubSeq(w, 1, (1 + l) - 1) = encode_utf8[c]
      BY <3>1, <3>2 DEF u
    <3>4. l = Len(encode_utf8[c])
      BY <1>2 DEF u
    <3> QED BY <1>3, <3>2, <3>3, <3>4, CharsAtDef, Zenon
  <2>2. ASSUME NEW d \in CharsAt(w, 1) PROVE d = c
    <3>1. d \in Char
      BY DEF CharsAt
    <3>2. PICK k \in 1..2 : k = Len(encode_utf8[d])
      BY <3>1, EncodeNat
    <3>3. (1 + k) - 1 = k /\ k <= Len(w) /\ SubSeq(w, 1, k) = encode_utf8[d]
      <4>1. (1 + k) - 1 = k /\ 1 \in Int
        OBVIOUS
      <4>2. (1 + k) - 1 <= Len(w) /\ SubSeq(w, 1, (1 + k) - 1) = encode_utf8[d]
        BY <1>3, <2>2, <3>1, <3>2, <4>1, CharsAtDef, Zenon
      <4> QED BY <4>1, <4>2
    <3>4. SubSeq(w, 1, k)[1] = w[1] /\ SubSeq(w, 1, l)[1] = w[1]
      <4>1. \A j \in 1..Len(w) : w[j] \in Nat
        BY <1>3, ElementOfSeq
      <4>2. l <= Len(w)
        BY <1>3
      <4>3. ASSUME NEW j \in 1..2, j <= Len(w) PROVE SubSeq(w, 1, j)[1] = w[1]
        <5>1. \A i \in 1..j : w[i] \in Nat
          BY <1>3, <4>1, <4>3
        <5> QED BY <5>1, SubSeqProperties
      <4> QED BY <3>3, <4>2, <4>3
    <3>5. SubSeq(w, 1, l) = u
      BY <1>1, <1>2, <1>4, SubSeqFull
    <3>6. encode_utf8[d][1] = encode_utf8[c][1]
      BY <3>3, <3>4, <3>5 DEF u
    <3> QED BY <3>1, <3>6, FirstByte
  <2> QED BY <2>1, <2>2
<1>7. CharFound(w, 1) = c /\ Onward(w, 1) = 1 + l
  <2>1. (CHOOSE d \in CharsAt(w, 1) : TRUE) = c
    BY <1>6
  <2> QED BY <1>2, <1>6, <2>1 DEF CharFound, Onward, u
<1>8. from_utf8_lossy(w) = <<c>> \o from_utf8_lossy(SubSeq(w, 1 + l, Len(w)))
  BY <1>3, <1>7, LossyStep
<1>9. 1 + l = l + 1
  OBVIOUS
<1> QED BY <1>5, <1>8, <1>9 DEF w, u

LEMMA BytesOne ==
  ASSUME NEW c \in Char
  PROVE  as_bytes(<<c>>) = encode_utf8[c]
<1>1. <<>> \in Seq(Char) /\ Append(<<>>, c) = <<c>>
  OBVIOUS
<1>2. as_bytes(<<c>>) = <<>> \o encode_utf8[c]
  <2>1. as_bytes(Append(<<>>, c)) = as_bytes(<<>>) \o encode_utf8[c]
    BY <1>1, BytesAppend
  <2> QED BY <1>1, <2>1, BytesEmpty
<1> QED BY <1>2, EncodeNat, ConcatEmptySeq

\* A sequence is its first element and the others.
LEMMA Uncons ==
  ASSUME NEW A, NEW s \in Seq(A), s # <<>>
  PROVE  \E e \in A, t \in Seq(A) : s = <<e>> \o t /\ Len(t) + 1 = Len(s)
<1>1. Head(s) \in A /\ Tail(s) \in Seq(A) /\ Len(Tail(s)) = Len(s) - 1
  BY HeadTailProperties
<1>2. Len(s) \in Nat /\ Len(s) # 0
  BY EmptySeq, LenProperties
<1>3. s = <<Head(s)>> \o Tail(s)
  BY <1>2
<1>4. Len(Tail(s)) + 1 = Len(s)
  BY <1>1, <1>2
<1> QED BY <1>1, <1>3, <1>4

(* What was written is read again: as_bytes followed by from_utf8_lossy    *)
(* gives every text back, also where a character is longer than a byte.    *)
THEOREM LossyRoundTrip ==
  ASSUME NEW s \in Seq(Char)
  PROVE  from_utf8_lossy(as_bytes(s)) = s
<1> DEFINE S == {n \in Nat : \A t \in Seq(Char) : Len(t) = n => from_utf8_lossy(as_bytes(t)) = t}
<1>1. 0 \in S
  BY EmptySeq, BytesEmpty, LossyEmpty
<1>2. ASSUME NEW n \in Nat, n \in S PROVE n + 1 \in S
  <2> SUFFICES ASSUME NEW t \in Seq(Char), Len(t) = n + 1
               PROVE  from_utf8_lossy(as_bytes(t)) = t
    OBVIOUS
  <2>1. t # <<>>
    BY EmptySeq
  <2>2. PICK c \in Char, r \in Seq(Char) : t = <<c>> \o r /\ Len(r) + 1 = Len(t)
    BY <2>1, Uncons
  <2>3. Len(r) = n
    BY <2>2, LenProperties
  <2>4. from_utf8_lossy(as_bytes(r)) = r
    BY <1>2, <2>3
  <2>5. as_bytes(t) = encode_utf8[c] \o as_bytes(r)
    <3>1. \A x \in Char : <<x>> \in Seq(Char)
      OBVIOUS
    <3>2. <<c>> \in Seq(Char)
      BY <3>1, Zenon
    <3> QED BY <2>2, <3>2, BytesConcat, BytesOne
  <2>6. as_bytes(r) \in Seq(Nat)
    <3>1. Utf8Byte \subseteq Nat
      BY DEF Utf8Byte
    <3> QED BY <3>1, BytesType, SeqMonotonic
  <2> QED BY <2>2, <2>4, <2>5, <2>6, LossyChar
<1>3. Nat \subseteq S
  <2> HIDE DEF S
  <2> QED BY <1>1, <1>2, Lengths
<1> QED BY <1>3, LenProperties

-----------------------------------------------------------------------------
(***************************************************************************)
(* Where a text may be decoded in parts: between bytes that are not the    *)
(* two halves of a dash.                                                   *)
(***************************************************************************)
WholeAt(a, b) ==
  DASH_UTF8 = <<4>> \/ a = <<>> \/ b = <<>> \/ a[Len(a)] # 4 \/ b[1] # 5

LEMMA FoundSame ==
  ASSUME NEW s, NEW t, NEW i, NEW j, CharsAt(s, i) = CharsAt(t, j)
  PROVE  CharFound(s, i) = CharFound(t, j)
BY DEF CharFound

LEMMA OnwardSame ==
  ASSUME NEW s, NEW t, NEW i, CharsAt(s, i) = CharsAt(t, i)
  PROVE  Onward(s, i) = Onward(t, i)
BY DEF Onward

LEMMA AssociativeNat ==
  ASSUME NEW p \in Seq(Nat), NEW q \in Seq(Nat), NEW s \in Seq(Nat)
  PROVE  (p \o q) \o s = p \o (q \o s)
<1>1. \E A : A = Nat
  OBVIOUS
<1>2. PICK A : A = Nat
  BY <1>1
<1>3. p \in Seq(A) /\ q \in Seq(A) /\ s \in Seq(A)
  BY <1>2, Zenon
<1> QED BY ONLY <1>3, Associative


\* Behind the first part of a concatenation a suffix of it is left.
LEMMA SuffixConcat ==
  ASSUME NEW u \in Seq(Nat), NEW v \in Seq(Nat), NEW p \in 1..(Len(u) + 1)
  PROVE  SubSeq(u \o v, p, Len(u \o v)) = SubSeq(u, p, Len(u)) \o v
<1> DEFINE w == u \o v
           r == SubSeq(u, p, Len(u))
           s == SubSeq(w, p, Len(w))
           x == r \o v
<1>1. Len(u) \in Nat /\ Len(v) \in Nat /\ p \in Nat
  BY LenProperties
<1>2. /\ w \in Seq(Nat) /\ Len(w) = Len(u) + Len(v)
      /\ \A i \in 1..(Len(u) + Len(v)) : w[i] = IF i <= Len(u) THEN u[i] ELSE v[i - Len(u)]
  BY ConcatProperties
<1>3. /\ r \in Seq(Nat) /\ Len(r) = (Len(u) + 1) - p
      /\ \A i \in 1..Len(r) : r[i] = u[(p - 1) + i]
  BY SuffixFacts
<1> HIDE DEF w, r
<1>4. p \in 1..(Len(w) + 1)
  BY <1>1, <1>2
<1>5. /\ s \in Seq(Nat) /\ Len(s) = (Len(w) + 1) - p
      /\ \A i \in 1..Len(s) : s[i] = w[(p - 1) + i]
  BY <1>2, <1>4, SuffixFacts
<1>6. /\ x \in Seq(Nat) /\ Len(x) = Len(r) + Len(v)
      /\ \A i \in 1..(Len(r) + Len(v)) : x[i] = IF i <= Len(r) THEN r[i] ELSE v[i - Len(r)]
  BY <1>3, ConcatProperties
<1> HIDE DEF s, x
<1>7. Len(s) = Len(x)
  BY <1>1, <1>2, <1>3, <1>5, <1>6
<1>8. ASSUME NEW i \in 1..Len(s) PROVE s[i] = x[i]
  <2>1. /\ (p - 1) + i \in 1..(Len(u) + Len(v)) /\ i \in 1..(Len(r) + Len(v))
        /\ (p - 1) + i <= Len(u) <=> i <= Len(r)
        /\ ((p - 1) + i) - Len(u) = i - Len(r)
        /\ i <= Len(r) => i \in 1..Len(r)
    BY <1>1, <1>2, <1>3, <1>5
  <2>2. s[i] = w[(p - 1) + i]
    BY <1>5
  <2>3. CASE i <= Len(r)
    BY <1>2, <1>3, <1>6, <2>1, <2>2, <2>3
  <2>4. CASE ~(i <= Len(r))
    BY <1>2, <1>6, <2>1, <2>2, <2>4
  <2> QED BY <2>3, <2>4
<1>9. s = x
  BY <1>5, <1>6, <1>7, <1>8, SeqEqual
<1> QED BY <1>9 DEF s, x, w, r

\* A character that needs two bytes is a dash, and its second byte is 5.
LEMMA TwoBytes ==
  ASSUME NEW c \in Char, Len(encode_utf8[c]) = 2
  PROVE  encode_utf8[c] = <<4, 5>>
<1>1. Char = {"letter", "nl", "mark", "dash", "fffd"}
  BY DEF Char, encode_utf8
<1>2. /\ encode_utf8["letter"] = <<1>> /\ encode_utf8["nl"] = <<2>>
      /\ encode_utf8["mark"] = <<3>> /\ encode_utf8["dash"] = DASH_UTF8
      /\ encode_utf8["fffd"] = <<6>>
  BY DEF encode_utf8
<1>3. \A x \in Nat : Len(<<x>>) # 2
  OBVIOUS
<1> QED BY <1>1, <1>2, <1>3, DashAssumption

\* What is found first does not depend on what follows.
LEMMA CharsAtFirst ==
  ASSUME NEW t \in Seq(Nat), t # <<>>, NEW b \in Seq(Nat), WholeAt(t, b)
  PROVE  CharsAt(t \o b, 1) = CharsAt(t, 1)
<1> DEFINE w == t \o b
<1>1. Len(t) \in Nat /\ Len(t) >= 1 /\ Len(b) \in Nat
  BY EmptySeq, LenProperties
<1>2. /\ w \in Seq(Nat) /\ Len(w) = Len(t) + Len(b)
      /\ \A i \in 1..(Len(t) + Len(b)) : w[i] = IF i <= Len(t) THEN t[i] ELSE b[i - Len(t)]
  BY ConcatProperties
<1>3. \A i \in 1..Len(t) : SubSeq(w, 1, i) = SubSeq(t, 1, i)
  BY <1>1, ConcatParts
<1> HIDE DEF w
<1> SUFFICES ASSUME NEW c \in Char PROVE c \in CharsAt(w, 1) <=> c \in CharsAt(t, 1)
  BY DEF CharsAt, w
<1>4. PICK l \in 1..2 : l = Len(encode_utf8[c])
  BY EncodeNat
<1>5. (1 + l) - 1 = l /\ 1 \in Int
  OBVIOUS
<1>6. c \in CharsAt(w, 1) <=> (1 + l) - 1 <= Len(w) /\ SubSeq(w, 1, (1 + l) - 1) = encode_utf8[c]
  BY <1>4 DEF CharsAt
<1>7. c \in CharsAt(t, 1) <=> (1 + l) - 1 <= Len(t) /\ SubSeq(t, 1, (1 + l) - 1) = encode_utf8[c]
  BY <1>4 DEF CharsAt
<1>8. CASE l <= Len(t)
  <2>1. l \in 1..Len(t) /\ l <= Len(w)
    BY <1>1, <1>2, <1>8
  <2> QED BY <1>3, <1>5, <1>6, <1>7, <1>8, <2>1
<1>9. CASE ~(l <= Len(t))
  <2>1. l = 2 /\ Len(t) = 1
    <3>1. \A x \in 1..2 : \A y \in Nat : y >= 1 /\ ~(x <= y) => x = 2 /\ y = 1
      OBVIOUS
    <3> QED BY <1>1, <1>9, <3>1
  <2>2. encode_utf8[c] = <<4, 5>>
    BY <1>4, <2>1, TwoBytes
  <2>3. DASH_UTF8 # <<4>>
    <3>1. c = "dash"
      <4>1. encode_utf8["dash"][1] = 4
        BY DashAssumption DEF encode_utf8
      <4>2. encode_utf8[c][1] = 4 /\ "dash" \in Char
        BY <2>2 DEF Char, encode_utf8
      <4> QED BY <4>1, <4>2, FirstByte
    <3> QED BY <2>2, <3>1 DEF encode_utf8
  <2>4. ASSUME 2 <= Len(w), SubSeq(w, 1, 2) = <<4, 5>> PROVE FALSE
    <3>1. \A i \in 1..2 : w[i] \in Nat
      BY <1>2, <2>4, ElementOfSeq
    <3>2. SubSeq(w, 1, 2)[1] = w[1] /\ SubSeq(w, 1, 2)[2] = w[2]
      BY <3>1, SubSeqProperties
    <3>3. w[1] = t[Len(t)] /\ w[2] = b[1] /\ b # <<>>
      BY <1>1, <1>2, <2>1, <2>4, EmptySeq
    <3>4. w[1] = 4 /\ w[2] = 5
      <4>1. <<4, 5>>[1] = 4 /\ <<4, 5>>[2] = 5
        OBVIOUS
      <4> QED BY <2>4, <3>2, <4>1
    <3> QED BY <2>3, <3>3, <3>4 DEF WholeAt
  <2> QED BY <1>6, <1>7, <1>9, <2>1, <2>2, <2>4
<1> QED BY <1>8, <1>9

(* A text may be decoded in two parts wherever they do not meet in the     *)
(* middle of a character.                                                  *)
THEOREM LossySplice ==
  ASSUME NEW a \in Seq(Nat), NEW b \in Seq(Nat), WholeAt(a, b)
  PROVE  from_utf8_lossy(a \o b) = from_utf8_lossy(a) \o from_utf8_lossy(b)
<1> DEFINE S == {n \in Nat : \A t \in Seq(Nat) : Len(t) <= n /\ WholeAt(t, b) =>
                   from_utf8_lossy(t \o b) = from_utf8_lossy(t) \o from_utf8_lossy(b)}
<1>0. \A t \in Seq(Nat) : from_utf8_lossy(t) \in Seq(Char)
  BY LossyType, LenProperties
<1>1. from_utf8_lossy(<<>> \o b) = from_utf8_lossy(<<>>) \o from_utf8_lossy(b)
  BY <1>0, LossyEmpty, ConcatEmptySeq
<1>2. 0 \in S
  <2>1. \A t \in Seq(Nat) : Len(t) <= 0 => t = <<>>
    BY EmptySeq, LenProperties
  <2> QED BY <1>1, <2>1
<1>3. ASSUME NEW n \in Nat, n \in S PROVE n + 1 \in S
  <2>1. ASSUME NEW t \in Seq(Nat), Len(t) <= n + 1, WholeAt(t, b), t # <<>>
        PROVE  from_utf8_lossy(t \o b) = from_utf8_lossy(t) \o from_utf8_lossy(b)
    <3> DEFINE w == t \o b
               p == Onward(t, 1)
               r == SubSeq(t, p, Len(t))
    <3>1. w \in Seq(Nat) /\ w # <<>>
      <4>1. w \in Seq(Nat) /\ Len(w) = Len(t) + Len(b) /\ Len(b) \in Nat /\ Len(t) \in Nat
        BY ConcatProperties, LenProperties
      <4>2. Len(t) # 0
        BY <2>1, EmptySeq
      <4> QED BY <4>1, <4>2, EmptySeq
    <3>2. CharsAt(w, 1) = CharsAt(t, 1)
      BY <2>1, CharsAtFirst
    <3>3. CharFound(w, 1) = CharFound(t, 1) /\ Onward(w, 1) = p
      BY <3>2, FoundSame, OnwardSame
    <3>4. /\ p \in 2..(Len(t) + 1)
          /\ from_utf8_lossy(t) = <<CharFound(t, 1)>> \o from_utf8_lossy(r)
      BY <2>1, LossyStep
    <3>5. from_utf8_lossy(w) = <<CharFound(t, 1)>> \o from_utf8_lossy(SubSeq(w, p, Len(w)))
      BY <3>1, <3>3, LossyStep
    <3> HIDE DEF p
    <3>6. p \in 1..(Len(t) + 1) /\ Len(t) \in Nat
      BY <3>4, LenProperties
    <3>7. /\ r \in Seq(Nat) /\ Len(r) = (Len(t) + 1) - p
          /\ \A i \in 1..Len(r) : r[i] = t[(p - 1) + i]
      BY <3>6, SuffixFacts
    <3>8. SubSeq(w, p, Len(w)) = r \o b
      BY <3>6, SuffixConcat
    <3> HIDE DEF r, w
    <3>9. from_utf8_lossy(r \o b) = from_utf8_lossy(r) \o from_utf8_lossy(b)
      <4>1. Len(r) <= n
        BY <2>1, <3>4, <3>6, <3>7
      <4>2. ASSUME r # <<>> PROVE r[Len(r)] = t[Len(t)]
        <5>1. Len(r) # 0 /\ Len(r) \in Nat
          BY <3>7, <4>2, EmptySeq, LenProperties
        <5>2. Len(r) \in 1..Len(r) /\ (p - 1) + Len(r) = Len(t)
          BY <3>6, <3>7, <5>1
        <5> QED BY <3>7, <5>2
      <4>3. WholeAt(r, b)
        BY <2>1, <4>2 DEF WholeAt
      <4> QED BY <1>3, <3>7, <4>1, <4>3
    <3>10. <<CharFound(t, 1)>> \in Seq(Char)
      <4>1. CharFound(t, 1) \in Char
        <5>1. 1 \in 1..Len(t) /\ Len(t) \in Nat
          BY <2>1, <3>6, EmptySeq
        <5> QED BY <5>1, FoundFacts
      <4>2. \A c \in Char : <<c>> \in Seq(Char)
        OBVIOUS
      <4> QED BY <4>1, <4>2, Zenon
    <3>11. (<<CharFound(t, 1)>> \o from_utf8_lossy(r)) \o from_utf8_lossy(b)
             = <<CharFound(t, 1)>> \o (from_utf8_lossy(r) \o from_utf8_lossy(b))
      BY <1>0, <3>7, <3>10, AssociativeChar, Zenon
    <3> QED BY <3>4, <3>5, <3>8, <3>9, <3>11 DEF w
  <2>2. \A t \in Seq(Nat) : Len(t) <= n + 1 /\ WholeAt(t, b) =>
          from_utf8_lossy(t \o b) = from_utf8_lossy(t) \o from_utf8_lossy(b)
    BY <1>1, <2>1
  <2> QED BY <2>2
<1>4. Nat \subseteq S
  <2> HIDE DEF S
  <2> QED BY <1>2, <1>3, Lengths
<1> QED BY <1>4, LenProperties

\* A text never begins in the middle of a character.
LEMMA TextIsWhole ==
  ASSUME NEW s \in Seq(Char)
  PROVE  as_bytes(s) \in Seq(Nat) /\ \A a : WholeAt(a, as_bytes(s))
<1>1. \A t \in Seq(Char) : as_bytes(t) \in Seq(Nat)
  <2>1. Utf8Byte \subseteq Nat
    BY DEF Utf8Byte
  <2> QED BY <2>1, BytesType, SeqMonotonic
<1>2. CASE s = <<>>
  BY <1>1, <1>2, BytesEmpty DEF WholeAt
<1>3. CASE s # <<>>
  <2>1. PICK c \in Char, r \in Seq(Char) : s = <<c>> \o r
    BY <1>3, Uncons
  <2>2. as_bytes(s) = encode_utf8[c] \o as_bytes(r)
    <3>1. \A x \in Char : <<x>> \in Seq(Char)
      OBVIOUS
    <3>2. <<c>> \in Seq(Char)
      BY <3>1, Zenon
    <3> QED BY <2>1, <3>2, BytesConcat, BytesOne
  <2>3. encode_utf8[c][1] # 5
    <3>1. Char = {"letter", "nl", "mark", "dash", "fffd"}
      BY DEF Char, encode_utf8
    <3>2. DASH_UTF8[1] = 4
      BY DashAssumption
    <3> QED BY <3>1, <3>2 DEF encode_utf8
  <2>4. (encode_utf8[c] \o as_bytes(r))[1] = encode_utf8[c][1]
    <3> DEFINE u == encode_utf8[c]
               v == as_bytes(r)
    <3>1. u \in Seq(Nat) /\ Len(u) \in 1..2 /\ v \in Seq(Nat) /\ Len(v) \in Nat
      BY <1>1, EncodeNat, LenProperties
    <3> HIDE DEF u, v
    <3>2. 1 \in 1..(Len(u) + Len(v)) /\ 1 <= Len(u)
      <4>1. \A x \in 1..2 : \A y \in Nat : 1 \in 1..(x + y) /\ 1 <= x
        OBVIOUS
      <4> QED BY <3>1, <4>1
    <3>3. (u \o v)[1] = u[1]
      BY <3>1, <3>2, ConcatProperties
    <3> QED BY <3>3 DEF u, v
  <2> QED BY <1>1, <2>2, <2>3, <2>4 DEF WholeAt
<1> QED BY <1>2, <1>3

(* Appending a text in RAM and appending its bytes on disk are the same,   *)
(* whatever bytes lie before it.                                           *)
LEMMA LossyAppend ==
  ASSUME NEW a \in Seq(Nat), NEW s \in Seq(Char)
  PROVE  from_utf8_lossy(a \o as_bytes(s)) = from_utf8_lossy(a) \o s
<1>1. as_bytes(s) \in Seq(Nat) /\ WholeAt(a, as_bytes(s))
  BY TextIsWhole
<1>2. from_utf8_lossy(a \o as_bytes(s)) = from_utf8_lossy(a) \o from_utf8_lossy(as_bytes(s))
  BY <1>1, LossySplice
<1> QED BY <1>2, LossyRoundTrip
=============================================================================
