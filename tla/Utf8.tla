-------------------------------- MODULE Utf8 --------------------------------
(***************************************************************************)
(* The characters the typewriter meets and their bytes: what str's         *)
(* as_bytes and String::from_utf8_lossy do for them.  A letter, a newline  *)
(* and the separator marker 0x1E are single bytes.  The em-dash of a boot  *)
(* separator is longer than one byte, so a sector boundary can split it;   *)
(* two bytes are enough to show that.  DASH_UTF8 is a constant so that a   *)
(* scroll of single-byte characters can be examined too.  And the boot     *)
(* separator, which is made of them.                                       *)
(***************************************************************************)
EXTENDS Naturals, Sequences

CONSTANT DASH_UTF8

ASSUME DashAssumption == DASH_UTF8 \in {<<4>>, <<4, 5>>}

\* "fffd" is U+FFFD, which from_utf8_lossy puts for what it cannot decode.
encode_utf8 == [letter |-> <<1>>,
                nl     |-> <<2>>,
                mark   |-> <<3>>,
                dash   |-> DASH_UTF8,
                fffd   |-> <<6>>]

Char == DOMAIN encode_utf8

Utf8Byte == 1..6

as_bytes(s) ==
  LET upto[n \in 0..Len(s)] ==
        IF n = 0 THEN <<>> ELSE upto[n - 1] \o encode_utf8[s[n]]
  IN  upto[Len(s)]

\* The characters whose encoding starts at position i of bytes: one or none.
CharsAt(bytes, i) ==
  {c \in Char : LET last == i + Len(encode_utf8[c]) - 1
                IN  last <= Len(bytes) /\ SubSeq(bytes, i, last) = encode_utf8[c]}

from_utf8_lossy(bytes) ==
  LET from[i \in 1..(Len(bytes) + 1)] ==
        IF i > Len(bytes) THEN <<>>
        ELSE IF CharsAt(bytes, i) = {} THEN <<"fffd">> \o from[i + 1]
        ELSE LET c == CHOOSE c \in CharsAt(bytes, i) : TRUE
             IN  <<c>> \o from[i + Len(encode_utf8[c])]
  IN  from[1]

\* The line the last session left open is not closed first.
MutSeparator(s) ==
  (IF s # <<>> /\ s[Len(s)] = "nl" THEN <<"nl">> ELSE <<>>)
    \o <<"mark", "dash", "nl">>

\* What kernel_main stamps behind the text s: a blank line above the header,
\* but no blank space on a fresh scroll.
separator(s) ==
  (IF s = <<>> THEN <<>>
   ELSE IF s[Len(s)] = "nl" THEN <<"nl">>
   ELSE <<"nl", "nl">>) \o <<"mark", "dash", "nl">>
=============================================================================
