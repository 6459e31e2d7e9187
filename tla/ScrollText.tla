----------------------------- MODULE ScrollText -----------------------------
(***************************************************************************)
(* The scroll as the writer sees it: the text kernel/src/scroll.rs keeps   *)
(* in RAM on top of the disk of ScrollLog.  At boot only the last sectors  *)
(* are decoded, kernel_main stamps a dated separator, and from then on     *)
(* keystrokes are appended while pump streams the older history in and     *)
(* splices it before the live text.                                        *)
(***************************************************************************)
EXTENDS ScrollLog, Utf8, SequencesExt

CONSTANTS
  CHUNK,  \* sectors pump reads at a time (256)
  Typed   \* the characters a keystroke can ink

ASSUME ChunkAssumption == CHUNK \in Nat \ {0}
ASSUME TypedAssumption == Typed \subseteq {"letter", "nl"} /\ Utf8Byte \subseteq Byte

VARIABLES
  text,          \* Scroll::text
  pending,       \* the Loader; None once the history is in RAM
  stamped,       \* kernel_main is past the boot separator
  refused,       \* the drive shows an error: wait_not_busy lets no command pass
  first_loaded   \* history variable: where load began to decode

session  == <<text, pending, stamped, refused, first_loaded>>
textVars == <<vars, session>>

None == [prefix |-> <<>>, cursor |-> 0, end |-> 0]

fully_loaded == pending = None

\* A sector pump cannot decode makes the prefix grow for ever; the model
\* stops it here.
PREFIX_BOUND == 2 * TOTAL_SECTORS * PAYLOAD_CAPACITY

TextTypeOK ==
  /\ text \in Seq(Char)
  /\ pending.prefix \in Seq(Byte)
  /\ pending.cursor \in 0..pending.end
  /\ pending.end \in 0..TOTAL_SECTORS
  /\ {stamped, refused} \subseteq BOOLEAN
  /\ first_loaded \in 0..TOTAL_SECTORS

\* The last sector of a range is left out.
MutPayloads(first, end) ==
  LET upto[n \in first..end] ==
        IF n = first \/ n = end THEN <<>> ELSE upto[n - 1] \o payload(disk[n - 1])
  IN  IF first = end THEN <<>> ELSE upto[end - 1]

\* The payloads of the sectors [first, end), concatenated.
Payloads(first, end) ==
  LET upto[n \in first..end] ==
        IF n = first THEN <<>> ELSE upto[n - 1] \o payload(disk[n - 1])
  IN  upto[end]

TextInit ==
  /\ Init
  /\ text = <<>>
  /\ pending = None
  /\ stamped = FALSE
  /\ refused = FALSE
  /\ first_loaded = 0

-----------------------------------------------------------------------------
\* The loader starts at the second sector.
MutRestoreSkips ==
  /\ Load
  /\ pc' = "idle"
  /\ text' = from_utf8_lossy(Payloads(FirstLoaded(lo), lo))
  /\ pending' = IF FirstLoaded(lo) = 0 THEN None
                ELSE [None EXCEPT !.cursor = 1, !.end = FirstLoaded(lo)]
  /\ first_loaded' = FirstLoaded(lo)
  /\ UNCHANGED <<stamped, refused>>

\* The end of Scroll::load: decode the sectors read so far, owe the others.
Restore ==
  /\ Load
  /\ \/ /\ pc' = "panic"
        /\ UNCHANGED <<text, pending, first_loaded>>
     \/ /\ pc' = "idle"
        /\ text' = from_utf8_lossy(Payloads(FirstLoaded(lo), lo))
        /\ pending' = [None EXCEPT !.end = FirstLoaded(lo)]
        /\ first_loaded' = FirstLoaded(lo)
  /\ UNCHANGED <<stamped, refused>>

\* append_char and append_str: RAM first, then ink.
append_str(s) ==
  /\ AppendRaw(as_bytes(s))
  /\ text' = text \o s

\* kernel_main stamps the scroll, unless the clock cannot be read.  On a full
\* scroll append_raw returns at once.
Stamp ==
  /\ pc = "idle"
  /\ ~stamped
  /\ stamped' = TRUE
  /\ \/ append_str(separator(text))
     \/ UNCHANGED <<vars, text>>
  /\ UNCHANGED <<pending, refused, first_loaded>>

\* A printable key or Enter.  A full scroll takes no more ink.
Keystroke(ch) ==
  /\ stamped
  /\ append_str(<<ch>>)
  /\ UNCHANGED <<pending, stamped, refused, first_loaded>>

\* A chunk that overlooks the last pending sector.
MutChunkSize == Min({pending.end - pending.cursor - 1, CHUNK})

ChunkSize == Min({pending.end - pending.cursor, CHUNK})

\* read_sectors returned a chunk.  A record that does not decode ends it after
\* the payloads before it were taken.
TakeChunk ==
  /\ ~refused
  /\ Len(pending.prefix) <= PREFIX_BOUND
  /\ LET next   == pending.cursor + ChunkSize
         broken == {lba \in pending.cursor..(next - 1) : ~decodes(disk[lba], lba)}
         taken(end) == pending.prefix \o Payloads(pending.cursor, end)
     IN  \/ /\ broken # {}
            /\ pending' = [pending EXCEPT !.prefix = taken(Min(broken))]
            /\ UNCHANGED text
         \/ /\ broken = {}
            /\ next < pending.end
            /\ pending' = [pending EXCEPT !.prefix = taken(next), !.cursor = next]
            /\ UNCHANGED text
         \/ /\ broken = {}
            /\ next = pending.end
            /\ text' = from_utf8_lossy(taken(next) \o as_bytes(text))
            /\ pending' = None
  /\ UNCHANGED refused

\* One chunk of history.  When read_sectors fails the main loop tries again on
\* its next pass (unwrap_or(false)): after a time-out for real, after an error
\* of the drive without a chance, because the error stays up.
pump ==
  /\ pc = "idle"
  /\ stamped
  /\ ~fully_loaded
  /\ \/ TakeChunk
     \/ refused' = TRUE /\ UNCHANGED <<text, pending>>
  /\ UNCHANGED <<vars, stamped, first_loaded>>

\* Steps on the disk that the text takes no part in.  A write that fails may
\* leave an error up in the drive, and then no later one succeeds or changes
\* the disk.
DiskStep ==
  /\ \/ /\ PowerOn \/ Probe \/ LoadError \/ Ink \/ WriteSkipped
        /\ UNCHANGED refused
     \/ /\ WriteOk
        /\ ~refused /\ UNCHANGED refused
     \/ /\ WriteErr
        /\ refused => disk' = disk
        /\ refused' \in {refused, TRUE}
  /\ UNCHANGED <<text, pending, stamped, first_loaded>>

Blackout ==
  /\ PowerLoss
  /\ text' = <<>>
  /\ pending' = None
  /\ stamped' = FALSE
  /\ refused' = FALSE
  /\ first_loaded' = 0

TextNext ==
  \/ DiskStep
  \/ Restore
  \/ Stamp
  \/ \E ch \in Typed : Keystroke(ch)
  \/ pump
  \/ Blackout

(***************************************************************************)
(* The kernel's own steps are never held up.  Every pass of the main loop  *)
(* pumps once, after the few keys the ring can hold, so typing does not    *)
(* keep pump away for ever.  Of the drive it is expected that it does not  *)
(* let every read time out while it shows no error; after an error nothing *)
(* is expected of it.                                                      *)
(***************************************************************************)
TextSpec ==
  /\ TextInit /\ [][TextNext]_textVars
  /\ WF_textVars(DiskStep /\ Kernel)
  /\ WF_textVars(Restore)
  /\ WF_textVars(Stamp)
  /\ SF_textVars(pump /\ TakeChunk)

-----------------------------------------------------------------------------
(***************************************************************************)
(* The two ways to get the scroll out.                                     *)
(***************************************************************************)

\* What scripts/extract.py joins: the payloads from sector first on, up to the
\* first sector that holds no record.
PayloadsFrom(first) ==
  LET from[lba \in 0..TOTAL_SECTORS] ==
        IF lba = TOTAL_SECTORS THEN <<>>
        ELSE IF ~decodes(disk[lba], lba) THEN <<>>
        ELSE payload(disk[lba]) \o from[lba + 1]
  IN  from[first]

payloads == PayloadsFrom(0)

\* What a loop that skips every x takes from the sequence s.
Without(s, x) ==
  LET upto[i \in 0..Len(s)] ==
        IF i = 0 THEN <<>>
        ELSE IF s[i] = x THEN upto[i - 1] ELSE Append(upto[i - 1], s[i])
  IN  upto[Len(s)]

\* main of extract.py: the marker's byte is replaced by nothing.
Extracted(bytes) == Without(bytes, encode_utf8["mark"][1])

\* Markers are printed, too.
MutF12 == text

\* What F12 prints.
F12 == Without(text, "mark")

-----------------------------------------------------------------------------
(***************************************************************************)
(* Properties                                                              *)
(***************************************************************************)

(* What the kernel found by binary search, decoded in two parts, spliced   *)
(* and appended to is the text extract.py reads off the disk front to      *)
(* back, whenever the kernel is idle, the history is loaded and neither    *)
(* the warning glyph nor the full scroll says otherwise.  Characters split *)
(* across sectors are whole: decoding happens "only after concatenating    *)
(* all of them" (scroll.rs:74).                                            *)
RamMatchesDisk ==
  pc = "idle" /\ fully_loaded /\ ~trouble /\ ~full => text = from_utf8_lossy(payloads)

\* No character begins in a and ends in b.
Apart(a, b) ==
  \A i \in 1..Len(a) : \A c \in CharsAt(a \o b, i) :
    i + Len(encode_utf8[c]) - 1 <= Len(a)

\* load did not begin in the middle of a character.
SeamIsWhole == Apart(Payloads(0, first_loaded), PayloadsFrom(first_loaded))

\* The part of the disk that the text is expected to show, when it is.
Loaded == PayloadsFrom(IF fully_loaded THEN 0 ELSE first_loaded)
Settled == pc = "idle" /\ ~trouble /\ ~full /\ (fully_loaded => SeamIsWhole)

(* The only way in which RAM and disk can differ at rest, short of trouble *)
(* and a full scroll: while the history is owed, the text is what the      *)
(* sectors from first_loaded on decode to, and after the splice what all   *)
(* of them do, unless a character lies across the place where load began   *)
(* to decode.  In between keys are typed, characters are split elsewhere,  *)
(* writes and reads fail, and the power.                                   *)
RamMatchesUnlessSplit == Settled => text = from_utf8_lossy(Loaded)

(* F12 prints the bytes extract.py writes, of the sectors that are loaded. *)
(* They strip the separator markers on different levels: F12 skips the     *)
(* characters of the text in RAM, extract.py the bytes read off the disk   *)
(* before anything is decoded ("same as extract.py", main.rs:120).  Bytes  *)
(* that are no text, such as half a character whose other half was lost,   *)
(* F12 cannot print as they are.                                           *)
DumpIsExtract ==
  Settled /\ as_bytes(from_utf8_lossy(Loaded)) = Loaded => as_bytes(F12) = Extracted(Loaded)

(* The loader's prefix is what scroll.rs:24 says it is: the payloads of    *)
(* the sectors [0, cursor), each once, while the tail sector is rewritten  *)
(* and writes fail.                                                        *)
PrefixMatchesCursor ==
  ~fully_loaded => pending.prefix = Payloads(0, pending.cursor)

(* Layout::append relies on the writer to start every separator on a line  *)
(* of its own ("the writer guarantees a preceding '\n'", layout.rs:47), on *)
(* the disk and in RAM, also when the tail behind a separator was lost or  *)
(* only the last sectors were loaded.                                      *)
StartsLine(s) == \A i \in 2..Len(s) : s[i] = "mark" => s[i - 1] = "nl"
MarkerStartsLine == StartsLine(text) /\ StartsLine(from_utf8_lossy(payloads))

(* The history is loaded in the end, however much is typed meanwhile,      *)
(* unless the power goes or the drive reports an error.  An error of one   *)
(* read or write is final: wait_not_busy fails on it before the command    *)
(* that would clear it.                                                    *)
HistoryLoads == ~fully_loaded ~> fully_loaded \/ refused
=============================================================================
