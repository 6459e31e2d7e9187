----------------------------- MODULE Typewriter -----------------------------
(***************************************************************************)
(* The main loop as the reader sees it (kernel/src/main.rs): keys that ink *)
(* or turn pages, the blinking cursor, history that arrives while someone  *)
(* reads, and the page that render draws from all of them.  The loop draws *)
(* only when it believes that something changed.                           *)
(*                                                                         *)
(* The disk is abstracted to what the screen depends on: the history that  *)
(* is still to be loaded, whether a write has failed for good, and how     *)
(* many bytes fit.  Text is appended and broken into lines as in Layout.   *)
(***************************************************************************)
EXTENDS Layout, SequencesExt

CONSTANTS
  rows,      \* lines that fit on the screen
  Typed,     \* the characters a keystroke can ink
  HISTORY,   \* bounds of the scroll found at boot: characters not loaded
  TAIL       \* and characters loaded

ASSUME RowsAssumption == rows \in Nat \ {0, 1}
ASSUME TypedAssumption == Typed \subseteq Char \ {"mark"}
ASSUME BoundsAssumption == HISTORY \in Nat /\ TAIL \in Nat

VARIABLES
  history,      \* what Scroll::pending still owes
  full,         \* Scroll::full
  trouble,      \* WRITE_TROUBLE
  view_offset,  \* lines between the page and the live end
  cursor_on,    \* phase of the blink
  dirty,        \* this pass has to draw
  at,           \* where the main loop is
  screen        \* what present last copied to the framebuffer

paper == <<text, layout, history, full, trouble>>
view  == <<view_offset, cursor_on>>
loop  == <<dirty, at>>
vars  == <<paper, view, loop, screen>>

fully_loaded == history = <<>>

saturating_sub(a, b) == Max({a - b, 0})

Lines == Len(layout.lines)

-----------------------------------------------------------------------------
(***************************************************************************)
(* render                                                                  *)
(***************************************************************************)

\* The lines [FirstLine, EndLine) are drawn, counted from 0.
EndLine == saturating_sub(Lines, view_offset)
MaxTextRows == IF full THEN saturating_sub(rows, 1) ELSE rows
FirstLine == saturating_sub(EndLine, MaxTextRows)

\* draw_char: the characters of a line; what is beyond the last column is not
\* drawn.
Glyphs(s, line) ==
  LET cells == SelectSeq([i \in 1..Len(s) |-> i], LAMBDA i : i \in Covered(s, line))
  IN  [col \in 1..Min({Len(cells), columns}) |-> s[cells[col]]]

\* draw_cursor: the cells it fills with ink.
CursorCells ==
  LET row == cursor(layout)[1] - FirstLine
      col == cursor(layout)[2]
  IN  IF /\ view_offset = 0
         /\ ~full
         /\ row \in 0..(rows - 1)
         /\ col < columns
         /\ cursor_on
        THEN {<<row, col>>} ELSE {}

render ==
  [page    |-> [row \in 1..(EndLine - FirstLine) |->
                  LET line == layout.lines[FirstLine + row]
                  IN  [dim |-> line.is_separator, ink |-> Glyphs(text, line)]],
   cursor  |-> CursorCells,
   message |-> full,
   warning |-> trouble]

-----------------------------------------------------------------------------
\* The writer puts a separator on a line of its own, and its marker first.
MarksLead(s) == \A i \in 2..Len(s) : s[i] = "mark" => s[i - 1] = "nl"

\* What a boot can find on the scroll: the typed characters and the separators
\* of earlier boots, whole or cut where a sector or a lost tail ends.
Found(n) == UNION {[1..k -> Typed \cup {"dash", "mark"}] : k \in 0..n}

\* kernel_main before the loop: the scroll is loaded, stamped if the clock can
\* be read and the scroll is not full, and drawn.
Init ==
  /\ history \in Found(HISTORY)
  /\ \E tail \in Found(TAIL) :
       /\ history # <<>> => tail # <<>>
       /\ MarksLead(history \o tail)
       /\ Len(as_bytes(history \o tail)) <= CAPACITY
       /\ \/ text = tail /\ trouble = FALSE
          \/ /\ Len(as_bytes(history \o tail)) < CAPACITY
             /\ text = tail \o separator(tail)
             /\ trouble \in BOOLEAN
  /\ layout = from_text(text)
  /\ full = (Len(as_bytes(history \o text)) >= CAPACITY)
  /\ view_offset = 0
  /\ cursor_on = TRUE
  /\ dirty = FALSE
  /\ at = "keys"
  /\ screen = render

-----------------------------------------------------------------------------
(***************************************************************************)
(* The keys that are in the ring.  F12 prints a dump to the serial port    *)
(* (F12 of ScrollText) and changes nothing here.                           *)
(***************************************************************************)

MaxOffset == saturating_sub(Lines, rows)

\* view_offset is set and the page drawn again if it changed.
Turn(new_offset) ==
  /\ view_offset' = new_offset
  /\ dirty' = (dirty \/ new_offset # view_offset)
  /\ UNCHANGED <<paper, cursor_on, at, screen>>

\* Nothing bounds the page.
MutPageUpUnbounded ==
  /\ at = "keys"
  /\ Turn(view_offset + saturating_sub(rows, 1))

\* A page is as high as the screen.
MutPageUpScreen ==
  /\ at = "keys"
  /\ Turn(Min({view_offset + rows, MaxOffset}))

PageUp ==
  /\ at = "keys"
  /\ Turn(Min({view_offset + saturating_sub(rows, 1), MaxOffset}))

PageDown ==
  /\ at = "keys"
  /\ Turn(saturating_sub(view_offset, saturating_sub(rows, 1)))

\* append_char.  The byte that fills the disk makes the scroll full; a write
\* may fail for good.  A full scroll takes no more ink.
append_char(ch) ==
  \/ /\ ~full
     /\ Push(ch)
     /\ full' = (Len(as_bytes(history \o text')) >= CAPACITY)
     /\ trouble' \in {trouble, TRUE}
     /\ UNCHANGED history
  \/ /\ full
     /\ UNCHANGED paper

\* A key that a full scroll refuses is no reason to draw.
MutInk(ch) ==
  /\ at = "keys"
  /\ view_offset' = 0
  /\ append_char(ch)
  /\ dirty' = (dirty \/ ~full)
  /\ UNCHANGED <<cursor_on, at, screen>>

\* A key that makes ink snaps back to the live end.
Ink(ch) ==
  /\ at = "keys"
  /\ view_offset' = 0
  /\ append_char(ch)
  /\ dirty' = TRUE
  /\ UNCHANGED <<cursor_on, at, screen>>

-----------------------------------------------------------------------------
(***************************************************************************)
(* The rest of a pass                                                      *)
(***************************************************************************)

\* The ring is empty; the cursor toggles if nine ticks have passed.
Blink ==
  /\ at = "keys"
  /\ at' = "show"
  /\ \/ UNCHANGED <<cursor_on, dirty>>
     \/ /\ cursor_on' = ~cursor_on
        /\ dirty' = (dirty \/ (view_offset = 0 /\ ~full))
  /\ UNCHANGED <<paper, view_offset, screen>>

Show ==
  /\ at = "show"
  /\ at' = "idle"
  /\ screen' = IF dirty THEN render ELSE screen
  /\ UNCHANGED <<paper, view, dirty>>

\* hlt until an interrupt, or pump.  pump takes another chunk, or fails, which
\* the loop ignores, or splices the history before the text and draws.
Idle ==
  /\ at = "idle"
  /\ at' = "keys"
  /\ dirty' = FALSE
  /\ UNCHANGED view
  /\ \/ UNCHANGED <<paper, screen>>
     \/ /\ ~fully_loaded
        /\ text' = history \o text
        /\ layout' = from_text(text')
        /\ history' = <<>>
        /\ UNCHANGED <<full, trouble>>
        /\ screen' = render'

Next ==
  \/ PageUp
  \/ PageDown
  \/ \E ch \in Typed : Ink(ch)
  \/ Blink
  \/ Show
  \/ Idle

Spec == Init /\ [][Next]_vars

-----------------------------------------------------------------------------
(***************************************************************************)
(* Properties                                                              *)
(***************************************************************************)
TypeOK ==
  /\ LayoutTypeOK
  /\ history \in Seq(Typed \cup {"dash", "mark"})
  /\ {full, trouble, cursor_on, dirty} \subseteq BOOLEAN
  /\ view_offset \in Nat
  /\ at \in {"keys", "show", "idle"}

(* Before the loop sleeps or reads on, the screen shows what render would  *)
(* draw now: text, page, cursor, warning and message.  The loop keeps no   *)
(* record of what is on the screen, it only collects reasons to draw, and  *)
(* leaves a blink out that it takes for invisible.                         *)
ScreenIsCurrent == at = "idle" => screen = render

(* The page never leaves the scroll: it starts at most MaxOffset lines     *)
(* before the end, also after lines were added, rewrapped by the arrival   *)
(* of the history, or the scroll became full.                              *)
ViewInRange == view_offset <= MaxOffset

(* Turning a page skips no line: the new page touches or overlaps the old  *)
(* one, on a full scroll, whose last row holds the message, too.           *)
PagesMeet == [][PageUp \/ PageDown => FirstLine <= EndLine' /\ FirstLine' <= EndLine]_vars
=============================================================================
