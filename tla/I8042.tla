------------------------------- MODULE I8042 --------------------------------
(***************************************************************************)
(* interrupts::init brings the interrupt controller and the keyboard up:   *)
(* the PIC first, then keyboard::init, which polls the i8042, then sti.    *)
(* After that the IRQ1 handler takes one byte per interrupt.               *)
(*                                                                         *)
(* The i8042, the keyboard and the PIC are external.  What is taken from   *)
(* the way the code drives them: bytes for the CPU wait in port 0x60 in    *)
(* the order they come, keys among them; a byte written to the controller  *)
(* occupies its input buffer until it is processed, and another one put on *)
(* top of it is all that is left; the PIC is edge triggered, so IRQ1 is    *)
(* latched when a byte moves up to port 0x60 and at no other time.         *)
(***************************************************************************)
EXTENDS Naturals, Sequences

CONSTANTS
  DRAIN,    \* bytes keyboard::init discards at most (32)
  WAITS,    \* status reads before a wait goes on regardless (100_000)
  STALE,    \* bytes firmware leaves behind at most: a bound of the model
  STROKES   \* keys struck in a behaviour: a bound of the model

ASSUME I8042Assumption ==
  DRAIN \in Nat /\ WAITS \in Nat \ {0} /\ STALE \in Nat /\ STROKES \in Nat

VARIABLES
  \* the hardware
  output,      \* bytes waiting in port 0x60, by where they come from
  input,       \* the byte the controller is processing, or "none"
  config,      \* the controller's configuration byte
  scanning,    \* the keyboard reports keys
  latched,     \* the PIC has an IRQ1 to deliver
  struck,      \* keys struck so far
  \* the kernel
  kbAt,        \* where interrupts::init is
  tries,       \* reads of this wait, or bytes drained, so far
  written,     \* the configuration byte to be written back
  \* for the properties
  firmware,    \* the configuration byte and the number of bytes firmware left
  gaveUp       \* some wait ran out

controller == <<output, input, config, scanning, latched, struck>>
bringUp    == <<kbAt, tries, written, firmware, gaveUp>>
kbVars     == <<controller, bringUp>>

\* The bits of the configuration byte that matter here.
Config == [irq1 : BOOLEAN, clock_off : BOOLEAN, translate : BOOLEAN]

Steps == {"pics", "drain", "ask", "answer", "set", "config", "port", "scan", "ack",
          "sti", "on"}

KbTypeOK ==
  /\ output \in Seq({"stale", "key", "config", "ack"})
  /\ input \in {"none", "read_config", "write_config", "config", "enable", "scan"}
  /\ config \in Config /\ written \in Config
  /\ firmware \in [config : Config, left : 0..STALE]
  /\ scanning \in BOOLEAN /\ latched \in BOOLEAN /\ gaveUp \in BOOLEAN
  /\ struck \in 0..STROKES
  /\ kbAt \in Steps
  /\ tries \in 0..(IF kbAt = "drain" THEN DRAIN ELSE WAITS)

\* Interrupts are off and the PIC is as firmware left it.
KbInit ==
  /\ output \in {[i \in 1..n |-> "stale"] : n \in 0..STALE}
  /\ input = "none"
  /\ config \in Config /\ written = config
  /\ firmware = [config |-> config, left |-> Len(output)]
  /\ scanning \in BOOLEAN
  /\ latched \in BOOLEAN
  /\ struck = 0
  /\ kbAt = "pics"
  /\ tries = 0
  /\ gaveUp = FALSE

-----------------------------------------------------------------------------
(***************************************************************************)
(* The hardware                                                            *)
(***************************************************************************)

\* IRQ1 is raised when a byte comes to the front of the output with IRQ1 on.
Edge(on, out) == on /\ out # <<>>

\* A byte joins the output.
Deliver(byte) ==
  /\ output' = Append(output, byte)
  /\ latched' = (latched \/ (output = <<>> /\ config.irq1))

\* A byte is read from port 0x60 and the next one moves up.
TakeByte ==
  /\ output' = IF output = <<>> THEN <<>> ELSE Tail(output)
  /\ latched' = (latched \/ Edge(config.irq1, output'))

\* A key is struck.
KeyStruck ==
  /\ scanning /\ ~config.clock_off
  /\ struck < STROKES
  /\ struck' = struck + 1
  /\ Deliver("key")
  /\ UNCHANGED <<input, config, scanning, bringUp>>

Configure(byte) ==
  /\ config' = byte
  /\ latched' = (latched \/ (~config.irq1 /\ Edge(byte.irq1, output)))
  /\ UNCHANGED <<output, scanning>>

\* The controller processes the byte it was given.  Once a byte has been lost
\* it may take any other for a configuration.
Process ==
  /\ input # "none"
  /\ input' = "none"
  /\ \/ input = "read_config" /\ Deliver("config") /\ UNCHANGED <<config, scanning>>
     \/ input = "write_config" /\ UNCHANGED <<output, config, scanning, latched>>
     \/ input = "config" /\ Configure(written)
     \/ input = "enable" /\ Configure([config EXCEPT !.clock_off = FALSE])
     \/ input = "scan" /\ Deliver("ack") /\ scanning' = TRUE /\ UNCHANGED config
     \/ gaveUp /\ \E byte \in Config : Configure(byte)
  /\ UNCHANGED <<struck, bringUp>>

-----------------------------------------------------------------------------
(***************************************************************************)
(* interrupts::init and keyboard::init                                     *)
(***************************************************************************)

\* One more status read, or the end of a wait that goes on regardless.
KeepWaiting == tries < WAITS /\ tries' = tries + 1 /\ UNCHANGED <<kbAt, gaveUp>>
GoOn(step) == tries = WAITS /\ tries' = 0 /\ kbAt' = step /\ gaveUp' = TRUE
Done(step) == tries' = 0 /\ kbAt' = step /\ UNCHANGED gaveUp

\* ChainedPics::initialize forgets what was latched; then only IRQ0 and IRQ1
\* are let through.
InitPics ==
  /\ kbAt = "pics"
  /\ latched' = FALSE
  /\ Done("drain")
  /\ UNCHANGED <<output, input, config, scanning, struck, written, firmware>>

\* Nothing is drained.
MutDrain ==
  /\ kbAt = "drain"
  /\ Done("ask")
  /\ UNCHANGED <<controller, written, firmware>>

Drain ==
  /\ kbAt = "drain"
  /\ \/ /\ output # <<>> /\ tries < DRAIN
        /\ TakeByte
        /\ tries' = tries + 1
        /\ UNCHANGED <<kbAt, gaveUp>>
     \/ /\ output = <<>> \/ tries = DRAIN
        /\ Done("ask")
        /\ UNCHANGED <<output, latched>>
  /\ UNCHANGED <<input, config, scanning, struck, written, firmware>>

\* wait_writable does not look at its bound.
MutSend(step, byte, next) ==
  /\ kbAt = step
  /\ \/ input = "none" /\ Done(next) /\ input' = byte
     \/ input # "none" /\ UNCHANGED <<tries, kbAt, gaveUp, input>>
  /\ UNCHANGED <<output, config, scanning, latched, struck, written, firmware>>

\* wait_writable and the byte it is for.
Send(step, byte, next) ==
  /\ kbAt = step
  /\ \/ input = "none" /\ Done(next) /\ input' = byte
     \/ input # "none" /\ KeepWaiting /\ UNCHANGED input
     \/ input # "none" /\ GoOn(next) /\ input' = byte
  /\ UNCHANGED <<output, config, scanning, latched, struck, written, firmware>>

\* IRQ1 is left as it was.
MutWithKeyboardOn(byte) == [byte EXCEPT !.clock_off = FALSE]

\* config |= 1 << 0; config &= !(1 << 4)
WithKeyboardOn(byte) == [byte EXCEPT !.irq1 = TRUE, !.clock_off = FALSE]

\* The answer is read.  Any byte will do, and an empty port gives some byte.
ReadConfig ==
  /\ kbAt = "answer"
  /\ \/ output = <<>> /\ KeepWaiting /\ UNCHANGED <<output, latched, written>>
     \/ /\ \/ output # <<>> /\ Done("set")
           \/ output = <<>> /\ GoOn("set")
        /\ \E byte \in Config :
             /\ output # <<>> /\ Head(output) = "config" => byte = config
             /\ written' = WithKeyboardOn(byte)
        /\ TakeByte
  /\ UNCHANGED <<input, config, scanning, struck, firmware>>

\* The byte that comes first is taken for the ACK.
TakeAck ==
  /\ kbAt = "ack"
  /\ \/ output = <<>> /\ KeepWaiting /\ UNCHANGED <<output, latched>>
     \/ output # <<>> /\ Done("sti") /\ TakeByte
     \/ output = <<>> /\ GoOn("sti") /\ UNCHANGED <<output, latched>>
  /\ UNCHANGED <<input, config, scanning, struck, written, firmware>>

\* The PIC is initialised last.
MutEnableInterrupts ==
  /\ kbAt = "sti"
  /\ Done("on")
  /\ latched' = FALSE
  /\ UNCHANGED <<output, input, config, scanning, struck, written, firmware>>

EnableInterrupts ==
  /\ kbAt = "sti"
  /\ Done("on")
  /\ UNCHANGED <<controller, written, firmware>>

\* The first step, the last one and those in between, in the order of the code.
interrupts_init ==
  \/ InitPics
  \/ Drain
  \/ Send("ask", "read_config", "answer")
  \/ ReadConfig
  \/ Send("set", "write_config", "config")
  \/ Send("config", "config", "port")
  \/ Send("port", "enable", "scan")
  \/ Send("scan", "scan", "ack")
  \/ TakeAck
  \/ EnableInterrupts

\* IRQ1: one byte is read, whatever is in the port, and the interrupt ended.
HandleIrq1 ==
  /\ kbAt = "on"
  /\ latched
  /\ output' = IF output = <<>> THEN <<>> ELSE Tail(output)
  /\ latched' = Edge(config.irq1, output')
  /\ UNCHANGED <<input, config, scanning, struck, bringUp>>

KbNext == interrupts_init \/ HandleIrq1 \/ KeyStruck \/ Process

\* The kernel runs; nothing is expected of the controller.
KbSpec == KbInit /\ [][KbNext]_kbVars /\ WF_kbVars(interrupts_init)

-----------------------------------------------------------------------------
(***************************************************************************)
(* Properties                                                              *)
(***************************************************************************)

(* The keyboard works after init ("SeaBIOS does not reliably leave IRQ1    *)
(* enabled or scanning on", keyboard.rs:16), whatever firmware left        *)
(* behind, if the controller answers within the bounds of the waits.       *)
KeyboardOn ==
  kbAt = "on" /\ ~gaveUp /\ input = "none" =>
    config.irq1 /\ ~config.clock_off /\ scanning

(* "Translation kept so we keep scancode set 1" (keyboard.rs:19): the rest *)
(* of the configuration byte is as firmware left it, if no more bytes were *)
(* left behind than are drained, and no key is struck while init is at it; *)
(* a key that is faster than the answer is taken for it.                   *)
TranslationKept ==
  kbAt = "sti" /\ ~gaveUp /\ struck = 0 /\ firmware.left <= DRAIN =>
    config.translate = firmware.config.translate

(* No byte wedges IRQ1 (keyboard.rs:25, interrupts.rs:65): with interrupts *)
(* on, a byte in port 0x60 always has its interrupt still to come, and so  *)
(* the handler will read it and make room for the next.                    *)
NeverWedged == kbAt = "on" /\ output # <<>> /\ config.irq1 => latched

(* A controller that does not answer does not keep the kernel from         *)
(* booting: each wait is bounded.                                          *)
InitReturns == <>(kbAt = "on")
=============================================================================
