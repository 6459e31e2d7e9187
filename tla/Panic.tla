------------------------------- MODULE Panic --------------------------------
(***************************************************************************)
(* What happens to the machine of Keyboard when the kernel's own code      *)
(* fails: it panics, or the CPU raises an exception, with any lock held,   *)
(* and the panic handler of main.rs, which prints, draws the red page and  *)
(* halts.  Main now also does what it does between two scancodes: it       *)
(* prints (serial.rs, with interrupts disabled) and it allocates.          *)
(*                                                                         *)
(* Interrupt handlers go on while the panic handler runs, if interrupts    *)
(* are enabled.  Left out are the layout of the page, an exception before  *)
(* the IDT is loaded, which resets the machine, one inside the panic       *)
(* handler, and the breakpoint handler, which prints and returns to an     *)
(* int3 the kernel does not have.                                          *)
(***************************************************************************)
EXTENDS Keyboard

VARIABLES
  phase,      \* how far kernel_main is
  lock,       \* SERIAL1 or ALLOCATOR, if main holds one, or "none"
  saved,      \* without_interrupts: whether they were enabled
  stashed,    \* PANIC_FRAMEBUFFER is Some
  exhausted,  \* the heap has no room for a short string
  panic,      \* how far the panic handler is; "no" before a panic
  screen      \* what is on the screen

loopVars  == <<ring, locked, at, pending, pressed, wire, got>>
mainVars  == <<phase, lock, saved, stashed, exhausted>>
panicVars == <<vars, mainVars, panic, screen>>

PanicTypeOK ==
  /\ TypeOK
  /\ phase \in {"boot", "stash", "init", "idt", "loop"}
  /\ lock \in {"none", "SERIAL1", "ALLOCATOR"}
  /\ {saved, stashed, exhausted} \subseteq BOOLEAN
  /\ panic \in {"no", "print", "page", "message", "words", "rest"}
  /\ screen \in {"paper", "broken", "message", "words"}

\* kernel_main is entered with interrupts disabled.
PanicInit ==
  /\ Empty /\ enabled = FALSE
  /\ phase = "boot"
  /\ lock = "none"
  /\ saved = FALSE
  /\ stashed = FALSE
  /\ exhausted = FALSE
  /\ panic = "no"
  /\ screen = "paper"

-----------------------------------------------------------------------------
(***************************************************************************)
(* kernel_main                                                             *)
(***************************************************************************)

\* Main is running, and not inside print or alloc.
Running == panic = "no" /\ lock = "none" /\ at # "halted"

\* *PANIC_FRAMEBUFFER.lock() = Some(...)
Stash ==
  /\ Running
  /\ \/ phase = "boot" /\ phase' = "stash" /\ UNCHANGED stashed
     \/ phase = "stash" /\ phase' = "init" /\ stashed' = TRUE
  /\ UNCHANGED <<vars, lock, saved, exhausted, panic, screen>>

\* interrupts::init begins: from here on exceptions have handlers.
LoadIdt ==
  /\ Running /\ phase = "init"
  /\ phase' = "idt"
  /\ UNCHANGED <<vars, lock, saved, stashed, exhausted, panic, screen>>

\* The rest of interrupts::init: the PIC, the i8042, and the interrupts.
Enable ==
  /\ Running /\ phase = "idt"
  /\ phase' = "loop"
  /\ enabled' = TRUE
  /\ UNCHANGED <<loopVars, lock, saved, stashed, exhausted, panic, screen>>

\* serial_println!: without_interrupts, then the lock.
serial_print ==
  /\ Running /\ phase \notin {"stash", "idt"} /\ at # "pop"
  /\ saved' = enabled /\ enabled' = FALSE
  /\ lock' = "SERIAL1"
  /\ UNCHANGED <<loopVars, phase, stashed, exhausted, panic, screen>>

PrintDone ==
  /\ panic = "no" /\ lock = "SERIAL1"
  /\ enabled' = saved /\ saved' = FALSE
  /\ lock' = "none"
  /\ UNCHANGED <<loopVars, phase, stashed, exhausted, panic, screen>>

\* The global allocator, a spin lock around the heap.
Allocate ==
  /\ Running /\ phase = "loop" /\ at # "pop"
  /\ lock' = "ALLOCATOR"
  /\ UNCHANGED <<vars, phase, saved, stashed, exhausted, panic, screen>>

\* It returns a block, or none, and then alloc panics.
Allocated ==
  /\ panic = "no" /\ lock = "ALLOCATOR"
  /\ lock' = "none"
  /\ \/ UNCHANGED <<exhausted, panic>>
     \/ panic' = "print" /\ exhausted' \in BOOLEAN
  /\ UNCHANGED <<vars, phase, saved, stashed, screen>>

\* A step of Keyboard's main loop.
Loop ==
  /\ Running /\ phase = "loop"
  /\ MainLoop
  /\ UNCHANGED <<mainVars, panic, screen>>

\* main's own code gives up: an expect, a bounds check, an assertion.  None of
\* these is reached with a lock held, or while the framebuffer is stashed.
MainPanic ==
  /\ Running /\ phase \in {"boot", "loop"} /\ at # "pop"
  /\ panic' = "print"
  /\ UNCHANGED <<vars, mainVars, screen>>

\* The CPU raises an exception in main, locks held or not; its handler, which
\* the CPU enters with interrupts disabled, panics.
Fault ==
  /\ panic = "no" /\ at # "halted"
  /\ phase \in {"idt", "loop"}
  /\ panic' = "print"
  /\ enabled' = FALSE
  /\ UNCHANGED <<loopVars, mainVars, screen>>

KernelMain ==
  Stash \/ LoadIdt \/ Enable \/ serial_print \/ PrintDone \/ Allocate \/ Allocated \/ Loop

-----------------------------------------------------------------------------
(***************************************************************************)
(* The panic handler                                                       *)
(***************************************************************************)

\* _print enables interrupts when it is done, whatever they were.
MutPanicPrint ==
  /\ panic = "print" /\ lock # "SERIAL1"
  /\ enabled' = TRUE
  /\ panic' = "page"
  /\ UNCHANGED <<loopVars, mainVars, screen>>

\* serial_println!("PANIC: ...") leaves interrupts as they were.
PanicPrint ==
  /\ panic = "print" /\ lock # "SERIAL1"
  /\ panic' = "page"
  /\ UNCHANGED <<vars, mainVars, screen>>

\* The message is put into its String before the page is drawn.
MutPanicPage ==
  /\ panic = "page"
  /\ \/ stashed /\ lock = "ALLOCATOR" /\ UNCHANGED <<panic, screen>>
     \/ stashed /\ lock # "ALLOCATOR" /\ panic' = "message" /\ screen' = "broken"
     \/ ~stashed /\ panic' = "rest" /\ UNCHANGED screen
  /\ UNCHANGED <<vars, mainVars>>

\* A red page and "the typewriter is broken.", if there is a framebuffer yet.
\* Nobody holds PANIC_FRAMEBUFFER, and force_unlock makes sure of it.
PanicPage ==
  /\ panic = "page"
  /\ \/ stashed /\ panic' = "message" /\ screen' = "broken"
     \/ ~stashed /\ panic' = "rest" /\ UNCHANGED screen
  /\ UNCHANGED <<vars, mainVars>>

\* The message is put into a String: without room for it, that panics again.
PanicMessage ==
  /\ panic = "message" /\ lock # "ALLOCATOR"
  /\ \/ ~exhausted /\ panic' = "words" /\ screen' = "message"
     \/ exhausted /\ panic' = "print" /\ UNCHANGED screen
  /\ UNCHANGED <<vars, mainVars>>

\* A lock that main holds will never be released.
Spin ==
  /\ \/ panic = "print" /\ lock = "SERIAL1"
     \/ panic = "message" /\ lock = "ALLOCATOR"
  /\ UNCHANGED panicVars

PanicWords ==
  /\ panic = "words"
  /\ panic' = "rest" /\ screen' = "words"
  /\ UNCHANGED <<vars, mainVars>>

\* loop { hlt() }
Rest == panic = "rest" /\ UNCHANGED panicVars

PanicHandler == PanicPrint \/ PanicPage \/ PanicMessage \/ PanicWords

-----------------------------------------------------------------------------
Interrupt == keyboard_handler \/ timer_handler

Hardware == (Press \/ Interrupt) /\ UNCHANGED <<mainVars, panic, screen>>

PanicNext == KernelMain \/ MainPanic \/ Fault \/ PanicHandler \/ Spin \/ Rest \/ Hardware

PanicSpec == PanicInit /\ [][PanicNext]_panicVars

\* Main and the panic handler run on when nothing stops them: a lock is
\* released again, and the loop of Keyboard is not kept from its next step by
\* more and more printing and allocating.  The timer ticks for ever, and an
\* interrupt that stays pending is delivered as soon as it can be.
PanicFairSpec ==
  /\ PanicSpec
  /\ WF_panicVars(Stash \/ LoadIdt \/ Enable)
  /\ WF_panicVars(PrintDone)
  /\ WF_panicVars(Allocated)
  /\ SF_panicVars(Loop)
  /\ WF_panicVars(PanicHandler)
  /\ WF_panicVars(timer_handler /\ UNCHANGED <<mainVars, panic, screen>>)
  /\ SF_panicVars(keyboard_handler /\ UNCHANGED <<mainVars, panic, screen>>)

-----------------------------------------------------------------------------
(***************************************************************************)
(* Properties                                                              *)
(***************************************************************************)

(* No scancode stays in the controller or in the ring for good, as long as *)
(* main does not fail: one that comes in between the pop that found the    *)
(* ring empty and hlt does not wake the CPU, but the next tick does.       *)
KeysServed ==
  (wire # <<>> \/ len > 0) /\ phase = "loop" ~> (wire = <<>> /\ len = 0) \/ panic # "no"

(* "Kernel panic -> full-screen red page" (the design's failure handling): *)
(* a panic leads to the whole page once there is a framebuffer, wherever   *)
(* in main it strikes.  If main held the heap's lock at that very moment,  *)
(* or the heap has no room for the message, the page is red but without    *)
(* its last line; if it held the port's, nothing is drawn.                 *)
PageFollowsPanic ==
  panic # "no" ~>
    \/ panic = "rest" /\ (phase \in {"boot", "stash"} \/ screen = "words")
    \/ screen = "broken" /\ (lock = "ALLOCATOR" \/ exhausted)
    \/ panic = "print" /\ lock = "SERIAL1"
=============================================================================
