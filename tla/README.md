# Eternal Typewriter: TLA+ models and proofs

The Eternal Typewriter is a bare-metal kernel that does one thing: what is typed
is appended to a scroll on a second ATA disk and can never be edited. This
directory models the parts of it in which the order of steps, failures and
bounds decide whether that promise holds, checks them with TLC on small
instances and proves almost every safety property with TLAPS for all instances.

Source paths below are relative to the repository.

## The system

| Component | State | Operations | Talks to |
| --- | --- | --- | --- |
| Record (`scroll-core/src/record.rs`, `crc.rs`) | none | `encode`, `decode`, `crc32` | used by the scroll and, re-implemented, by `scripts/extract.py` |
| Scroll on disk (`kernel/src/scroll.rs`) | `sealed`, `tail`, `full`, `WRITE_TROUBLE`, the sectors | `load` (binary search, recovery of the tail), `append_raw`, `write` (three attempts) | ATA driver |
| Scroll in RAM (`scroll.rs`, `main.rs`) | `text`, `layout`, `pending` loader | decoding at boot, boot separator, `append_char`, `append_str`, `pump` | disk, layout, main loop |
| ATA driver (`ata.rs`) | the drive's registers | `identify`, `read_sector(s)`, `write_sector`, `flush`; polling with a bound | drive |
| Keyboard and interrupts (`keyboard.rs`, `interrupts.rs`) | 64-slot ring behind a spin lock, CPU interrupt flag, `TICKS` | `push` (IRQ1), `pop`, timer IRQ, i8042 bring-up | main loop |
| Main loop (`main.rs`) | `view_offset`, `cursor_on`, `last_toggle` | drain the ring, PageUp/PageDown/F12/ink, blink, render, `hlt` or `pump` | everything |
| Layout (`layout.rs`) | line spans, column | `append`, `from_text`, `cursor` | text, render |
| Clock (`rtc.rs`) | CMOS registers | `read_date`: double read, BCD and 12-hour decoding | boot separator |
| Memory (`memory.rs`, `allocator.rs`) | region cursor, heap behind a spin lock | `allocate_frame`, `init_heap` | boot |
| Panic handler (`main.rs`), serial port (`serial.rs`) | `PANIC_FRAMEBUFFER`, `SERIAL1`, both behind spin locks | print, draw the red page, halt | every part that can panic |
| Renderer (`framebuffer.rs`), GDT (`gdt.rs`) | framebuffer and back buffer, tables | drawing and set-up | main loop |
| `scripts/extract.py` | none | sequential scan of the disk image | the disk, off line |

The kernel is single-threaded. Concurrency comes from interrupt handlers (ring,
ticks), from the drive, which answers whenever it likes, and from power cuts,
which end a step anywhere; at boot also from the keyboard controller and the
clock chip, which go on while they are polled. There is one persistent object, the scroll disk, and
every recovery decision is taken from it alone.

What makes each part correct:

* disk: sealed sectors never change; valid records are a contiguous prefix, so
  the binary search is sound; a failure costs the open sector at most;
* RAM: the text shown is the text on the disk, in order, with every character
  whole; a separator starts on a line of its own; history gets loaded;
* driver: `Ok` means the sector is on the medium; every call returns; an error
  is followed by a real retry;
* ring: a queue that drops the newest input when full, no deadlock between
  handler and main loop, no scancode forgotten before `hlt`;
* layout: every character in exactly the cell a reference finds, every line
  sliceable; view: the screen is up to date, no line is skipped;
* bring-up: whatever firmware left behind and whenever a key is struck, boot
  goes on and the keyboard works; clock: a date is one that was shown;
* memory: no frame has two owners; checksum: the standard one;
* panic: wherever it strikes, the page says that the words are safe.

The things that are hard to test are listed with their lines under `hazards` in
`PROJECT.json`.

## Modules

| Module | Models | Extends |
| --- | --- | --- |
| `Record` | a sector field by field, `encode`, `decode`, and `torn`: what a write that stops early leaves | |
| `EternalInk` | abstract promise: pages filled in order, only the first page that is not full may change | |
| `ScrollLog` | `load`, `append_raw`, `write` on the disk | `Record`, INSTANCE `EternalInk` |
| `Utf8` | the few characters that matter, their bytes, `from_utf8_lossy`, the boot separator | |
| `ScrollText` | `text`, loader, `pump`, boot separator, keystrokes, F12, `extract.py` | `ScrollLog`, `Utf8` |
| `ScrollRot` | the same on a disk whose sealed sectors may decay | `ScrollText` |
| `SectorWrite` | what the scroll takes one `Scroll::write` for | |
| `Ata` | driver, drive, and the retry loop of `Scroll::write` | INSTANCE `SectorWrite` |
| `KeyQueue` | abstract promise of the ring | |
| `Keyboard` | ring, IRQ handlers, draining and sleeping main loop | INSTANCE `KeyQueue` |
| `Panic` | the rest of main as far as locks and failures go: `_print`, the heap's lock, panics and CPU exceptions, the panic handler | `Keyboard` |
| `I8042` | `interrupts::init`, `keyboard::init`, the IRQ1 handler, against controller, keyboard and PIC | |
| `Rtc` | `read_date` against a clock that goes on | |
| `Memory` | `allocate_frame`, `init_heap`, on any memory map | |
| `Crc` | `crc32`, bit by bit, on two messages side by side | |
| `Layout` | line spans: `append`, `from_text`, `cursor` | `Utf8` |
| `Typewriter` | keys, paging, blink, `render`, arrival of the history | `Layout` |
| `ScrollLogProofs` | theorems about `Record` and `ScrollLog` | `ScrollLog` |
| `Utf8Proofs` | what the coding functions compute | `Utf8` |
| `ScrollTextProofs` | theorems about `ScrollText` and `ScrollRot` | `ScrollRot`, `ScrollLogProofs`, `Utf8Proofs` |
| `AtaProofs` | theorems about the driver | `Ata` |
| `PanicProofs` | theorems about the ring, within `Panic` | `Panic` |
| `BootProofs` | theorems about the heap, the bring-up and the clock | `Memory`, `I8042`, `Rtc` |
| `CrcProofs` | theorems about the checksum | `Crc` |
| `TypewriterProofs` | theorems about the layout and the main loop | `Typewriter`, `Utf8Proofs` |
| `MC*` | values of the constants for TLC; `MCRecord` is the checksum of the small instances | |

Operators named `Mut...` are plausible bugs (a dropped guard, an off-by-one, a
forgotten counter). No specification uses them; each belongs to the definition
that follows it, and replacing that definition by it makes one property of one
run fail. `PROJECT.json` lists which. Each module also has its type invariant;
only the disk's is checked in a run, and the proofs have all of them as part of
their inductive invariants.

### Record

A sector is a record `[magic, seq, length, crc, payload]` in the order `encode`
lays the fields out. The payload area has `PAYLOAD_CAPACITY` bytes, 0 is padding.
`decodes(s, lba)` is the condition under which `decode` returns `Some`, and
`payload(s)` what it returns. `crc32` is a constant operator assumed injective
on payloads that fit a sector, with 0 for the empty payload as in the real
function. That idealises away the 2^-32 chance of a collision and nothing else
(`Crc` has the function itself, and shows that damage within four bytes is never
a collision): note that it matters that the empty payload has checksum 0, because a zeroed
sector with a freshly written magic then is a valid, empty record, which a torn
first write can leave and `load` has to cope with.

`torn(old, new, cut)` is the sector after a write of `new` over `old` that
stopped at `cut`: the bytes reach the medium in order, the cut may fall between
any two fields, in the middle of the checksum (the result is the checksum of
nothing) or between any two payload bytes. The last cut is the complete sector:
a write may be reported as failed after everything was written.

### ScrollLog

`pc` is the kernel's program counter: `off`, `search` (the while loop of
`load`), `idle`, `ink` (the byte loop of `append_raw`), `seal` and `rewrite`
(inside the two calls of `write`), `panic`. `Probe` is one turn of the search,
`Load` everything behind it, `Ink` the byte loop up to the next write, `Sealed`
and `Rewritten` what follows the two writes, `WriteSkipped`, `WriteOk` and
`WriteErr` one call of `ata::write_sector`. `PowerLoss` is enabled everywhere
and tears the sector if a write is under way. A read error during `load` is
`LoadError` (`expect` in `kernel_main`).

### ScrollText

`text` is a sequence of characters, disk contents are bytes, and the two are
related by `as_bytes` and `from_utf8_lossy` only, so a character can be split.
The em-dash has two bytes (`DASH_UTF8`; three in reality, but two are enough to
split it); in `rot`, where no property looks at the text, one. `Restore` is the end
of `load`, `Stamp` the separator of `kernel_main` or its omission when the
clock gives no date, `Keystroke` an inkable key, `pump` one call of
`Scroll::pump`. The date in a separator is left out, its newlines, marker and
dash are there.

A read of `pump` that fails is tried again on the next pass. If it timed out,
that changes nothing and is no step. If the drive reported an error, the retry
fails in `wait_not_busy` without sending a command (`ErrorIsFinal` in `Ata`), and
so does every later read or write of the session: `refused`. A failed write may
have the same effect (`WriteErr` in `DiskStep`). `PayloadsFrom(0)` is what
`extract.py` reads, `Extracted` the replacement it makes in these bytes, `F12`
what the kernel prints of its text. `first_loaded` only remembers where `load`
began to decode.

### ScrollRot

Adds `Rot`: while the machine is off a sealed sector stops decoding. With it the
panic of `load` on an unreadable record and the failure inside a chunk of
`pump` are reachable.

### Ata

The drive is external and modelled from the way the driver polls it: a command
makes it busy and clears the error bit, and it leaves the busy state at any
later time with data requested, done, or in error. It has a cache and a
platter. Without a drive (`present`) the status register reads 0, which
`wait_not_busy` cannot tell from an idle one; `identify` can (`NoDrive`). Each
driver step is one status read and the code's response to it;
`POLLS` stands for the 1,000,000 reads of a wait. `issued` counts the write
commands of one call of `Scroll::write` and is only there for a property.

`SectorWrite` is where `ScrollLog` and `Ata` meet: a write that has begun may
leave the sector old, new or torn, a success means new and stays new, and after
the last failed attempt the sector may still change. `ScrollLog`'s `WriteOk` and
`WriteErr` are that, with `torn` for what a half written sector holds. The
late changes after the last failure need no action there: `WRITE_TROUBLE` stops
all further writes, nobody reads the sector before the next boot, and a tear
just before `PowerLoss` is among the outcomes of the failed write itself.

### Keyboard

A handler is one step, since it runs with interrupts disabled on the only CPU.
`pop` is two steps, so that an interrupt between taking and releasing the lock
would be seen. `hlt` sleeps until a handler ran. Scancodes are numbered in the
order they are struck, so that order can be checked.

### Panic

Extends the machine of `Keyboard` by what main does between two scancodes:
printing, with interrupts disabled and `SERIAL1` locked, and allocating, with
the heap locked. `MainPanic` is main's own code giving up (an `expect`, a bounds
check), which leaves interrupts as they are and never happens with a lock held.
`Fault` is a CPU exception once `interrupts::init` has loaded the IDT, at any
point, locks held or not; its handler runs with interrupts disabled and panics.
Nothing unwinds, so a lock that was held is never released: the panic handler
spins (`Spin`). `Allocated` may fail, and if not even the message fits
(`exhausted`), putting it into a `String` panics again, inside the handler.
Interrupt handlers go on during all this where interrupts are enabled. Left out
are where on the page the words go, an exception before the IDT is loaded (the
machine resets), one inside the panic handler, and the breakpoint handler, which
prints and returns: the kernel has no `int3`.

### I8042

Controller, keyboard and PIC are external, modelled from the way the code drives
them: a FIFO in front of port 0x60 which keys enter at any time, an input buffer
of one byte, and an edge triggered interrupt, latched when a byte moves up and
at no other time. `firmware` is anything: bytes left behind, interrupt and clock
on or off, scanning or not. A wait that runs out goes on regardless, as the code
does; the byte written then replaces the one before it, and from there on the
controller may take any byte for a configuration (`gaveUp`). `WAITS` stands for
100,000 status reads and `DRAIN` for 32 bytes.

### Rtc

`show` is what the clock shows, time by time, `uip` the update flag; registers
change together when an update ends, as they do in QEMU, for which the kernel is
built. (A real chip may also give undefined values during an update. The code
guards against that by the flag once and by the second reading, the model does
not show it.) The one assumption on time, `ShowsAssumption`, says that no
register comes back to an earlier value within a call: otherwise two equal
readings would prove nothing. Registers hold BCD or binary, 12 or 24 hours.

### Memory

Regions are in any order and need not begin or end on a frame; that they do not
overlap is assumed of the bootloader. `map_to` is external: it takes up to
`LEVELS` frames per page for tables that are missing, from the same allocator.

### Crc

The register is the set of its bits that are 1. Two messages go through it at
once, what was meant to be in a sector and what is, so that damage can be
compared. The reference is long division of polynomials, which shares nothing
with the loop of shifts and masks but the polynomial.

### Layout

`append` adds one character to the line spans, `from_text` rebuilds them. Spans
are byte ranges as in the code, so a character longer than a byte matters. Its
properties are checked in the run of `Typewriter`, where the layout grows by
keys and is replaced when the history arrives. `LayoutSpec` is the layout on its
own: every text a writer can produce; the marker comes only at the start of a
line, which `MarkerStartsLine` shows of the writer.

### Typewriter

The main loop with `at` as its program counter: `keys` (the ring is drained, one
action per key), `show` (the blink is decided, draw if `dirty`), `idle` (`hlt` or
`pump`). What a boot finds (`Found`) are texts with the separators of earlier
boots in them, whole or cut, in the part loaded and in the history; of the
writer it takes that a marker leads its line (`MarksLead`), which `ScrollText`
shows (`MarkerStartsLine`). F12 changes nothing here; what it prints is in
`ScrollText`. `render` is a value: the lines on the page with their glyphs, the
cells the cursor fills, the message of a full scroll and the warning, and
`screen` is the value drawn last. The disk below is abstracted to `history`
(what is still pending), `CAPACITY` and a write that may fail for good. Whether
nine ticks have passed is left open, as is how many chunks `pump` needs. Keys
that make no ink change nothing and have no action. A screen of at least two
rows is assumed; with one, PageUp would not move.

## Runs

| Run | Instance | Result |
| --- | --- | --- |
| `disk` | 3 sectors of 2 bytes, 2 byte values, strings of 1 and 3 bytes | 31,754 states, holds |
| `stream` | 4 sectors of 2 bytes, 2 loaded at boot, chunk 1, two-byte dash | 96,915 states, holds |
| `split_stream` | the same | `RamMatchesDisk` is violated |
| `rot` | 6 sectors of 2 bytes, 3 loaded at boot, 2 decays, separators only | 254,297 states, holds |
| `ata` | drive present or not, 2 contents, 2 polls, reads of up to 2 sectors | 4,604 states, holds |
| `ata_retry` | the same | `RetryReachesDrive` is violated |
| `keyboard` | ring of 3, 6 keys; a panic or an exception anywhere | 12,694 states, holds |
| `typewriter` | 3 rows of 2 columns, 7 bytes, up to 2 characters of history and 2 behind it | 415,679 states, holds |
| `heap` | all maps of 2 regions below address 10, frames of 3, a heap of 2 pages, 1 level of tables | 23,484 states, holds |
| `bring_up` | all firmware states, up to 3 bytes left of which 2 are drained, 1 retry per wait, 2 keys | 153,968 states, holds |
| `clock` | 4 modes; roll-overs of minute, hour, half day, day, year; each of the 24 hours; an unset clock | 12,584 states, holds |
| `crc` | the real register and polynomial; all pairs of messages of up to 5 bytes 0x00, 0x01, 0x80 | 597,862 states, holds |

Why these bounds are enough to see the interesting cases: with 3 sectors there
is always one below, one at and one above the frontier, and strings of 3 bytes
over sectors of 2 seal a sector and go on in the next; a sector of 2 bytes has
an unsealed state that is not empty and cuts before, inside and behind the
payload. (The same run with sectors of 3 bytes also passes: 671,640 states.) In
`stream` up to 2 sectors are pending, so a chunk can be the last one or not. Two
sectors loaded at boot is the smallest faithful number: with one, a torn first
write of a sector could leave only an empty record in RAM, which cannot happen
with 64. In `rot` the search can skip a decayed sector or stop at one, the
decayed sector can be among those `load` reads (panic) or among the pending
ones. In `stream` a dash can lie across any two sectors, the two at
`first_loaded` included. In `keyboard` six keys overrun a ring of three and wrap its indices. Seven
bytes of text on two columns give empty, half full, exactly full and twice
wrapped lines, with a two-byte character before or behind each; in `typewriter`
they are up to eight lines, three turns of a page of three rows, and the seven bytes
are also the capacity, so the scroll gets full. Two characters of history and
two behind it can hold separators of two earlier boots, in front of and behind
the seam, and this boot adds a third. With frames of 3 a region can
begin and end at each offset within a frame and be too small for one; two
regions, in both orders, usable or not, give the hand-over from one to the next,
and the heap's two pages with their tables exhaust the smaller maps. In
`bring_up` firmware can leave one byte more than is drained, each wait can
succeed at once, later, or run out, and two keys can fall between any two steps;
more polls per wait would only repeat status reads that settle nothing. In `clock` three retries
against up to three changes reach both "stable after a change" and "unstable".
In `crc` five bytes are one more than the register is wide.

### Properties

* `ContiguousPrefix`, `SearchSound`: the search's precondition and its result.
* `SealedForever`: a full record is never changed, by retries and power cuts
  either. `RefinesEternalInk`: the abstract promise.
* `BootFinishes`, `HistoryLoads`, `CallReturns`, `InitReturns`, `DateReturns`,
  `KeysServed`, `PageFollowsPanic`: liveness.
* `RamMatchesUnlessSplit`: binary search, partial decoding, splicing and appending
  end with the text a sequential reader gets from the sectors that are loaded,
  unless a character lies across `first_loaded`. It is claimed while the kernel
  is idle and neither the warning glyph (`trouble`) nor the full scroll (`full`)
  is shown. `RamMatchesDisk` is the same without the condition on `first_loaded`,
  which is what the repository says; it does not hold (`split_stream`).
* `DumpIsExtract`: what F12 prints of the text in RAM is what `extract.py` writes of
  the bytes on the disk, though one strips markers from characters and the other
  a byte from bytes. Bytes that are no text are excluded: a dash whose second
  half was lost in a power cut comes out of F12 as U+FFFD and of `extract.py` as
  it is.
* `PrefixMatchesCursor`: each pending sector is taken once.
* `MarkerStartsLine`: what `Layout::append` relies on.
* `SearchFindsBoundary`, `SoundPrefixForever`: what is left with decay.
* `ErrorIsFinal`: after one error no command reaches the drive, no read and no
  write succeeds. That is not what anybody wants of the driver; it is what
  `ScrollText` has to reckon with.
* `OkMeansDurable`: the flush policy. `RefinesSectorWrite`: an attempt that timed
  out and is still in the drive does not change the sector behind the scroll's
  back.
* `NeverSpins`, `InOrder`, `RefinesKeyQueue`: the ring; no interrupt, during the
  panic handler either, finds the lock held.
* `PageFollowsPanic`: the red page, in which two cases it lacks its last line and
  in which it is not drawn at all.
* `KeyboardOn`, `TranslationKept`, `NeverWedged`: what `keyboard::init` and its
  comments promise, and where a key struck during boot gets in the way.
* `DateWasShown`, `NoneIsWeird`: the double read gives no torn date, and `None`
  only for a reason.
* `FramesUsable`, `FramesDisjoint`, `FailsOnlyWhenFull`: each frame has one owner,
  and none is passed over.
* `CrcIsRemainder`, `DamageDetected`: the checksum is the standard one (and so
  `extract.py`, which uses zlib's, agrees), and small damage always shows.
* `LinesMatchText`, `CursorBehindInk`, `SlicesAreWhole`: the incremental layout
  against a reference that finds each character's row by counting.
* `ScreenIsCurrent`: the reasons to draw that the loop collects are enough.
* `ViewInRange`: what splicing the history in must not break.
* `PagesMeet`: a reader who turns pages sees every line on the way.

### Fairness

`ScrollLog`: weak fairness of the kernel's own steps, because `load` and
`append_raw` wait for nobody (a call of the driver returns, see `CallReturns`).
Nothing is assumed of power cuts, errors or typing. `ScrollText` adds weak
fairness of `Restore` and `Stamp` for the same reason and strong fairness of
a read that `pump` is served (`TakeChunk`): `pump` is called on every pass of the
main loop, after the scancodes that are in the ring, so typing interrupts it
again and again but does not keep it away, and a drive that shows no error is
assumed not to let every read time out. Of a drive that has reported an error
nothing is assumed: `TakeChunk` is disabled for good, and `HistoryLoads` says only
that it is this or a power cut that keeps the history away. `Ata`: weak fairness of
the driver only; the drive may stop. `Layout`, `Typewriter`, `Memory` and `Crc`
have safety properties only and assume none. `Panic` (with `Keyboard`): main and
the panic handler run on, a lock that is taken is released, the timer ticks for
ever, and an interrupt that stays pending is delivered (strongly fair, since
`pop` and printing disable interrupts again and again). The main loop is strongly
fair because printing and allocating may interrupt it again and again in the
model, while the code does a finite number of each per pass. `I8042` and
`Rtc`: weak fairness of the kernel's steps; nothing is expected of controller,
keyboard and clock.

### Disagreements

Each `violation` run is a statement of the repository that the code does not
keep; `findings` in `PROJECT.json` quotes it.

1. `split_stream`: a character split at `first_loaded` is decoded in two halves
   and shows as two replacement characters. The disk is right.
2. `ata_retry`: an error bit left by one command makes `wait_not_busy` fail
   before the next is issued, so retries never reach the drive, and a failed
   background read leads to `WRITE_TROUBLE` on the next keystroke. For the same
   reason the read that failed, which the main loop tries again for ever, never
   succeeds: the history stays away until the next boot (`HistoryLoads`).

More follow from the models and have no run of their own.

* A power cut during a rewrite costs the whole unsealed payload (up to 493
  bytes), not "at most the keystroke in flight": the frontier sector of `DiskInv`
  may hold anything.
* A pending sector that does not decode makes `pump` take the sectors before it
  again on every pass; `PrefixMatchesCursor` is therefore checked without decay.
* On a full scroll `render` shows one line less than PageUp counts with
  (`main.rs:104`, `main.rs:194`): of a scroll that fills the screen the first line
  is out of reach, against "PgUp/PgDn scrolls back through the entire history" in
  the design (line 24) and "through everything you have written" (`README.md:45`).
  No property covers it.
* A key struck between the drain and the answer to command 0x20 is taken for the
  configuration byte and written back, against "translation kept"
  (`keyboard.rs:19`); `TranslationKept` has the condition. `KeyboardOn` needs no
  such condition: the two bits it is about are set in any case.
* An update of the clock that begins between the loop of `rtc.rs:42` and the check
  of `rtc.rs:47` makes `read_date` give up on a healthy clock, and the boot has no
  separator; `NoneIsWeird` exempts it.
* An interrupt that was latched for a byte `keyboard::init` has polled away makes
  the first handler push whatever is left in port 0x60.
* "The heap may be unusable after a panic" (`framebuffer.rs:28`) is why the panic
  page has no back buffer, yet the handler allocates a `String` for the message:
  on an exhausted heap it panics again and again, and on a locked one it spins,
  before "your words are safe on the scroll." `PageFollowsPanic` says how far the
  page gets then, and that with the serial port locked there is none. The lock
  the handler does force is held only while line 52 of `main.rs` runs, where
  nothing can panic, not "mid-render" (`main.rs:226`).
* After decay in the middle of the scroll the search may end there, and the
  kernel then seals new text over valid sectors behind it, against "the only
  overwrite that ever happens" (`scroll.rs:157`); `SoundPrefixForever` states
  what is left.
* F12 before the history is loaded prints only what is in RAM, not "the whole
  scroll" (`README.md:46`); `DumpIsExtract` compares it with that part of the disk.
* PageUp before the history is loaded stops at the first line in RAM and is
  forgotten; it does not wait on the stream as the design says (line 69).
* Behind a line that is exactly full the cursor is at column `columns`, where
  `draw_cursor` draws nothing.

## Proofs

Everything below is proved for every value of the constants that satisfies the
assumptions named in the modules (`...Assumption`), which TLC evaluates in every
run. They are what the code or the hardware guarantees: sizes that are not zero,
regions that do not overlap, a clock that does not come back to an earlier value
within a call, no marker among the keys that can be typed, a polynomial with its
highest bit.

Each module proves `Init => Inv`, one lemma per action for `Inv /\ Next => Inv'`,
and the properties from `Inv`. None of the properties is inductive as it stands;
what follows says why, and what the invariant adds.

### Records and the disk (`ScrollLogProofs`)

The first part is about records, for every alphabet, capacity and checksum:
`DecodeEncode`, the types, that a zeroed sector is no record, and `TornWrite`: a
torn write either leaves something that is not a full record or has written all
of the new one, provided the old sector did not happen to carry the checksum of
its whole payload area without being full.

| Theorem | Statement |
| --- | --- |
| `Invariance` | `Spec => []IInv` |
| `TypeCorrect` | `Spec => []TypeOK` |
| `PrefixHolds` | `Spec => []ContiguousPrefix` |
| `SearchIsSound` | `Spec => []SearchSound` |
| `SealedIsForever` | `Spec => SealedForever` |
| `Refinement` | `Spec => RefinesEternalInk` |

`ContiguousPrefix` says nothing about which sector is written next. `IInv` has
these parts:

* `DiskInv`: there is a frontier `f`; every sector below it holds a full record,
  every sector above it is zeroed, and the sector at `f` may hold anything. In
  addition a sector carries the checksum of its whole payload area only if it
  is a full record (`AreaInv`), without which a later torn write could complete
  a record that was never written, and every checksum is that of some text
  (`InkInv`), without which the tail `load` recovers could contain padding;
* `SearchInv`: what the search has learnt so far;
* `TailInv`: how full the tail is at each program counter;
* `SessionInv`: until a write has failed for good, `sealed` is the frontier, and
  the sector there is full only if the write under way has put it there. That is
  why a retry cannot damage a sealed sector: it writes what is there already.

All writes go through `WriteStep`, which treats a complete write as the last
cut. `DiskStep` says that a step leaves the disk alone or writes the sector
`sealed`; the action property and the refinement follow from it.

### The text (`Utf8Proofs`, `ScrollTextProofs`)

`LossyRoundTrip`: `from_utf8_lossy(as_bytes(s)) = s` for every text.
`LossySplice`: decoding two halves is decoding the whole if no character is cut
at the seam (`WholeAt`).

| Theorem | Statement |
| --- | --- |
| `SearchStopsAtBoundary` | `RotSpec => []SearchFindsBoundary` |
| `SoundPrefixStays` | `RotSpec => SoundPrefixForever` |
| `PrefixStaysAtCursor` | `TextSpec => []PrefixMatchesCursor` |
| `RamFollowsUnlessSplit` | `TextSpec => []RamMatchesUnlessSplit` |
| `DumpMatchesExtract` | `TextSpec => []DumpIsExtract` |
| `SeparatorsStartLines` | `TextSpec => []MarkerStartsLine` if `TAIL_SECTORS > 1` |

`IInv` of the disk is carried over: every step of the text is a step of the disk
or leaves it alone (`LogStep`).

* With decay there is no frontier. What needs none is `CoreInv`: types, tail and
  checksums, and `BoundaryInv`: a sector that decodes below `lo`, one that does
  not at `hi`. `RotInv` adds that the lowest rotten sector shelters everything
  below it (`Sheltered`): those sectors are full, the search ends behind them,
  and nothing is written before it.
* `LoaderInv`: the pending sectors are full, and lie below `sealed`, so neither
  keystrokes nor failed writes change what the loader will find.
* `LiveInv`: as long as writes work, the text is the decoding of everything from
  `first_loaded`, or from 0 once the history is in, to the bytes not pushed yet
  (`RamInv`). That is true between any two steps; `RamMatchesUnlessSplit`, which
  speaks of rest, follows with `SettledInv`: at rest the tail is on the disk. When
  the history is spliced in, `LossySplice` needs the seam to be whole. The seam is
  where it was at boot (`SeamInv`), and later ink does not touch what is on
  either side of it, so the condition can be put in terms of the disk as it is
  (`ApartIsWhole`). The theorem says that the finding of `split_stream` is the only
  way in which the text and the disk come apart.
* `DumpMatchesExtract`: F12 drops markers from the characters, `extract.py` their
  byte from the bytes of the disk. `PrintedIsExtracted`: both come to the same,
  because no other character has that byte in it (`MarkerByte`). The rest is
  `RamMatchesUnlessSplit`.
* `LineInv`, for `MarkerStartsLine`, has to speak of texts that are not there: a
  torn write can complete a record whose checksum a sector still carries, so
  every text with such a checksum has to be in order (`CrcLine`). `LineSplit`
  covers a dash cut in two: two characters result, neither a marker nor a
  newline. `EmptyInv`: an empty text means an empty scroll, otherwise the
  separator would be written without a newline in front. This is where
  `TAIL_SECTORS > 1` is needed, and it is needed: with one sector loaded at boot
  a torn first write can leave an empty record as all that is loaded, and TLC
  finds a marker in the middle of a line. The code loads 64, the run 2.

### The driver (`AtaProofs`)

`OkIsDurable` (`OkMeansDurable`), `ErrorStaysFinal` (`ErrorIsFinal`) and
`Refinement` (`RefinesSectorWrite`).
`OkMeansDurable` looks at one moment; to get there one has to know what a drive
may still be doing for an attempt that timed out. `CallInv` says which function
is in which wait, `DriveInv` that the drive writes only while busy and only what
it was given last, `MediumInv` that what is on its way to the medium is the
sector to be written, and that nothing is on its way after a success,
`ProgressInv` how far `write_sector` has come. `ScrollLog` uses one step for a
write that `SectorWrite` describes, so this refinement is what its proofs stand
on.

### The ring (`PanicProofs`)

`HandlerNeverSpins` (`NeverSpins`), `HandledInOrder` (`InOrder`), `Refinement`
(`RefinesKeyQueue`), for every size of the ring, with panics, exceptions and
the panic handler. `LockInv`: the ring is locked inside `pop` and nowhere else, with
interrupts disabled, and nothing is printed or allocated there. `OrderInv`: the
scancodes handled, in the ring and in the controller are three increasing
sequences, each below the next. The modular arithmetic of the indices is in the
lemmas about `Contents` after a push and after a pop.

### Bring-up (`BootProofs`)

* Heap: `HandsOutUsable`, `HandsOutOnce`, `FailsWhenFull`. The allocator remembers
  a cursor only. `HeapInv`: nothing at or behind the cursor has been handed out
  (`PlaceInv`), everything in front of it has been (`FullInv`).
* Controller: `KeyboardComesOn`, `TranslationStays`, `Irq1NeverWedged`. `KbInv`:
  which byte the controller may still have to take (`HandshakeInv`), whose
  configuration is in force (`ConfigInv`), which byte is the answer
  (`AnswerInv`), and that reading the answer brings back an interrupt forgotten
  by the set-up of the PIC (`LatchInv`).
* Clock: `NoTornDate`, `NoneOnlyIfWeird`. `ReadInv`: the last complete reading was
  made between times `a` and `b` and the one under way since `b`, and the clock
  moved on for every other reading that differed. If the two agree, each register
  had its value at a time up to `b` and at one from `b` on, and, as no value comes
  back, at `b`.

### Checksum (`CrcProofs`)

`DamageIsDetected`: damage within the width of the register changes the checksum,
for messages of any length and every polynomial with its highest bit. `BurstInv`
is about the difference of the two registers: a round puts the bit it takes out
at the bottom back in at the top, so within the burst a difference is still on
its way to the bottom or has come back at the top; behind it, equal bytes keep
different registers different.

`CrcStaysRemainder`: the shifts and masks compute the remainder of a polynomial
division (`CrcIsRemainder`). `RemainderInv`: with `left` rounds to go, the register,
moved up by that many powers, leaves the same remainder as the message so far. The register holds a polynomial with its powers
reversed, so a round, which shifts down and perhaps adds `POLY`, is a
multiplication by x, which a multiple of the generator brings back below the
degree. It needs `Remainder` to be what one expects of a division, which is proved
from its recursion over the degree: it takes a sum to the sum (`RemainderXor`) and
a multiple of the generator to nothing (`RemainderMultiple`).

### Layout and main loop (`TypewriterProofs`)

`ScreenStaysCurrent`, `ViewStaysInRange`, `PagesAlwaysMeet`, `SlicesStayWhole`,
`CursorStaysBehindInk`, `LinesStayMatched`. `PageInv`: the layout kept
incrementally is `from_text` of the text and markers lead their lines in the
history and the text together (`PaperInv`), and all through a pass the
screen is current or the pass is going to draw (`DrawnInv`). `ViewInRange` rests
on `LinesGrow`: wrapping the text anew with the history in front gives no fewer
lines, whatever column the first line now starts at. Lines being whole, and the
column count agreeing with the spans, are shown for texts of any length.

* `LinesStayMatched`: `LinesMatchText` says where every character is and cannot be
  carried from one character to the next as it stands. `Matched` adds what `append`
  relies on without looking back: the rows of the open paragraph end where the
  layout ends, all but the last are full and the last holds `current_columns`
  characters (`Numbers`), and no row of a character or a marker lies behind the
  last line (`Placed`). A marker needs `MarksLead`: in the middle of a line it
  would take what is before it off the page. The text may hold any number of
  them, of earlier boots in what is loaded or spliced in, and of this one.

### Induction over texts

The library's induction theorems take an operator and cannot be used here. The
recursive functions are handled by the least counterexample instead: if a claim
fails for some text, the lengths of the texts for which it fails are a non-empty
set of numbers and have a least member (`Least`, `Lengths`, `LengthsUpto`,
`Sequences` in `Utf8Proofs`, from the well-foundedness of the naturals), and
unfolding the function once at that length gives a contradiction. That the
functions exist and unfold is proved too.

### Checked by TLC only

* Liveness: `BootFinishes`, `HistoryLoads`, `CallReturns`, `InitReturns`,
  `DateReturns`, `KeysServed`, `PageFollowsPanic`. It rests on fairness, which is
  out of the prover's reach.
* The two disagreements, which are counterexamples.

## Not modelled

* The renderer's pixels, glyphs and back buffer: drawing. `Typewriter` has the
  cells that are drawn.
* The GDT and the IDT: tables, set up once. `Panic` has the moment at which the IDT
  is loaded. An exception before it resets the machine, the breakpoint handler
  has no `int3` to serve.
* The scripts that drive QEMU from outside, and of `extract.py` the
  arguments and the output.
* `month_name` and the wording of the separator: formatting.
* What `pc_keyboard` makes of scancodes, such as a modifier whose release was
  dropped by a full ring: a library.
* The peak of memory while `pump` splices the history in: the models count no
  bytes of heap.
* LBA arithmetic (`select` keeps 28 bits of an address): `identify` reports an
  LBA28 size.
* Main loop, ring and disk are three models (`Typewriter`, `Keyboard` with
  `Panic`, `ScrollText`), joined by what each assumes of the others: a queue of
  keys, a text that grows, a history that arrives.

## Plan

Done: all modules of the table above with their runs, and the proofs of every
safety property, action property and refinement that the runs check.

What is left is out of the prover's reach (liveness) or of the models' (the
sections above). If the code changes, the order is: the module, its run, then
the proofs that name the action.
