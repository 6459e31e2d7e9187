-------------------------------- MODULE Ata ---------------------------------
(***************************************************************************)
(* The ATA PIO driver kernel/src/ata.rs against the drive it polls, and    *)
(* the two callers that go on after an error: Scroll::write, which tries   *)
(* three times and then records WRITE_TROUBLE, and pump, which is called   *)
(* again on the next pass of the main loop.                                *)
(*                                                                         *)
(* The drive is external.  What is taken from the way ata.rs polls it: a   *)
(* command makes it busy and clears the error bit, it stops being busy at  *)
(* any later time with data requested, done or in error, and it forgets an *)
(* error only when it is given another command.                            *)
(*                                                                         *)
(* One step of the driver is one read of the status register and what the  *)
(* code does in response, up to the next read.  The model is of one sector *)
(* of the medium and of the values written to it.                          *)
(***************************************************************************)
EXTENDS Naturals

CONSTANTS
  Value,     \* contents of the sector
  Torn,      \* what a sector half written holds
  POLLS,     \* status reads before a wait gives up (1_000_000)
  MaxCount   \* most sectors of a read_sectors command (256)

ASSUME PollsAssumption == POLLS \in Nat \ {0}
ASSUME TornAssumption == Torn \notin Value
ASSUME CountAssumption == MaxCount \in Nat \ {0}

VARIABLES
  \* the drive
  present,        \* there is one; without, the status register reads 0
  bsy, drq, err,  \* STATUS_BSY, STATUS_DRQ, STATUS_ERR or STATUS_DF
  command,        \* what the drive is doing, or "none"
  sectors,        \* sectors it has yet to hand over
  buffer,         \* the data it was given last
  cache,          \* the sector as the drive knows it
  platter,        \* the sector as a power cut would leave it
  \* the driver
  op,             \* the function of ata.rs under way, or "none"
  at,             \* the wait it is in
  polls,          \* status reads of this wait so far
  count,          \* sectors it has yet to read
  value,          \* what it is to write
  \* Scroll::write
  attempt,        \* failed attempts so far
  issued,         \* write commands the drive has taken for this call
  trouble         \* WRITE_TROUBLE

drive  == <<present, bsy, drq, err, command, sectors, buffer, cache, platter>>
driver == <<op, at, polls, count, value>>
caller == <<attempt, issued, trouble>>
vars   == <<drive, driver, caller>>

\* Scroll::write: for _attempt in 0..3
ATTEMPTS == 3

Content == Value \cup {Torn}

\* What the variables may hold: the flags, and everything else.
FlagsOK ==
  /\ present \in BOOLEAN /\ trouble \in BOOLEAN
  /\ bsy \in BOOLEAN /\ drq \in BOOLEAN /\ err \in BOOLEAN

ValuesOK ==
  /\ command \in {"none", "identify", "read", "write", "program", "flush"}
  /\ sectors \in 0..MaxCount
  /\ buffer \in Content /\ cache \in Content /\ platter \in Content
  /\ op \in {"none", "identify", "read", "write"}
  /\ at \in {"idle", "ready", "data", "drained", "flushed"}
  /\ polls \in 0..(POLLS - 1)
  /\ count \in 0..MaxCount
  /\ value \in Value
  /\ attempt \in 0..(ATTEMPTS - 1)
  /\ issued \in 0..ATTEMPTS

TypeOK == FlagsOK /\ ValuesOK

Init ==
  /\ present \in BOOLEAN
  /\ bsy = FALSE /\ drq = FALSE /\ err = FALSE
  /\ command = "none"
  /\ sectors = 0
  /\ buffer \in Value /\ cache = buffer /\ platter = buffer
  /\ op = "none"
  /\ at = "idle"
  /\ polls = 0
  /\ count = 0
  /\ value = buffer
  /\ attempt = 0
  /\ issued = 0
  /\ trouble = FALSE

-----------------------------------------------------------------------------
(***************************************************************************)
(* The callers                                                             *)
(***************************************************************************)

\* Scroll::load asks for the size of the disk.
Identify ==
  /\ at = "idle"
  /\ op' = "identify" /\ count' = 1
  /\ at' = "ready" /\ polls' = 0
  /\ UNCHANGED <<drive, value, caller>>

\* load reads a sector, or pump a run of them, once identify has found a drive.
Read(n) ==
  /\ at = "idle"
  /\ present
  /\ op' = "read" /\ count' = n
  /\ at' = "ready" /\ polls' = 0
  /\ UNCHANGED <<drive, value, caller>>

\* Scroll::write goes on after trouble.
MutWrite(v) ==
  /\ at = "idle"
  /\ present
  /\ op' = "write" /\ value' = v
  /\ at' = "ready" /\ polls' = 0
  /\ attempt' = 0 /\ issued' = 0
  /\ UNCHANGED <<drive, count, trouble>>

\* Scroll::write with a new sector; after trouble it does nothing.
Write(v) ==
  /\ at = "idle"
  /\ present
  /\ ~trouble
  /\ op' = "write" /\ value' = v
  /\ at' = "ready" /\ polls' = 0
  /\ attempt' = 0 /\ issued' = 0
  /\ UNCHANGED <<drive, count, trouble>>

Return == op' = "none" /\ at' = "idle" /\ polls' = 0 /\ UNCHANGED value

\* The function returns Ok: all three callers are done.
Succeed == Return /\ count' = 0 /\ UNCHANGED caller

\* It returns Err: write tries again or gives up, the others just return.
Fail ==
  /\ count' = 0
  /\ \/ /\ op # "write"
        /\ Return
        /\ UNCHANGED caller
     \/ /\ op = "write"
        /\ attempt + 1 < ATTEMPTS
        /\ attempt' = attempt + 1
        /\ at' = "ready" /\ polls' = 0
        /\ UNCHANGED <<op, value, issued, trouble>>
     \/ /\ op = "write"
        /\ attempt + 1 = ATTEMPTS
        /\ trouble' = TRUE
        /\ Return
        /\ UNCHANGED <<attempt, issued>>

-----------------------------------------------------------------------------
(***************************************************************************)
(* The driver                                                              *)
(***************************************************************************)

\* A write to the command port.
Command(c) ==
  /\ command' = c
  /\ bsy' = TRUE /\ drq' = FALSE /\ err' = FALSE
  /\ UNCHANGED present

\* A wait does not count its status reads.
MutPollForever == UNCHANGED driver

\* The wait goes round once more.
Poll == polls + 1 < POLLS /\ polls' = polls + 1 /\ UNCHANGED <<op, at, count, value>>

\* One more status read that settles nothing: go round again or time out.
StillWaiting ==
  \/ Poll /\ UNCHANGED <<drive, caller>>
  \/ polls + 1 = POLLS /\ Fail /\ UNCHANGED drive

\* wait_not_busy looks at STATUS_BSY alone.
MutNotBusy == ~bsy

\* wait_not_busy, with error bits left over from any earlier command.
NotBusy == ~bsy /\ ~err
wait_not_busy ==
  \/ bsy /\ StillWaiting
  \/ ~bsy /\ err /\ Fail /\ UNCHANGED drive

Waiting == at \in {"ready", "drained", "flushed"} /\ wait_not_busy

\* issue, and the command sequences of identify and read_sectors.
issue ==
  /\ at = "ready"
  /\ present
  /\ NotBusy
  /\ Command(op)
  /\ sectors' = count
  /\ at' = "data" /\ polls' = 0
  /\ issued' = IF op = "write" THEN issued + 1 ELSE issued
  /\ UNCHANGED <<buffer, cache, platter, op, count, value, attempt, trouble>>

\* identify: status() == 0 after the command.
NoDrive ==
  /\ at = "ready"
  /\ ~present
  /\ Fail
  /\ UNCHANGED drive

wait_data_request ==
  /\ at = "data"
  /\ \/ err /\ Fail /\ UNCHANGED drive
     \/ ~err /\ (bsy \/ ~drq) /\ StillWaiting

DataRequested == at = "data" /\ ~err /\ ~bsy /\ drq

\* insw_sector: the drive goes on to the next sector, or is done.
TakeSector ==
  /\ DataRequested
  /\ op \in {"identify", "read"}
  /\ drq' = FALSE
  /\ sectors' = sectors - 1
  /\ bsy' = (sectors' > 0)
  /\ command' = IF sectors' > 0 THEN command ELSE "none"
  /\ UNCHANGED <<present, err, buffer, cache, platter>>
  /\ \/ /\ count > 1
        /\ count' = count - 1
        /\ polls' = 0
        /\ UNCHANGED <<op, at, value, caller>>
     \/ /\ count = 1
        /\ Succeed

\* The 256 words of write_sector.
GiveSector ==
  /\ DataRequested
  /\ op = "write"
  /\ drq' = FALSE /\ bsy' = TRUE
  /\ command' = "program"
  /\ buffer' = value
  /\ at' = "drained" /\ polls' = 0
  /\ UNCHANGED <<present, err, sectors, cache, platter, op, count, value, caller>>

\* flush
flush ==
  /\ at = "drained"
  /\ NotBusy
  /\ Command("flush")
  /\ at' = "flushed" /\ polls' = 0
  /\ UNCHANGED <<sectors, buffer, cache, platter, op, count, value, caller>>

\* flush does not wait for the drive to finish.
MutWriteReturnsOk ==
  /\ at = "flushed"
  /\ Succeed
  /\ UNCHANGED drive

\* flush is done, and with it write_sector.
WriteReturnsOk ==
  /\ at = "flushed"
  /\ NotBusy
  /\ Succeed
  /\ UNCHANGED drive

Driver ==
  \/ Waiting
  \/ issue
  \/ NoDrive
  \/ wait_data_request
  \/ TakeSector
  \/ GiveSector
  \/ flush
  \/ WriteReturnsOk

-----------------------------------------------------------------------------
(***************************************************************************)
(* The drive                                                               *)
(***************************************************************************)

\* It is ready to hand over a sector, or to be given one.
DriveRequestsData ==
  /\ bsy
  /\ command \in {"identify", "read", "write"}
  /\ bsy' = FALSE /\ drq' = TRUE
  /\ UNCHANGED <<present, err, command, sectors, buffer, cache, platter, driver, caller>>

DriveProgrammed ==
  /\ bsy
  /\ command = "program"
  /\ cache' = buffer
  /\ bsy' = FALSE /\ command' = "none"
  /\ UNCHANGED <<present, drq, err, sectors, buffer, platter, driver, caller>>

DriveFlushed ==
  /\ bsy
  /\ command = "flush"
  /\ platter' = cache
  /\ bsy' = FALSE /\ command' = "none"
  /\ UNCHANGED <<present, drq, err, sectors, buffer, cache, driver, caller>>

\* It gives up; what it was writing may be written, half written or not.
DriveError ==
  /\ bsy
  /\ cache' \in IF command = "program" THEN {cache, buffer, Torn} ELSE {cache}
  /\ platter' \in IF command = "flush" THEN {platter, cache, Torn} ELSE {platter}
  /\ bsy' = FALSE /\ drq' = FALSE /\ err' = TRUE
  /\ command' = "none"
  /\ UNCHANGED <<present, sectors, buffer, driver, caller>>

\* It writes its cache back on its own.
Destage ==
  /\ platter # cache
  /\ platter' = cache
  /\ UNCHANGED <<present, bsy, drq, err, command, sectors, buffer, cache, driver, caller>>

Drive ==
  \/ DriveRequestsData
  \/ DriveProgrammed
  \/ DriveFlushed
  \/ DriveError
  \/ Destage

Next ==
  \/ Identify
  \/ \E n \in 1..MaxCount : Read(n)
  \/ \E v \in Value : Write(v)
  \/ Driver
  \/ Drive

Spec == Init /\ [][Next]_vars

\* The driver polls on its own; nothing is expected of the drive.
FairSpec == Spec /\ WF_vars(Driver)

-----------------------------------------------------------------------------
(***************************************************************************)
(* Properties                                                              *)
(***************************************************************************)

(* write_sector returns Ok only when the sector is on the medium ("every   *)
(* keystroke reaches the platter", ata.rs:165), whatever earlier commands  *)
(* timed out, were overtaken or left behind in the drive's cache.          *)
OkMeansDurable == [][WriteReturnsOk => platter = value]_vars

Sector == INSTANCE SectorWrite WITH
            content <- platter, wanted <- value,
            phase <- IF trouble THEN "given_up" ELSE IF op = "write" THEN "writing" ELSE "quiet"

(* To the scroll, Scroll::write on this driver and this drive is a write   *)
(* that succeeds with all of the sector on the medium or fails with any    *)
(* part of it there, and it is over when it has succeeded: nothing the     *)
(* drive still has in its cache, or was told by an attempt that timed out, *)
(* changes the sector behind the scroll's back.                            *)
RefinesSectorWrite == Sector!Spec

(* One error is the end of the session for the disk: the driver waits for  *)
(* an idle drive without error before each command, and only a command     *)
(* would clear the error.  No later read or write of any caller returns    *)
(* Ok, and none reaches the drive (ata.rs:55): pump, which is called again *)
(* on every pass of the main loop, is refused for good.                    *)
ErrorIsFinal ==
  [][err => err' /\ command' = "none" /\ ~TakeSector /\ ~WriteReturnsOk]_vars

(* A drive that stops answering does not hang the typewriter: every call   *)
(* returns, because every wait is bounded and write gives up.              *)
CallReturns == at # "idle" ~> at = "idle"

(* "Disk write error -> retry" (the design's failure handling), and        *)
(* WRITE_TROUBLE is "Set when a sector write keeps failing" (scroll.rs:7): *)
(* the warning means that the drive was given the sector three times,      *)
(* unless it is busy still.                                                *)
RetryReachesDrive == [][~trouble /\ trouble' => bsy \/ issued = ATTEMPTS]_vars
=============================================================================
