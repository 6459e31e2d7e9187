----------------------------- MODULE AtaProofs ------------------------------
(***************************************************************************)
(* Scroll::write on the driver of Ata implements SectorWrite, for every    *)
(* set of contents, every bound on the polls and every length of a read,   *)
(* and Ok from write_sector means that the sector is on the medium.        *)
(***************************************************************************)
EXTENDS Ata, TLAPS

(***************************************************************************)
(* The inductive invariant.  OkMeansDurable looks at one moment; to get    *)
(* there one has to know what the drive may still be doing for an attempt  *)
(* that timed out, and what the last successful write left behind.         *)
(***************************************************************************)

\* Which function is in which wait, and what a read has left to do.
CallInv ==
  /\ op = "none" <=> at = "idle"
  /\ at \in {"drained", "flushed"} => op = "write"
  /\ op \in {"none", "write"} => count = 0
  /\ op \in {"identify", "read"} => count > 0
  /\ at = "data" /\ op # "write" => sectors = count
  /\ op = "write" => ~trouble
  /\ issued <= attempt + (IF op = "write" /\ at = "ready" THEN 0 ELSE 1)

\* The drive writes only while it is busy, and only what it was given last.
DriveInv ==
  /\ command \in {"program", "flush"} => bsy
  /\ command = "program" => buffer = value
  /\ command = "flush" => cache = value

\* What is on its way to the medium is the sector to be written; without a
\* write under way there is nothing on its way.
MediumInv ==
  /\ cache \in {platter, value, Torn}
  /\ op # "write" /\ ~trouble =>
       /\ platter = value /\ cache = value
       /\ command \notin {"program", "flush"}

\* How far write_sector is, unless the drive has reported an error.
ProgressInv ==
  /\ at = "drained" /\ ~err => IF bsy THEN command = "program" ELSE cache = value
  /\ at = "flushed" /\ ~err => IF bsy THEN command = "flush" /\ cache = value
                                ELSE cache = value /\ platter = value

IInv == TypeOK /\ CallInv /\ DriveInv /\ MediumInv /\ ProgressInv

-----------------------------------------------------------------------------
LEMMA InitInv == Init => IInv
<1> SUFFICES ASSUME Init PROVE IInv
  OBVIOUS
<1>1. FlagsOK
  BY Zenon DEF Init, FlagsOK
<1>4. ValuesOK
  BY PollsAssumption, CountAssumption DEF Init, ValuesOK, Content, ATTEMPTS
<1>2. CallInv
  BY DEF Init, CallInv
<1>3. DriveInv /\ MediumInv /\ ProgressInv
  BY DEF Init, DriveInv, MediumInv, ProgressInv
<1> QED BY <1>1, <1>2, <1>3, <1>4 DEF IInv, TypeOK

(***************************************************************************)
(* The driver's steps.  A wait that goes on and a call that fails leave    *)
(* the drive alone.                                                        *)
(***************************************************************************)
LEMMA PollStep ==
  ASSUME IInv, Poll, UNCHANGED <<drive, caller>>
  PROVE  IInv'
BY PollsAssumption
   DEF IInv, TypeOK, FlagsOK, ValuesOK, CallInv, DriveInv, MediumInv, ProgressInv, Poll,
       drive, caller

LEMMA FailStep ==
  ASSUME IInv, at # "idle", Fail, UNCHANGED drive
  PROVE  IInv'
<1> USE PollsAssumption, CountAssumption
        DEF IInv, TypeOK, FlagsOK, ValuesOK, CallInv, DriveInv, MediumInv, ProgressInv, drive
<1>1. CASE op # "write" /\ Return /\ count' = 0 /\ UNCHANGED caller
  BY <1>1 DEF Return, caller
<1>2. CASE /\ op = "write" /\ attempt + 1 < ATTEMPTS
           /\ attempt' = attempt + 1
           /\ at' = "ready" /\ polls' = 0 /\ count' = 0
           /\ UNCHANGED <<op, value, issued, trouble>>
  BY <1>2 DEF ATTEMPTS
<1>3. CASE /\ op = "write" /\ attempt + 1 = ATTEMPTS
           /\ trouble' = TRUE /\ count' = 0
           /\ Return
           /\ UNCHANGED <<attempt, issued>>
  BY <1>3 DEF Return, ATTEMPTS
<1> QED BY <1>1, <1>2, <1>3 DEF Fail

LEMMA WaitStep ==
  ASSUME IInv, at # "idle", StillWaiting
  PROVE  IInv'
BY PollStep, FailStep DEF StillWaiting

LEMMA CallStep ==
  ASSUME IInv,
         Identify \/ (\E n \in 1..MaxCount : Read(n)) \/ (\E v \in Value : Write(v))
  PROVE  IInv'
<1> USE PollsAssumption, CountAssumption
        DEF IInv, TypeOK, FlagsOK, ValuesOK, CallInv, DriveInv, MediumInv, ProgressInv,
            drive, caller
<1>1. CASE Identify
  BY <1>1 DEF Identify
<1>2. ASSUME NEW n \in 1..MaxCount, Read(n) PROVE IInv'
  BY <1>2 DEF Read
<1>3. ASSUME NEW v \in Value, Write(v) PROVE IInv'
  BY <1>3 DEF Write, ATTEMPTS, Content
<1> QED BY <1>1, <1>2, <1>3

LEMMA DriverStep == ASSUME IInv, Driver PROVE IInv'
<1>1. CASE Waiting
  BY <1>1, WaitStep, FailStep DEF Waiting, wait_not_busy
<1>2. CASE issue
  <2> USE <1>2, PollsAssumption, CountAssumption DEF IInv, issue, Command
  <2>1. FlagsOK'
    BY Zenon DEF TypeOK, FlagsOK
  <2>4. ValuesOK'
    BY DEF TypeOK, FlagsOK, ValuesOK, CallInv, ATTEMPTS
  <2>2. CallInv'
    BY DEF TypeOK, FlagsOK, ValuesOK, CallInv
  <2>3. DriveInv' /\ MediumInv' /\ ProgressInv'
    BY DEF TypeOK, FlagsOK, ValuesOK, CallInv, DriveInv, MediumInv, ProgressInv, NotBusy
  <2> QED BY <2>1, <2>2, <2>3, <2>4 DEF TypeOK
<1>3. CASE NoDrive
  BY <1>3, FailStep DEF NoDrive
<1>4. CASE wait_data_request
  BY <1>4, WaitStep, FailStep DEF wait_data_request
<1>5. CASE TakeSector
  <2> USE <1>5, PollsAssumption, CountAssumption
          DEF IInv, TakeSector, DataRequested, Succeed, Return, caller
  <2>1. FlagsOK'
    <3>1. (sectors' > 0) \in BOOLEAN
      OBVIOUS
    <3> QED BY <3>1, Zenon DEF TypeOK, FlagsOK
  <2>4. ValuesOK'
    BY DEF TypeOK, FlagsOK, ValuesOK, CallInv
  <2>2. CallInv'
    BY DEF TypeOK, FlagsOK, ValuesOK, CallInv
  <2>3. DriveInv' /\ MediumInv' /\ ProgressInv'
    BY DEF TypeOK, FlagsOK, ValuesOK, CallInv, DriveInv, MediumInv, ProgressInv
  <2> QED BY <2>1, <2>2, <2>3, <2>4 DEF TypeOK
<1>6. CASE GiveSector
  <2> USE <1>6, PollsAssumption, CountAssumption
          DEF IInv, GiveSector, DataRequested, caller
  <2>1. FlagsOK'
    BY Zenon DEF TypeOK, FlagsOK
  <2>4. ValuesOK'
    BY DEF TypeOK, FlagsOK, ValuesOK, Content
  <2>2. CallInv'
    BY DEF TypeOK, FlagsOK, ValuesOK, CallInv
  <2>3. DriveInv' /\ MediumInv' /\ ProgressInv'
    BY DEF TypeOK, FlagsOK, ValuesOK, CallInv, DriveInv, MediumInv, ProgressInv
  <2> QED BY <2>1, <2>2, <2>3, <2>4 DEF TypeOK
<1>7. CASE flush
  <2> USE <1>7, PollsAssumption, CountAssumption DEF IInv, flush, Command, caller
  <2>1. FlagsOK'
    BY Zenon DEF TypeOK, FlagsOK
  <2>4. ValuesOK'
    BY DEF TypeOK, FlagsOK, ValuesOK
  <2>2. CallInv'
    BY DEF TypeOK, FlagsOK, ValuesOK, CallInv
  <2>3. DriveInv' /\ MediumInv' /\ ProgressInv'
    BY DEF TypeOK, FlagsOK, ValuesOK, CallInv, DriveInv, MediumInv, ProgressInv, NotBusy
  <2> QED BY <2>1, <2>2, <2>3, <2>4 DEF TypeOK
<1>8. CASE WriteReturnsOk
  BY <1>8, PollsAssumption, CountAssumption
     DEF IInv, TypeOK, FlagsOK, ValuesOK, CallInv, DriveInv, MediumInv, ProgressInv,
         WriteReturnsOk, NotBusy, Succeed, Return, drive, caller
<1> QED BY <1>1, <1>2, <1>3, <1>4, <1>5, <1>6, <1>7, <1>8 DEF Driver

LEMMA DriveStep == ASSUME IInv, Drive PROVE IInv'
<1> USE DEF IInv, TypeOK, FlagsOK, ValuesOK, CallInv, DriveInv, MediumInv, ProgressInv,
            driver, caller
<1>1. CASE DriveRequestsData
  <2>1. TypeOK' /\ CallInv'
    BY <1>1 DEF DriveRequestsData
  <2>2. DriveInv' /\ MediumInv'
    BY <1>1 DEF DriveRequestsData
  <2>3. ProgressInv'
    BY <1>1 DEF DriveRequestsData
  <2> QED BY ONLY <2>1, <2>2, <2>3 DEF IInv
<1>2. CASE DriveProgrammed
  BY <1>2 DEF DriveProgrammed
<1>3. CASE DriveFlushed
  BY <1>3 DEF DriveFlushed
<1>4. CASE DriveError
  <2>1. /\ cache' \in {cache, value, Torn} /\ cache' \in Content
        /\ platter' \in {platter, cache, Torn} /\ platter' \in Content
        /\ command \notin {"program", "flush"} => cache' = cache /\ platter' = platter
        /\ cache' # cache => cache' \in {value, Torn} /\ platter' = platter
        /\ platter' # platter => cache' = value
        /\ bsy' = FALSE /\ drq' = FALSE /\ err' = TRUE /\ command' = "none"
        /\ UNCHANGED <<present, sectors, buffer, driver, caller>>
    BY <1>4 DEF DriveError, Content
  <2> HIDE DEF TypeOK, CallInv, DriveInv, MediumInv, ProgressInv
  <2>2. FlagsOK' /\ ValuesOK'
    BY <2>1 DEF TypeOK
  <2>3. CallInv' /\ DriveInv' /\ ProgressInv'
    BY <2>1 DEF CallInv, DriveInv, ProgressInv
  <2>4. MediumInv'
    BY <2>1 DEF MediumInv
  <2> QED BY <2>2, <2>3, <2>4 DEF TypeOK
<1>5. CASE Destage
  BY <1>5 DEF Destage
<1> QED BY <1>1, <1>2, <1>3, <1>4, <1>5 DEF Drive

LEMMA NextInv == IInv /\ [Next]_vars => IInv'
<1> SUFFICES ASSUME IInv, [Next]_vars PROVE IInv'
  OBVIOUS
<1>1. CASE UNCHANGED vars
  BY <1>1 DEF IInv, TypeOK, FlagsOK, ValuesOK, CallInv, DriveInv, MediumInv, ProgressInv,
              vars, drive, driver, caller
<1>2. CASE Next
  BY <1>2, CallStep, DriverStep, DriveStep DEF Next
<1> QED BY <1>1, <1>2

\* Driver and drive always satisfy the invariant above.
THEOREM Invariance == Spec => []IInv
BY InitInv, NextInv, PTL DEF Spec

-----------------------------------------------------------------------------
(* No wait counts past its bound, no read asks the drive for more than it  *)
(* has, and Scroll::write issues three write commands at most.             *)
THEOREM TypeCorrect == Spec => []TypeOK
BY Invariance, PTL DEF IInv

(* write_sector returns Ok only when the sector is on the medium: at that  *)
(* moment the drive has answered the flush of this very attempt.           *)
THEOREM OkIsDurable == Spec => OkMeansDurable
<1>1. IInv => (WriteReturnsOk => platter = value)
  BY DEF IInv, ProgressInv, WriteReturnsOk, NotBusy
<1>2. IInv /\ [Next]_vars => [WriteReturnsOk => platter = value]_vars
  BY <1>1
<1> QED BY <1>2, Invariance, PTL DEF Spec, OkMeansDurable

\* A drive in error does nothing until it is given a command.
ErrInv == err => ~bsy /\ command = "none"

LEMMA ErrStep ==
  ASSUME ErrInv, [Next]_vars
  PROVE  /\ ErrInv'
         /\ err => err' /\ command' = "none" /\ ~TakeSector /\ ~WriteReturnsOk
<1> USE DEF ErrInv
<1>1. CASE UNCHANGED vars
  BY <1>1 DEF vars, drive, TakeSector, DataRequested, WriteReturnsOk, NotBusy
<1>2. CASE Identify \/ (\E n \in 1..MaxCount : Read(n)) \/ (\E v \in Value : Write(v))
  BY <1>2 DEF Identify, Read, Write, TakeSector, DataRequested, WriteReturnsOk, NotBusy, drive
<1>3. CASE Driver
  BY <1>3 DEF Driver, Waiting, wait_not_busy, StillWaiting, issue, Command, NoDrive,
              wait_data_request, TakeSector, GiveSector, DataRequested, flush,
              WriteReturnsOk, NotBusy, drive
<1>4. CASE Drive
  BY <1>4 DEF Drive, DriveRequestsData, DriveProgrammed, DriveFlushed, DriveError, Destage,
              TakeSector, DataRequested, WriteReturnsOk, NotBusy
<1> QED BY <1>1, <1>2, <1>3, <1>4 DEF Next

(* After one error no command reaches the drive and no call returns Ok,    *)
(* for every bound on the polls and every length of a read.                *)
THEOREM ErrorStaysFinal == Spec => ErrorIsFinal
<1>1. Init => ErrInv
  BY DEF Init, ErrInv
<1>2. ErrInv /\ [Next]_vars => ErrInv'
  BY ErrStep
<1>3. ErrInv /\ [Next]_vars =>
        [err => err' /\ command' = "none" /\ ~TakeSector /\ ~WriteReturnsOk]_vars
  BY ErrStep
<1> QED BY <1>1, <1>2, <1>3, PTL DEF Spec, ErrorIsFinal

(***************************************************************************)
(* The refinement.  Steps of the driver that end no call of Scroll::write  *)
(* and steps of the drive that leave the platter alone are stuttering.     *)
(***************************************************************************)
Phase == IF trouble THEN "given_up" ELSE IF op = "write" THEN "writing" ELSE "quiet"

Stutter == UNCHANGED <<platter, value, trouble>> /\ (op' = "write" <=> op = "write")

LEMMA StutterMaps == ASSUME Stutter PROVE UNCHANGED <<platter, value, Phase>>
BY DEF Stutter, Phase

LEMMA InitMaps == Init => Sector!Init
BY DEF Init, Sector!Init

\* A failed call is a stutter, or the end of the last attempt.
LEMMA FailMaps ==
  ASSUME IInv, at # "idle", Fail, UNCHANGED drive
  PROVE  Stutter \/ Sector!GiveUp
<1>1. CASE op = "write" /\ trouble' = TRUE /\ Return
  BY <1>1 DEF IInv, CallInv, Return, drive, Sector!GiveUp
<1>2. CASE op # "write" /\ Return /\ UNCHANGED caller
  BY <1>2 DEF Return, drive, caller, Stutter
<1>3. CASE UNCHANGED <<op, value, trouble>>
  BY <1>3 DEF drive, Stutter
<1> QED BY <1>1, <1>2, <1>3 DEF Fail

LEMMA WaitMaps ==
  ASSUME IInv, at # "idle", StillWaiting
  PROVE  Stutter \/ Sector!GiveUp
<1>1. CASE Poll /\ UNCHANGED <<drive, caller>>
  BY <1>1 DEF Poll, drive, caller, Stutter
<1> QED BY <1>1, FailMaps DEF StillWaiting

LEMMA CallMaps ==
  ASSUME IInv,
         Identify \/ (\E n \in 1..MaxCount : Read(n)) \/ (\E v \in Value : Write(v))
  PROVE  Stutter \/ Sector!Next
<1>1. CASE Identify \/ (\E n \in 1..MaxCount : Read(n))
  BY <1>1 DEF Identify, Read, drive, caller, Stutter, IInv, CallInv
<1>2. ASSUME NEW v \in Value, Write(v) PROVE Sector!Start(v)
  BY <1>2 DEF Write, drive, caller, IInv, CallInv, Sector!Start
<1> QED BY <1>1, <1>2 DEF Sector!Next

LEMMA DriverMaps == ASSUME IInv, Driver PROVE Stutter \/ Sector!Next
<1>1. CASE Waiting
  BY <1>1, WaitMaps, FailMaps DEF Waiting, wait_not_busy, Sector!Next
<1>2. CASE issue
  BY <1>2 DEF issue, Stutter
<1>3. CASE NoDrive
  BY <1>3, FailMaps DEF NoDrive, Sector!Next
<1>4. CASE wait_data_request
  BY <1>4, WaitMaps, FailMaps DEF wait_data_request, Sector!Next
<1>5. CASE TakeSector
  BY <1>5 DEF TakeSector, Succeed, Return, caller, Stutter
<1>6. CASE GiveSector
  BY <1>6 DEF GiveSector, caller, Stutter
<1>7. CASE flush
  BY <1>7 DEF flush, caller, Stutter
<1>8. CASE WriteReturnsOk
  BY <1>8 DEF WriteReturnsOk, NotBusy, Succeed, Return, drive, caller,
              IInv, CallInv, ProgressInv, Sector!Next, Sector!Succeed
<1> QED BY <1>1, <1>2, <1>3, <1>4, <1>5, <1>6, <1>7, <1>8 DEF Driver

LEMMA DriveMaps == ASSUME IInv, Drive PROVE Stutter \/ Sector!Next
<1>1. CASE platter' = platter
  BY <1>1 DEF Drive, DriveRequestsData, DriveProgrammed, DriveFlushed, DriveError, Destage,
              driver, caller, Stutter
<1>2. CASE platter' # platter
  <2>1. platter' \in {value, Torn}
    BY <1>2 DEF Drive, DriveRequestsData, DriveProgrammed, DriveFlushed, DriveError, Destage,
                IInv, MediumInv
  <2>2. UNCHANGED <<op, value, trouble>>
    BY DEF Drive, DriveRequestsData, DriveProgrammed, DriveFlushed, DriveError, Destage,
           driver, caller
  <2>3. op = "write" \/ trouble
    BY <1>2 DEF Drive, DriveRequestsData, DriveProgrammed, DriveFlushed, DriveError, Destage,
                IInv, MediumInv
  <2> QED BY <2>1, <2>2, <2>3 DEF Sector!Next, Sector!Reach
<1> QED BY <1>1, <1>2

LEMMA NextMaps ==
  IInv /\ [Next]_vars => [Sector!Next]_<<platter, value, Phase>>
<1> SUFFICES ASSUME IInv, [Next]_vars
             PROVE  Sector!Next \/ UNCHANGED <<platter, value, Phase>>
  OBVIOUS
<1>1. CASE UNCHANGED vars
  BY <1>1 DEF vars, drive, driver, caller, Phase
<1>2. CASE Next
  BY <1>2, CallMaps, DriverMaps, DriveMaps, StutterMaps DEF Next
<1> QED BY <1>1, <1>2

(* Scroll::write on this driver is the sector write the scroll relies on:  *)
(* an attempt that timed out does not change the sector after a later one  *)
(* has succeeded.                                                          *)
THEOREM Refinement == Spec => RefinesSectorWrite
<1>1. IInv /\ [Next]_vars => [Sector!Next]_<<platter, value, Phase>>
  BY NextMaps
<1> QED BY <1>1, InitMaps, Invariance, PTL DEF Spec, RefinesSectorWrite, Sector!Spec, Phase
=============================================================================
