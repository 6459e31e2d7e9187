-------------------------------- MODULE Rtc ---------------------------------
(***************************************************************************)
(* read_date (rtc.rs): the date for the boot separator is read from the    *)
(* CMOS clock one register at a time while the clock goes on.  It waits    *)
(* for the update flag, reads all registers until two readings agree, and  *)
(* decodes what it read by the modes in status register B.                 *)
(*                                                                         *)
(* The chip is external: its registers change together when an update      *)
(* ends, in between the flag is set.  The flag may also be set for good.   *)
(***************************************************************************)
EXTENDS Naturals, Sequences

CONSTANTS
  RTC_POLLS,  \* reads of the update flag (10_000)
  RETRIES,    \* further readings until two agree (10)
  Shows       \* what the clock shows, time by time, in some stretch

Time == [hour : 0..23, minute : 0..59, day : 0..99, month : 0..99, year : 0..99]

ASSUME RtcAssumption == RTC_POLLS \in Nat \ {0} /\ RETRIES \in Nat \ {0}

\* No register comes back to a value it had before: the fastest of them takes
\* an hour, and the call takes milliseconds.
ASSUME ShowsAssumption ==
  \A show \in Shows :
    /\ show \in Seq(Time) /\ show # <<>>
    /\ \A i, j, k \in 1..Len(show) :
         \A field \in {"hour", "minute", "day", "month", "year"} :
           i < j /\ j < k /\ show[i][field] = show[k][field] =>
             show[j][field] = show[i][field]

VARIABLES
  \* the clock
  show,      \* what it shows
  now,       \*   and how far it is
  uip,       \* update in progress
  mode,      \* status register B
  \* read_date
  rtcAt,     \* where it is
  turns,     \* reads of the flag, or readings that differed, so far
  raw,       \* the last complete reading
  again,     \* the registers of the reading under way
  outcome,   \* "reading", "some", or the reason for None
  date,      \* the date of Some
  since      \* for the properties: where the clock was when the call began

clockVars == <<show, now, uip, mode>>
callVars  == <<rtcAt, turns, raw, again, outcome, date, since>>
rtcVars   == <<clockVars, callVars>>

Registers == <<"hour", "minute", "day", "month", "year">>

Mode == [binary : BOOLEAN, hour_24 : BOOLEAN]

NoDate == [hour |-> 0, minute |-> 0, day |-> 0, month |-> 0, year |-> 0]

RtcTypeOK ==
  /\ show \in Shows
  /\ now \in 1..Len(show) /\ since \in 1..now
  /\ uip \in BOOLEAN
  /\ mode \in Mode
  /\ rtcAt \in {"wait", "check", "read", "decode", "returned"}
  /\ turns \in 0..(IF RTC_POLLS > RETRIES THEN RTC_POLLS ELSE RETRIES)
  /\ raw \in Seq(0..255) /\ Len(raw) \in {0, 5}
  /\ again \in Seq(0..255) /\ Len(again) < 5
  /\ outcome \in {"reading", "some", "updating", "unstable", "garbled"}
  /\ date \in [hour : 0..23, minute : 0..59, day : 1..31, month : 1..12, year : 2000..2099]
       \/ date = NoDate

RtcInit ==
  /\ show \in Shows
  /\ now \in 1..Len(show) /\ since = now
  /\ uip \in BOOLEAN
  /\ mode \in Mode
  /\ rtcAt = "wait"
  /\ turns = 0
  /\ raw = <<>> /\ again = <<>>
  /\ outcome = "reading"
  /\ date = NoDate

-----------------------------------------------------------------------------
(***************************************************************************)
(* The chip                                                                *)
(***************************************************************************)

Stored(v) == IF mode.binary THEN v ELSE 16 * (v \div 10) + (v % 10)

StoredHour(h) ==
  IF mode.hour_24 THEN Stored(h)
  ELSE Stored(IF h % 12 = 0 THEN 12 ELSE h % 12) + (IF h >= 12 THEN 128 ELSE 0)

Register(field) ==
  IF field = "hour" THEN StoredHour(show[now].hour) ELSE Stored(show[now][field])

BeginUpdate ==
  /\ ~uip
  /\ uip' = TRUE
  /\ UNCHANGED <<show, now, mode, callVars>>

\* Most updates change only the seconds.
EndUpdate ==
  /\ uip
  /\ uip' = FALSE
  /\ now' \in {now, now + 1} \cap (1..Len(show))
  /\ UNCHANGED <<show, mode, callVars>>

-----------------------------------------------------------------------------
(***************************************************************************)
(* read_date                                                               *)
(***************************************************************************)

Return(result) == rtcAt' = "returned" /\ outcome' = result

\* The flag is waited for without a bound.
MutWaitForUpdate ==
  /\ rtcAt = "wait"
  /\ ~uip
  /\ rtcAt' = "check" /\ turns' = 0
  /\ UNCHANGED <<clockVars, raw, again, outcome, date, since>>

\* One read of the flag in the loop that waits it out.
WaitForUpdate ==
  /\ rtcAt = "wait"
  /\ \/ uip /\ turns + 1 < RTC_POLLS /\ turns' = turns + 1 /\ UNCHANGED rtcAt
     \/ /\ ~uip \/ turns + 1 = RTC_POLLS
        /\ rtcAt' = "check" /\ turns' = 0
  /\ UNCHANGED <<clockVars, raw, again, outcome, date, since>>

CheckFlag ==
  /\ rtcAt = "check"
  /\ \/ uip /\ Return("updating")
     \/ ~uip /\ rtcAt' = "read" /\ UNCHANGED outcome
  /\ UNCHANGED <<clockVars, turns, raw, again, date, since>>

\* read_raw, one register after the other.
ReadRegister ==
  /\ rtcAt = "read"
  /\ Len(again) + 1 < Len(Registers)
  /\ again' = Append(again, Register(Registers[Len(again) + 1]))
  /\ UNCHANGED <<clockVars, rtcAt, turns, raw, outcome, date, since>>

\* The hour is not compared.
MutAgree(reading) == Tail(reading) = Tail(raw)

Agree(reading) == reading = raw

\* The last register, and what is done with the reading.
LastRegister ==
  /\ rtcAt = "read"
  /\ Len(again) + 1 = Len(Registers)
  /\ again' = <<>>
  /\ LET reading == Append(again, Register("year"))
     IN  \/ raw = <<>> /\ raw' = reading /\ UNCHANGED <<rtcAt, turns, outcome>>
         \/ /\ raw # <<>> /\ Agree(reading)
            /\ rtcAt' = "decode"
            /\ UNCHANGED <<raw, turns, outcome>>
         \/ /\ raw # <<>> /\ ~Agree(reading)
            /\ raw' = reading
            /\ turns' = turns + 1
            /\ IF turns' < RETRIES THEN UNCHANGED <<rtcAt, outcome>> ELSE Return("unstable")
  /\ UNCHANGED <<clockVars, date, since>>

\* v / 16 * 10 + v % 16 in BCD, v in binary mode
decode(v) == IF mode.binary THEN v ELSE 10 * (v \div 16) + (v % 16)

\* Noon and midnight are taken for any other 12.
MutDecodeHour(v) ==
  LET pm == v >= 128  h12 == decode(v % 128)
  IN  IF mode.hour_24 THEN decode(v) ELSE IF pm THEN h12 + 12 ELSE h12

\* The PM bit is masked off before the hour is decoded.
decode_hour(v) ==
  LET pm == v >= 128  h12 == decode(v % 128)
  IN  CASE mode.hour_24 -> decode(v)
        [] ~mode.hour_24 /\ ~pm /\ h12 = 12 -> 0
        [] ~mode.hour_24 /\ ~pm /\ h12 # 12 -> h12
        [] ~mode.hour_24 /\ pm /\ h12 = 12 -> 12
        [] ~mode.hour_24 /\ pm /\ h12 # 12 -> h12 + 12

InRange(d) ==
  /\ d.day \in 1..31 /\ d.month \in 1..12 /\ d.year <= 99
  /\ d.hour <= 23 /\ d.minute <= 59

Decode ==
  /\ rtcAt = "decode"
  /\ LET read == [hour |-> decode_hour(raw[1]), minute |-> decode(raw[2]),
                  day |-> decode(raw[3]), month |-> decode(raw[4]), year |-> decode(raw[5])]
     IN  \/ InRange(read) /\ Return("some") /\ date' = [read EXCEPT !.year = 2000 + @]
         \/ ~InRange(read) /\ Return("garbled") /\ UNCHANGED date
  /\ UNCHANGED <<clockVars, turns, raw, again, since>>

read_date == WaitForUpdate \/ CheckFlag \/ ReadRegister \/ LastRegister \/ Decode

RtcNext == read_date \/ BeginUpdate \/ EndUpdate

\* The kernel runs; the clock may stop, with the flag set or not.
RtcSpec == RtcInit /\ [][RtcNext]_rtcVars /\ WF_rtcVars(read_date)

-----------------------------------------------------------------------------
(***************************************************************************)
(* Properties                                                              *)
(***************************************************************************)

(* The date of Some is one the clock showed during the call, all of it at  *)
(* once ("no torn values", rtc.rs:38), although it was read a register at  *)
(* a time across hours, days and years, in each of the chip's modes.       *)
DateWasShown ==
  outcome = "some" =>
    \E i \in since..now : date = [show[i] EXCEPT !.year = 2000 + @]

(* "Any weirdness returns None" (rtc.rs:39), and nothing else does: the    *)
(* update flag apart, None means that the clock showed an impossible date, *)
(* or that it moved on at least once for every two of the readings tried,  *)
(* which takes minutes.                                                    *)
NoneIsWeird ==
  /\ outcome = "garbled" => \E i \in since..now : ~InRange(show[i])
  /\ outcome = "unstable" => 2 * (now - since) >= RETRIES

(* "A garbled date must never block boot" (rtc.rs:39), nor a clock that    *)
(* never finishes an update or is different every time it is read.         *)
DateReturns == <>(rtcAt = "returned")
=============================================================================
