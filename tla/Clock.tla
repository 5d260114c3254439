-------------------------------- MODULE Clock --------------------------------
(***************************************************************************)
(* The time of day: rtc_read_datetime, which reads the real-time clock     *)
(* register by register while the chip goes on (rtc.c), the calendar and   *)
(* the timer interrupt (time.c).                                           *)
(*                                                                         *)
(* The chip is external.  It shows one second after another; during an     *)
(* update, which it announces with the flag UIP, a register read may give  *)
(* the old second or the new one.  An update may begin at any moment, also *)
(* just after the flag was looked at.  An instant is the number of seconds *)
(* since 1970.                                                             *)
(***************************************************************************)
EXTENDS Integers, Sequences

CONSTANTS Starts,     \* the instants at which the machine is started
          Tries,      \* tries of rtc_read_datetime: 10 in the code
          TickRate,   \* timer interrupts in a second: 1000 in the code
          MaxDelay,   \* seconds the registers may advance during a call
          MaxUpdates, \* bound: updates of the chip
          MaxTicks    \* bound: timer interrupts, below the 2^32 at which g_ticks_ms wraps

ASSUME ClockAssumption == /\ Starts \subseteq Nat /\ Starts # {}
                          /\ {Tries, TickRate} \subseteq Nat \ {0}
                          /\ {MaxDelay, MaxUpdates, MaxTicks} \subseteq Nat

\* The years a two-digit year register can tell, as far as the calendar here goes; and a
\* reading that is held up for less than a minute.
Instants == {t \in Nat : 946684800 <= t /\ t <= 2145916799}

ASSUME TimesAssumption == /\ \A t \in Starts : {t, t + MaxUpdates} \subseteq Instants
                          /\ MaxDelay < 60

VARIABLES chip,   \* the instant shown, UIP, the mode of status register B, the updates so far
          rtc,    \* the call of rtc_read_datetime under way
          clock,  \* g_boot_epoch, g_boot_ticks_ms, g_ticks_ms, g_hour, g_minute, g_second
          result  \* what the last call returned, and the instants it began and ended at

vars == <<chip, rtc, clock, result>>

-----------------------------------------------------------------------------
(* What the chip shows: the date of an instant, and its registers.         *)

\* The date of a day, counted in years that begin in March from the year 0.
Civil(days) ==
  LET z   == days + 719468
      doe == z % 146097
      yoe == (doe - doe \div 1460 + doe \div 36524 - doe \div 146096) \div 365
      doy == doe - (365 * yoe + yoe \div 4 - yoe \div 100)
      mp  == (5 * doy + 2) \div 153
      mon == IF mp < 10 THEN mp + 3 ELSE mp - 9
  IN  [year |-> yoe + (z \div 146097) * 400 + (IF mon <= 2 THEN 1 ELSE 0),
       mon |-> mon, day |-> doy - (153 * mp + 2) \div 5 + 1]

DateTime(t) ==
  LET c == Civil(t \div 86400)
  IN  [year |-> c.year, mon |-> c.mon, day |-> c.day, hour |-> (t % 86400) \div 3600,
       min |-> (t % 3600) \div 60, sec |-> t % 60]

Fields == <<"sec", "min", "hour", "day", "mon", "year">>

Coded(mode, v) == IF mode.binary THEN v ELSE (v \div 10) * 16 + (v % 10)

\* In 12-hour mode midnight is 12 and the upper bit means after noon.
CodedHour(mode, h) ==
  IF mode.h24 THEN Coded(mode, h)
  ELSE Coded(mode, IF h % 12 = 0 THEN 12 ELSE h % 12) + (IF h >= 12 THEN 128 ELSE 0)

Register(mode, t, field) ==
  CASE field = "hour" -> CodedHour(mode, DateTime(t).hour)
    [] field = "year" -> Coded(mode, DateTime(t).year % 100)
    [] OTHER -> Coded(mode, DateTime(t)[field])

\* Instants from the beginning of the call to its end.
Overtaken == chip.t - rtc.from + (IF chip.uip THEN 1 ELSE 0)

At(label) == rtc.pc = label

\* No call is held up so long that the chip begins more than MaxDelay updates during it.
UpdateBegins ==
  /\ ~chip.uip /\ chip.updates < MaxUpdates
  /\ At("idle") \/ Overtaken < MaxDelay
  /\ chip' = [chip EXCEPT !.uip = TRUE, !.updates = @ + 1]
  /\ UNCHANGED <<rtc, clock, result>>

UpdateEnds ==
  /\ chip.uip
  /\ chip' = [chip EXCEPT !.uip = FALSE, !.t = @ + 1]
  /\ UNCHANGED <<rtc, clock, result>>

-----------------------------------------------------------------------------
(* The calendar of time.c.                                                 *)

IsLeap(y) == y % 4 = 0 /\ (y % 100 # 0 \/ y % 400 = 0)

DaysInMonth(y, m) ==
  IF m = 2 /\ IsLeap(y) THEN 29 ELSE <<31, 28, 31, 30, 31, 30, 31, 31, 30, 31, 30, 31>>[m]

YearDays(y) == IF IsLeap(y) THEN 366 ELSE 365
Years == 1970 .. 2038

DaysToYear ==
  LET days[y \in Years] == IF y = 1970 THEN 0 ELSE days[y - 1] + YearDays(y - 1)
  IN  [y \in Years |-> days[y]]

DaysToMonth ==
  [y \in Years |->
     LET days[m \in 1 .. 12] == IF m = 1 THEN 0 ELSE days[m - 1] + DaysInMonth(y, m - 1)
     IN  [m \in 1 .. 12 |-> days[m]]]

DaysSinceEpoch(y, m, d) == DaysToYear[y] + DaysToMonth[y][m] + (d - 1)

\* Mutant: the day itself is counted as past.
EpochDayCounted(d) ==
  (DaysSinceEpoch(d.year, d.mon, d.day) + 1) * 86400 + d.hour * 3600 + d.min * 60 + d.sec

\* datetime_to_epoch
Epoch(d) ==
  DaysSinceEpoch(d.year, d.mon, d.day) * 86400 + d.hour * 3600 + d.min * 60 + d.sec

\* epoch_to_datetime; its loops end at the year and the month the day lies in.
FromEpoch(e) ==
  LET days == e \div 86400
      y == CHOOSE n \in Years : days - DaysToYear[n] \in 0 .. YearDays(n) - 1
      m == CHOOSE n \in 1 .. 12 :
             days - DaysSinceEpoch(y, n, 1) \in 0 .. DaysInMonth(y, n) - 1
  IN  [year |-> y, mon |-> m, day |-> days - DaysSinceEpoch(y, m, 1) + 1,
       hour |-> (e % 86400) \div 3600, min |-> (e % 3600) \div 60, sec |-> e % 60]

\* time_now_datetime, for the ticks there have been.
Now == FromEpoch(clock.epoch + (clock.ticks - clock.bootTicks) \div TickRate)

-----------------------------------------------------------------------------
(* rtc_read_datetime *)

NoCall == [pc |-> "idle", for |-> "none", tries |-> 0, first |-> <<>>, second |-> <<>>, from |-> 0]
Nothing == [ok |-> FALSE, date |-> DateTime(0), for |-> "none", from |-> 0, overtaken |-> 0]

Begin(caller) ==
  /\ rtc' = [NoCall EXCEPT !.pc = "wait1", !.for = caller, !.from = chip.t]
  /\ UNCHANGED <<chip, clock, result>>

\* The loops that look at UIP go on when it is found clear.
Waited(label, next) ==
  /\ At(label) /\ ~chip.uip
  /\ rtc' = [rtc EXCEPT !.pc = next]
  /\ UNCHANGED <<chip, clock, result>>

\* What a read of the next register may give.
Seen(got) ==
  {Register(chip.mode, t, Fields[Len(got) + 1]) :
     t \in chip.t .. (IF chip.uip THEN chip.t + 1 ELSE chip.t)}

ReadFirst ==
  /\ At("read1")
  /\ \E v \in Seen(rtc.first) : rtc' = [rtc EXCEPT !.first = Append(@, v),
       !.pc = IF Len(rtc.first) = 5 THEN "wait2" ELSE @]
  /\ UNCHANGED <<chip, clock, result>>

ReadSecond ==
  /\ At("read2")
  /\ \E v \in Seen(rtc.second) : rtc' = [rtc EXCEPT !.second = Append(@, v),
       !.pc = IF Len(rtc.second) = 5 THEN "compare" ELSE @]
  /\ UNCHANGED <<chip, clock, result>>

\* The registers decoded: from BCD, and from the 12-hour mode.
Bin(v) == (v % 16) + (v \div 16) * 10
Decoded(mode, v) == IF mode.binary THEN v ELSE Bin(v)

DecodedHour(mode, v) ==
  IF mode.h24 THEN Decoded(mode, v)
  ELSE LET h  == Decoded(mode, v % 128)
           pm == v >= 128
       IN  CASE pm /\ h < 12 -> h + 12
             [] ~pm /\ h = 12 -> 0
             [] OTHER -> h

Date(mode, r) ==
  [sec |-> Decoded(mode, r[1]), min |-> Decoded(mode, r[2]), hour |-> DecodedHour(mode, r[3]),
   day |-> Decoded(mode, r[4]), mon |-> Decoded(mode, r[5]), year |-> 2000 + Decoded(mode, r[6])]

\* Mutant: only the seconds are compared.
SameSecond(a, b) == a[1] = b[1]
Same(a, b) == a = b

\* Mutant: one try less.
LastTryEarly == rtc.tries + 1 >= Tries - 1
LastTry == rtc.tries = Tries - 1

Return(ok) ==
  /\ result' = [ok |-> ok, date |-> IF ok THEN Date(chip.mode, rtc.second) ELSE Nothing.date,
                for |-> rtc.for, from |-> rtc.from, overtaken |-> Overtaken]
  /\ rtc' = NoCall

\* Two readings that differ are read anew, up to the last try.
Retry ==
  /\ At("compare") /\ ~Same(rtc.first, rtc.second) /\ ~LastTry
  /\ rtc' = [rtc EXCEPT !.pc = "wait1", !.tries = @ + 1, !.first = <<>>, !.second = <<>>]
  /\ UNCHANGED <<chip, clock, result>>

\* time_init_from_rtc takes the date; without one the clock starts at 0.
InitReturns ==
  /\ At("compare") /\ rtc.for = "init"
  /\ \/ /\ Same(rtc.first, rtc.second) /\ Return(TRUE)
        /\ LET d == Date(chip.mode, rtc.second)
           IN  clock' = [clock EXCEPT !.on = TRUE, !.epoch = Epoch(d), !.bootTicks = clock.ticks,
                                      !.hour = d.hour, !.min = d.min, !.sec = d.sec]
     \/ /\ ~Same(rtc.first, rtc.second) /\ LastTry /\ Return(FALSE)
        /\ clock' = [clock EXCEPT !.on = TRUE, !.bootTicks = clock.ticks]
  /\ UNCHANGED chip

\* kernel_get_time hands the date to a program.
GetReturns ==
  /\ At("compare") /\ rtc.for = "get"
  /\ \/ Same(rtc.first, rtc.second) /\ Return(TRUE)
     \/ ~Same(rtc.first, rtc.second) /\ LastTry /\ Return(FALSE)
  /\ UNCHANGED <<chip, clock>>

-----------------------------------------------------------------------------
(* The timer. *)

\* Mutant: the minute has sixty-one seconds.
NextSecondLate(c) ==
  CASE c.sec <= 59 -> [c EXCEPT !.sec = @ + 1]
    [] c.sec > 59 /\ c.min < 59 -> [c EXCEPT !.sec = 0, !.min = @ + 1]
    [] OTHER -> [c EXCEPT !.sec = 0, !.min = 0, !.hour = IF @ + 1 >= 24 THEN 0 ELSE @ + 1]

\* The time of day one second later.
NextSecond(c) ==
  CASE c.sec < 59 -> [c EXCEPT !.sec = @ + 1]
    [] c.sec >= 59 /\ c.min < 59 -> [c EXCEPT !.sec = 0, !.min = @ + 1]
    [] OTHER -> [c EXCEPT !.sec = 0, !.min = 0, !.hour = IF @ + 1 >= 24 THEN 0 ELSE @ + 1]

\* timer_handler, once kernel_main has let interrupts in; a call under way is interrupted.
TimerHandler ==
  /\ clock.on /\ clock.ticks < MaxTicks
  /\ LET c == [clock EXCEPT !.ticks = @ + 1]
     IN  clock' = IF c.ticks % TickRate = 0 THEN NextSecond(c) ELSE c
  /\ UNCHANGED <<chip, rtc, result>>

-----------------------------------------------------------------------------
Init ==
  /\ \E t \in Starts, binary, h24 \in BOOLEAN :
       chip = [t |-> t, uip |-> FALSE, mode |-> [binary |-> binary, h24 |-> h24], updates |-> 0]
  /\ rtc = [NoCall EXCEPT !.pc = "wait1", !.for = "init", !.from = chip.t]
  /\ clock = [on |-> FALSE, epoch |-> 0, bootTicks |-> 0, ticks |-> 0,
              hour |-> 0, min |-> 0, sec |-> 0]
  /\ result = Nothing

Next ==
  \/ UpdateBegins \/ UpdateEnds
  \/ At("idle") /\ Begin("get")
  \/ Waited("wait1", "read1") \/ Waited("wait2", "read2")
  \/ ReadFirst \/ ReadSecond \/ Retry \/ InitReturns \/ GetReturns
  \/ TimerHandler

Spec == Init /\ [][Next]_vars

-----------------------------------------------------------------------------
(* Properties. *)

\* A date rtc_read_datetime returns is one the chip showed during the call, though it was
\* put together from six registers that may have changed between any two reads.
ReadIsAnInstant ==
  result.ok => \E n \in 0 .. result.overtaken : result.date = DateTime(result.from + n)

\* rtc_read_datetime gives up only if the chip has gone on to a new second in every try.
FailsOnlyIfOvertaken == result.for # "none" /\ ~result.ok => result.overtaken >= Tries

\* g_boot_epoch is the instant the date read stands for (datetime_to_epoch), on every day
\* of the calendar.
BootEpochIsTrue ==
  result.for = "init" /\ result.ok => clock.epoch \in result.from .. result.from + result.overtaken

\* The time of day the timer interrupt counts (g_hour, g_minute, g_second) is the one
\* time_now_datetime computes from the epoch and the ticks, at midnight and at the end of
\* months too, also when the real-time clock could not be read.
DisplaysAgree ==
  clock.on => <<clock.hour, clock.min, clock.sec>> = <<Now.hour, Now.min, Now.sec>>

=============================================================================
