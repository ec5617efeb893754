------------------------------- MODULE Clock -------------------------------
(***************************************************************************)
(* The wall clock: getTime (HAL/time.cpp) reads the CMOS real-time clock    *)
(* twice, one millisecond apart, until both readings agree, and turns the   *)
(* reading into seconds since 1970.  The hardware may begin an update at    *)
(* any moment after the code has seen its "update in progress" flag clear,  *)
(* so a reading can mix the registers of two seconds.  A call takes a few   *)
(* milliseconds and the hardware updates once a second: at most one update  *)
(* falls into a call.                                                       *)
(***************************************************************************)
EXTENDS Integers, Sequences, FiniteSets

CONSTANTS Dates,    \* the dates a call may start at: <<year, month, day>>
          Times     \* and the times of day: <<hours, minutes, seconds>>

VARIABLES shown,    \* the time the hardware keeps (24 hours, binary)
          uip,      \* bit 7 of status register A
          mode,     \* status register B: [bcd, twelve]
          pc,       \* where getTime is
          attempt,  \* its loop counter i
          time,     \* the first reading of this attempt
          time2,    \* the second
          ticked,   \* ghost: the update that fell into this call
          result    \* what getTime returned

vars == <<shown, uip, mode, pc, attempt, time, time2, ticked, result>>

None == <<-1, 0>>

\* The order in which RTC_getCurrentTime reads the registers.
Registers == <<"Seconds", "Minutes", "Hours", "DayOfMonth", "Month", "Year">>

is_leap_year(year) == year % 4 = 0 /\ (year % 100 # 0 \/ year % 400 = 0)

DaysIn(year, month) ==
    IF month = 2 THEN (IF is_leap_year(year) THEN 29 ELSE 28)
    ELSE IF month \in {4, 6, 9, 11} THEN 30 ELSE 31

Stamp(date, hms) ==
    [Year |-> date[1], Month |-> date[2], DayOfMonth |-> date[3],
     Hours |-> hms[1], Minutes |-> hms[2], Seconds |-> hms[3]]

\* The hardware's next second.
Later(t) ==
    LET s == (t.Seconds + 1) % 60
        m == IF s = 0 THEN (t.Minutes + 1) % 60 ELSE t.Minutes
        h == IF s = 0 /\ m = 0 THEN (t.Hours + 1) % 24 ELSE t.Hours
        over == s = 0 /\ m = 0 /\ h = 0
        last == t.DayOfMonth = DaysIn(t.Year, t.Month)
    IN  [Seconds |-> s, Minutes |-> m, Hours |-> h,
         DayOfMonth |-> IF ~over THEN t.DayOfMonth ELSE IF last THEN 1 ELSE t.DayOfMonth + 1,
         Month |-> IF over /\ last THEN (t.Month % 12) + 1 ELSE t.Month,
         Year |-> IF over /\ last /\ t.Month = 12 THEN t.Year + 1 ELSE t.Year]

---------------------------------------------------------------------------
ToBCD(x) == (x \div 10) * 16 + (x % 10)

\* What the hardware answers for a register: in BCD when status B says so, the
\* hours from 1 to 12 with bit 7 for the afternoon in 12-hour mode.
CMOS_Read(r) ==
    LET digits(x) == IF mode.bcd THEN ToBCD(x) ELSE x
        h == shown.Hours
    IN  CASE r = "Year" -> digits(shown.Year % 100)
          [] r = "Hours" /\ mode.twelve ->
                digits(IF h % 12 = 0 THEN 12 ELSE h % 12) + (IF h >= 12 THEN 128 ELSE 0)
          [] OTHER -> digits(shown[r])

\* (x & 0xF0) >> 1 is eight times the high digit, (x & 0xF0) >> 3 twice.
BCD_TO_BINARY(x) == (x \div 16) * 8 + (x \div 16) * 2 + (x % 16)

Plain(x) == IF mode.bcd THEN BCD_TO_BINARY(x) ELSE x

\* The hour keeps its afternoon bit apart while its digits are converted.
Hours(x) ==
    LET h == Plain(x % 128)
        twelve == IF h = 12 THEN 0 ELSE h
    IN  IF mode.twelve THEN twelve + (IF x >= 128 THEN 12 ELSE 0) ELSE Plain(x)

FullYear(x) == IF x >= 70 /\ x <= 99 THEN x + 1900 ELSE x + 2000

Read(r) == LET x == CMOS_Read(r)
           IN  CASE r = "Hours" -> Hours(x)
                 [] r = "Year" -> FullYear(Plain(x))
                 [] OTHER -> Plain(x)

GetWeekDay(year, month, d) ==
    LET m == IF month < 3 THEN month + 12 ELSE month
        y == IF month < 3 THEN year - 1 ELSE year
        K == y % 100
        J == y \div 100
        h == (d + ((m + 1) * 26) \div 10 + K + K \div 4 + J \div 4 + 5 * J) % 7
    IN  IF h = 0 THEN 7 ELSE h

day_seek_table == <<0, 31, 59, 90, 120, 151, 181, 212, 243, 273, 304, 334>>

day_of_year(year, month, day) ==
    day_seek_table[month] + day - 1 + (IF is_leap_year(year) /\ month >= 3 THEN 1 ELSE 0)

years_to_days_since_epoch(year) ==
    365 * (year - 1970) + Cardinality({i \in 1970 .. (year - 1) : is_leap_year(i)})

days_since_epoch(t) ==
    years_to_days_since_epoch(t.Year) + day_of_year(t.Year, t.Month, t.DayOfMonth)

\* The 64-bit count of seconds, kept as <<days, seconds of the day>>.
Seconds(t) == <<days_since_epoch(t), (t.Hours * 60 + t.Minutes) * 60 + t.Seconds>>
---------------------------------------------------------------------------
Unread == [r \in {} |-> 0]

Init ==
    /\ \E d \in Dates, t \in Times : shown = Stamp(d, t)
    /\ mode \in [bcd : BOOLEAN, twelve : BOOLEAN]
    /\ uip = FALSE
    /\ pc = "wait1" /\ attempt = 0 /\ time = Unread /\ time2 = Unread
    /\ ticked = FALSE /\ result = None

\* The hardware: an update starts, and ends with the next second shown.
UpdateBegins == /\ ~ticked /\ pc # "done"
                /\ uip' = TRUE /\ ticked' = TRUE
                /\ UNCHANGED <<shown, mode, pc, attempt, time, time2, result>>
UpdateEnds == /\ uip
              /\ uip' = FALSE /\ shown' = Later(shown)
              /\ UNCHANGED <<mode, pc, attempt, time, time2, ticked, result>>

\* RTC_getCurrentTime waits for an update to finish once, then reads.
Settled == /\ pc \in {"wait1", "wait2"} /\ ~uip
           /\ pc' = IF pc = "wait1" THEN "read1" ELSE "read2"
           /\ UNCHANGED <<shown, uip, mode, attempt, time, time2, ticked, result>>

NextRegister(reading) ==
    CHOOSE i \in 1 .. Len(Registers) :
        /\ Registers[i] \notin DOMAIN reading
        /\ \A j \in 1 .. (i - 1) : Registers[j] \in DOMAIN reading

More(reading) == LET r == Registers[NextRegister(reading)]
                 IN  [f \in DOMAIN reading \cup {r} |->
                        IF f = r THEN Read(r) ELSE reading[f]]

Whole(reading) == \A i \in 1 .. Len(Registers) : Registers[i] \in DOMAIN reading

ReadRegister ==
    \/ /\ pc = "read1" /\ ~Whole(time)
       /\ time' = More(time)
       /\ UNCHANGED <<shown, uip, mode, pc, attempt, time2, ticked, result>>
    \/ /\ pc = "read2" /\ ~Whole(time2)
       /\ time2' = More(time2)
       /\ UNCHANGED <<shown, uip, mode, pc, attempt, time, ticked, result>>

\* sleep(1) between the two readings.
sleep == /\ pc = "read1" /\ Whole(time)
         /\ pc' = "wait2"
         /\ UNCHANGED <<shown, uip, mode, attempt, time, time2, ticked, result>>

\* Fault: only the dates are compared.
SameDate(a, b) == a.DayOfMonth = b.DayOfMonth /\ a.Month = b.Month /\ a.Year = b.Year

\* The comparison: equal readings are the answer, five unequal pairs give 0.
Agree(a, b) == a = b

getTime ==
    /\ pc = "read2" /\ Whole(time2)
    /\ \/ /\ Agree(time, time2) \/ attempt = 4
          /\ result' = IF Agree(time, time2) THEN Seconds(time) ELSE <<0, 0>>
          /\ pc' = "done"
          /\ UNCHANGED <<attempt, time, time2>>
       \/ /\ ~Agree(time, time2) /\ attempt < 4
          /\ attempt' = attempt + 1 /\ pc' = "wait1"
          /\ time' = Unread /\ time2' = Unread
          /\ UNCHANGED result
    /\ UNCHANGED <<shown, uip, mode, ticked>>

Next == UpdateBegins \/ UpdateEnds \/ Settled \/ ReadRegister \/ sleep \/ getTime

Spec == Init /\ [][Next]_vars
---------------------------------------------------------------------------
Reading(t) == /\ DOMAIN t \subseteq {Registers[i] : i \in 1 .. Len(Registers)}
              /\ \A r \in DOMAIN t : t[r] \in 0 .. 2069

\* The registers hold bytes, a reading holds the fields of an RTCTime.
TypeOK ==
    /\ shown.Month \in 1 .. 12 /\ shown.DayOfMonth \in 1 .. DaysIn(shown.Year, shown.Month)
    /\ uip \in BOOLEAN /\ ticked \in BOOLEAN
    /\ mode \in [bcd : BOOLEAN, twelve : BOOLEAN]
    /\ pc \in {"wait1", "read1", "wait2", "read2", "done"}
    /\ attempt \in 0 .. 4
    /\ Reading(time) /\ Reading(time2)
    /\ result \in (-1 .. 36524) \X (0 .. 86399)

\* The seconds between 1970 and t counted without the code's tables: a leap
\* year every fourth year, the months before t added up one by one.
Elapsed(t) ==
    LET months[m \in 0 .. 12] == IF m = 0 THEN 0 ELSE months[m - 1] + DaysIn(t.Year, m)
        days == 365 * (t.Year - 1970) + (t.Year - 1969) \div 4
                    + months[t.Month - 1] + t.DayOfMonth - 1
    IN  <<days, 3600 * t.Hours + 60 * t.Minutes + t.Seconds>>

OneLater(p) == IF p[2] = 86399 THEN <<p[1] + 1, 0>> ELSE <<p[1], p[2] + 1>>

\* getTime never answers with a mixture of two seconds, whatever register the
\* update overtakes: its answer is the second the clock shows when it returns,
\* or the one before it if the update came after the reading.  In particular
\* it never runs out of its five attempts.
NeverTorn ==
    pc = "done" =>
        \/ result = Elapsed(shown)
        \/ ticked /\ ~uip /\ OneLater(result) = Elapsed(shown)

\* The weekday RTC_getCurrentTime computes from the date is the one found by
\* counting days from 1 January 1970, a Thursday (RTC.hpp: Sunday = 1).
WeekDayCounts ==
    pc = "done" =>
        GetWeekDay(time.Year, time.Month, time.DayOfMonth)
            = ((Elapsed(time)[1] + 4) % 7) + 1
===========================================================================
