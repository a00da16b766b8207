------------------------------- MODULE Values -------------------------------
(***************************************************************************)
(* NXDate.m over runtime-sys/all/date.c, and the clock of pico/date.c.     *)
(* Time is scaled: a second has Second units, of which Milli are a         *)
(* millisecond, a day DaySeconds seconds and a year months of the lengths  *)
(* MonthDays.  timegm and gmtime_r are the C library's.                    *)
(***************************************************************************)
EXTENDS Integers, Sequences, FiniteSets

CONSTANTS
  Second, Milli, DaySeconds,
  NanoTop,        \* the first integer above an int32_t, which nanoseconds are
  LapseTop,       \* the first integer above an int64_t, which a comparison is
  MonthDays,      \* the days of each month
  Intervals,      \* the intervals the program adds, in units
  MaxSeconds,     \* dates stay within this many seconds of the epoch (bound)
  MaxUptime       \* milliseconds since boot (bound)

ASSUME DatesAssumption ==
  /\ Milli \in Nat \ {0} /\ Second % Milli = 0 /\ Second \in Nat \ {0}
  /\ NanoTop \in Nat /\ 2 * Second <= NanoTop /\ LapseTop \in Nat \ {0}
  /\ DaySeconds \in Nat \ {0} /\ MonthDays \in Seq(Nat \ {0}) \ {<<>>}
  /\ Intervals \subseteq Int /\ MaxSeconds \in Nat /\ MaxUptime \in Nat

VARIABLES
  date,     \* seconds and nanoseconds of _date
  cached,   \* the components _cacheComponents kept, or Uncached
  instant,  \* history: the instant the date stands for, in units
  clock,    \* _sys_date, and the milliseconds since boot
  wanted    \* history: the time asked for less the uptime then, in ms

dateVars == <<date, cached, instant, clock, wanted>>

(* Division and remainder of C, which round towards zero.                  *)
Quot(a, b) == IF a >= 0 THEN a \div b ELSE -((-a) \div b)
Rem(a, b) == a - (b * Quot(a, b))

Months == DOMAIN MonthDays
Days == UNION {1 .. MonthDays[m] : m \in Months}
DaysBefore[m \in 1 .. Len(MonthDays) + 1] ==
  IF m = 1 THEN 0 ELSE DaysBefore[m - 1] + MonthDays[m - 1]
YearDays == DaysBefore[Len(MonthDays) + 1]

(* gmtime_r: year, month, day and the seconds of the day.                  *)
Components(seconds) ==
  LET days == seconds \div DaySeconds
      inYear == days % YearDays
      month == CHOOSE m \in Months : /\ DaysBefore[m] <= inYear
                                     /\ inYear < DaysBefore[m] + MonthDays[m]
  IN [year |-> days \div YearDays, month |-> month, day |-> inYear - DaysBefore[month] + 1,
      time |-> seconds % DaySeconds]

(* timegm: days beyond the month run into the next one.                    *)
TimeGm(year, month, day, time) ==
  (year * YearDays + DaysBefore[month] + (day - 1)) * DaySeconds + time

Uncached == <<>>
MillisPerSecond == Second \div Milli

-----------------------------------------------------------------------------
(* sys_date_get_now: milliseconds since boot plus the offset in seconds.   *)
NowMillis == clock.boot + clock.offset * MillisPerSecond
Now == [seconds |-> Quot(NowMillis, MillisPerSecond),
        nanoseconds |-> Rem(NowMillis, MillisPerSecond) * Milli]

InRange(seconds) == seconds \in -MaxSeconds .. MaxSeconds

DatesInit ==
  /\ clock = [offset |-> 0, boot |-> 0] /\ wanted = 0
  /\ date = Now /\ instant = 0 /\ cached = Uncached

(* sys_date_set_now *)
SetNow ==
  LET desired == date.seconds * MillisPerSecond + Quot(date.nanoseconds, Milli) IN
    /\ clock' = [clock EXCEPT !.offset = Quot(desired - clock.boot, MillisPerSecond)]
    /\ wanted' = desired - clock.boot
    /\ UNCHANGED <<date, cached, instant>>

ClockTick ==
  /\ clock.boot < MaxUptime
  /\ clock' = [clock EXCEPT !.boot = @ + 1]
  /\ UNCHANGED <<date, cached, instant, wanted>>

-----------------------------------------------------------------------------
(* Whole seconds move out of nanoseconds that overflow.                    *)
Carried(seconds, nanoseconds) ==
  LET over == Quot(nanoseconds, Second) IN
    IF nanoseconds >= Second
    THEN [seconds |-> seconds + over, nanoseconds |-> nanoseconds - over * Second]
    ELSE [seconds |-> seconds, nanoseconds |-> nanoseconds]

(* What is left of a sum of nanoseconds that is stored.                    *)
Int32(n) == ((n + NanoTop) % (2 * NanoTop)) - NanoTop

SinceNow(i) ==
  Carried(Now.seconds + Quot(i, Second), Int32(Now.nanoseconds + Rem(i, Second)))

(* init and initWithTimeIntervalSinceNow:                                  *)
DateSinceNow(i) ==
  LET new == SinceNow(i) IN
    /\ InRange(new.seconds)
    /\ date' = new /\ cached' = Uncached /\ instant' = NowMillis * Milli + i
    /\ UNCHANGED <<clock, wanted>>

(* addTimeInterval: - a second is borrowed only when the nanoseconds were  *)
(* negative before.                                                        *)
Added(d, i) ==
  LET part == Rem(i, Second)  nanos == Int32(d.nanoseconds + part)
      under == Quot(part - nanos + (Second - 1), Second)
      seconds == d.seconds + Quot(i, Second)
  IN IF nanos < Second /\ nanos < part
     THEN [seconds |-> seconds - under, nanoseconds |-> nanos + under * Second]
     ELSE Carried(seconds, nanos)

(* A sum that does not fit is truncated, and the date stands for another   *)
(* instant from then on.                                                   *)
Fits(d, i) == d.nanoseconds + Rem(i, Second) \in -NanoTop .. NanoTop - 1
InstantOf(d) == d.seconds * Second + d.nanoseconds
InstantAfter(i) == IF Fits(date, i) THEN instant + i ELSE InstantOf(Added(date, i))

(* Mutation: the components stay.                                          *)
AddTimeIntervalKeeps(i) ==
  LET new == Added(date, i) IN
    /\ InRange(new.seconds)
    /\ date' = new /\ instant' = InstantAfter(i) /\ UNCHANGED <<cached, clock, wanted>>

AddTimeInterval(i) ==
  LET new == Added(date, i) IN
    /\ InRange(new.seconds)
    /\ date' = new /\ cached' = Uncached /\ instant' = InstantAfter(i)
    /\ UNCHANGED <<clock, wanted>>

(* initWithSystemDate: with the date of another object.                    *)
WithSystemDate ==
  /\ cached' = Uncached
  /\ UNCHANGED <<date, instant, clock, wanted>>

(* _cacheComponents, of every method that shows the date.                  *)
CacheComponents ==
  /\ cached = Uncached
  /\ cached' = Components(date.seconds)
  /\ UNCHANGED <<date, instant, clock, wanted>>

CachedOrRead == IF cached # Uncached THEN cached ELSE Components(date.seconds)
GetDate == [year |-> CachedOrRead.year, month |-> CachedOrRead.month, day |-> CachedOrRead.day]

(* The nanoseconds are stored through a uint32_t pointer.                  *)
UInt32(n) == n % (2 * NanoTop)
GetTime == [time |-> CachedOrRead.time, nanoseconds |-> UInt32(date.nanoseconds)]

SetDateUtc(year, month, day) == TimeGm(year, month, day, Components(date.seconds).time)

SetTimeUtc(time) ==
  LET c == Components(date.seconds) IN TimeGm(c.year, c.month, c.day, time)

(* setYear:month:day: takes a day that only other months have, too.  -1,   *)
(* which timegm returns for the last second before the epoch, is taken for *)
(* a failure.                                                              *)
SetDate(year, month, day) ==
  LET new == SetDateUtc(year, month, day) IN
    /\ new # -1 /\ InRange(new)
    /\ date' = [date EXCEPT !.seconds = new]
    /\ cached' = Uncached /\ instant' = new * Second + date.nanoseconds
    /\ UNCHANGED <<clock, wanted>>

(* setHours:minutes:seconds:nanoseconds:                                   *)
SetTime(time, nanoseconds) ==
  LET new == SetTimeUtc(time) IN
    /\ new # -1 /\ InRange(new)
    /\ date' = [seconds |-> new, nanoseconds |-> nanoseconds]
    /\ cached' = Uncached /\ instant' = new * Second + nanoseconds
    /\ UNCHANGED <<clock, wanted>>

-----------------------------------------------------------------------------

(* sys_date_compare_ns and what NXDate makes of it. The seconds and their  *)
(* sum with the nanoseconds are counted in an int64_t.                     *)
LapseOf(start, end) == (end.seconds - start.seconds) * Second
Int64(n) == ((n + LapseTop) % (2 * LapseTop)) - LapseTop
CompareNs(start, end) == Int64(Int64(LapseOf(start, end)) + (end.nanoseconds - start.nanoseconds))
IsEarlierThan(d, e) == CompareNs(e, d) < 0
IsLaterThan(d, e) == CompareNs(e, d) > 0
SameDate(d, e) == CompareNs(e, d) = 0

DatesStep ==
  \/ SetNow \/ ClockTick \/ CacheComponents \/ WithSystemDate
  \/ \E i \in Intervals : DateSinceNow(i) \/ AddTimeInterval(i)
  \/ \E year \in -1 .. 1, month \in Months, day \in Days : SetDate(year, month, day)
  \/ \E time \in 0 .. DaySeconds - 1, n \in {0, Second - 1} : SetTime(time, n)

DatesSpec == DatesInit /\ [][DatesStep]_dateVars

-----------------------------------------------------------------------------
(* Whatever intervals are added, of either sign, seconds and nanoseconds   *)
(* together stay the instant the program computed, as long as no sum is    *)
(* truncated.                                                              *)
InstantKept == InstantOf(date) = instant

(* Read together, the date and the time that are shown are that instant,   *)
(* whether the components were cached before the date changed or after;    *)
(* only nanoseconds that an interval left below 0 are shown as 2^32 more,  *)
(* though NXDate.h:79 gives their range as 0 to 999999999.                 *)
ShowsInstant ==
  TimeGm(GetDate.year, GetDate.month, GetDate.day, GetTime.time) * Second + GetTime.nanoseconds
    = instant + (IF date.nanoseconds < 0 THEN 2 * NanoTop ELSE 0)

(* Compared with any other date made now, the date is earlier, later or the*)
(* same as its instant is, even while its nanoseconds are out of range, if *)
(* they are no more than 2^63 ns apart, 292 years.                         *)
Comparable(start, end) ==
  /\ LapseOf(start, end) \in -LapseTop .. LapseTop - 1
  /\ LapseOf(start, end) + (end.nanoseconds - start.nanoseconds) \in -LapseTop .. LapseTop - 1

ComparesRight ==
  \A i \in Intervals \cup {0} :
    LET other == SinceNow(i)  difference == instant - (NowMillis * Milli + i) IN
      Comparable(other, date) =>
        /\ IsEarlierThan(date, other) <=> difference < 0
        /\ IsLaterThan(date, other) <=> difference > 0
        /\ SameDate(date, other) <=> difference = 0

(* A new day keeps the time of the day: no step that changes it sets a day.*)
SettersKeepTheRest ==
  [][Components(date'.seconds).time # Components(date.seconds).time =>
       ~\E y \in -1 .. 1, m \in Months, d \in Days : SetDate(y, m, d)]_dateVars

(* After the clock was set it shows the time that was asked for to less    *)
(* than a second, at any later moment.                                     *)
ClockWithin ==
  LET error == NowMillis - (clock.boot + wanted) IN
    error < MillisPerSecond /\ -error < MillisPerSecond


-----------------------------------------------------------------------------
(***************************************************************************)
(* NXNumber and its subclasses: a class for each width and sign, one for   *)
(* zero and one for booleans, whose objects are shared.  Numbers convert   *)
(* to other widths or panic, and compare across classes by converting.     *)
(* The shared objects are made once and autoreleased, like any other.      *)
(***************************************************************************)

CONSTANT Half  \* half of how many values a class of integers has: 2^15, 2^31, 2^63

VARIABLES
  shared,  \* zeroNumber, trueNumber, falseNumber: never made, live or freed
  number   \* a number that the application has: class, value, and if it retained it

numVars == <<shared, number>>

Signed == {"Int16", "Int32", "Int64"}
Integral == Signed \cup {"UnsignedInt16", "UnsignedInt32", "UnsignedInt64"}
Singles == {"zero", "true", "false"}
NoNumber == [class |-> "none", value |-> 0, kept |-> FALSE]

RangeOf(class) ==
  IF class \in Signed THEN -Half[class] .. Half[class] - 1 ELSE 0 .. 2 * Half[class] - 1

ASSUME NumbersAssumption ==
  /\ Half \in [Integral -> Nat] /\ Half["Int16"] > 1
  /\ 2 * Half["Int16"] <= Half["Int32"] /\ 2 * Half["Int32"] <= Half["Int64"]
  /\ Half["UnsignedInt16"] = Half["Int16"] /\ Half["UnsignedInt32"] = Half["Int32"]
  /\ Half["UnsignedInt64"] = Half["Int64"]

NumbersInit ==
  /\ shared = [s \in Singles |-> "nil"]
  /\ number = NoNumber

-----------------------------------------------------------------------------
(* The shared object a number is, if it is one.                            *)
Single(n) == IF n.class = "Zero" THEN {"zero"}
             ELSE IF n.class = "Bool" THEN {IF n.value = 1 THEN "true" ELSE "false"} ELSE {}

(* zeroValue, trueValue, falseValue: made and autoreleased the first time, *)
(* and the static pointer is never cleared.                                *)
Made(s) == IF shared[s] = "nil" THEN [shared EXCEPT ![s] = "live"] ELSE shared

(* numberWithInt16: and its like, which share the zero.                    *)
NumberWith(class, value) ==
  IF value = 0 THEN [class |-> "Zero", value |-> 0, kept |-> FALSE]
  ELSE [class |-> class, value |-> value, kept |-> FALSE]

(* numberWithBool:                                                         *)
NumberWithBool(b) == [class |-> "Bool", value |-> IF b THEN 1 ELSE 0, kept |-> FALSE]

Take(n) ==
  /\ number = NoNumber
  /\ number' = n
  /\ shared' = IF Single(n) = {} THEN shared ELSE Made(CHOOSE s \in Single(n) : TRUE)

RetainNumber ==
  /\ number # NoNumber /\ \A s \in Single(number) : shared[s] = "live"
  /\ number' = [number EXCEPT !.kept = TRUE]
  /\ UNCHANGED shared

(* The pool of the application drains, and what it has not retained dies;  *)
(* what it did retain it keeps for good.                                   *)
DrainPool ==
  /\ number' = IF number.kept THEN number ELSE NoNumber
  /\ shared' = [s \in Singles |->
                  IF shared[s] = "live" /\ ~(number.kept /\ s \in Single(number))
                  THEN "freed" ELSE shared[s]]

-----------------------------------------------------------------------------
(* int16Value and its like: the conversions for which a class asserts that *)
(* the value fits, which panics when it does not; the others are casts.    *)
AssertedInt16 == {"UnsignedInt16", "UnsignedInt32", "UnsignedInt64"}
AssertedInt32 == {"Int16", "UnsignedInt16", "UnsignedInt32", "UnsignedInt64"}

AssertedInt64 == {"Int16", "UnsignedInt16", "Int32", "UnsignedInt32", "UnsignedInt64"}
AssertedUnsignedInt16 == {"Int16"}
AssertedUnsignedInt32 == {"Int16", "UnsignedInt16", "Int32"}
AssertedUnsignedInt64 == {"Int16", "UnsignedInt16", "Int32", "UnsignedInt32"}

Asserted(class) ==
  CASE class = "Int16" -> AssertedInt16
    [] class = "Int32" -> AssertedInt32
    [] class = "Int64" -> AssertedInt64
    [] class = "UnsignedInt16" -> AssertedUnsignedInt16
    [] class = "UnsignedInt32" -> AssertedUnsignedInt32
    [] class = "UnsignedInt64" -> AssertedUnsignedInt64
    [] class \in {"Zero", "Bool"} -> {}

Cast(value, to) == CHOOSE v \in RangeOf(to) : (v - value) % (2 * Half[to]) = 0

Convert(n, to) ==
  IF to \in Asserted(n.class) THEN {n.value} \cap RangeOf(to) ELSE {Cast(n.value, to)}

(* isEqual: of the signed classes: by the unsigned value of the other, or  *)
(* by its signed one when the receiver is negative.                        *)
EqualSigned(n, m) ==
  IF n.value >= 0 THEN {n.value = v : v \in Convert(m, "UnsignedInt64")}
  ELSE {n.value = v : v \in Convert(m, "Int64")}

EqualUnsigned16(n, m) ==
  IF \E v \in Convert(m, "Int64") : v < 0 THEN {FALSE}
  ELSE {n.value = v : v \in Convert(m, "UnsignedInt64")}

EqualUnsigned(n, m) == {v >= 0 /\ n.value = v : v \in Convert(m, "Int64")}

(* Zero and the booleans compare with the signed value of the other.       *)
EqualBool(n, m) == {n.value = v : v \in Convert(m, "Int64")}

IsEqual(n, m) ==
  CASE n.class = m.class -> {n.value = m.value}
    [] n.class # m.class /\ n.class \in Signed -> EqualSigned(n, m)
    [] n.class # m.class /\ n.class = "UnsignedInt16" -> EqualUnsigned16(n, m)
    [] n.class # m.class /\ n.class \in {"UnsignedInt32", "UnsignedInt64"} -> EqualUnsigned(n, m)
    [] n.class # m.class /\ n.class \in {"Zero", "Bool"} -> EqualBool(n, m)

NumbersStep ==
  \/ \E class \in Integral : \E value \in RangeOf(class) : Take(NumberWith(class, value))
  \/ \E b \in BOOLEAN : Take(NumberWithBool(b))
  \/ RetainNumber \/ DrainPool

NumbersSpec == NumbersInit /\ [][NumbersStep]_numVars

-----------------------------------------------------------------------------
LiteralsOf(class) == {NumberWith(class, v) : v \in RangeOf(class)}
BoolLiterals == {NumberWithBool(b) : b \in BOOLEAN}
Literals == (UNION {LiteralsOf(c) : c \in Integral}) \cup BoolLiterals

(* A number equals one of any class when their values are the same: the    *)
(* answer is right, but for a negative number and an unsigned one above the*)
(* largest int64, and isEqual: panics only when a number that is not       *)
(* negative is asked about a negative one of another class.                *)
EqualMeansSame ==
  number # NoNumber =>
    \A m \in Literals :
      LET same == IsEqual(number, m) IN
        IF same = {} THEN number.class \in Signed /\ number.value >= 0 /\ m.value < 0
        ELSE \/ same = {number.value = m.value}
             \/ number.value < 0 /\ m.value \notin RangeOf("Int64")

(* A conversion answers with the value or panics, whatever the widths and  *)
(* signs, but for the one from the widest unsigned to the widest signed.   *)
ConvertExact ==
  number # NoNumber =>
    \A to \in Integral :
      \/ Convert(number, to) = {number.value} \cap RangeOf(to)
      \/ to = "Int64" /\ number.class = "UnsignedInt64" /\ number.value \notin RangeOf("Int64")

(* Nanoseconds that are stored fit into 32 bits, a date is within reach,   *)
(* and a number has a class and is within its range.                       *)
ValuesTypeOK ==
  /\ date \in [seconds : -MaxSeconds .. MaxSeconds, nanoseconds : 1 - 2 * Second .. 2 * Second - 1]
  /\ clock \in [offset : Int, boot : 0 .. MaxUptime] /\ wanted \in Int /\ instant \in Int
  /\ shared \in [Singles -> {"nil", "live", "freed"}] /\ number.kept \in BOOLEAN
  /\ \/ number.class \in Integral /\ number.value \in RangeOf(number.class) \ {0}
     \/ number.class \in {"Zero", "none"} /\ number.value = 0
     \/ number.class = "Bool" /\ number.value \in {0, 1}

(* Dates and numbers keep their value through any sequence of operations   *)
(* and conversions between widths.                                         *)
ValuesExact ==
  /\ [](ValuesTypeOK /\ InstantKept /\ ShowsInstant /\ ComparesRight /\ ClockWithin)
  /\ SettersKeepTheRest
  /\ [](EqualMeansSame /\ ConvertExact)
=============================================================================
