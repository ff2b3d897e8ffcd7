------------------------------- MODULE Times -------------------------------
(***************************************************************************)
(* time.go: durations as text, and times out of the names of files.        *)
(*                                                                         *)
(* A time counts half seconds since the zero time of Go, the midnight that *)
(* begins year 1; the odd half stands for any fraction of a second.  Years *)
(* have 365 days.                                                          *)
(***************************************************************************)
EXTENDS Integers, Sequences

CONSTANTS
    Wrap,     \* how many values an uint64 has
    Longest,  \* the longest duration
    Clock     \* what the clock may show, each time it is read

ASSUME TimesAssumption ==
    /\ Wrap \in Nat \ {0} /\ Longest \in Nat \ {0} /\ Longest < 2 * Wrap
    /\ Clock \subseteq Nat \ {0} /\ Clock # {}

Zero == 0
Second == 2
Minute == 60 * Second
Hour   == 60 * Minute
Day    == 24 * Hour
Year   == 365 * Day

YearOf(t) == 1 + t \div Year
YearDay(t) == 1 + (t % Year) \div Day
HourOf(t) == (t % Day) \div Hour
MinuteOf(t) == (t % Hour) \div Minute
SecondOf(t) == (t % Minute) \div Second

MonthStarts == <<1, 32, 60, 91, 121, 152, 182, 213, 244, 274, 305, 335>>
MonthOf(t) == CHOOSE m \in 1 .. 12 :
    /\ MonthStarts[m] <= YearDay(t)
    /\ m < 12 => YearDay(t) < MonthStarts[m + 1]
DayOf(t) == YearDay(t) - MonthStarts[MonthOf(t)] + 1

(* The time from a to b; what is too long for a duration is cut.           *)
Sub(b, a) ==
    IF a = Zero /\ b # Zero THEN Longest
    ELSE IF b = Zero /\ a # Zero THEN - Longest
    ELSE b - a
----------------------------------------------------------------------------
(* The conversion of a negative number of seconds to uint64 depends on the *)
(* machine: it wraps around or gives zero.                                 *)
Seconds(t) ==
    IF t >= 0 THEN {t \div Second}
    ELSE {0, (Wrap - (- t) \div Second) % Wrap}

(* A text names each unit that is not zero.  That of a whole second count  *)
(* of zero names none, unless the duration is zero itself.                 *)
Text(s, exact) ==
    [day  |-> s \div 86400,
     hour |-> (s \div 3600) % 24,
     min  |-> (s \div 60) % 60,
     sec  |-> s % 60,
     none |-> s = 0 /\ ~ exact]

FormatDurationISO(t) ==
    IF t = 0 THEN {Text(0, TRUE)} ELSE {Text(s, FALSE) : s \in Seconds(t)}

(* What a reader of the text understands.                                  *)
Worth(x) == ((x.day * 24 + x.hour) * 60 + x.min) * 60 + x.sec
Proper(x) == x.hour < 24 /\ x.min < 60 /\ x.sec < 60 /\ ~ x.none
----------------------------------------------------------------------------
(* A path is a sequence of directories, the parts of its base name, which  *)
(* underscores separate, and the extension that follows the last part.     *)
(* Numerals stand for themselves, negative numbers for all other names.    *)
NaN    == - 1
Failed == - 1  \* the time could not be parsed
Panic  == - 2  \* an index was out of range

Moment(y, doy, h, m) ==
    IF y < 1 \/ doy \notin 1 .. 365 \/ h \notin 0 .. 23 \/ m \notin 0 .. 59
    THEN Failed
    ELSE (y - 1) * Year + (doy - 1) * Day + h * Hour + m * Minute

FromEnd(s, n) == IF n < Len(s) THEN s[Len(s) - n] ELSE NaN

TimeYearDoy(p) ==
    IF Len(p.base) # 1 THEN Failed
    ELSE Moment(FromEnd(p.dirs, 0), p.base[1], 0, 0)

TimeRT(p) ==
    IF Len(p.base) < 2 THEN Panic
    ELSE Moment(FromEnd(p.dirs, 2), FromEnd(p.dirs, 1), FromEnd(p.dirs, 0),
                IF Len(p.base) = 2 /\ p.ext # "" THEN NaN ELSE p.base[2])

(* A day, counted from the first, and the half seconds since midnight.     *)
TimeHDK(p) ==
    IF Len(p.base) < 3 THEN Panic
    ELSE LET day  == p.base[Len(p.base) - 2]
             time == p.base[Len(p.base) - 1]
         IN  IF day < 1 \/ time \notin 0 .. Day - 1 THEN Failed
             ELSE (day - 1) * Day + time

TimeFuncs == {"none", "now", "rt", "year.doy.hour", "hadock", "hdk", "year.doy"}

(* Without a function, the time is zero and there is no error.  now is what*)
(* the clock shows when it is asked.                                       *)
GetTime(func, p, now) ==
    CASE func = "none"                    -> Zero
      [] func = "now"                     -> now
      [] func \in {"rt", "year.doy.hour"} -> TimeRT(p)
      [] func \in {"hadock", "hdk"}       -> TimeHDK(p)
      [] func = "year.doy"                -> TimeYearDoy(p)
============================================================================
