------------------------------ MODULE LogText ------------------------------
(***************************************************************************)
(* The numbers, dates and file names of a log line (classes Str, DateTime  *)
(* and File of src/logger/easylogging++).  All are written into buffers of *)
(* a fixed size, and what does not fit is left out.                        *)
(*                                                                         *)
(* Texts are sequences of tokens; a digit is a token, a "%" with the       *)
(* letter behind it is one, and so is a piece of a path between slashes.   *)
(***************************************************************************)
EXTENDS Naturals, Sequences, SequencesExt, FiniteSetsExt

Digit(n) == <<"0", "1", "2", "3", "4", "5", "6", "7", "8", "9">>[n + 1]
NumberOfDigits(n) == CHOOSE d \in 1..20 : n < 10 ^ d /\ (d = 1 \/ n >= 10 ^ (d - 1))

\* The last len digits of n, or fewer when it is shorter and no zeros are to go before it.
\* The local buffer has room for 8.
ConvertAndAddToBuff(n, len, zeroPadded) ==
    LET width == Min({8, len} \cup (IF zeroPadded THEN {} ELSE {NumberOfDigits(n)}))
    IN  [i \in 1..width |-> Digit((n \div 10 ^ (width - i)) % 10)]

\* SubsecondPrecision::init: the width, and what microseconds are divided by.
SubsecondPrecision(width) ==
    LET valid == IF width \in 1..6 THEN width ELSE 3
    IN  [width |-> valid, offset |-> IF valid \in 3..6 THEN 10 ^ (6 - valid) ELSE 1000]

Days == <<"Sunday", "Monday", "Tuesday", "Wednesday", "Thursday", "Friday", "Saturday">>
DaysAbbrev == <<"Sun", "Mon", "Tue", "Wed", "Thu", "Fri", "Sat">>
Months == <<"January", "February", "March", "Apri", "May", "June", "July", "August", "September",
            "October", "November", "December">>
MonthsAbbrev == <<"Jan", "Feb", "Mar", "Apr", "May", "Jun", "Jul", "Aug", "Sep", "Oct", "Nov", "Dec">>
YearBase == 1900

\* parseFormat, a token at a time; time is a struct tm with its microseconds.
ParseToken(token, time, precision) ==
    CASE token = "%%" -> <<"%">>
      [] token = "%d" -> ConvertAndAddToBuff(time.mday, 2, TRUE)
      [] token = "%a" -> <<DaysAbbrev[time.wday + 1]>>
      [] token = "%A" -> <<Days[time.wday + 1]>>
      [] token = "%M" -> ConvertAndAddToBuff(time.mon + 1, 2, TRUE)
      [] token = "%b" -> <<MonthsAbbrev[time.mon + 1]>>
      [] token = "%B" -> <<Months[time.mon + 1]>>
      [] token = "%y" -> ConvertAndAddToBuff(time.year + YearBase, 2, TRUE)
      [] token = "%Y" -> ConvertAndAddToBuff(time.year + YearBase, 4, TRUE)
      [] token = "%h" -> ConvertAndAddToBuff(time.hour % 12, 2, TRUE)
      [] token = "%H" -> ConvertAndAddToBuff(time.hour, 2, TRUE)
      [] token = "%m" -> ConvertAndAddToBuff(time.min, 2, TRUE)
      [] token = "%s" -> ConvertAndAddToBuff(time.sec, 2, TRUE)
      [] token \in {"%z", "%g"} -> ConvertAndAddToBuff(time.usec \div precision.offset, precision.width, TRUE)
      [] token = "%F" -> <<IF time.hour >= 12 THEN "PM" ELSE "AM">>
      [] OTHER -> <<token>>

\* timevalToString: the buffer takes kBuffSize characters (the names of days and months
\* count as one here).
BuffSize == 30
GetDateTime(format, time, precision) ==
    LET text == FlattenSeq([i \in DOMAIN format |-> ParseToken(format[i], time, precision)])
    IN  SubSeq(text, 1, Min({Len(text), BuffSize}))

\* buildBaseFilename: what is behind the last slash; of a name whose only slash is its
\* first character, all of it.
BaseFilename(path) ==
    LET lastSlash == Max({0} \cup {i \in DOMAIN path : path[i] = "/"})
    IN  IF lastSlash = 1 THEN path ELSE SubSeq(path, lastSlash + 1, Len(path))

=============================================================================
