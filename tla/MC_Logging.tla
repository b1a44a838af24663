---------------------------- MODULE MC_Logging ----------------------------
(***************************************************************************)
(* Two starts of the server, with up to three messages each, in a terminal *)
(* with colors and in one without.  The texts are one without and one full *)
(* of what means something in a format, as a memo's title or an SQL        *)
(* statement in a message may be.                                          *)
(***************************************************************************)
EXTENDS Logging

PlaceIn(directory, base, at) == [func |-> "f", file |-> directory \o <<base>>, line |-> at]

\* The last second of a leap day, and the first one of a year.
LeapDay == [mday |-> 29, mon |-> 1, year |-> 124, wday |-> 4, hour |-> 23, min |-> 59, sec |-> 59, usec |-> 999999]
NewYear == [mday |-> 1, mon |-> 0, year |-> 125, wday |-> 3, hour |-> 0, min |-> 0, sec |-> 0, usec |-> 0]

MessagesMC ==
    {[level |-> "Debug", parts |-> <<<<"text">>>>, place |-> PlaceIn(<<"src", "/">>, "a.cpp", 7), time |-> LeapDay],
     [level |-> "Error", parts |-> <<<<"%", "%fbase", "%line">>, <<"{", "%msg", "}">>>>,
      place |-> PlaceIn(<<"/", "src", "/", "db", "/">>, "b.cpp", 275), time |-> NewYear]}

StoppedMC ==
    [level |-> "Info", parts |-> <<<<"Server stopped.">>>>, place |-> PlaceIn(<<>>, "main.cpp", 28),
     time |-> NewYear]

LogFileMC == <<"..", "/", "log", "/", "memo.log">>
EnvironmentsMC == {[TERM |-> "xterm", USER |-> "me"], [TERM |-> "dumb", USER |-> ""]}

\* The server's directory, its parent and the root are there, the log's may be missing.
DirectoriesMC ==
    LET there == {<<>>, <<"/">>, <<"..", "/">>}
    IN  {there, there \cup {<<"..", "/", "log", "/">>}}
StartTimeMC == LeapDay

\* A terminal that has colors, one that has none, and a process without a terminal.
ASSUME TermSupportsColorExamples ==
    /\ TermSupportsColor([TERM |-> "xterm"]) /\ ~TermSupportsColor([TERM |-> "dumb"])
    /\ ~TermSupportsColor([TERM |-> ""]) /\ ~TermSupportsColor([USER |-> "me"])

\* resolveFilename on names with the date by default, in braces, twice, and not at all:
\* no "/" of a date is taken for a directory.
ASSUME ResolveFilenameExamples ==
    LET at(name) == ResolveFilename(name, LeapDay)
        date == <<"2", "9", "-", "0", "2">>
    IN  /\ at(<<"a", "%datetime">>) =
              <<"a", "2", "0", "2", "4", "-", "0", "2", "-", "2", "9", "_", "2", "3", "-", "5", "9">>
        /\ at(<<"l", "/", "%datetime", "{", "%d", "/", "%M", "}", ".", "%datetime">>) =
              <<"l", "/">> \o date \o <<".">> \o date
        /\ at(LogFileMC) = LogFileMC

===========================================================================
