----------------------------- MODULE LogFormat -----------------------------
(***************************************************************************)
(* How a log line is made (class LogFormat and DefaultLogBuilder::build of *)
(* src/logger/easylogging++).  A format is read twice: when it is          *)
(* configured, its specifiers are noted as flags, its date format is taken *)
(* out and what is the same for all lines of a level is filled in; when a  *)
(* line is built, the rest is filled in, one specifier after the other and *)
(* each into what the one before has left, the message last.               *)
(*                                                                         *)
(* A text is a sequence of tokens: a specifier is one token, "%" is the    *)
(* escape in front of one, "{" and "}" enclose a date format, and any      *)
(* other token stands for a piece of text.                                 *)
(***************************************************************************)
EXTENDS Naturals, Sequences, SequencesExt, LogText, LogHost

\* The specifiers, in the order in which parseFromFormat looks for them.
FormatSpecifiers ==
    {"%app", "%level", "%levshort", "%logger", "%thread", "%file", "%fbase", "%line", "%loc",
     "%func", "%user", "%host", "%msg", "%vlevel"}

LevelName ==
    [Trace |-> "TRACE", Debug |-> "DEBUG", Fatal |-> "FATAL", Error |-> "ERROR",
     Warning |-> "WARNING", Verbose |-> "VERBOSE", Info |-> "INFO"]
LevelShortName ==
    [Trace |-> "T", Debug |-> "D", Fatal |-> "F", Error |-> "E",
     Warning |-> "W", Verbose |-> "V", Info |-> "I"]

\* What is behind a specifier that is not escaped.
Occurrences(text, what) == {i \in DOMAIN text : text[i] = what}
Escaped(text, i) == i > 1 /\ text[i - 1] = "%"
Plain(text, what) == {i \in Occurrences(text, what) : ~Escaped(text, i)}
Least(set) == CHOOSE i \in set : \A j \in set : i =< j

\* The first occurrence that is not escaped is replaced; those before it lose their
\* escape, and those after it stay as they are.
ReplaceFirstWithEscape(text, what, with) ==
    LET first == IF Plain(text, what) = {} THEN Len(text) + 1 ELSE Least(Plain(text, what))
        Escape(i) == text[i] = "%" /\ i + 1 < first /\ i + 1 \in Occurrences(text, what)
    IN  FlattenSeq([i \in DOMAIN text |->
            CASE i = first -> with
              [] Escape(i) -> <<>>
              [] OTHER     -> <<text[i]>>])

\* All occurrences, escaped or not.
ReplaceAllWith(text, what, with) ==
    FlattenSeq([i \in DOMAIN text |-> IF text[i] = what THEN with ELSE <<text[i]>>])

\* The flags, and the text without the escapes of specifiers that have their flag.
FlagsOf(text) == {f \in FormatSpecifiers : Plain(text, f) # {}}

WithoutEscapes(text) ==
    LET Spare(i) ==
            /\ text[i] = "%" /\ i < Len(text) /\ text[i + 1] \in FlagsOf(text)
            /\ Least(Plain(text, text[i + 1])) =< i
    IN  FlattenSeq([i \in DOMAIN text |-> IF Spare(i) THEN <<>> ELSE <<text[i]>>])

DefaultDateTimeFormat == <<"%Y", "-", "%M", "-", "%d", " ", "%H", ":", "%m", ":", "%s", ",", "%g">>

\* What is in braces behind the first %datetime is taken out; default stands for it when
\* there is none.
SplitDateFormat(text, default) ==
    LET at == Plain(text, "%datetime")
        i == Least(at) + 1
        close == Least({j \in i..Len(text) : text[j] = "}"} \cup {Len(text) + 1})
    IN  CASE at = {}                         -> [text |-> text, format |-> <<>>]
          [] at # {} /\ i =< Len(text) /\ text[i] = "{" ->
                [text   |-> SubSeq(text, 1, i - 1) \o SubSeq(text, close + 1, Len(text)),
                 format |-> SubSeq(text, i + 1, close - 1)]
          [] OTHER                           -> [text |-> text, format |-> default]

\* updateDateFormat.
DateFormat(text) == SplitDateFormat(text, DefaultDateTimeFormat)

\* updateFormatSpec: what does not change from line to line.
FormatSpec(level, text, flags, env) ==
    LET named ==
            IF level \notin DOMAIN LevelName THEN text
            ELSE ReplaceFirstWithEscape(
                    ReplaceFirstWithEscape(text, "%level", <<LevelName[level]>>),
                    "%levshort", <<LevelShortName[level]>>)
        user == IF "%user" \in flags
                THEN ReplaceFirstWithEscape(named, "%user", <<CurrentUser(env)>>) ELSE named
    IN  IF "%host" \in flags
        THEN ReplaceFirstWithEscape(user, "%host", <<CurrentHost(env)>>) ELSE user

\* A LogFormat before it is given a format.
NoLogFormat == [level |-> "Unknown", userFormat |-> <<>>, format |-> <<>>, dateTimeFormat |-> <<>>, flags |-> {}]

\* A LogFormat is made from what the user has configured for a level.
LogFormatOf(level, userFormat, env) ==
    LET date  == DateFormat(WithoutEscapes(userFormat))
        flags == FlagsOf(userFormat)
                   \cup (IF Plain(userFormat, "%datetime") = {} THEN {} ELSE {"%datetime"})
    IN  [level          |-> level,
         userFormat     |-> userFormat,
         format         |-> FormatSpec(level, date.text, flags, env),
         dateTimeFormat |-> date.format,
         flags          |-> flags]

\* resolveFilename: a file's name may hold the date, in which "-" stands for "/".
DefaultDateTimeFormatInFilename == <<"%Y", "-", "%M", "-", "%d", "_", "%H", "-", "%m">>
ResolveFilename(name, time) ==
    LET split == SplitDateFormat(name, DefaultDateTimeFormatInFilename)
        now   == GetDateTime(split.format, time, SubsecondPrecision(3))
    IN  IF Plain(name, "%datetime") = {} THEN name
        ELSE ReplaceAllWith(split.text, "%datetime", ReplaceAll(now, "/", "-"))

\* The logger's id is filled in when the logger is configured.
ResolveLoggerFormatSpec(logFormat, id) ==
    [logFormat EXCEPT !.format = ReplaceFirstWithEscape(@, "%logger", <<id>>)]

\* What stands for a specifier in the line of a message, in the order of replacement.
\* A message has a level, a text, the place in the source that logs it, and a time.
SourceLineMaxLength == 10
Replacements(logFormat, message, precision) ==
    LET line == ConvertAndAddToBuff(message.place.line, SourceLineMaxLength, FALSE)
    IN  <<<<"%app", <<>>>>,
          <<"%thread", <<>>>>,
          <<"%datetime", GetDateTime(logFormat.dateTimeFormat, message.time, precision)>>,
          <<"%func", <<message.place.func>>>>,
          <<"%file", message.place.file>>,
          <<"%fbase", BaseFilename(message.place.file)>>,
          <<"%line", line>>,
          <<"%loc", message.place.file \o <<":">> \o line>>,
          <<"%msg", message.text>>>>

Build(logFormat, message, precision) ==
    LET r == Replacements(logFormat, message, precision)
        line[i \in 0..Len(r)] ==
            CASE i = 0                                -> logFormat.format
              [] i > 0 /\ r[i][1] \in logFormat.flags ->
                    ReplaceFirstWithEscape(line[i - 1], r[i][1], r[i][2])
              [] OTHER                                -> line[i - 1]
    IN  line[Len(r)] \o <<"\n">>

=============================================================================
