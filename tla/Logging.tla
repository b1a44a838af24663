------------------------------ MODULE Logging ------------------------------
(***************************************************************************)
(* The server's log: what main, Logger::Init and the LOG macros do with    *)
(* easylogging++, from the static initialisation that opens the default    *)
(* file to the destructor that flushes the streams.  One thread logs.      *)
(*                                                                         *)
(* A stream keeps what is written in a buffer until it is flushed.  When   *)
(* the disk is full a flush, or the write of a line that does not fit the  *)
(* buffer, fails; it may leave a part of the line in the file, and from    *)
(* then on the stream refuses every write.  Nothing tells of it: the       *)
(* library's own error messages are not compiled in.  Every line goes to   *)
(* standard output too, in color where the terminal has any.               *)
(***************************************************************************)
EXTENDS LogConfigurations

CONSTANTS
    Messages,      \* what is logged: [level, parts, place, time]
    Stopped,       \* the message main logs last
    LogFile,       \* the file main gives to Logger::Init, a path
    Environments,  \* the environments the server is started in
    Directories,   \* what directories there may be before the first start
    StartTime,     \* the time at which the loggers are configured
    MaxLogged,     \* bound: how many messages are logged in a life
    MaxLives       \* bound: how often the server is started

LineNumbers == 1..999
Years == 0..8099        \* since 1900
Microseconds == 0..999999

\* A place in the source: its files are named without specifiers, none lies in the root
\* directory, and the longest has some 300 lines.
IsPlace(place) ==
    /\ place.func \in STRING /\ place.file \in Seq(STRING) /\ place.line \in LineNumbers
    /\ place.file # <<>> /\ Last(place.file) \notin {"/", "%line", "%msg"}
    /\ Len(place.file) > 1 => Len(place.file) > 2 /\ place.file[Len(place.file) - 1] = "/"

\* A struct tm, up to the year 9999, with its microseconds.
IsTime(time) ==
    /\ time.sec \in 0..60 /\ time.min \in 0..59 /\ time.hour \in 0..23
    /\ time.mday \in 1..31 /\ time.mon \in 0..11 /\ time.year \in Years
    /\ time.wday \in 0..6 /\ time.usec \in Microseconds

\* A message as LogMessage keeps it; its time is the time at which its line is built.  The
\* server logs no Verbose messages, which have levels of their own, and no Fatal ones, which
\* would end it.
IsLogMessage(message) ==
    /\ message.level \in AllLevels \ {"Fatal", "Verbose"}
    /\ message.parts \in Seq(Seq(STRING))
    /\ IsPlace(message.place) /\ IsTime(message.time)

\* The log's name is a path to a file, without a date in it.
ASSUME LoggingAssumption ==
    /\ \A message \in Messages \cup {Stopped} : IsLogMessage(message)
    /\ LogFile \in Seq(STRING) /\ LogFile # DefaultLogFile
    /\ LogFile # <<>> /\ Last(LogFile) # "/" /\ \A i \in DOMAIN LogFile : LogFile[i] # "%datetime"
    /\ \A there \in Directories : {<<>>, <<"/">>} \subseteq there
    /\ MaxLogged \in Nat /\ MaxLives \in Nat

Files == {DefaultLogFile, LogFile}
DefaultLoggerId == "default"

VARIABLES
    life,          \* of the process: "down", "started", "ready", "stopping"
    lives,         \* how often it has been started
    typed,         \* m_typedConfigurations of the default logger
    flags,         \* the storage's flags
    env,           \* the environment of the process
    stream,        \* of each file: "none", "good", "bad" once a write failed, or "null"
    buffer,        \* of each stream: lines written and not flushed
    file,          \* of each file: its lines, and parts of lines
    dirs,          \* the directories there are
    console,       \* what this life has printed: [color, text]
    full,          \* is the disk full
    line,          \* the line being dispatched: <<>>, or its text and its stream
    logged,        \* ghost: the messages logged in this life
    refusals,      \* ghost: the files and directories this life was refused
    before         \* ghost: what the files held when this life began

vars == <<life, lives, typed, flags, env, stream, buffer, file, dirs, console, full, line, logged,
          refusals, before>>
environment == <<lives, env, full, dirs, refusals, before>>
configured == <<typed, flags>>
files == <<stream, buffer, file>>
NoLine == [text |-> <<>>, level |-> "Unknown", to |-> <<>>, pc |-> "idle"]

\* What Logger::Init configures.
Format == <<"[", "%datetime", "{", "%d", "/", "%M", "/", "%Y", " ", "%H", ":", "%m", ":", "%s", "}",
            "] ", "%levshort", " ", "%fbase", ":", "%line", " ", "%msg">>
InitConfigurations ==
    SetGlobally(SetGlobally(SetToDefault, "Format", Format, FALSE), "Filename", LogFile, FALSE)

NoTyped == [reference |-> <<>>]

\* The streams as TypedConfigurations knows them and as they are now.
Known == [f \in {g \in Files : stream[g] # "none"} |-> IF stream[f] = "null" THEN "null" ELSE "good"]
StreamsOf(t) == [f \in Files |->
    IF f \notin DOMAIN t.reference THEN "none"
    ELSE IF stream[f] = "none" THEN t.reference[f] ELSE stream[f]]

Init ==
    /\ life = "down" /\ lives = 0 /\ full = FALSE /\ line = NoLine /\ logged = <<>>
    /\ typed = NoTyped /\ flags = {} /\ console = <<>> /\ refusals = {}
    /\ env \in Environments /\ dirs \in Directories
    /\ stream = [f \in Files |-> "none"]
    /\ buffer = [f \in Files |-> <<>>]
    /\ file = [f \in Files |-> <<>>] /\ before = file

AddFlag(flag, set) == set \cup {flag}
HasFlag(flag, set) == flag \in set

\* newFileStream opens for output at the end of the file.
OpenFile(content) == content

Opened(t) == [f \in Files |->
    IF stream[f] = "none" /\ f \in DOMAIN t.reference /\ t.reference[f] = "good"
    THEN OpenFile(file[f]) ELSE file[f]]

\* The machine refuses some of what the configuration asks of it, if it asks for any.
Asked(names) ==
    {f \in names : stream[f] = "none"} \cup ({ExtractPathFromFilename(f) : f \in names} \ (dirs \cup names))

Host(environ, refused) == [env |-> environ, dirs |-> dirs, refused |-> refused, now |-> StartTime]

UseTyped(t) == typed' = t /\ dirs' = t.dirs /\ stream' = StreamsOf(t) /\ file' = Opened(t)

\* INITIALIZE_EASYLOGGINGPP, before main: the storage makes the default logger.
StaticInit(environ, refused) ==
    /\ life = "down" /\ lives < MaxLives
    /\ life' = "started" /\ lives' = lives + 1 /\ logged' = <<>> /\ before' = file
    /\ env' = environ /\ console' = <<>> /\ refusals' = refused
    /\ UseTyped(NewLogger(Known, Host(environ, refused), DefaultLoggerId))
    /\ flags' = AddFlag("AllowVerboseIfModuleNotSpecified", {})
    /\ UNCHANGED <<buffer, full, line>>

\* reconfigureLogger.  The flush of what the streams hold has nothing to write: nothing is
\* logged before.
UseConfigurations(configurations, refused) ==
    UseTyped(Configure(SetToDefault, configurations, Known, Host(env, refused), DefaultLoggerId))

LoggerInit(refused) ==
    /\ life = "started"
    /\ life' = "ready" /\ refusals' = refusals \cup refused
    /\ UseConfigurations(InitConfigurations, refused)
    /\ flags' = AddFlag("ColoredTerminalOutput", AddFlag("ImmediateFlush", flags))
    /\ UNCHANGED <<buffer, console, line, logged, lives, env, full, before>>

-----------------------------------------------------------------------------
\* The size of a file, in tokens.
SizeOf(f) == FoldLeft(LAMBDA size, l : size + Len(l.text), 0, file[f])

\* validateFileRolling: a file that is too long is closed, and opened empty.
RolledFile(level, content) ==
    LET f == FileStream(typed, level)
    IN  IF stream[f] # "null" /\ Rolls(typed, level, stream[f], SizeOf(f))
        THEN [content EXCEPT ![f] = <<>>] ELSE content

\* What a statement puts in with << is put together, with spaces only under the flag.
MessageBuilder(parts) ==
    FlattenSeq([i \in DOMAIN parts |-> parts[i] \o IF HasFlag("AutoSpacing", flags) THEN <<" ">> ELSE <<>>])

LogMessage(message) ==
    [level |-> message.level, text |-> MessageBuilder(message.parts), place |-> message.place,
     time |-> message.time]

\* LogDispatcher and its callback have the line built; it goes to the level's file, if
\* it has one, and to standard output.
DispatchData(message) ==
    LET to == FileStream(typed, message.level)
        toFile == ToFile(typed, message.level) /\ stream[to] # "null"
    IN  [text  |-> Build(LogFormatAt(typed, message.level), LogMessage(message), typed.subsecondPrecision),
         level |-> message.level,
         to    |-> to,
         pc    |-> IF toFile THEN "write" ELSE "print"]

\* A LOG statement: the Writer asks whether the level is enabled, and its destructor
\* dispatches what it was given.
Dispatch(message) ==
    /\ line.pc = "idle"
    /\ Len(logged) < MaxLogged
    /\ Enabled(typed, message.level)
    /\ logged' = Append(logged, message)
    /\ file' = IF HasFlag("StrictLogFileSizeCheck", flags) THEN RolledFile(message.level, file) ELSE file
    /\ line' = DispatchData(message)
    /\ UNCHANGED <<configured, stream, buffer, console, environment>>

Log(message) == life = "ready" /\ Dispatch(message) /\ UNCHANGED life

\* main's last line, after run has returned or thrown.
LogStopped == life = "ready" /\ Dispatch(Stopped) /\ life' = "stopping"

Whole(text) == [text |-> text, torn |-> FALSE]
Torn(text) == [text |-> text, torn |-> TRUE]

\* Lines that could not be written leave nothing, or a part of the first of them.
Fails(f, lines) ==
    /\ stream' = [stream EXCEPT ![f] = "bad"]
    /\ \/ UNCHANGED file
       \/ lines # <<>> /\ file' = [file EXCEPT ![f] = Append(@, Torn(Head(lines)))]

Lands(f, lines) ==
    /\ file' = [file EXCEPT ![f] = @ \o [i \in DOMAIN lines |-> Whole(lines[i])]]
    /\ UNCHANGED stream

ToDisk(f, lines) == IF full THEN Fails(f, lines) ELSE Lands(f, lines)

\* fs->write: into the buffer, or to the disk if the line does not fit it.
Write ==
    /\ line.pc = "write" /\ stream[line.to] = "good"
    /\ \/ /\ buffer' = [buffer EXCEPT ![line.to] = Append(@, line.text)]
          /\ line' = [line EXCEPT !.pc = "flush"]
          /\ UNCHANGED <<stream, file>>
       \/ /\ ToDisk(line.to, Append(buffer[line.to], line.text))
          /\ buffer' = [buffer EXCEPT ![line.to] = <<>>]
          /\ line' = [line EXCEPT !.pc = IF full THEN "print" ELSE "flush"]
    /\ UNCHANGED <<life, configured, console, logged, environment>>

\* fs->fail(): a bad stream takes nothing.
WriteRefused ==
    /\ line.pc = "write" /\ stream[line.to] = "bad"
    /\ line' = [line EXCEPT !.pc = "print"]
    /\ UNCHANGED <<life, configured, files, console, logged, environment>>

\* Mutant: a level that has a threshold is flushed, and one that has none is not.
FlushNeededByThreshold == LogFlushThreshold(typed, line.level) > 0

\* Without the flag lines are counted up to the level's threshold, and 0 is reached at once.
FlushNeeded == HasFlag("ImmediateFlush", flags) \/ LogFlushThreshold(typed, line.level) = 0

Flush ==
    /\ line.pc = "flush"
    /\ line' = [line EXCEPT !.pc = IF FlushNeeded THEN "roll" ELSE "print"]
    /\ IF FlushNeeded
       THEN /\ ToDisk(line.to, buffer[line.to])
            /\ buffer' = IF full THEN buffer ELSE [buffer EXCEPT ![line.to] = <<>>]
       ELSE UNCHANGED files
    /\ UNCHANGED <<life, configured, console, logged, environment>>

\* The rest of Logger::flush.
ValidateFileRolling ==
    /\ line.pc = "roll"
    /\ line' = [line EXCEPT !.pc = "print"]
    /\ file' = RolledFile(line.level, file)
    /\ UNCHANGED <<life, configured, stream, buffer, console, logged, environment>>

\* convertToColoredOutput.
Color(level) ==
    IF ~HasFlag("ColoredTerminalOutput", flags) \/ ~TermSupportsColor(env) THEN "plain"
    ELSE CASE level \in {"Error", "Fatal"} -> "red"
           [] level = "Warning" -> "yellow"
           [] level = "Debug" -> "green"
           [] level = "Info" -> "cyan"
           [] level = "Trace" -> "magenta"
           [] OTHER -> "plain"

\* The last step of the dispatch, whatever became of the file.
PrintLine ==
    /\ line.pc = "print"
    /\ line' = NoLine
    /\ console' = IF ToStandardOutput(typed, line.level)
                  THEN Append(console, [color |-> Color(line.level), text |-> line.text]) ELSE console
    /\ UNCHANGED <<life, configured, files, logged, environment>>

-----------------------------------------------------------------------------
Ends ==
    /\ life' = "down" /\ line' = NoLine /\ flags' = {}
    /\ typed' = NoTyped
    /\ stream' = [f \in Files |-> "none"]
    /\ buffer' = [f \in Files |-> <<>>]
    /\ UNCHANGED <<console, logged, environment>>

\* The end of main, after the usage or the last line: the streams are flushed and closed,
\* and the close of a bad one tries its buffer again.
Exit ==
    /\ life = "started" \/ (life = "stopping" /\ line.pc = "idle")
    /\ file' = [f \in Files |->
                   IF full THEN file[f]
                   ELSE file[f] \o [i \in DOMAIN buffer[f] |-> Whole(buffer[f][i])]]
    /\ Ends

\* The process is killed: what is in the buffers is lost.
Kill == life # "down" /\ UNCHANGED file /\ Ends

DiskFills ==
    /\ full' = ~full
    /\ UNCHANGED <<life, lives, configured, env, files, dirs, console, line, logged, refusals, before>>

Next ==
    \/ \E environ \in Environments, refused \in SUBSET Asked({DefaultLogFile}) : StaticInit(environ, refused)
    \/ \E refused \in SUBSET Asked(Files) : LoggerInit(refused)
    \/ \E message \in Messages : Log(message)
    \/ LogStopped
    \/ Write
    \/ WriteRefused
    \/ Flush
    \/ ValidateFileRolling
    \/ PrintLine
    \/ Exit
    \/ Kill
    \/ DiskFills

Spec == Init /\ [][Next]_vars

-----------------------------------------------------------------------------
(* Properties. *)

\* The line of a message, as the format given to Logger::Init reads.
Two(n) == <<Digit(n \div 10), Digit(n % 10)>>
Decimal(n) ==
    CASE n < 10 -> <<Digit(n)>> [] n \in 10..99 -> Two(n) [] n > 99 -> <<Digit(n \div 100)>> \o Two(n % 100)

DateOf(t) ==
    Two(t.mday) \o <<"/">> \o Two(t.mon + 1) \o <<"/">>
        \o Two((t.year + 1900) \div 100) \o Two(t.year % 100) \o <<" ">>
        \o Two(t.hour) \o <<":">> \o Two(t.min) \o <<":">> \o Two(t.sec)

LineOf(message) ==
    <<"[">> \o DateOf(message.time) \o <<"] ", LevelShortName[message.level], " ">>
        \o <<Last(message.place.file), ":">> \o Decimal(message.place.line) \o <<" ">>
        \o FlattenSeq(message.parts) \o <<"\n">>

\* The texts of the lines that are whole.
WholeLines(lines) ==
    LET whole[n \in 0..Len(lines)] ==
            CASE n = 0                   -> <<>>
              [] n > 0 /\ ~lines[n].torn -> Append(whole[n - 1], lines[n].text)
              [] OTHER                   -> whole[n - 1]
    IN  whole[Len(lines)]

NewWholeLines(f) == WholeLines(SubSeq(file[f], Len(before[f]) + 1, Len(file[f])))

\* What a life leaves in the log is what it logged, in that order and from its beginning,
\* without a gap, each line with the message as it was given, whatever specifiers or
\* braces it has; what was in a file before stays, and the default file stays as it was.
\* A flush that fails may cost the rest of the log, never one line in the middle of it.
\* (Filling in a format is a chain of replacements, and a line that comes late would be
\* read as complete.)
FileTellsWhatWasLogged ==
    /\ \E n \in 0..Len(logged) : NewWholeLines(LogFile) = [i \in 1..n |-> LineOf(logged[i])]
    /\ file[DefaultLogFile] = before[DefaultLogFile]
    /\ IsPrefix(before[LogFile], file[LogFile])

\* When a LOG statement has returned and no write has failed, its line and all before it
\* are in the file: a server that is killed then has lost none of them.  On standard
\* output they are then in any case, each in the color of its level where the terminal
\* has colors.
WrittenWhenReturned ==
    LET Colors ==
            [Trace |-> "magenta", Debug |-> "green", Info |-> "cyan", Warning |-> "yellow", Error |-> "red"]
        Printed(m) ==
            [color |-> IF TermSupportsColor(env) THEN Colors[m.level] ELSE "plain", text |-> LineOf(m)]
    IN  life \in {"ready", "stopping"} /\ line.pc = "idle" =>
            /\ console = [i \in DOMAIN logged |-> Printed(logged[i])]
            /\ (\A f \in Files : stream[f] = "good") => Len(NewWholeLines(LogFile)) = Len(logged)

\* After Logger::Init the levels all log to the file or none does, and they do when no
\* file and no directory was refused.  That the default file, to which nothing is logged,
\* is one of them is what the code does: its failure turns toFile off for Global, whose
\* value the levels fall back to.
AllLevelsOrNone ==
    life \in {"ready", "stopping"} =>
        \A m \in Messages \cup {Stopped} : ToFile(typed, m.level) <=> refusals = {}

=============================================================================
