------------------------- MODULE LogConfigurations -------------------------
(***************************************************************************)
(* How a logger is configured (Configurations and TypedConfigurations of   *)
(* src/logger/easylogging++).  Configurations gives a type and a level a   *)
(* value; setting the level Global sets all levels.  TypedConfigurations   *)
(* holds a map from levels for each type, where a level without an entry   *)
(* takes Global's, and the streams of the files, which loggers and levels  *)
(* share by the file's name.                                               *)
(*                                                                         *)
(* The code keeps Configurations as a list, in the order in which entries  *)
(* were first set.  It begins with setToDefault, which sets each type for  *)
(* Global and then for the levels, so Global's entry always comes first.   *)
(***************************************************************************)
EXTENDS Naturals, Sequences, SequencesExt, LogFormat

AllLevels == {"Trace", "Debug", "Fatal", "Error", "Warning", "Verbose", "Info"}
Levels == {"Global"} \cup AllLevels
Types == {"Enabled", "ToFile", "ToStandardOutput", "Format", "Filename", "SubsecondPrecision",
          "MaxLogFileSize", "LogFlushThreshold"}

NoConfigurations == [type \in Types |-> <<>>]

\* What f maps, and what only g does.
Over(f, g) == [x \in DOMAIN f \cup DOMAIN g |-> IF x \in DOMAIN f THEN f[x] ELSE g[x]]

Set(configurations, level, type, value) ==
    [configurations EXCEPT ![type] =
        Over([l \in IF level = "Global" THEN Levels ELSE {level} |-> value], @)]

SetGlobally(configurations, type, value, includeGlobalLevel) ==
    [configurations EXCEPT ![type] =
        Over([l \in IF includeGlobalLevel THEN Levels ELSE AllLevels |-> value], @)]

\* Mutant: what is there already is kept.
SetFromBaseIfMissing(configurations, base) ==
    [type \in Types |-> Over(configurations[type], base[type])]

\* Global's entry sets all levels, then those of the levels are set.
SetFromBase(configurations, base) ==
    [type \in Types |->
        Over(base[type], IF "Global" \in DOMAIN base[type] THEN [l \in Levels |-> base[type]["Global"]]
                         ELSE configurations[type])]

DefaultLogFile == <<"myeasylog.log">>
SetToDefault ==
    LET Short == <<"%datetime", " ", "%level", " [", "%logger", "] ", "%msg">>
        Format ==
            [Debug   |-> <<"%datetime", " ", "%level", " [", "%logger", "] [", "%user", "@", "%host", "] [",
                           "%func", "] [", "%loc", "] ", "%msg">>,
             Verbose |-> <<"%datetime", " ", "%level", "-", "%vlevel", " [", "%logger", "] ", "%msg">>,
             Trace   |-> <<"%datetime", " ", "%level", " [", "%logger", "] [", "%func", "] [", "%loc", "] ",
                           "%msg">>]
    IN  [type \in Types |->
            [level \in Levels |->
                CASE type \in {"Enabled", "ToFile", "ToStandardOutput"} -> "true"
                  [] type = "Filename" -> DefaultLogFile
                  [] type = "SubsecondPrecision" -> <<"3">>
                  [] type \in {"MaxLogFileSize", "LogFlushThreshold"} -> <<"0">>
                  [] type = "Format" -> IF level \in DOMAIN Format THEN Format[level] ELSE Short]]

-----------------------------------------------------------------------------
\* A configured value is a text.
GetBool(text) == text \in {"TRUE", "true", "1"}

GetULong(text) ==
    LET value[i \in 0..Len(text)] ==
            IF i = 0 THEN 0 ELSE 10 * value[i - 1] + CHOOSE n \in 0..9 : Digit(n) = text[i]
    IN  IF \A i \in DOMAIN text : \E n \in 0..9 : Digit(n) = text[i] THEN value[Len(text)] ELSE 0

\* The typed maps: the first value is taken for Global, and a level gets an entry of its
\* own only when Global's is another one.
SetValue(map, level, value) ==
    IF map # <<>> /\ "Global" \in DOMAIN map /\ map["Global"] = value THEN map
    ELSE Over([l \in {IF map = <<>> THEN "Global" ELSE level} |-> value], map)

TypedMap(Typed(_), values) ==
    LET Own(level) == level = "Global" \/ Typed(values[level]) # Typed(values["Global"])
    IN  [level \in {l \in DOMAIN values : Own(l)} |-> Typed(values[level])]

\* A level that has neither an entry nor one of Global takes the default of the type.
GetConfig(map, level, default) ==
    IF level \in DOMAIN map THEN map[level]
    ELSE IF "Global" \in DOMAIN map THEN map["Global"] ELSE default

\* A file is looked for under its name; a new one is opened in its directory, which is
\* made when it is missing.  The reference keeps the stream, or "null" when the file could
\* not be opened, which is not tried again.
WithPaths(host, names) ==
    [host EXCEPT !.dirs = @ \cup
        UNION {CreatePath(host, ExtractPathFromFilename(name)).dirs :
                  name \in {n \in names : Len(ExtractPathFromFilename(n)) < Len(n)}}]

OpenStreams(reference, names, host) ==
    Over(reference, [name \in names |-> NewFileStream(host, name)])

\* Mutant: a level depends on its own file only.
ToFileByLevel(toFile, files, reference) ==
    [level \in Levels |-> toFile["Global"] /\ reference[files[level]] # "null"]

\* insertFile for every level: one whose stream is null does not log to a file.  Global
\* is the first, and the levels without an entry of their own in toFile follow it.
ToFileOf(toFile, files, reference) ==
    LET Null(level) == reference[files[level]] = "null"
        global == IF Null("Global") THEN SetValue(toFile, "Global", FALSE) ELSE toFile
    IN  Over([level \in {l \in AllLevels : Null(l) /\ SetValue(global, l, FALSE) # global} |-> FALSE],
             global)

\* The files come last, since one that cannot be opened changes toFile.  The precision is
\* one for all levels: the last one configured.
BuildTyped(configurations, reference, host) ==
    LET files   == [l \in Levels |-> ResolveFilename(configurations["Filename"][l], host.now)]
        names   == {files[l] : l \in Levels}
        after   == WithPaths(host, names)
        streams == OpenStreams(reference, names, after)
        formats == [l \in Levels |-> LogFormatOf(l, configurations["Format"][l], host.env)]
    IN  [enabled            |-> TypedMap(GetBool, configurations["Enabled"]),
         toFile             |-> ToFileOf(TypedMap(GetBool, configurations["ToFile"]), files, streams),
         toStandardOutput   |-> TypedMap(GetBool, configurations["ToStandardOutput"]),
         logFormat          |-> TypedMap(LAMBDA format : format, formats),
         subsecondPrecision |-> SubsecondPrecision(GetULong(configurations["SubsecondPrecision"]["Info"])),
         maxLogFileSize     |-> TypedMap(GetULong, configurations["MaxLogFileSize"]),
         logFlushThreshold  |-> TypedMap(GetULong, configurations["LogFlushThreshold"]),
         files              |-> files,
         reference          |-> streams,
         dirs               |-> after.dirs]

Enabled(typed, level) == GetConfig(typed.enabled, level, FALSE)
ToFile(typed, level) == GetConfig(typed.toFile, level, FALSE)
ToStandardOutput(typed, level) == GetConfig(typed.toStandardOutput, level, FALSE)
FileStream(typed, level) == GetConfig(typed.files, level, <<>>)
LogFormatAt(typed, level) == GetConfig(typed.logFormat, level, NoLogFormat)
MaxLogFileSize(typed, level) == GetConfig(typed.maxLogFileSize, level, 0)
LogFlushThreshold(typed, level) == GetConfig(typed.logFlushThreshold, level, 0)

\* unsafeValidateFileRolling: is the file of a level to be emptied?
Rolls(typed, level, stream, size) ==
    /\ MaxLogFileSize(typed, level) # 0
    /\ HasAtLeast(stream, size, MaxLogFileSize(typed, level))

\* resolveLoggerFormatSpec: the logger's id is filled in in the formats of the levels.
ResolveFormats(typed, id) ==
    [typed EXCEPT !.logFormat = [level \in DOMAIN @ |-> ResolveLoggerFormatSpec(@[level], id)]]

\* Logger::configure: what is configured is set over the logger's own configurations.
Configure(own, configurations, reference, host, id) ==
    ResolveFormats(BuildTyped(SetFromBase(own, configurations), reference, host), id)

\* RegisteredLoggers::get: a logger that is not there yet is made and configured by default.
NewLogger(reference, host, id) == Configure(NoConfigurations, SetToDefault, reference, host, id)

=============================================================================
