------------------------------ MODULE LogHost ------------------------------
(***************************************************************************)
(* What easylogging++ asks of the machine it runs on (classes OS and File  *)
(* of src/logger/easylogging++): environment variables, directories and    *)
(* files.                                                                  *)
(*                                                                         *)
(* A host is a record of its environment, the directories it has, what it  *)
(* refuses to create or to open, and the time.  A path is a sequence of    *)
(* tokens, with "/" for a separator; a directory ends in one, and <<>> is  *)
(* the directory the program runs in.                                      *)
(***************************************************************************)
EXTENDS Naturals, Sequences, SequencesExt, LogText

\* A variable that is empty counts as one that is not set.
GetEnvironmentVariable(env, name, default) ==
    IF name \in DOMAIN env /\ env[name] # "" THEN env[name] ELSE default

CurrentUser(env) == GetEnvironmentVariable(env, "USER", "user")
CurrentHost(env) == GetEnvironmentVariable(env, "HOSTNAME", "unknown-host")

TermSupportsColor(env) ==
    GetEnvironmentVariable(env, "TERM", "") \in
        {"xterm", "xterm-color", "xterm-256color", "screen", "linux", "cygwin", "screen-256color"}

UpToLastSlash(path) == SubSeq(path, 1, Max({0} \cup {i \in DOMAIN path : path[i] = "/"}))

\* A name without a slash is its own path, which the caller takes for "none".
ExtractPathFromFilename(path) == IF UpToLastSlash(path) = <<>> THEN path ELSE UpToLastSlash(path)

PathExists(host, path) == path \in host.dirs

\* mkdir: its parent must be there, and the host must allow it.
MakeDirectory(host, path) ==
    IF PathExists(host, UpToLastSlash(Front(path))) /\ path \notin host.refused
    THEN [host EXCEPT !.dirs = @ \cup {path}] ELSE host

\* The directories of a path are made from the first to the last; one that is there or
\* is refused does not stop it.
CreatePath(host, path) ==
    LET made[i \in 1..Len(path)] ==
            CASE i = 1                  -> host
              [] i > 1 /\ path[i] = "/" -> MakeDirectory(made[i - 1], SubSeq(path, 1, i))
              [] OTHER                  -> made[i - 1]
    IN  IF path = <<>> \/ PathExists(host, path) THEN host ELSE made[Len(path)]

\* An fstream that appends: the file is made when it is missing, never its directory.
NewFileStream(host, name) ==
    IF PathExists(host, UpToLastSlash(name)) /\ name \notin host.refused THEN "good" ELSE "null"

\* A stream that has failed tells the size -1, as an unsigned number the largest there is.
HasAtLeast(stream, size, limit) == stream = "bad" \/ size >= limit

=============================================================================
