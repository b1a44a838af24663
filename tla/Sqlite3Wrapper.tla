--------------------------- MODULE Sqlite3Wrapper ---------------------------
(***************************************************************************)
(* The wrapper around SQLite's C interface (src/db/Sqlite3Wrapper.cpp) and *)
(* what happens to a text on its way into a statement: the database layer  *)
(* puts it, with its quotes doubled (src/db/Tools.cpp), between quotes     *)
(* (src/db/Sqlite3Functions.cpp); exec hands the statement to SQLite as a  *)
(* C string, with its own copy of the caller's callback; SQLite's          *)
(* tokenizer reads the literal back, character by character, and calls the *)
(* callback for every row of the result.                                   *)
(***************************************************************************)
EXTENDS Integers, SequencesExt

CONSTANTS
    Characters, \* the characters of texts
    Quote,      \* the character '
    Nul,        \* the character that ends a C string; a std::string may contain it
    Other,      \* any other character
    MaxLength,  \* bound: length of texts
    MaxRows,    \* bound: rows of a result
    MaxCalls    \* bound: calls of exec

ASSUME WrapperAssumption ==
    /\ {Quote, Nul, Other} \subseteq Characters
    /\ Quote # Nul /\ Quote # Other /\ Nul # Other
    /\ MaxLength \in Nat /\ MaxRows \in Nat /\ MaxCalls \in Nat

VARIABLES
    handle_,   \* whether there is a connection
    callback_, \* the call whose callback the wrapper holds; NoCall for an empty std::function
    call,      \* number of the latest call of exec
    query,     \* its arguments and the rows SQLite finds for it
    sql,       \* the characters of the statement, from the literal on
    position,  \* the next character the tokenizer looks at
    value,     \* the literal's value as read so far
    stepped,   \* rows returned so far
    collected, \* what the callback of each call was called with: <<call, row>>
    returned,  \* what each call returned; "none" before that
    pc         \* "idle", "literal", "rows" or "thrown"

vars == <<handle_, callback_, call, query, sql, position, value, stepped, collected,
          returned, pc>>

Calls == 1..MaxCalls
NoCall == 0

\* The program passes a callback with a SELECT, and nullptr with every other statement.
Queries == [text : SeqOf(Characters, MaxLength), select : BOOLEAN, rows : 0..MaxRows]

NoQuery == [text |-> <<>>, select |-> FALSE, rows |-> 0]

-----------------------------------------------------------------------------

\* Mutant: only a first quote is doubled.
EscapeFirstQuote(text) ==
    IF text # <<>> /\ Head(text) = Quote THEN <<Quote>> \o text ELSE text

\* What the loop has made of the first i characters: every quote is doubled.
Escaped(text) ==
    LET result[i \in 0..Len(text)] ==
            IF i = 0 THEN <<>>
            ELSE IF text[i] = Quote THEN result[i - 1] \o <<Quote, Quote>>
            ELSE Append(result[i - 1], text[i])
    IN  result

EscapeSingleQuotes(text) == Escaped(text)[Len(text)]

\* What follows a literal in a statement does not start with a quote.
Rest == <<Other, Other>>

\* '...' in the statement of a list operation or of InsertMemo, UpdateTagTable, ...
Literal(string) == <<Quote>> \o EscapeSingleQuotes(string) \o <<Quote>> \o Rest

\* c_str(): the string up to its first Nul.
CString(string) ==
    LET firstNul == SelectInSeq(string, LAMBDA character : character = Nul)
    IN  IF firstNul = 0 THEN string ELSE SubSeq(string, 1, firstNul - 1)

-----------------------------------------------------------------------------

Init ==
    /\ handle_ = FALSE /\ callback_ = NoCall
    /\ call = 0 /\ query = NoQuery
    /\ sql = <<>> /\ position = 1 /\ value = <<>> /\ stepped = 0
    /\ collected = [c \in Calls |-> <<>>]
    /\ returned = [c \in Calls |-> "none"]
    /\ pc = "idle"

\* open: does nothing to an open connection; SQLite may fail to open the file, and the
\* handle it makes even then is closed again.
Open ==
    /\ pc = "idle"
    /\ handle_' \in (IF handle_ THEN {TRUE} ELSE BOOLEAN)
    /\ UNCHANGED <<callback_, call, query, sql, position, value, stepped, collected,
                   returned, pc>>

\* close, of the destructor too: no statement is unfinished between two calls, so SQLite
\* closes the connection; it takes a null handle as well.
Close ==
    /\ pc = "idle"
    /\ handle_' = FALSE
    /\ UNCHANGED <<callback_, call, query, sql, position, value, stepped, collected,
                   returned, pc>>

\* Mutant: the callback is stored once sqlite3_exec is back.
StoredLate(newCallback) == callback_

\* callback_ = callback, before sqlite3_exec: an empty function empties it.
Stored(newCallback) == newCallback

\* exec up to sqlite3_exec's first look at the literal; without a connection SQLite
\* answers SQLITE_MISUSE.
Exec(arguments) ==
    /\ pc = "idle" /\ call < MaxCalls
    /\ call' = call + 1
    /\ query' = arguments
    /\ callback_' = Stored(IF arguments.select THEN call' ELSE NoCall)
    /\ sql' = CString(Literal(arguments.text))
    /\ position' = 2 /\ value' = <<>> /\ stepped' = 0
    /\ IF handle_ THEN pc' = "literal" /\ UNCHANGED returned
                  ELSE pc' = "idle" /\ returned' = [returned EXCEPT ![call'] = "false"]
    /\ UNCHANGED <<handle_, collected>>

Return(result) ==
    /\ returned' = [returned EXCEPT ![call] = result]
    /\ pc' = "idle"

-----------------------------------------------------------------------------
(* SQLite's tokenizer *)

Here == sql[position]

\* Two quotes in a literal are one quote of its value.
ReadPair ==
    /\ pc = "literal" /\ position < Len(sql)
    /\ Here = Quote /\ sql[position + 1] = Quote
    /\ value' = Append(value, Quote)
    /\ position' = position + 2
    /\ UNCHANGED <<handle_, callback_, call, query, sql, stepped, collected, returned, pc>>

ReadCharacter ==
    /\ pc = "literal" /\ position =< Len(sql)
    /\ Here # Quote
    /\ value' = Append(value, Here)
    /\ position' = position + 1
    /\ UNCHANGED <<handle_, callback_, call, query, sql, stepped, collected, returned, pc>>

\* A single quote ends the literal.
ReadEnd ==
    /\ pc = "literal" /\ position =< Len(sql)
    /\ Here = Quote
    /\ position < Len(sql) => sql[position + 1] # Quote
    /\ position' = position + 1
    /\ pc' = "rows"
    /\ UNCHANGED <<handle_, callback_, call, query, sql, value, stepped, collected, returned>>

\* The statement ends within the literal: SQLite rejects it, and exec returns false.
Unterminated ==
    /\ pc = "literal" /\ position > Len(sql)
    /\ Return("false")
    /\ UNCHANGED <<handle_, callback_, call, query, sql, position, value, stepped, collected>>

-----------------------------------------------------------------------------
(* SQLite runs the statement *)

\* The statement goes on after the literal as the program wrote it.
AsWritten == SubSeq(sql, position, Len(sql)) = Rest

\* No statement but a SELECT has rows, unless it is not the statement that was written.
HasRow == stepped < query.rows /\ (query.select \/ ~AsWritten)

\* Every callback of the program returns false: go on.
StopAsked == FALSE

\* Mutant: true, as the variable's name says, is to go on.
ContinueWhenTrue(continueQuery) == ~continueQuery

\* onRowReturned's result is not 0: sqlite3_exec stops with SQLITE_ABORT.
Aborts(continueQuery) == continueQuery

\* onRowReturned: the address of callback_ is never null, so that it is called even when
\* it is empty, which throws std::bad_function_call out of sqlite3_exec.  SQLITE_ABORT
\* counts as success.
RowReturned ==
    /\ pc = "rows" /\ HasRow
    /\ stepped' = stepped + 1
    /\ IF callback_ = NoCall
       THEN pc' = "thrown" /\ UNCHANGED <<collected, returned>>
       ELSE /\ collected' = [collected EXCEPT ![callback_] = Append(@, <<call, stepped'>>)]
            /\ IF Aborts(StopAsked) THEN Return("true") ELSE UNCHANGED <<returned, pc>>
    /\ UNCHANGED <<handle_, callback_, call, query, sql, position, value>>

\* A constraint, a lock or the disk: SQLite gives up, after any number of rows.
StepFails ==
    /\ pc = "rows"
    /\ Return("false")
    /\ UNCHANGED <<handle_, callback_, call, query, sql, position, value, stepped, collected>>

ExecDone ==
    /\ pc = "rows" /\ ~HasRow
    /\ Return("true")
    /\ UNCHANGED <<handle_, callback_, call, query, sql, position, value, stepped, collected>>

Next ==
    \/ Open \/ Close
    \/ \E arguments \in Queries : Exec(arguments)
    \/ ReadPair \/ ReadCharacter \/ ReadEnd \/ Unterminated
    \/ RowReturned \/ StepFails \/ ExecDone

Spec == Init /\ [][Next]_vars

-----------------------------------------------------------------------------
(* Properties *)

\* A statement whose literal SQLite accepts has exactly the text that was put in, and
\* goes on right after it with what the program wrote there (Tools.cpp:27-38): no quote in
\* a text ends the literal early or swallows what follows it, and a text that a zero
\* character cuts short (Sqlite3Wrapper.cpp:61) is never stored or searched for in part.
ReadsBack == pc = "rows" => value = query.text /\ AsWritten

\* A callback is called for rows of its own call only: not for those of a later one, when
\* what it refers to is gone, and not when it is empty, which onRowReturned does not test
\* (Sqlite3Wrapper.cpp:60-61 and 71-81) and which would throw std::bad_function_call.
RowsReachTheirCaller ==
    /\ \A c \in Calls : \A i \in DOMAIN collected[c] : collected[c][i][1] = c
    /\ pc # "thrown"

\* A SELECT for which exec returned true handed every row of its result to the callback,
\* once and in order; one that SQLite gave up never passes for a shorter result.
TrueMeansAllRows ==
    call > 0 /\ returned[call] = "true" /\ query.select =>
        collected[call] = [i \in 1..query.rows |-> <<call, i>>]

=============================================================================
