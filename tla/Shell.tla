-------------------------------- MODULE Shell --------------------------------
(***************************************************************************)
(* From the keyboard to main(): read_until() and strtok() of user/ulib.h,  *)
(* main() and execute_line() of user/sh.c, and Exec for the rest.  Any     *)
(* other program may call exec() with arguments of its own.                *)
(***************************************************************************)
EXTENDS Exec, FiniteSets

CONSTANTS
    MaxLine,     \* MAX_LINE_LENGTH
    MaxKeys,     \* bound on the keys pressed for one line
    Letters,     \* the characters that are no delimiters
    Builtins,    \* program_type(): the built-in commands by their names
    Callers      \* the calls of exec() that other programs make

ASSUME LineAssumption == MaxLine \in Nat \ {0, 1} /\ MaxKeys \in Nat

SP    == "SP"
CR    == "CR"
DEL   == "DEL"
SLASH == "/"

Keys   == Letters \cup {SP, CR, DEL, NUL}
Delims == {SP, CR}                      \* parameter_delimiters
Text   == Letters \cup {SP, CR, SLASH}  \* what a string may hold

\* The characters with a meaning of their own are no letters, and a NUL ends the
\* strings of every caller.
ASSUME LettersAssumption == Letters \cap {SP, CR, DEL, NUL, JUNK} = {}
ASSUME CallersAssumption ==
    Callers \subseteq [name : Seq(Text), argv : Seq(Seq(Text)), envp : Seq(Seq(Text))]

VARIABLES
    pc,       \* "read", "parse", "run", "exited" or "off"
    keys,     \* history: the keys pressed since read_until() was called
    line,     \* the line buffer
    i,        \* read_until(): characters in the buffer
    last,     \* strtok(): static, END when it is NULL
    argv      \* offsets of the arguments in line

shellVars == <<pc, keys, line, i, last, argv>>
vars      == <<execVars, shellVars>>

END == -1

Buffer == 0 .. MaxLine - 1
Stale  == [p \in Buffer |-> JUNK]

Init ==
    /\ ExecInit
    /\ pc = "read"
    /\ keys = <<>> /\ line = Stale /\ i = 0
    /\ last = END /\ argv = <<>>

\* main() goes on with the next line; the old one is still in the buffer.
Prompt ==
    /\ pc' = "read"
    /\ keys' = <<>> /\ line' = Stale /\ i' = 0
    /\ last' = END /\ argv' = <<>>

-----------------------------------------------------------------------------
(* read_until(line, MAX_LINE_LENGTH, '\r'). *)

Room == i + 1 < MaxLine

\* Mutant of Rubout: the character is taken off the screen only.
RuboutScreen == i' = i

Rubout == i' = IF i > 0 THEN i - 1 ELSE i

\* One iteration.
ReadKey ==
    /\ pc = "read" /\ phase = "user"
    /\ Room
    /\ Len(keys) < MaxKeys
    /\ \E c \in Keys :
          /\ keys' = Append(keys, c)
          /\ CASE c = DEL -> Rubout /\ UNCHANGED <<pc, line, last>>
               [] c \in {CR, NUL} ->
                      /\ line' = [line EXCEPT ![i] = c, ![i + 1] = NUL]
                      /\ i' = i + 1
                      /\ pc' = "parse" /\ last' = 0
               [] OTHER ->
                      /\ line' = [line EXCEPT ![i] = c]
                      /\ i' = i + 1
                      /\ UNCHANGED <<pc, last>>
    /\ UNCHANGED <<execVars, argv>>

\* -1: the line is dropped; what is typed next begins another one.
TooLong ==
    /\ pc = "read" /\ phase = "user"
    /\ ~Room
    /\ Prompt
    /\ UNCHANGED execVars

-----------------------------------------------------------------------------
(* execute_line(). *)

LineString(p) ==
    LET end == Least({q \in p .. MaxLine - 1 : line[q] = NUL} \cup {MaxLine})
    IN  [k \in 1 .. end - p |-> line[p + k - 1]]

\* First place from p on whose character is in S, or the end of the string.
Until(p, S) == Least({q \in p .. MaxLine - 1 : line[q] \in S \cup {NUL}} \cup {MaxLine - 1})

\* One call of strtok() that finds a token, and the body of the loop.
Token ==
    /\ pc = "parse" /\ last # END
    /\ LET start == Until(last, Letters \cup {JUNK})
           e     == Until(start, Delims)
       IN  /\ line[start] # NUL
           /\ argv' = Append(argv, start)
           /\ IF line[e] \in Delims
              THEN line' = [line EXCEPT ![e] = NUL] /\ last' = e + 1
              ELSE last' = END /\ UNCHANGED line
    /\ UNCHANGED <<execVars, pc, keys, i>>

NoToken == last # END => line[Until(last, Letters \cup {JUNK})] = NUL

\* strtok() returns NULL; then the switch.  The parent waits for its child, and
\* also if fork() has failed: then wait() returns at once.
Execute ==
    /\ pc = "parse"
    /\ NoToken
    /\ IF argv = <<>> THEN Prompt /\ UNCHANGED execVars
       ELSE LET first == LineString(argv[1])
            IN  IF first \in DOMAIN Builtins
                THEN /\ \/ Builtins[first] \in {"help", "poweroff"} /\ Prompt
                        \/ /\ Builtins[first] \in {"exit", "poweroff"}
                           /\ pc' = IF Builtins[first] = "exit" THEN "exited" ELSE "off"
                           /\ UNCHANGED <<keys, line, i, last, argv>>
                     /\ UNCHANGED execVars
                ELSE \/ Prompt /\ UNCHANGED execVars
                     \/ /\ ExecCall([name |-> <<SLASH>> \o first,
                                     argv |-> [k \in DOMAIN argv |-> LineString(argv[k])],
                                     envp |-> <<>>])
                        /\ pc' = "run"
                        /\ UNCHANGED <<keys, line, i, last, argv>>

\* wait() returns in the shell.
ChildEnds == pc = "run" /\ ProgramEnds /\ Prompt

-----------------------------------------------------------------------------
(* Other programs; the shell has not begun to read. *)

OtherCalls ==
    /\ pc = "read" /\ keys = <<>>
    /\ \E g \in Callers : ExecCall(g)
    /\ UNCHANGED shellVars

OtherEnds == pc = "read" /\ ProgramEnds /\ UNCHANGED shellVars

\* The shell is gone, memory is ruined, or more keys than the bound.
Stop ==
    /\ pc \in {"exited", "off"} \/ phase = "overrun" \/ (pc = "read" /\ Len(keys) = MaxKeys)
    /\ UNCHANGED vars

Next ==
    \/ ReadKey \/ TooLong \/ Token \/ Execute \/ ChildEnds
    \/ OtherCalls \/ OtherEnds
    \/ ExecStep /\ UNCHANGED shellVars
    \/ Stop

Spec == Init /\ [][Next]_vars

-----------------------------------------------------------------------------
(* Properties. *)

Chars == Text \cup {NUL, JUNK}

\* Every variable has its type; nothing is stored outside the buffer.
TypeOK ==
    /\ phase \in Phases
    /\ shm \in [Page -> Chars]
    /\ sizes \in [argv : Nat, envp : Nat]
    /\ pc \in {"read", "parse", "run", "exited", "off"}
    /\ line \in [Buffer -> Chars]
    /\ i \in Buffer
    /\ last \in Buffer \cup {END}
    /\ \A k \in DOMAIN argv : argv[k] \in Buffer

\* The members of S up to n, in order.
Ascending(S, n) ==
    FoldLeft(LAMBDA q, j : IF j \in S THEN Append(q, j) ELSE q, <<>>, [j \in 1 .. n |-> j])

\* Key j is still on the screen: no later DEL is the one that takes it away.
Count(S, from, to) == Cardinality({k \in from .. to : keys[k] \in S})
Shown(j) ==
    /\ keys[j] \notin {DEL, NUL}
    /\ \A m \in j + 1 .. Len(keys) :
          Count({DEL}, j + 1, m) <= Count(Keys \ {DEL}, j + 1, m)

OnScreen ==
    LET pos == Ascending({j \in DOMAIN keys : Shown(j)}, Len(keys))
    IN  [k \in DOMAIN pos |-> keys[pos[k]]]

\* The line that is executed is the line that is on the screen, ended by a NUL
\* inside the buffer, however DEL and the limit of the buffer were met.
LineAsShown ==
    /\ TypeOK
    /\ (pc = "parse" /\ argv = <<>>) => LineString(0) = OnScreen

\* The words of s, by their first places.
InWord(s, j)  == s[j] \notin Delims
Begins(s, j)  == InWord(s, j) /\ (j = 1 \/ ~InWord(s, j - 1))
EndOfWord(s, j) == Least({e \in j + 1 .. Len(s) + 1 : e > Len(s) \/ ~InWord(s, e)})

Words(s) ==
    LET pos == Ascending({j \in DOMAIN s : Begins(s, j)}, Len(s))
    IN  [k \in DOMAIN pos |-> SubSeq(s, pos[k], EndOfWord(s, pos[k]) - 1)]

\* A program started by the shell gets the words of the line, all of them and
\* unchanged, or, when they do not leave a byte of the shared page free, none:
\* it never gets a part of them.  The table of pointers overruns its page only if
\* there are more words than it has entries, and it does so then.
ArgvExact ==
    pc = "run" =>
        LET words == Words(OnScreen)
            fit   == Bytes(given) < PageSize
        IN  /\ phase = "main" => main.argv = IF fit THEN words ELSE <<>>
            /\ phase = "overrun" => Len(words) + 2 > TableSize
            /\ (phase = "main" /\ fit) => Len(words) + 2 <= TableSize
=============================================================================
