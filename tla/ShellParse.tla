------------------------------ MODULE ShellParse ------------------------------
(***************************************************************************)
(* How the shell of lab1_shell (sh.c) reads a line, cuts it into tokens and *)
(* collects the arguments of its commands.                                  *)
(*                                                                          *)
(* A character is what gettoken and end_of_token tell apart.  What a buffer *)
(* holds from an earlier line is the character "stale", so that reading it  *)
(* shows: also of the zeroes that the buffers start with.  run_program is   *)
(* empty in this commit and has no step, nor has the NULL behind the        *)
(* arguments that it is given.                                              *)
(***************************************************************************)
EXTENDS Naturals, Sequences

CONSTANTS MAXBUF,  \* characters in input_buf (512 in sh.c)
          MAX_ARG, \* arguments that argv has room for, besides a NULL (100)
          Typed    \* what the user may type

Chars == {"word", "blank", "newline", "semicolon", "pipe", "ampersand", "less", "greater", "nul"}

ASSUME ShellAssumption ==
    /\ MAXBUF \in Nat \ {0}
    /\ MAX_ARG \in Nat
    /\ Typed \subseteq Chars

VARIABLES
    input_buf,  \* the line
    count,      \* fetch_line's: how many characters it has stored
    input_char, \* next character to check, as an index of input_buf
    token_buf,  \* the tokens, null-terminated
    token,      \* where the next one goes
    argv,       \* parse_line's: where in token_buf its arguments are
    argc,       \* how many there are
    input_fd, output_fd,
    pc,         \* what the shell is doing
    source      \* history: where in input_buf each argument came from

vars == <<input_buf, count, input_char, token_buf, token, argv, argc,
          input_fd, output_fd, pc, source>>

line     == <<input_buf, count>>
reader   == <<input_char, token_buf, token>>
command  == <<argv, argc, source, input_fd, output_fd>>

-----------------------------------------------------------------------------

Stored   == Chars \cup {"stale"}
InBuf    == 0 .. (MAXBUF - 1)
TokenBuf == 0 .. (2 * MAXBUF - 1)
Args     == 0 .. MAX_ARG

\* Standard input or output, an opened file, or what a failed open returned.
Descriptors == {"std", "file", "failed"}

TypeOK ==
    /\ input_buf \in [InBuf -> Stored]
    /\ count \in 0 .. MAXBUF
    /\ input_char \in 0 .. MAXBUF
    /\ token_buf \in [TokenBuf -> Stored]
    /\ token \in Nat
    /\ argv \in [Args -> Nat]
    /\ argc \in 0 .. (MAX_ARG + 1)
    /\ input_fd \in Descriptors /\ output_fd \in Descriptors
    /\ pc \in {"main", "fetch", "parse", "infile", "outfile", "overrun", "exit"}
    /\ source \in [Args -> Nat]

-----------------------------------------------------------------------------
(* fetch_line.                                                              *)

\* parse_line has no arguments yet, and no redirection.  Its locals do not outlive
\* it, and nothing reads the descriptors before it sets them again: both are as
\* at its start while a line is fetched.
NoArguments ==
    /\ argv' = [i \in Args |-> 0] /\ source' = [i \in Args |-> 0]
    /\ argc' = 0
    /\ input_fd' = "std" /\ output_fd' = "std"

\* Mutant of FetchLine: tokens go where the last line's ended.
FetchLineKeepsToken ==
    /\ pc = "main"
    /\ pc' = "fetch"
    /\ input_buf' = [i \in InBuf |-> "stale"] /\ count' = 0
    /\ input_char' = 0
    /\ NoArguments
    /\ UNCHANGED <<token, token_buf>>

FetchLine ==
    /\ pc = "main"
    /\ pc' = "fetch"
    /\ input_buf' = [i \in InBuf |-> "stale"] /\ count' = 0
    /\ token_buf' = [i \in TokenBuf |-> "stale"]
    /\ input_char' = 0 /\ token' = 0
    /\ NoArguments

\* Mutant of CountAfter: the characters that do not fit are counted.
CountAfterAll == count + 1

\* The rest of a line that does not fit is skipped.
StoredAfter(c) == IF count < MAXBUF THEN [input_buf EXCEPT ![count] = c] ELSE input_buf

CountAfter == IF count < MAXBUF THEN count + 1 ELSE count

GetChar(c) ==
    /\ pc = "fetch" /\ c # "newline"
    /\ input_buf' = StoredAfter(c) /\ count' = CountAfter
    /\ UNCHANGED <<reader, command, pc>>

\* The line is complete: parse_line begins.
GetNewline ==
    /\ pc = "fetch" /\ "newline" \in Typed
    /\ CountAfter < MAXBUF
    /\ input_buf' = [StoredAfter("newline") EXCEPT ![CountAfter] = "nul"]
    /\ count' = CountAfter
    /\ pc' = "parse"
    /\ NoArguments
    /\ UNCHANGED reader

\* It is too long: fetch_line calls itself.
TooLong ==
    /\ pc = "fetch" /\ "newline" \in Typed
    /\ CountAfter = MAXBUF
    /\ input_buf' = StoredAfter("newline") /\ count' = CountAfter
    /\ pc' = "main"
    /\ UNCHANGED <<reader, command>>

EndOfFile ==
    /\ pc = "fetch"
    /\ pc' = "exit"
    /\ UNCHANGED <<line, reader, command>>

-----------------------------------------------------------------------------
(* gettoken.                                                                *)

\* The first index in S, or MAXBUF if there is none.
First(S) == IF S = {} THEN MAXBUF ELSE CHOOSE k \in S : \A j \in S : k <= j

\* Mutant of EndOfToken: a newline is part of a token.
EndOfTokenNoNewline ==
    {"nul", "blank", "semicolon", "pipe", "ampersand", "less", "greater"}

\* end_of_token
EndOfToken ==
    {"nul", "blank", "newline", "semicolon", "pipe", "ampersand", "less", "greater"}

\* Where the token starts, and where it ends.
TokenStart == First({k \in InBuf : input_char <= k /\ input_buf[k] # "blank"})
WordEnd(k) == First({j \in InBuf : k < j /\ input_buf[j] \in EndOfToken})

\* The first character decides; a semicolon has no case of its own.
Type(c) == CASE c = "newline"   -> "NEWLINE"
             [] c = "less"      -> "INPUT"
             [] c = "greater"   -> "OUTPUT"
             [] c = "ampersand" -> "AMPERSAND"
             [] c = "pipe"      -> "PIPE"
             [] OTHER           -> "NORMAL"
NextType == Type(input_buf[TokenStart])
TokenEnd == IF NextType = "NORMAL" THEN WordEnd(TokenStart) ELSE TokenStart + 1

\* Mutant of Copied: the token is not terminated.
CopiedOpen(from, to) ==
    [t \in TokenBuf |-> IF token <= t /\ t < token + (to - from)
                        THEN input_buf[from + (t - token)] ELSE token_buf[t]]

\* token_buf with the characters from .. to-1 of the line, and a null.
Copied(from, to) ==
    [t \in TokenBuf |-> IF token <= t /\ t < token + (to - from)
                        THEN input_buf[from + (t - token)]
                        ELSE IF t = token + (to - from) THEN "nul" ELSE token_buf[t]]

\* gettoken(&argv[argc]) returns a type in T.  Its pointer goes to argv[argc].
GetToken(T) ==
    /\ argc <= MAX_ARG
    /\ TokenStart < MAXBUF
    /\ NextType \in T
    /\ input_char' = TokenEnd
    /\ token_buf' = Copied(TokenStart, TokenEnd)
    /\ token' = token + (TokenEnd - TokenStart) + 1
    /\ argv' = [argv EXCEPT ![argc] = token]
    /\ source' = [source EXCEPT ![argc] = TokenStart]
    /\ UNCHANGED line

\* argv has no element argc: the pointer goes past its end, and the model ends.
Overrun ==
    /\ pc \in {"parse", "infile", "outfile"}
    /\ argc > MAX_ARG
    /\ pc' = "overrun"
    /\ UNCHANGED <<line, reader, command>>

-----------------------------------------------------------------------------
(* parse_line, one action per case of its switch.                           *)

Word ==
    /\ pc = "parse" /\ GetToken({"NORMAL"})
    /\ argc' = argc + 1
    /\ UNCHANGED <<input_fd, output_fd, pc>>

Redirect ==
    /\ pc = "parse" /\ GetToken({"INPUT", "OUTPUT"})
    /\ pc' = IF NextType = "INPUT" THEN "infile" ELSE "outfile"
    /\ UNCHANGED <<argc, input_fd, output_fd>>

\* A file name follows; the file is opened, or not, and parsing goes on.
InputFile(fd) ==
    /\ pc = "infile" /\ GetToken({"NORMAL"})
    /\ input_fd' = fd
    /\ pc' = "parse"
    /\ UNCHANGED <<argc, output_fd>>
OutputFile(fd) ==
    /\ pc = "outfile" /\ GetToken({"NORMAL"})
    /\ output_fd' = fd
    /\ pc' = "parse"
    /\ UNCHANGED <<argc, input_fd>>

\* "expected file name": the rest of the line is dropped.
NoFileName ==
    /\ pc \in {"infile", "outfile"}
    /\ GetToken({"NEWLINE", "INPUT", "OUTPUT", "AMPERSAND", "PIPE"})
    /\ pc' = "main"
    /\ UNCHANGED <<argc, input_fd, output_fd>>

\* The command ends: it is run, and the next one begins.  Without arguments the
\* rest of the line is dropped.
Separator ==
    /\ pc = "parse" /\ GetToken({"PIPE", "AMPERSAND"})
    /\ IF argc = 0
       THEN pc' = "main" /\ UNCHANGED <<argc, input_fd, output_fd>>
       ELSE /\ argc' = 0 /\ input_fd' = "std" /\ output_fd' = "std"
            /\ UNCHANGED pc

\* Mutant of LineEnd: parse_line does not return.
LineEndGoesOn ==
    /\ pc = "parse" /\ GetToken({"NEWLINE"})
    /\ argc' = 0 /\ input_fd' = "std" /\ output_fd' = "std"
    /\ UNCHANGED pc

\* The line ends.
LineEnd ==
    /\ pc = "parse" /\ GetToken({"NEWLINE"})
    /\ pc' = "main"
    /\ argc' = 0
    /\ IF argc = 0 THEN UNCHANGED <<input_fd, output_fd>>
       ELSE input_fd' = "std" /\ output_fd' = "std"

-----------------------------------------------------------------------------

Init ==
    /\ input_buf = [i \in InBuf |-> "stale"] /\ count = 0
    /\ token_buf = [i \in TokenBuf |-> "stale"]
    /\ input_char = 0 /\ token = 0
    /\ argv = [i \in Args |-> 0] /\ argc = 0
    /\ source = [i \in Args |-> 0]
    /\ input_fd = "std" /\ output_fd = "std"
    /\ pc = "main"

Fetch == \/ FetchLine \/ GetNewline \/ TooLong \/ EndOfFile
         \/ \E c \in Typed : GetChar(c)

ParseLine ==
    \/ Word \/ Redirect \/ NoFileName \/ Separator \/ LineEnd \/ Overrun
    \/ \E fd \in {"file", "failed"} : InputFile(fd) \/ OutputFile(fd)

Next == Fetch \/ ParseLine

Spec == Init /\ [][Next]_vars

\* parse_line waits for nothing.
FairSpec == Spec /\ WF_vars(ParseLine)

=============================================================================
