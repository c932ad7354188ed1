------------------------- MODULE ShellParseProperties -------------------------
(***************************************************************************)
(* What keeps the shell's reader, tokenizer and parser inside their buffers *)
(* and what their comments and tests say that they do not do.               *)
(***************************************************************************)
EXTENDS ShellParse

Parsing == pc \in {"parse", "infile", "outfile"}

\* While a line is parsed it ends in a newline and a null inside input_buf, and
\* gettoken has not consumed that newline: however parse_line leaves its loop, it
\* never scans on into what an earlier, longer line left behind.
InsideLine ==
    Parsing =>
        /\ count \in 1 .. (MAXBUF - 1)
        /\ input_buf[count - 1] = "newline" /\ input_buf[count] = "nul"
        /\ input_char < count

\* A token takes one character more in token_buf than in the line, and at least
\* one there: so 2 * MAXBUF are always enough, though nothing checks.
TokensFit == token <= 2 * input_char

\* The string that starts at argv[i] is the token of the line that it came from,
\* whole and nothing else, also when later tokens have been stored behind it.
ArgumentsAreTokens ==
    Parsing =>
        \A i \in Args : i < argc =>
            LET to  == WordEnd(source[i])
                len == to - source[i]
            IN  /\ \A k \in 0 .. (len - 1) : token_buf[argv[i] + k] = input_buf[source[i] + k]
                /\ token_buf[argv[i] + len] = "nul"

\* Every line is parsed to its end, or up to what is wrong with it.
ParseReturns == Parsing ~> ~Parsing

-----------------------------------------------------------------------------
(* What does not hold.                                                      *)

\* sh.c:17: MAX_ARG is the "max number of cmd line arguments".  A line can have
\* more: MAX_ARG + 1 words fill argv, and parse_line goes on to store a pointer
\* past its end for the token that ends the command.
ArgvHoldsArguments == pc # "overrun"

=============================================================================
