--------------------------- MODULE ShellParseProofs ---------------------------
(***************************************************************************)
(* Proofs, for every size of the buffers and every input, that the reader   *)
(* and the tokenizer of the shell stay inside them.                         *)
(***************************************************************************)
EXTENDS ShellParseProperties, WellFoundedInduction, TLAPS

\* Every set of natural numbers that is not empty has a least element.
LEMMA LeastNumber ==
    ASSUME NEW T \in SUBSET Nat, NEW k \in T
    PROVE  \E l \in T : \A j \in T : l <= j
<1>1. PICK l \in T : \A j \in T : <<j, l>> \notin OpToRel(<, Nat)
  BY NatLessThanWellFounded, WFMin
<1>2. ASSUME NEW j \in T
      PROVE  ~(j < l)
  BY <1>1 DEF OpToRel
<1>3. QED
  BY <1>2

\* fetch_line starts at the beginning of the line.
FromTheStart == pc = "fetch" => input_char = 0

ParserInv == TypeOK /\ InsideLine /\ TokensFit /\ FromTheStart

\* First finds the least of a set of indices.
LEMMA FirstIsLeast ==
    ASSUME NEW S \in SUBSET InBuf, S # {}
    PROVE  First(S) \in S /\ \A j \in S : First(S) <= j
<1>1. PICK k \in S : TRUE
  OBVIOUS
<1>2. S \in SUBSET Nat
  BY ShellAssumption DEF InBuf
<1>3. \E l \in S : \A j \in S : l <= j
  BY <1>1, <1>2, LeastNumber
<1>4. QED
  BY <1>3 DEF First

\* A word ends at or before any later end of a token.
LEMMA WordEnds ==
    ASSUME NEW k \in InBuf, NEW j \in InBuf, k < j, input_buf[j] \in EndOfToken
    PROVE  WordEnd(k) \in InBuf /\ k < WordEnd(k) /\ WordEnd(k) <= j
<1> DEFINE S == {i \in InBuf : k < i /\ input_buf[i] \in EndOfToken}
<1>1. j \in S /\ S \in SUBSET InBuf
  OBVIOUS
<1>2. First(S) \in S /\ First(S) <= j
  BY <1>1, FirstIsLeast
<1>3. QED
  BY <1>2 DEF WordEnd

\* Inside a line gettoken finds a token, at or before the newline, and ends at
\* or before the newline unless it is the newline.
LEMMA TokenInside ==
    ASSUME TypeOK, InsideLine, Parsing
    PROVE  /\ TokenStart \in InBuf /\ input_char <= TokenStart /\ TokenStart < count
           /\ TokenEnd \in Nat /\ TokenStart < TokenEnd /\ TokenEnd <= count
           /\ NextType # "NEWLINE" => TokenEnd < count
<1> DEFINE S == {k \in InBuf : input_char <= k /\ input_buf[k] # "blank"}
           last == count - 1
<1>1. /\ count \in 1 .. (MAXBUF - 1) /\ input_char \in Nat /\ input_char < count
      /\ input_buf[last] = "newline" /\ MAXBUF \in Nat
  BY ShellAssumption DEF InsideLine, TypeOK
<1>2. last \in InBuf /\ last \in Nat /\ input_char <= last
  BY <1>1 DEF InBuf
<1>3. last \in S /\ S \in SUBSET InBuf
  BY <1>1, <1>2
<1>4. TokenStart \in S /\ TokenStart <= last
  BY <1>3, FirstIsLeast DEF TokenStart
<1> HIDE DEF last
<1>5. TokenStart \in InBuf /\ TokenStart \in Nat /\ input_char <= TokenStart
  BY <1>4, ShellAssumption DEF InBuf
<1>6. CASE TokenStart = last
  <2>1. NextType = "NEWLINE"
    BY <1>1, <1>6 DEF NextType, Type
  <2>2. TokenEnd = last + 1
    BY <1>6, <2>1 DEF TokenEnd
  <2>3. QED
    BY <1>1, <1>2, <1>5, <1>6, <2>1, <2>2 DEF last
<1>7. CASE TokenStart # last
  <2>1. TokenStart < last
    BY <1>2, <1>4, <1>5, <1>7
  <2>2. "newline" \in EndOfToken
    BY DEF EndOfToken
  <2>3. WordEnd(TokenStart) \in InBuf /\ TokenStart < WordEnd(TokenStart) /\ WordEnd(TokenStart) <= last
    BY <1>1, <1>2, <1>5, <2>1, <2>2, WordEnds
  <2>4. WordEnd(TokenStart) \in Nat
    BY <2>3, ShellAssumption DEF InBuf
  <2>5. TokenEnd \in Nat /\ TokenStart < TokenEnd /\ TokenEnd <= last
    BY <1>2, <1>5, <2>1, <2>3, <2>4 DEF TokenEnd
  <2>6. QED
    BY <1>1, <1>2, <1>5, <2>1, <2>5 DEF last
<1>8. QED
  BY <1>6, <1>7

\* What gettoken preserves.
LEMMA GetTokenKeeps ==
    ASSUME ParserInv, Parsing, NEW T, GetToken(T)
    PROVE  /\ UNCHANGED line /\ argc \in Args
           /\ input_char' \in 0 .. MAXBUF /\ token' \in Nat /\ TokensFit'
           /\ "NEWLINE" \notin T => input_char' < count
           /\ token_buf' \in [TokenBuf -> Stored]
           /\ argv' \in [Args -> Nat] /\ source' \in [Args -> Nat]
<1> DEFINE from == TokenStart
           to   == TokenEnd
<1>1. /\ from \in InBuf /\ from \in Nat /\ input_char <= from /\ from < count
      /\ to \in Nat /\ from < to /\ to <= count
      /\ NextType # "NEWLINE" => to < count
  BY TokenInside, ShellAssumption DEF ParserInv, InBuf
<1>2. /\ input_char \in Nat /\ token \in Nat /\ token <= 2 * input_char
      /\ count \in 0 .. MAXBUF /\ MAXBUF \in Nat /\ MAX_ARG \in Nat
      /\ argc \in 0 .. (MAX_ARG + 1)
  BY ShellAssumption DEF ParserInv, TypeOK, TokensFit
<1>3. /\ argc <= MAX_ARG /\ NextType \in T
      /\ input_char' = to /\ token' = token + (to - from) + 1
      /\ token_buf' = Copied(from, to)
      /\ argv' = [argv EXCEPT ![argc] = token]
      /\ source' = [source EXCEPT ![argc] = from]
      /\ UNCHANGED line
  BY DEF GetToken
<1> HIDE DEF from, to
<1>4. argc \in Args
  BY <1>2, <1>3 DEF Args
<1>5. input_char' \in 0 .. MAXBUF
  BY <1>1, <1>2, <1>3
<1>6. token' \in Nat /\ token' <= 2 * input_char'
  BY <1>1, <1>2, <1>3
<1>7. "NEWLINE" \notin T => input_char' < count
  BY <1>1, <1>3
<1>8. argv' \in [Args -> Nat] /\ source' \in [Args -> Nat]
  BY <1>1, <1>2, <1>3, <1>4 DEF ParserInv, TypeOK
<1>9. \A t \in TokenBuf : token <= t /\ t < token + (to - from) => from + (t - token) \in InBuf
  <2> SUFFICES ASSUME NEW t \in TokenBuf, token <= t, t < token + (to - from)
               PROVE  from + (t - token) \in InBuf
    OBVIOUS
  <2>1. t \in Nat
    BY <1>2 DEF TokenBuf
  <2>2. count <= MAXBUF - 1
    BY DEF ParserInv, InsideLine
  <2>3. QED
    BY <1>1, <1>2, <2>1, <2>2 DEF InBuf
<1>10. token_buf' \in [TokenBuf -> Stored]
  <2>1. \A t \in TokenBuf : token_buf[t] \in Stored
    BY DEF ParserInv, TypeOK
  <2>2. \A i \in InBuf : input_buf[i] \in Stored
    BY DEF ParserInv, TypeOK
  <2>3. "nul" \in Stored
    BY DEF Stored, Chars
  <2>4. QED
    BY <1>3, <1>9, <2>1, <2>2, <2>3 DEF Copied
<1>11. QED
  BY <1>3, <1>4, <1>5, <1>6, <1>7, <1>8, <1>10 DEF TokensFit

\* The line that fetch_line has stored.
LEMMA StoredFacts ==
    ASSUME TypeOK, NEW c \in Chars
    PROVE  /\ StoredAfter(c) \in [InBuf -> Stored]
           /\ CountAfter \in 1 .. MAXBUF
           /\ CountAfter < MAXBUF => StoredAfter(c)[CountAfter - 1] = c
<1>1. count \in 0 .. MAXBUF /\ MAXBUF \in Nat \ {0} /\ c \in Stored
  BY ShellAssumption DEF TypeOK, Stored
<1>2. CASE count < MAXBUF
  <2>1. count \in InBuf
    BY <1>1, <1>2 DEF InBuf
  <2>2. QED
    BY <1>1, <1>2, <2>1 DEF TypeOK, StoredAfter, CountAfter
<1>3. CASE ~(count < MAXBUF)
  BY <1>1, <1>3 DEF TypeOK, StoredAfter, CountAfter
<1>4. QED
  BY <1>2, <1>3

LEMMA ParserInit == Init => ParserInv
<1> SUFFICES ASSUME Init PROVE ParserInv
  OBVIOUS
<1>1. "stale" \in Stored /\ 0 \in 0 .. MAXBUF /\ 0 \in 0 .. (MAX_ARG + 1)
  BY ShellAssumption DEF Stored
<1>2. TypeOK
  BY <1>1 DEF Init, TypeOK, Descriptors
<1>3. QED
  BY <1>2 DEF Init, ParserInv, FromTheStart, InsideLine, TokensFit, Parsing

LEMMA FetchKeeps == ParserInv /\ Fetch => ParserInv'
<1> SUFFICES ASSUME ParserInv, Fetch PROVE ParserInv'
  OBVIOUS
<1> USE DEF ParserInv, FromTheStart
<1>1. CASE FetchLine
  <2>1. "stale" \in Stored /\ 0 \in 0 .. MAXBUF /\ 0 \in 0 .. (MAX_ARG + 1)
    BY ShellAssumption DEF Stored
  <2>2. TypeOK'
    BY <1>1, <2>1 DEF FetchLine, NoArguments, TypeOK, Descriptors
  <2>3. QED
    BY <1>1, <2>2 DEF FetchLine, InsideLine, TokensFit, Parsing
<1>2. ASSUME NEW c \in Typed, GetChar(c) PROVE ParserInv'
  <2>1. c \in Chars
    BY ShellAssumption
  <2>2. StoredAfter(c) \in [InBuf -> Stored] /\ CountAfter \in 0 .. MAXBUF
    BY <2>1, StoredFacts
  <2>3. TypeOK'
    BY <1>2, <2>2 DEF GetChar, reader, command, TypeOK
  <2>4. QED
    BY <1>2, <2>3 DEF GetChar, reader, InsideLine, TokensFit, Parsing
<1>3. CASE GetNewline
  <2> DEFINE buf == StoredAfter("newline")
             n   == CountAfter
  <2>1. "newline" \in Chars /\ "nul" \in Stored
    BY DEF Chars, Stored
  <2>2. /\ buf \in [InBuf -> Stored] /\ n \in 1 .. MAXBUF
        /\ n < MAXBUF => buf[n - 1] = "newline"
    BY <2>1, StoredFacts
  <2>3. /\ n < MAXBUF /\ input_buf' = [buf EXCEPT ![n] = "nul"] /\ count' = n
        /\ pc' = "parse" /\ UNCHANGED reader /\ NoArguments
    BY <1>3 DEF GetNewline
  <2> HIDE DEF buf, n
  <2>4. n \in InBuf /\ (n - 1) \in InBuf /\ n # n - 1 /\ n \in 1 .. (MAXBUF - 1)
    BY <2>2, <2>3, ShellAssumption DEF InBuf
  <2>5. input_buf' \in [InBuf -> Stored] /\ input_buf'[n] = "nul" /\ input_buf'[n - 1] = "newline"
    BY <2>1, <2>2, <2>3, <2>4
  <2>6. TypeOK'
    BY <2>2, <2>3, <2>5, ShellAssumption DEF reader, NoArguments, TypeOK, Descriptors
  <2>7. input_char = 0
    BY <1>3 DEF GetNewline
  <2>8. QED
    BY <2>3, <2>4, <2>5, <2>6, <2>7 DEF reader, InsideLine, TokensFit
<1>4. CASE TooLong
  <2>1. "newline" \in Chars
    BY DEF Chars
  <2>2. StoredAfter("newline") \in [InBuf -> Stored] /\ CountAfter \in 0 .. MAXBUF
    BY <2>1, StoredFacts
  <2>3. TypeOK'
    BY <1>4, <2>2 DEF TooLong, reader, command, TypeOK
  <2>4. QED
    BY <1>4, <2>3 DEF TooLong, reader, InsideLine, TokensFit, Parsing
<1>5. CASE EndOfFile
  BY <1>5 DEF EndOfFile, line, reader, command, TypeOK, InsideLine, TokensFit, Parsing
<1>6. QED
  BY <1>1, <1>2, <1>3, <1>4, <1>5 DEF Fetch

LEMMA ParseKeeps == ParserInv /\ ParseLine => ParserInv'
<1> SUFFICES ASSUME ParserInv, ParseLine PROVE ParserInv'
  OBVIOUS
<1>1. ASSUME NEW T, GetToken(T), Parsing, argc' \in 0 .. (MAX_ARG + 1),
             input_fd' \in Descriptors, output_fd' \in Descriptors,
             pc' \in {"main", "parse", "infile", "outfile"},
             pc' # "main" => "NEWLINE" \notin T
      PROVE  ParserInv'
  <2>1. /\ UNCHANGED line /\ input_char' \in 0 .. MAXBUF /\ token' \in Nat /\ TokensFit'
        /\ "NEWLINE" \notin T => input_char' < count
        /\ token_buf' \in [TokenBuf -> Stored]
        /\ argv' \in [Args -> Nat] /\ source' \in [Args -> Nat]
    BY <1>1, GetTokenKeeps
  <2>2. TypeOK'
    BY <1>1, <2>1 DEF ParserInv, TypeOK, line
  <2>3. InsideLine'
    BY <1>1, <2>1 DEF ParserInv, InsideLine, Parsing, line
  <2>4. QED
    BY <1>1, <2>1, <2>2, <2>3 DEF ParserInv, FromTheStart
<1>2. /\ "std" \in Descriptors /\ "file" \in Descriptors /\ "failed" \in Descriptors
      /\ argc \in 0 .. (MAX_ARG + 1) /\ MAX_ARG \in Nat
      /\ input_fd \in Descriptors /\ output_fd \in Descriptors
  BY ShellAssumption DEF ParserInv, TypeOK, Descriptors
<1>3. CASE Word
  <2>1. argc' \in 0 .. (MAX_ARG + 1)
    BY <1>2, <1>3 DEF Word, GetToken
  <2>2. QED
    BY <1>1, <1>2, <1>3, <2>1 DEF Word, Parsing
<1>4. CASE Redirect
  BY <1>1, <1>2, <1>4 DEF Redirect, Parsing
<1>5. ASSUME NEW fd \in {"file", "failed"}, InputFile(fd) \/ OutputFile(fd)
      PROVE  ParserInv'
  BY <1>1, <1>2, <1>5 DEF InputFile, OutputFile, Parsing
<1>6. CASE NoFileName
  BY <1>1, <1>2, <1>6 DEF NoFileName, Parsing
<1>7. CASE Separator
  BY <1>1, <1>2, <1>7 DEF Separator, Parsing
<1>8. CASE LineEnd
  BY <1>1, <1>2, <1>8 DEF LineEnd, Parsing
<1>9. CASE Overrun
  BY <1>9 DEF Overrun, line, reader, command, ParserInv, FromTheStart, TypeOK, InsideLine,
              TokensFit, Parsing
<1>10. QED
  BY <1>3, <1>4, <1>5, <1>6, <1>7, <1>8, <1>9 DEF ParseLine

\* The three are inductive together: a token stays inside token_buf because it
\* stays inside its line, and the line is there because fetch_line stored it.
THEOREM ParserInvariant == Spec => []ParserInv
<1>1. ParserInv /\ UNCHANGED vars => ParserInv'
  BY DEF vars, ParserInv, FromTheStart, TypeOK, InsideLine, TokensFit, Parsing
<1>2. ParserInv /\ [Next]_vars => ParserInv'
  BY <1>1, FetchKeeps, ParseKeeps DEF Next
<1>3. QED
  BY ParserInit, <1>2, PTL DEF Spec

\* While a line is parsed, gettoken has its newline still ahead of it: it never
\* scans on past the line, into what an earlier one left in input_buf.
THEOREM AlwaysInsideLine == Spec => []InsideLine
BY ParserInvariant, PTL DEF ParserInv

\* Twice the size of input_buf is enough for token_buf, whatever is typed, though
\* gettoken checks nothing.
THEOREM TokensAlwaysFit == Spec => []TokensFit
BY ParserInvariant, PTL DEF ParserInv

\* Every line, token and argument is of its type, and every pointer a number.
THEOREM ParserTypeCorrect == Spec => []TypeOK
BY ParserInvariant, PTL DEF ParserInv

-----------------------------------------------------------------------------
(* The arguments.                                                           *)

\* A string in token_buf: n characters of the line from s on, and a null, all stored
\* before the next token.
Holds(a, s, n) ==
    /\ n \in Nat \ {0} /\ a + n < token
    /\ \A k \in 0 .. (n - 1) : token_buf[a + k] = input_buf[s + k]
    /\ token_buf[a + n] = "nul"

ArgumentsHeld ==
    Parsing => \A i \in Args : i < argc => Holds(argv[i], source[i], WordEnd(source[i]) - source[i])

LEMMA HeldArguments == TypeOK /\ ArgumentsHeld => ArgumentsAreTokens
BY DEF ArgumentsHeld, ArgumentsAreTokens, Holds

\* gettoken leaves earlier strings alone.
LEMMA HoldsOn ==
    ASSUME ParserInv, Parsing, NEW T, GetToken(T), NEW a \in Nat, NEW s \in Nat, NEW n, Holds(a, s, n)
    PROVE  Holds(a, s, n)'
<1>1. /\ token \in Nat /\ input_char \in Nat /\ MAXBUF \in Nat /\ token <= 2 * input_char
      /\ input_char < MAXBUF /\ token < token' /\ token' \in Nat
  <2>1. /\ TokenStart < TokenEnd /\ TokenEnd \in Nat /\ TokenStart \in Nat
    BY TokenInside, ShellAssumption DEF ParserInv, InBuf
  <2>2. /\ token \in Nat /\ input_char \in Nat /\ MAXBUF \in Nat /\ token <= 2 * input_char
        /\ count \in 1 .. (MAXBUF - 1) /\ input_char < count
    BY ShellAssumption DEF ParserInv, TypeOK, TokensFit, InsideLine
  <2>3. token' = token + (TokenEnd - TokenStart) + 1
    BY DEF GetToken
  <2>4. QED
    BY <2>1, <2>2, <2>3
<1>2. \A t \in Nat : t < token => token_buf'[t] = token_buf[t]
  <2>1. ASSUME NEW t \in Nat, t < token
        PROVE  t \in TokenBuf /\ ~(token <= t) /\ t # token + (TokenEnd - TokenStart)
    <3>1. TokenStart < TokenEnd /\ TokenEnd \in Nat /\ TokenStart \in Nat
      BY TokenInside, ShellAssumption DEF ParserInv, InBuf
    <3>2. QED
      BY <1>1, <2>1, <3>1 DEF TokenBuf
  <2>2. QED
    BY <2>1 DEF GetToken, Copied
<1>3. input_buf' = input_buf
  BY DEF GetToken, line
<1>4. n \in Nat \ {0} /\ a + n < token
  BY DEF Holds
<1>5. a + n \in Nat /\ a + n < token' /\ \A k \in 0 .. (n - 1) : a + k \in Nat /\ a + k < token
  BY <1>1, <1>4
<1>6. QED
  BY <1>2, <1>3, <1>4, <1>5 DEF Holds

\* The string that it stores is the token.
LEMMA HoldsToken ==
    ASSUME ParserInv, Parsing, NEW T, GetToken(T),
           NEW a, a = token, NEW s, s = TokenStart, NEW n, n = TokenEnd - TokenStart
    PROVE  Holds(a, s, n)'
<1>1. s \in Nat /\ n \in Nat \ {0} /\ s + n = TokenEnd /\ TokenEnd - s = n
  BY TokenInside, ShellAssumption DEF ParserInv, InBuf
<1>2. a \in Nat /\ MAXBUF \in Nat /\ token' = a + n + 1
  BY ShellAssumption DEF GetToken, ParserInv, TypeOK
<1>3. a + n < 2 * MAXBUF
  <2>1. input_char' \in 0 .. MAXBUF /\ token' <= 2 * input_char'
    BY GetTokenKeeps DEF TokensFit
  <2>2. QED
    BY <1>1, <1>2, <2>1
<1>4. input_buf' = input_buf
  BY DEF GetToken, line
<1>5. token_buf' = [t \in TokenBuf |-> IF a <= t /\ t < a + n
                                       THEN input_buf[s + (t - a)]
                                       ELSE IF t = a + n THEN "nul" ELSE token_buf[t]]
  BY <1>1 DEF GetToken, Copied
<1>6. ASSUME NEW k \in 0 .. (n - 1)
      PROVE  token_buf'[a + k] = input_buf[s + k]
  <2>1. a + k \in TokenBuf /\ a <= a + k /\ a + k < a + n /\ (a + k) - a = k
    BY <1>1, <1>2, <1>3 DEF TokenBuf
  <2>2. token_buf'[a + k] = input_buf[s + ((a + k) - a)]
    BY <1>5, <2>1
  <2>3. QED
    BY <2>1, <2>2
<1>7. token_buf'[a + n] = "nul"
  <2>1. a + n \in TokenBuf /\ ~(a + n < a + n)
    BY <1>1, <1>2, <1>3 DEF TokenBuf
  <2>2. QED
    BY <1>5, <2>1
<1>8. a + n < token'
  BY <1>1, <1>2
<1>9. QED
  BY <1>1, <1>4, <1>6, <1>7, <1>8 DEF Holds

LEMMA GetTokenHeld ==
    ASSUME ParserInv, Parsing, ArgumentsHeld, NEW T, GetToken(T),
           argc' \in {0, argc} \/ (argc' = argc + 1 /\ NextType = "NORMAL")
    PROVE  ArgumentsHeld'
<1>1. /\ argc \in Args /\ argc \in Nat /\ MAX_ARG \in Nat /\ Args \in SUBSET Nat
      /\ argv \in [Args -> Nat] /\ source \in [Args -> Nat] /\ token \in Nat
  BY GetTokenKeeps, ShellAssumption DEF ParserInv, TypeOK, Args
<1>2. /\ argv' = [argv EXCEPT ![argc] = token] /\ source' = [source EXCEPT ![argc] = TokenStart]
      /\ input_buf' = input_buf
  BY DEF GetToken, line
<1>3. ASSUME NEW i \in Args, i < argc'
      PROVE  Holds(argv[i], source[i], WordEnd(source[i]) - source[i])'
  <2>1. CASE i < argc
    <3>1. PICK a, s, n : a = argv[i] /\ s = source[i] /\ n = WordEnd(source[i]) - source[i]
      OBVIOUS
    <3>2. Holds(a, s, n)
      BY <2>1, <3>1 DEF ArgumentsHeld
    <3>3. Holds(a, s, n)'
      BY <1>1, <3>1, <3>2, HoldsOn
    <3>4. argv'[i] = a /\ source'[i] = s
      BY <1>1, <1>2, <2>1, <3>1
    <3>5. (WordEnd(source[i]) - source[i])' = n
      BY <1>2, <3>1, <3>4 DEF WordEnd
    <3>6. QED
      BY <3>3, <3>4, <3>5 DEF Holds
  <2>2. CASE ~(i < argc)
    <3>1. i = argc /\ NextType = "NORMAL"
      BY <1>1, <1>3, <2>2
    <3>2. PICK a, s, n : a = token /\ s = TokenStart /\ n = TokenEnd - TokenStart
      OBVIOUS
    <3>3. Holds(a, s, n)'
      BY <3>2, HoldsToken
    <3>4. argv'[i] = a /\ source'[i] = s
      BY <1>1, <1>2, <3>1, <3>2
    <3>5. (WordEnd(source[i]) - source[i])' = n
      <4>1. n = WordEnd(s) - s
        BY <3>1, <3>2 DEF TokenEnd
      <4>2. QED
        BY <1>2, <3>4, <4>1 DEF WordEnd
    <3>6. QED
      BY <3>3, <3>4, <3>5 DEF Holds
  <2>3. QED
    BY <2>1, <2>2
<1>4. QED
  BY <1>3 DEF ArgumentsHeld

LEMMA ArgumentsStep == ParserInv /\ ArgumentsHeld /\ [Next]_vars => ArgumentsHeld'
<1> SUFFICES ASSUME ParserInv, ArgumentsHeld, [Next]_vars
             PROVE  ArgumentsHeld'
  OBVIOUS
<1>1. CASE Fetch
  <2>1. \A i \in Args : ~(i < 0)
    BY ShellAssumption DEF Args
  <2>2. Parsing' => argc' = 0
    BY <1>1 DEF Fetch, FetchLine, GetChar, GetNewline, NoArguments, TooLong, EndOfFile, Parsing
  <2>3. QED
    BY <2>1, <2>2 DEF ArgumentsHeld
<1>0. ASSUME NEW T, GetToken(T), Parsing, argc' \in {0, argc}
      PROVE  ArgumentsHeld'
  <2>1. argc' \in {0, argc} \/ (argc' = argc + 1 /\ NextType = "NORMAL")
    BY <1>0
  <2>2. QED
    BY <1>0, <2>1, GetTokenHeld
<1>2. CASE Word
  <2>1. NextType = "NORMAL"
    BY <1>2 DEF Word, GetToken
  <2>2. QED
    BY <1>2, <2>1, GetTokenHeld DEF Word, Parsing
<1>3. CASE Redirect
  BY <1>0, <1>3 DEF Redirect, Parsing
<1>4. ASSUME NEW fd \in {"file", "failed"}, InputFile(fd) \/ OutputFile(fd)
      PROVE  ArgumentsHeld'
  BY <1>0, <1>4 DEF InputFile, OutputFile, Parsing
<1>5. CASE NoFileName
  BY <1>0, <1>5 DEF NoFileName, Parsing
<1>6. CASE Separator
  BY <1>0, <1>6 DEF Separator, Parsing
<1>7. CASE LineEnd
  BY <1>0, <1>7 DEF LineEnd, Parsing
<1>8. CASE Overrun
  BY <1>8 DEF Overrun, ArgumentsHeld, Parsing
<1>9. CASE UNCHANGED vars
  BY <1>9 DEF vars, ArgumentsHeld, Holds, Parsing, WordEnd
<1>10. QED
  BY <1>1, <1>2, <1>3, <1>4, <1>5, <1>6, <1>7, <1>8, <1>9 DEF Next, ParseLine

\* The arguments of a command are the words of its line, up to the last of them,
\* whatever is stored in token_buf behind them.
THEOREM ArgumentsAlwaysTokens == Spec => []ArgumentsAreTokens
<1>1. Init => ArgumentsHeld
  BY DEF Init, ArgumentsHeld, Parsing
<1>2. Spec => []ArgumentsHeld
  BY <1>1, ParserInvariant, ArgumentsStep, PTL DEF Spec
<1>3. ParserInv => TypeOK
  BY DEF ParserInv
<1>4. QED
  BY <1>2, <1>3, ParserInvariant, HeldArguments, PTL

=============================================================================
