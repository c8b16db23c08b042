------------------------------- MODULE Lexemes -------------------------------
(***************************************************************************)
(* What Scanner is measured against: the texts that the patterns of        *)
(* console.l match, and the part of the file that is not scanned yet.      *)
(***************************************************************************)
EXTENDS Scanner

IsDigit(c) == c >= 100
IsAlpha(c) == c \in 7 .. 20 \/ c \in 22 .. 34
IsInvalid(c) == c = 4

\* Lower case, as the patterns are case insensitive.
Lower(c) == CASE c = 7 -> 22 [] c \in 9 .. 20 -> c + 14 [] OTHER -> c

Spelling == [k \in {NO_OP, IO, READ, COPY, WRITE, EXIT} |->
  CASE k = NO_OP -> <<27, 28, 21, 28, 29>>
    [] k = IO    -> <<26, 5, 28>>
    [] k = READ  -> <<30, 25, 22, 24>>
    [] k = COPY  -> <<23, 28, 29, 34>>
    [] k = WRITE -> <<32, 30, 26, 31, 25>>
    [] k = EXIT  -> <<25, 33, 26, 31>>]

Keyword(s) == {k \in DOMAIN Spelling : Spelling[k] = [i \in DOMAIN s |-> Lower(s[i])]}
Blank(s)   == \A i \in DOMAIN s : s[i] \in {2, 3}
Constant(s) == \A i \in DOMAIN s : IsDigit(s[i])
BadConstant(s) ==
  \E n \in 1 .. Len(s) - 1 :
    /\ \A i \in 1 .. n : IsDigit(s[i])
    /\ ~IsDigit(s[n + 1]) /\ \A i \in n + 1 .. Len(s) : IsDigit(s[i]) \/ IsAlpha(s[i]) \/ IsInvalid(s[i])

Lexeme(s) == Keyword(s) # {} \/ Blank(s) \/ Constant(s) \/ BadConstant(s) \/ Len(s) = 1

\* The action of console.l for a lexeme: a keyword or a constant is a token, blanks
\* are skipped, and anything else is a lexical error.
RightAction(act, s) ==
  /\ act \in 1 .. 6 <=> Keyword(s) # {}
  /\ act \in 1 .. 6 => TokenOf(act) \in Keyword(s)
  /\ act = 7 <=> Blank(s)
  /\ act = 8 <=> Constant(s)

\* The length of the longest lexeme that a text starts with.
LongestAt(u) == Max({k \in 1 .. Len(u) : Lexeme(SubSeq(u, 1, k))})

\* The token that a lexeme is, or none; what is neither token nor blank is an error.
TokensOf(s) ==
  IF Keyword(s) # {} THEN <<[kind |-> CHOOSE k \in Keyword(s) : TRUE, val |-> 0]>>
  ELSE IF Constant(s) THEN <<[kind |-> CONST, val |-> ValueOf(s)]>> ELSE <<>>

ErrorsOf(s) == IF Keyword(s) # {} \/ Constant(s) \/ Blank(s) THEN 0 ELSE 1

\* A text after one more lexeme: the characters that were read, the tokens and
\* errors in them, and the length of the longest lexeme.
LexOne(text, r) ==
  LET u == SubSeq(text, r.pos + 1, Len(text))
      k == LongestAt(u)
      s == SubSeq(u, 1, k)
  IN  IF u = <<>> THEN r
      ELSE [pos |-> r.pos + k, tokens |-> r.tokens \o TokensOf(s), errors |-> r.errors + ErrorsOf(s),
            longest |-> Max({r.longest, k})]

\* The same after 0, 1, 2 ... lexemes; read[n] lists the first n + 1 of these.
Lexed(text) ==
  LET read[n \in 0 .. Len(text)] ==
        IF n = 0 THEN << [pos |-> 0, tokens |-> <<>>, errors |-> 0, longest |-> 0] >>
        ELSE LET s == read[n - 1] IN Append(s, LexOne(text, s[Len(s)]))
      all == read[Len(text)]
  IN  [n \in 0 .. Len(text) |-> all[n + 1]]

Lexings == [t \in Texts |-> Lexed(t)]

\* What is left of the file where the current text starts, and that place.
Unread(l) == SubSeq(l.buf, l.text + 1, Len(l.buf)) \o l.rest
Position(l) == Len(file) - Len(Unread(l))
-----------------------------------------------------------------------------
\* The buffer and what was not read yet always are the rest of the file, whatever
\* yy_get_next_buffer has moved, grown and read; the pointers stay in the buffer,
\* the buffer in its allocation, and the text of an action fits in yytext.
BufferKeepsFile ==
  /\ Unread(lex) = SubSeq(file, Position(lex) + 1, Len(file))
  /\ lex.text <= lex.cp /\ lex.cp <= Len(lex.buf) + 1 /\ Len(lex.buf) <= lex.size
  /\ lex.pc = "act" => lex.text < lex.cp /\ lex.cp - lex.text < YYLMAX

\* The text that yylex acts on is the longest lexeme that the rest of the file
\* starts with, and the action is that of its pattern, wherever the ends of the
\* buffer and the NULs of the file are.
LongestMatch ==
  lex.pc = "act" /\ Action(lex) # 12 =>
    LET n == lex.cp - lex.text
        Starts(k) == SubSeq(Unread(lex), 1, k)
    IN  /\ n \in 1 .. Len(Unread(lex)) /\ YyText = Starts(n)
        /\ Lexeme(Starts(n)) /\ \A k \in n + 1 .. Len(Unread(lex)) : ~Lexeme(Starts(k))
        /\ RightAction(Action(lex), Starts(n))

\* Whatever the size of the buffer the file is read through, yylex returns the
\* tokens of the longest matches in their order, with the values they are
\* written with, and has counted the lexical errors in between: no token is torn,
\* lost or doubled where yy_get_next_buffer moves and refills the buffer.  It
\* gives up exactly on text that yytext has no room for, one character earlier if
\* the end of the buffer follows it (scanner.c:373).
ScannerExact ==
  \E n \in 0 .. Len(file) :
    LET r == Lexings[file][n]
        end == [kind |-> EOF, val |-> 0]
    IN  /\ lex.init => r.pos = Position(lex) + IF lex.pc = "idle" THEN lex.cp - lex.text ELSE 0
        /\ handed = r.tokens \/ (handed = Append(r.tokens, end) /\ r.pos = Len(file))
        /\ yylexerrs = r.errors /\ r.longest < YYLMAX
        /\ lex.pc = "fatal" => LongestAt(SubSeq(file, r.pos + 1, Len(file))) >= YYLMAX - 1

\* The next text starts where the last one, that an action was taken for, ends: no
\* character is skipped or scanned for two tokens.
ScansInOrder ==
  [][lex'.init /\ Position(lex') # Position(lex) =>
       /\ Position(lex') = Position(lex) + (lex.cp - lex.text)
       /\ lex.pc \in {"act", "idle"} /\ Action(lex) \in 1 .. 10]_scanVars
=============================================================================
