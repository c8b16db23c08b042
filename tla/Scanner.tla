------------------------------- MODULE Scanner -------------------------------
(***************************************************************************)
(* The scanner of the console (console/src/console/scanner.c, generated    *)
(* from console.l): yylex and the buffer it reads the file through.        *)
(*                                                                         *)
(* A character is the number of its class in yy_ec, 100 + d for the digit  *)
(* d, or 0 for NUL.  The buffer holds Len(buf) characters and two end of   *)
(* buffer characters, which also are 0.  Positions count from 0, as the    *)
(* pointers do.  A call of yylex is several steps: one for the automaton,  *)
(* and one for what its result asks for.                                   *)
(***************************************************************************)
EXTENDS Integers, Sequences, SequencesExt

CONSTANTS
  Texts,      \* the files
  BufSizes,   \* YY_BUF_SIZE
  ReadSize,   \* YY_READ_BUF_SIZE
  YYLMAX      \* the size of yytext

\* The classes of yy_ec, with 100 .. 109 in the place of the digits' class.
Chars == (0 .. 34 \ {6}) \cup 100 .. 109

ASSUME ScannerAssumption ==
  /\ Texts \subseteq Seq(Chars) /\ BufSizes \subseteq Nat \ {0} /\ ReadSize \in Nat \ {0}
  /\ YYLMAX \in Nat /\ 6 <= YYLMAX

VARIABLES
  file,      \* the text that is scanned
  lex,       \* the scanner: its place, buffer, pointers and automaton state
  yychar,    \* the token that yylex returned, with its value
  yylexerrs, \* lexical errors
  handed     \* history: the tokens that yylex returned

scanVars == <<file, lex, yychar, yylexerrs, handed>>

\* Tokens, as yytranslate numbers them.
EOF   == 0
CONST == 3
EXIT  == 4
NO_OP == 5
READ  == 6
IO    == 7
WRITE == 8
COPY  == 9

\* YYEMPTY: no token has been read.
Empty == [kind |-> -2, val |-> 0]
-----------------------------------------------------------------------------
(* The tables, from index 0 on.                                            *)

yy_accept == <<0, 0, 0, 12, 10, 7, 7, 8, 10, 10, 10, 10, 10, 10, 7, 9, 8, 0, 0, 0, 0,
               0, 0, 9, 0, 0, 2, 0, 0, 0, 4, 6, 0, 3, 0, 1, 5, 0>>

yy_meta == <<0, 1, 1, 1, 2, 1>> \o [i \in 1 .. 15 |-> 2] \o <<1>> \o [i \in 1 .. 13 |-> 2]

yy_base == <<0, 0, 0, 78, 84, 33, 35, 70, 25, 21, 70, 27, 31, 27, 42, 0, 68, 31, 35, 34, 50,
             42, 39, 0, 32, 41, 84, 45, 53, 50, 84, 84, 53, 84, 58, 84, 84, 84, 68, 48>>

yy_def == <<0, 37, 1, 37, 37, 37, 37, 38, 37, 37, 37, 37, 37, 37, 37, 39, 38, 37, 37, 37, 37,
            37, 37, 39, 37, 37, 37, 37, 37, 37, 37, 37, 37, 37, 37, 37, 37, 0, 37, 37>>

yy_nxt == <<0, 4, 5, 6, 4, 4, 7, 4, 4, 8, 4, 9, 10, 11, 4, 4, 12, 4, 13, 4, 4,
            4, 4, 8, 4, 9, 10, 11, 4, 4, 12, 4, 13, 4, 4, 14, 14, 14, 14, 17, 18,
            20, 21, 22, 14, 14, 24, 25, 26, 28, 23, 29, 30, 17, 18, 20, 21, 22, 31, 32, 24,
            25, 26, 33, 28, 29, 30, 34, 35, 36, 15, 27, 31, 32, 16, 19, 16, 33, 37, 37, 37,
            34, 35, 36, 3>> \o [i \in 1 .. 34 |-> 37]

yy_chk == <<0>> \o [i \in 1 .. 34 |-> 1] \o
          <<5, 5, 6, 6, 8, 9, 11, 12, 13, 14, 14, 17, 18, 19, 21, 39,
            22, 24, 8, 9, 11, 12, 13, 25, 27, 17, 18, 19, 28, 21, 22, 24, 29, 32, 34, 38,
            20, 25, 27, 16, 10, 7, 28, 3, 0, 0, 29, 32, 34>> \o [i \in 1 .. 35 |-> 37]

\* yy_ec
Class(char) == IF char >= 100 THEN 6 ELSE char
-----------------------------------------------------------------------------
(* The automaton.                                                          *)

\* The state that a state defaults to, unless it has an entry for the class.
Fallback(p) ==
  IF yy_chk[yy_base[p[1] + 1] + p[2] + 1] = p[1] THEN p
  ELSE LET d == yy_def[p[1] + 1] IN <<d, IF d >= 38 THEN yy_meta[p[2] + 1] ELSE p[2]>>

\* The state after s on class c: an entry of s, or of the state it defaults to.
\* The last of them is 37, which has all entries and is two defaults away at most.
NextState(s, c) ==
  LET p == Fallback(Fallback(<<s, c>>)) IN yy_nxt[yy_base[p[1] + 1] + p[2] + 1]

CharAt(l, i) == IF i < Len(l.buf) THEN l.buf[i + 1] ELSE 0

\* nul is the class that a NUL has.
ClassAt(l, i, nul) == IF CharAt(l, i) = 0 THEN nul ELSE Class(CharAt(l, i))

\* The states of the automaton at the positions from yy_cp on.
StatesFrom(l, nul) ==
  LET st[i \in l.cp .. Len(l.buf) + 2] ==
        IF i = l.cp THEN l.state ELSE NextState(st[i - 1], ClassAt(l, i - 1, nul))
  IN  st

\* The automaton has gone through the states st to position e, and remembers the
\* last one on the way that accepts.
Moved(l, st, e) ==
  LET accepting == {i \in l.cp .. e - 1 : yy_accept[st[i] + 1] # 0}
      last == Max(accepting)
  IN  [l EXCEPT !.state = st[e], !.cp = e,
                !.lastPos   = IF accepting = {} THEN @ ELSE last,
                !.lastState = IF accepting = {} THEN @ ELSE st[last]]

\* yy_match: until a state without transitions, which the end of buffer
\* characters lead to at the latest.
Run(l) ==
  LET st == StatesFrom(l, 0)
      stops == {i \in l.cp + 1 .. Len(l.buf) + 2 : yy_base[st[i] + 1] = 84}
  IN  Moved(l, st, Min(stops))

\* yy_get_previous_state: the automaton over the text up to end, where a NUL
\* counts as any other character.
PreviousState(l, end) ==
  LET start == [l EXCEPT !.state = 1, !.cp = l.text] IN Moved(start, StatesFrom(start, 1), end)

\* yy_find_action: back to the last accepting state if this one is none.
Found(l) ==
  IF yy_accept[l.state + 1] # 0 THEN l ELSE [l EXCEPT !.state = l.lastState, !.cp = l.lastPos]

Action(l) == yy_accept[l.state + 1]

\* YY_DO_BEFORE_ACTION: text that yytext has no room for is a fatal error.
Acting(l) == [l EXCEPT !.pc = IF l.cp - l.text >= YYLMAX THEN "fatal" ELSE "act"]
-----------------------------------------------------------------------------
(* The buffer.                                                             *)

\* yy_init_buffer, yy_flush_buffer, yy_load_buffer_state
Flushed(l) == [l EXCEPT !.buf = <<>>, !.text = 0, !.cp = 0, !.status = "new"]

\* yy_create_buffer
CreateBuffer(l) == Flushed([l EXCEPT !.init = TRUE])

\* yylex_destroy, yy_delete_buffer, yy_init_globals: the next call of yylex
\* starts with a buffer of its own.
Destroyed(l) == [Flushed(l) EXCEPT !.init = FALSE]

\* The size of a buffer that has room for one more character.
Grown(size, moved) ==
  LET doubled[k \in 0 .. moved + 1] ==
        IF k = 0 THEN size
        ELSE IF doubled[k - 1] - moved - 1 > 0 THEN doubled[k - 1] ELSE doubled[k - 1] * 2
  IN  doubled[moved + 1]

\* Fault: what was scanned before the end of the buffer is not moved.
NextBufferDropped(l) ==
  LET read == Min({l.size - 1, ReadSize, Len(l.rest)})
  IN  [l EXCEPT !.buf = SubSeq(l.rest, 1, read), !.rest = SubSeq(l.rest, read + 1, Len(l.rest)),
                !.text = 0, !.status = IF read = 0 /\ l.cp - l.text > 1 THEN "eof_pending" ELSE "normal"]

\* yy_get_next_buffer: the text of the token is moved to the start, and the file
\* is read behind it.
NextBuffer(l) ==
  LET moved == l.cp - l.text - 1
      size  == IF l.status = "eof_pending" THEN l.size ELSE Grown(l.size, moved)
      read  == IF l.status = "eof_pending" THEN 0
               ELSE Min({size - moved - 1, ReadSize, Len(l.rest)})
  IN  [l EXCEPT !.size = size, !.text = 0,
                !.buf = SubSeq(l.buf, l.text + 1, l.text + moved) \o SubSeq(l.rest, 1, read),
                !.rest = SubSeq(l.rest, read + 1, Len(l.rest)),
                !.status = IF read = 0 /\ moved > 0 THEN "eof_pending"
                           ELSE IF read = 0 THEN "new" ELSE "normal"]
-----------------------------------------------------------------------------
ScanInit ==
  /\ file \in Texts
  /\ \E n \in BufSizes :
       lex = [pc |-> "idle", init |-> FALSE, rest |-> file, buf |-> <<>>, size |-> n, status |-> "new",
              text |-> 0, cp |-> 0, state |-> 1, lastState |-> 0, lastPos |-> 0]
  /\ yychar = Empty /\ yylexerrs = 0 /\ handed = <<>>

\* The next token.
Started(l) == [l EXCEPT !.pc = "match", !.text = l.cp, !.state = 1]

\* yylex is called; the first call makes the buffer.
Called(l) == Started(IF l.init THEN l ELSE CreateBuffer(l))

Match ==
  /\ lex.pc = "match" /\ lex' = Acting(Found(Run(lex)))
  /\ UNCHANGED <<file, yychar, yylexerrs, handed>>

TokenOf(act) ==
  CASE act = 1 -> NO_OP [] act = 2 -> IO [] act = 3 -> READ [] act = 4 -> COPY [] act = 5 -> WRITE
    [] act = 6 -> EXIT [] OTHER -> CONST

\* strdup(yytext) and, when it is used (semantic.c:49), atoi, which is undefined for
\* a number above INT_MAX: there this stands for what the file says, and nothing
\* is claimed of the program.
ValueOf(s) ==
  LET v[i \in 0 .. Len(s)] == IF i = 0 THEN 0 ELSE 10 * v[i - 1] + (s[i] - 100) IN v[Len(s)]

YyText == SubSeq(lex.buf, lex.text + 1, lex.cp)

Return(t) ==
  /\ yychar' = t /\ handed' = Append(handed, t) /\ lex' = [lex EXCEPT !.pc = "idle"]
  /\ UNCHANGED <<file, yylexerrs>>

ReturnToken ==
  /\ lex.pc = "act" /\ Action(lex) \in {1, 2, 3, 4, 5, 6, 8}
  /\ Return([kind |-> TokenOf(Action(lex)), val |-> IF Action(lex) = 8 THEN ValueOf(YyText) ELSE 0])

Skip ==
  /\ lex.pc = "act" /\ Action(lex) = 7 /\ lex' = Started(lex)
  /\ UNCHANGED <<file, yychar, yylexerrs, handed>>

\* Fault: the error is not counted.
LexicalErrorUncounted ==
  /\ lex.pc = "act" /\ Action(lex) \in {9, 10} /\ lex' = Started(lex)
  /\ UNCHANGED <<file, yychar, yylexerrs, handed>>

\* ERROR_LEXICO: it is counted, and scanning goes on.
LexicalError ==
  /\ lex.pc = "act" /\ Action(lex) \in {9, 10} /\ lex' = Started(lex)
  /\ yylexerrs' = yylexerrs + 1 /\ UNCHANGED <<file, yychar, handed>>

\* A NUL that is in the file: the automaton goes on with it, or the token ends
\* before it.
RealNul ==
  /\ lex.pc = "act" /\ Action(lex) = 12 /\ lex.cp <= Len(lex.buf)
  /\ LET end  == lex.cp - 1
         prev == PreviousState(lex, end)
         next == PreviousState(lex, lex.cp)
     IN  lex' = IF next.state = 37
                THEN Acting(Found([next EXCEPT !.state = prev.state, !.cp = end]))
                ELSE Acting(Found(Run(next)))
  /\ UNCHANGED <<file, yychar, yylexerrs, handed>>

AtBufferEnd == lex.pc = "act" /\ Action(lex) = 12 /\ lex.cp > Len(lex.buf)

\* EOB_ACT_CONTINUE_SCAN
ContinueScan ==
  LET next == NextBuffer(lex) IN
  /\ AtBufferEnd /\ next.status = "normal"
  /\ lex' = [PreviousState(next, lex.cp - lex.text - 1) EXCEPT !.pc = "match"]
  /\ UNCHANGED <<file, yychar, yylexerrs, handed>>

\* EOB_ACT_LAST_MATCH
LastMatch ==
  LET next == NextBuffer(lex) IN
  /\ AtBufferEnd /\ next.status = "eof_pending"
  /\ lex' = Acting(Found(PreviousState(next, Len(next.buf))))
  /\ UNCHANGED <<file, yychar, yylexerrs, handed>>

\* EOB_ACT_END_OF_FILE: yyrestart
EndOfFile ==
  LET next == NextBuffer(lex) IN
  /\ AtBufferEnd /\ next.status = "new"
  /\ yychar' = [kind |-> EOF, val |-> 0] /\ handed' = Append(handed, [kind |-> EOF, val |-> 0])
  /\ lex' = [Flushed(next) EXCEPT !.pc = "idle"] /\ UNCHANGED <<file, yylexerrs>>

Scan == Match \/ ReturnToken \/ Skip \/ LexicalError \/ RealNul \/ ContinueScan \/ LastMatch \/ EndOfFile
=============================================================================
