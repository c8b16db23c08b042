-------------------------------- MODULE Parser --------------------------------
(***************************************************************************)
(* The parser of the console (console/src/console/parser.c, generated from *)
(* parser.y) with its semantic actions (semantic.c): yyparse as a shift    *)
(* and reduce automaton that calls yylex when it needs a token.            *)
(*                                                                         *)
(* The stacks of states and of values are one sequence of records.  There  *)
(* are no error productions, so a syntax error empties the stack and       *)
(* aborts; yysetstate grows the stack from InitDepth and gives up beyond   *)
(* MaxDepth.                                                               *)
(***************************************************************************)
EXTENDS Scanner

CONSTANTS
  InitDepth,  \* YYINITDEPTH
  MaxDepth    \* YYMAXDEPTH

\* They are 200 and 10000: there is room for the longest statement.
ASSUME ParserAssumption ==
  /\ InitDepth \in Nat /\ MaxDepth \in Nat /\ 2 <= InitDepth /\ InitDepth <= MaxDepth /\ 6 <= MaxDepth

VARIABLES
  yyparse,    \* the place in yyparse: "shift", "reduce", "error" or its result
  rule,       \* yyn: the rule to reduce
  stack,      \* the states and their values
  stacksize,  \* yystacksize
  yynerrs,    \* syntax errors
  list        \* input_file_commands

parseVars == <<yyparse, rule, stack, stacksize, yynerrs, list>>

yypact    == <<6, -5, -2, -1, 13, 14, 15, 0, -5, -5, -5, -5, 16, 17, -5, -5, -5, -5>>
yydefact  == <<0, 4, 0, 0, 0, 0, 0, 0, 2, 5, 7, 6, 0, 0, 1, 3, 8, 9>>
yypgoto   == <<-5, -5, -4>>
yydefgoto == <<0, 7, 8>>
yytable   == <<14, 9, 10, 15, 1, 2, 3, 4, 5, 6, 1, 2, 3, 4, 5, 6, 11, 12, 13, 16, 17>>
yycheck   == <<0, 3, 3, 7, 4, 5, 6, 7, 8, 9, 4, 5, 6, 7, 8, 9, 3, 3, 3, 3, 3>>
yyr1      == <<0, 10, 11, 11, 12, 12, 12, 12, 12, 12>>
yyr2      == <<0, 2, 1, 2, 1, 2, 2, 2, 3, 3>>
YYLAST  == 20
YYFINAL == 14
YYNINF  == -5

yystate == Last(stack).state

\* The entry of the tables for symbol t in a state, 0 if there is none.
TableEntry(state, t) ==
  LET n == yypact[state + 1] + t
  IN  IF n < 0 \/ n > YYLAST \/ yycheck[n + 1] # t THEN 0 ELSE yytable[n + 1]

\* The state after a reduction to symbol lhs in a state.
Goto(state, lhs) ==
  LET i == yypgoto[lhs - 9] + state
  IN  IF i >= 0 /\ i <= YYLAST /\ yycheck[i + 1] = state THEN yytable[i + 1] ELSE yydefgoto[lhs - 9]

NewInstruction(code, p0, p1) == [icode |-> code, param0 |-> p0, param1 |-> p1]

\* semantic.c: what the actions of the rules add to the list; v is the value
\* stack.  NO_OP n is n instructions.
Requested(r, v) ==
  LET top == Last(v).val
      second == v[Len(v) - 1].val
  IN  CASE r = 4 -> <<NewInstruction("EXIT", 0, 0)>>
        [] r = 5 -> [i \in 1 .. top |-> NewInstruction("NO_OP", 0, 0)]
        [] r = 6 -> <<NewInstruction("IO", top, 0)>>
        [] r = 7 -> <<NewInstruction("READ", top, 0)>>
        [] r = 8 -> <<NewInstruction("WRITE", second, top)>>
        [] r = 9 -> <<NewInstruction("COPY", second, top)>>
        [] OTHER -> <<>>

ParseInit ==
  /\ ScanInit
  /\ yyparse = "shift" /\ rule = 0 /\ stack = <<[state |-> 0, val |-> 0]>> /\ stacksize = InitDepth
  /\ yynerrs = 0 /\ list = <<>>
-----------------------------------------------------------------------------
\* yynewstate, yysetstate: the state is pushed; a full stack is doubled, up to
\* MaxDepth, and the final state accepts.
PushState(below, s, v) ==
  LET pushed == Append(below, [state |-> s, val |-> v])
      size   == IF Len(pushed) < stacksize THEN stacksize ELSE Min({2 * stacksize, MaxDepth})
  IN  /\ stack' = pushed /\ stacksize' = size
      /\ yyparse' = CASE Len(pushed) >= stacksize /\ stacksize >= MaxDepth -> "YYNOMEM"
                      [] Len(pushed) >= size -> "YYABORT"
                      [] Len(pushed) < size /\ s = YYFINAL -> "YYACCEPT"
                      [] OTHER -> "shift"

\* yybackup: a state that always reduces needs no token.
Deciding == yyparse = "shift" /\ lex.pc = "idle"
NeedsToken == yypact[yystate + 1] # YYNINF

\* yylex is called.
ReadToken ==
  /\ Deciding /\ NeedsToken /\ yychar = Empty
  /\ lex' = Called(lex) /\ UNCHANGED <<file, yychar, yylexerrs, handed>> /\ UNCHANGED parseVars

\* Fault: the token is not discarded when it is shifted.
ShiftKeepsToken ==
  /\ Deciding /\ NeedsToken /\ yychar # Empty /\ TableEntry(yystate, yychar.kind) > 0
  /\ PushState(stack, TableEntry(yystate, yychar.kind), yychar.val)
  /\ UNCHANGED <<file, lex, yychar, yylexerrs, handed, rule, yynerrs, list>>

Shift ==
  /\ Deciding /\ NeedsToken /\ yychar # Empty /\ TableEntry(yystate, yychar.kind) > 0
  /\ PushState(stack, TableEntry(yystate, yychar.kind), yychar.val)
  /\ yychar' = Empty /\ UNCHANGED <<file, lex, yylexerrs, handed, rule, yynerrs, list>>

\* yydefault: the default reduction, or an error.
Default ==
  /\ Deciding /\ (NeedsToken => yychar # Empty /\ TableEntry(yystate, yychar.kind) = 0)
  /\ rule' = yydefact[yystate + 1] /\ yyparse' = IF yydefact[yystate + 1] = 0 THEN "error" ELSE "reduce"
  /\ UNCHANGED <<stack, stacksize, yynerrs, list>> /\ UNCHANGED scanVars

\* yyreduce
Reduce ==
  /\ yyparse = "reduce"
  /\ LET below == SubSeq(stack, 1, Len(stack) - yyr2[rule + 1])
         lhs   == yyr1[rule + 1]
     IN  PushState(below, Goto(Last(below).state, lhs), stack[Len(below) + 1].val)
  /\ list' = list \o Requested(rule, stack)
  /\ rule' = 0 /\ UNCHANGED yynerrs /\ UNCHANGED scanVars

\* yyerrlab, yyerrlab1: the error is counted, and states are popped until one
\* shifts the error token, which none does.
SyntaxError ==
  /\ yyparse = "error" /\ yynerrs' = yynerrs + 1
  /\ \A i \in DOMAIN stack : TableEntry(stack[i].state, 1) = 0
  /\ stack' = <<Head(stack)>> /\ yyparse' = "YYABORT"
  /\ UNCHANGED <<rule, stacksize, list>> /\ UNCHANGED scanVars

Parse == ReadToken \/ Shift \/ Default \/ Reduce \/ SyntaxError \/ (Scan /\ UNCHANGED parseVars)
=============================================================================
