---------------------------- MODULE ProgramMeaning ----------------------------
(***************************************************************************)
(* What Program is measured against, from the tokens that yylex returned   *)
(* on: the instructions of a sequence of tokens by the grammar of          *)
(* parser.y, and the effect of a list of instructions on an address space  *)
(* of its own.                                                             *)
(***************************************************************************)
EXTENDS Program, Lexemes

\* A statement is one of these tokens and as many constants.
Arity == [k \in {NO_OP, IO, READ, COPY, WRITE, EXIT} |->
            CASE k = EXIT -> 0 [] k \in {WRITE, COPY} -> 2 [] OTHER -> 1]

Opens(s) == s[1].kind \in DOMAIN Arity /\ \A i \in 2 .. Len(s) : s[i].kind = CONST
Complete(s) == Len(s) = Arity[s[1].kind] + 1

Meaning(s) ==
  CASE s[1].kind = EXIT  -> <<NewInstruction("EXIT", 0, 0)>>
    [] s[1].kind = NO_OP -> [i \in 1 .. s[2].val |-> NewInstruction("NO_OP", 0, 0)]
    [] s[1].kind = IO    -> <<NewInstruction("IO", s[2].val, 0)>>
    [] s[1].kind = READ  -> <<NewInstruction("READ", s[2].val, 0)>>
    [] s[1].kind = WRITE -> <<NewInstruction("WRITE", s[2].val, s[3].val)>>
    [] s[1].kind = COPY  -> <<NewInstruction("COPY", s[2].val, s[3].val)>>

\* What a sequence of tokens says: the instructions of its statements, the tokens
\* of the one that is open, and whether all of it is statements so far.
Nothing == [ok |-> TRUE, open |-> <<>>, list |-> <<>>]

ReadOne(r, t) ==
  LET s == Append(r.open, t)
  IN  IF ~r.ok \/ ~Opens(s) THEN [r EXCEPT !.ok = FALSE]
      ELSE IF Complete(s) THEN [ok |-> TRUE, open |-> <<>>, list |-> r.list \o Meaning(s)]
      ELSE [r EXCEPT !.open = s]

Reads(ts) ==
  LET r[n \in 0 .. Len(ts)] == IF n = 0 THEN Nothing ELSE ReadOne(r[n - 1], ts[n]) IN r[Len(ts)]

\* One or more statements, and the end of the file.
WellFormed(ts) ==
  LET r == Reads(Front(ts)) IN Len(ts) > 1 /\ Last(ts).kind = EOF /\ r.ok /\ r.open = <<>>

Programmed == Reads(handed).list
-----------------------------------------------------------------------------
\* yyparse reads on as long as the tokens can be statements of the grammar and
\* not beyond the first that cannot: it accepts exactly if there are one or more
\* statements and this is the end of the file, and gives up with a syntax error
\* otherwise, never for want of stack.  The semantic actions have then requested
\* the instructions of the statements before, each once and in their order.
ParserExact ==
  /\ Len(stack) <= 5
  /\ Parsed => /\ ~Reads(handed).ok /\ Reads(Front(handed)).ok
               /\ yyparse = IF WellFormed(handed) THEN "YYACCEPT" ELSE "YYABORT"
               /\ (yynerrs = 0) = WellFormed(handed)
               /\ console.pc # "ended" => list = Programmed

\* COPY loses its operands when it is executed.
Blind(l) == [i \in DOMAIN l |-> IF l[i].icode = "COPY" THEN NewInstruction("COPY", 0, 0) ELSE l[i]]

Instructions == IF cpu.busy THEN cpu.instructions ELSE pcb.instructions
Counter == IF cpu.busy THEN cpu.pc ELSE pcb.pc

\* Only a file without any error, and with an instruction, becomes a program of
\* the kernel, and the program is that of the file, through the streams of
\* console, kernel and CPU and back; a COPY that was not executed has its operands.
DeliversProgram ==
  Instructions # <<>> =>
    /\ WellFormed(handed) /\ yylexerrs = 0
    /\ Blind(Instructions) = Blind(Programmed)
    /\ \A i \in Counter + 1 .. Len(Instructions) : Instructions[i] = Programmed[i]

\* The process's own memory: cells by logical address.
Addresses == 0 .. Len(FrameOf) * PageSize - 1

Loaded(m, a) ==
  IF \A k \in 0 .. Word - 1 : a + k \in Addresses /\ m[a + k] = <<m[a][1], IF m[a][1] = 0 THEN 0 ELSE k>>
  THEN m[a][1] ELSE Torn

Stored(m, a, v) ==
  [c \in Addresses |-> IF c \in a .. a + Word - 1 THEN <<v, IF v = 0 THEN 0 ELSE c - a>> ELSE m[c]]

\* COPY stores at address 0.
Effect(m, i) ==
  CASE i.icode = "WRITE" -> Stored(m, i.param0, i.param1)
    [] i.icode = "COPY"  -> Stored(m, 0, Loaded(m, i.param1))
    [] OTHER -> m

\* The memory after the first instructions of l, by their number.
After(l) ==
  LET m[n \in 0 .. Len(l)] == IF n = 0 THEN [a \in Addresses |-> <<0, 0>>] ELSE Effect(m[n - 1], l[n])
  IN  m

\* An access that does not end in the page where it starts.
Crosses(a) == Offset(a) + Word > PageSize
CrossingIn(l, n) ==
  \E i \in 1 .. n : \/ l[i].icode = "WRITE" /\ Crosses(l[i].param0)
                    \/ l[i].icode = "COPY" /\ Crosses(l[i].param1)

\* However often a process is interrupted or blocked, each of its instructions
\* takes effect once and in order: while no access crosses the end of a page, its
\* pages hold what its program has stored so far, and the frames of others are
\* untouched; a process that ended has stopped right behind its first EXIT.
MemoryAsProgrammed ==
  LET l == Programmed
      n == Min({Counter, Len(l)})
      m == After(l)[n]
  IN  Instructions # <<>> =>
        /\ ~CrossingIn(l, n) =>
             /\ \A a \in Addresses : memory[PhysicalAddress(a)] = m[a]
             /\ \A c \in Cells : c \div PageSize \notin Range(FrameOf) => memory[c] = <<0, 0>>
        /\ \A i \in 1 .. n : l[i].icode = "EXIT" => i = n /\ pcb.stage = "ended"
=============================================================================
