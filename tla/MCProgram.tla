------------------------------ MODULE MCProgram ------------------------------
(***************************************************************************)
(* Program on small files: all pairs and triples of a few lexemes, and of  *)
(* a few statements.                                                       *)
(***************************************************************************)
EXTENDS ProgramMeaning

Digit(d) == 100 + d
Space == <<2>>

MCLexemes ==
  { <<11, 33, 26, 17>>,          \* Exit, in both cases
    <<27, 28, 21, 28, 29>>,      \* no_op
    <<32, 30, 26, 31, 25>>,      \* write
    <<12, 5>>,                   \* I/, the start of I/O
    <<Digit(2)>>, <<Digit(1), Digit(0)>>,
    <<Digit(2), 22, Digit(1)>>,  \* 2a1, an invalid constant
    <<4>>, <<0>> }               \* an invalid character, NUL

MCStatements ==
  { <<25, 33, 26, 31>>,                                   \* exit
    <<26, 5, 28, 2, Digit(3)>>,                           \* i/o 3
    <<30, 25, 22, 24, 3, Digit(4)>>,                      \* read 4
    <<23, 28, 29, 34, 2, Digit(6), 2, Digit(4)>>,         \* copy 6 4
    <<32, 30, 26, 31, 25, 2, Digit(4), 2, Digit(9)>>,     \* write 4 9
    <<32, 30, 26, 31, 25, 2, Digit(7), 2, Digit(8)>>,     \* write 7 8
    <<27, 28, 21, 28, 29, 2, Digit(2)>> }                 \* no_op 2

MCTexts ==
  LET Two(S)      == {a \o b : a \in S, b \in S}
      Joined(S)   == {a \o Space \o b : a \in S, b \in S}
      Three(S, T) == {a \o Space \o b : a \in S, b \in T}
  IN  {<<>>} \cup MCLexemes \cup Two(MCLexemes) \cup Three(MCLexemes, Joined(MCLexemes))
      \cup MCStatements \cup Joined(MCStatements) \cup Three(MCStatements, Joined(MCStatements))

MCFrameOf == <<2, 0>>
-----------------------------------------------------------------------------
\* A program with an EXIT ends, under the fairness of kernel and CPU and with
\* finitely many interruptions; without one it keeps the CPU past its last
\* instruction, and never ends.
ExitEnds ==
  /\ (\E i \in DOMAIN pcb.instructions : pcb.instructions[i].icode = "EXIT") ~> pcb.stage = "ended"
  /\ [](pcb.stage = "ended" => \E i \in DOMAIN pcb.instructions : pcb.instructions[i].icode = "EXIT")
=============================================================================
