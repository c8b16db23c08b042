------------------------------- MODULE Program -------------------------------
(***************************************************************************)
(* The way of a program through the system: the console scans and parses   *)
(* its file and sends the instructions (console.c), the kernel builds a    *)
(* PCB from them (dispatcher.c) and sends it to the CPU and back as a      *)
(* stream of words (pcb.c, instruction.c), and the CPU executes them       *)
(* (cpu.c).  It composes Parser with the console's life cycle and the      *)
(* interpreter; scheduling and paging are the business of KernelScheduler, *)
(* CpuCycle and Paging, so there is one process here, any instruction may  *)
(* be the last of its turn, and pages keep their frames.                   *)
(*                                                                         *)
(* Main memory is a function from cells; a value takes Word of them.  A    *)
(* cell has a value and which part of it this is, <<0, 0>> at first.       *)
(***************************************************************************)
EXTENDS Parser

CONSTANTS
  Argcs,       \* argument counts of the console
  Size,        \* the process size it is given
  PageSize,    \* TAM_PAGINA in cells
  Word,        \* sizeof(uint32_t) in cells
  FrameOf,     \* the frames of pages 0, 1, ... of the process
  NoOfFrames,  \* frames of main memory
  MaxTurns     \* bound: turns of the process that end in an interruption

ASSUME ProgramAssumption ==
  /\ Argcs \subseteq Nat \ {0} /\ Size \in Nat /\ PageSize \in Nat \ {0} /\ Word \in 1 .. PageSize
  /\ NoOfFrames \in Nat \ {0} /\ FrameOf \in Seq(0 .. NoOfFrames - 1) /\ IsInjective(FrameOf)
  /\ MaxTurns \in Nat

VARIABLES
  console,    \* the place in main, with the exit code
  wire,       \* what the kernel has not received
  pcb,        \* the PCB in the kernel
  cpu,        \* the PCB in the CPU
  memory,     \* main memory
  turns       \* interruptions, for the bound

consoleVars == <<console, wire>>
systemVars == <<pcb, cpu, memory, turns>>
vars == <<scanVars, parseVars, consoleVars, systemVars>>

NoPcb == [stage |-> "none", instructions |-> <<>>]
NoCpu == [busy |-> FALSE, instructions |-> <<>>, pc |-> 0]
Cells == 0 .. NoOfFrames * PageSize - 1
Torn  == -1

Init ==
  /\ ParseInit
  /\ console = [pc |-> "main", code |-> "none"] /\ wire = <<>>
  /\ pcb = NoPcb /\ cpu = NoCpu /\ memory = [c \in Cells |-> <<0, 0>>] /\ turns = 0
-----------------------------------------------------------------------------
(* Streams.                                                                *)

InstructionToStream(i) == <<i.icode, i.param0, i.param1>>

InstructionFromStream(s) == NewInstruction(s[1], s[2], s[3])

\* instructions_fold: the count and the instructions.
InstructionsFold(l) ==
  <<Len(l)>> \o [k \in 1 .. 3 * Len(l) |-> InstructionToStream(l[(k + 2) \div 3])[((k + 2) % 3) + 1]]

InstructionListFrom(s) == [i \in 1 .. s[1] |-> InstructionFromStream(SubSeq(s, 3 * i - 1, 3 * i + 1))]

\* accion_serializar: the code and the parameter.
AccionSerializar(a) == <<a.code, a.param>>

AccionFromStream(s) == [code |-> s[1], param |-> s[2]]

\* new_pcb
NewPcb(id, size) ==
  [stage |-> "created", id |-> id, status |-> "NONE", size |-> size, pc |-> 0, instructions |-> <<>>]

\* pcb_to_stream, of the fields that vary here.
PcbToStream(p) == <<p.id, p.status, p.size, p.pc>> \o InstructionsFold(p.instructions)

PcbFromStream(s) ==
  [id |-> s[1], status |-> s[2], size |-> s[3], pc |-> s[4],
   instructions |-> InstructionListFrom(SubSeq(s, 5, Len(s)))]
-----------------------------------------------------------------------------
(* The console.                                                            *)

At(place) == console.pc = place
Goes(place) == console' = [console EXCEPT !.pc = place]
Ends(code) == console' = [pc |-> "ended", code |-> code]

\* context_evaluate: the arguments are missing.
NoContext ==
  /\ At("main") /\ \E n \in Argcs : n < 3 /\ Ends(IF n = 1 THEN "NO_INPUT_FILE" ELSE "NO_PROCESS_SIZE")
  /\ UNCHANGED <<wire, scanVars, parseVars, systemVars>>

\* on_init
OnInit ==
  /\ At("main") /\ \E n \in Argcs : n >= 3
  /\ Goes("parse") \/ Ends("EXIT_FAILURE")
  /\ UNCHANGED <<wire, scanVars, parseVars, systemVars>>

\* parse: the file cannot be opened, and fclose(NULL) kills the console.
CannotOpen ==
  /\ At("parse") /\ yyparse = "shift" /\ ~lex.init /\ Ends("crash")
  /\ UNCHANGED <<wire, scanVars, parseVars, systemVars>>

ConsoleParses == At("parse") /\ Parse /\ UNCHANGED <<consoleVars, systemVars>>

\* yy_fatal_error
FatalError ==
  /\ At("parse") /\ lex.pc = "fatal" /\ Ends("YY_EXIT_FAILURE")
  /\ UNCHANGED <<wire, scanVars, parseVars, systemVars>>

Parsed == yyparse \in {"YYACCEPT", "YYABORT", "YYNOMEM"}

\* Fault: only syntax errors keep a program from being sent.
AnalysedLexErrors ==
  /\ At("parse") /\ Parsed
  /\ IF yynerrs = 0 THEN Goes("connect") ELSE Goes("before_exit")
  /\ lex' = Destroyed(lex)
  /\ UNCHANGED <<wire, file, yychar, yylexerrs, handed, parseVars, systemVars>>

\* parse ends with yylex_destroy, and on_run connects if there were no errors.
Analysed ==
  /\ At("parse") /\ Parsed
  /\ IF yynerrs = 0 /\ yylexerrs = 0 THEN Goes("connect") ELSE Goes("before_exit")
  /\ lex' = Destroyed(lex)
  /\ UNCHANGED <<wire, file, yychar, yylexerrs, handed, parseVars, systemVars>>

\* on_connect, and the test of the loop: status is not RUNNING if the parser
\* gave up, and an empty list is not sent.
Connect ==
  /\ At("connect")
  /\ IF yyparse = "YYACCEPT" /\ list # <<>> THEN Goes("action") ELSE Goes("before_exit")
  /\ UNCHANGED <<wire, scanVars, parseVars, systemVars>>

SendAction ==
  /\ At("action") /\ Goes("instructions")
  /\ wire' = Append(wire, [op |-> "SYS", data |-> AccionSerializar([code |-> "NEW_PROCESS", param |-> Size])])
  /\ UNCHANGED <<scanVars, parseVars, systemVars>>

\* on_send_instructions
SendInstructions ==
  /\ At("instructions") /\ Goes("before_exit")
  /\ wire' = Append(wire, [op |-> "CMD", data |-> InstructionsFold(list)])
  /\ UNCHANGED <<scanVars, parseVars, systemVars>>

\* on_before_exit destroys the list.
OnBeforeExit ==
  /\ At("before_exit") /\ Ends("EXIT_SUCCESS") /\ list' = <<>>
  /\ UNCHANGED <<wire, scanVars, yyparse, rule, stack, stacksize, yynerrs, systemVars>>

\* cierre_forzoso, between any two steps.
Sigint ==
  /\ console.pc \in {"parse", "connect", "action", "instructions", "before_exit"}
  /\ Ends("SIGINT") /\ list' = <<>>
  /\ UNCHANGED <<wire, scanVars, yyparse, rule, stack, stacksize, yynerrs, systemVars>>

Console ==
  \/ NoContext \/ OnInit \/ CannotOpen \/ ConsoleParses \/ FatalError \/ Analysed \/ Connect
  \/ SendAction \/ SendInstructions \/ OnBeforeExit
-----------------------------------------------------------------------------
(* The kernel.                                                             *)

\* dispatch_handle_syscall: a PCB without instructions.
HandleSyscall ==
  /\ wire # <<>> /\ Head(wire).op = "SYS" /\ wire' = Tail(wire)
  /\ LET accion == AccionFromStream(Head(wire).data)
     IN  accion.code = "NEW_PROCESS" /\ pcb' = NewPcb(0, accion.param)
  /\ UNCHANGED <<console, cpu, memory, turns, scanVars, parseVars>>

\* dispatch_handle_instruction: the PCB gets its instructions and is admitted.
HandleInstructions ==
  /\ wire # <<>> /\ Head(wire).op = "CMD" /\ wire' = Tail(wire)
  /\ pcb' = [pcb EXCEPT !.stage = "ready", !.instructions = InstructionListFrom(Head(wire).data)]
  /\ UNCHANGED <<console, cpu, memory, turns, scanVars, parseVars>>

\* The PCB goes to the CPU as a stream.
Dispatch ==
  /\ pcb.stage = "ready" /\ pcb' = [pcb EXCEPT !.stage = "running"]
  /\ LET p == PcbFromStream(PcbToStream(pcb))
     IN  cpu' = [busy |-> TRUE, instructions |-> p.instructions, pc |-> p.pc]
  /\ UNCHANGED <<memory, turns, consoleVars, scanVars, parseVars>>

EndIo ==
  /\ pcb.stage = "blocked" /\ pcb' = [pcb EXCEPT !.stage = "ready"]
  /\ UNCHANGED <<cpu, memory, turns, consoleVars, scanVars, parseVars>>
-----------------------------------------------------------------------------
(* The CPU.                                                                *)

\* return_pcb; the CPU's copy comes back as a stream.
Returned(stage, instructions, pc) ==
  LET p == PcbFromStream(PcbToStream([pcb EXCEPT !.pc = pc, !.instructions = instructions]))
  IN  /\ pcb' = [pcb EXCEPT !.stage = stage, !.pc = p.pc, !.instructions = p.instructions]
      /\ cpu' = NoCpu

\* get_page_number, get_offset, req_physical_address; a page outside the process
\* has no frame here.
PageNumber(a) == a \div PageSize
Offset(a) == a - PageSize * PageNumber(a)
HasFrame(a) == PageNumber(a) < Len(FrameOf)
PhysicalAddress(a) == FrameOf[PageNumber(a) + 1] * PageSize + Offset(a)

\* read_from_memory and write_in_memory: Word cells from the physical address on,
\* without a look at the end of the frame.
ReadValue(pa) ==
  LET cells == {c \in Cells : c \in pa .. pa + Word - 1}
  IN  IF \A c \in cells : memory[c] = <<memory[pa][1], IF memory[pa][1] = 0 THEN 0 ELSE c - pa>>
      THEN memory[pa][1] ELSE Torn

WriteValue(pa, v) ==
  [c \in Cells |-> IF c \in pa .. pa + Word - 1 THEN <<v, IF v = 0 THEN 0 ELSE c - pa>> ELSE memory[c]]

Fetched == IF cpu.pc < Len(cpu.instructions) THEN cpu.instructions[cpu.pc + 1] ELSE NewInstruction("NULL", 0, 0)

\* One instruction that does not return the PCB.
Executes(code) == cpu.busy /\ Fetched.icode = code

Stays(instructions, m) ==
  /\ cpu' = [cpu EXCEPT !.pc = @ + 1, !.instructions = instructions] /\ memory' = m
  /\ UNCHANGED <<pcb, turns, consoleVars, scanVars, parseVars>>

\* instruction_fetch finds nothing beyond the last instruction, and the program
\* counter goes on; it stops one further, as a bound.
ExecuteNothing ==
  Executes("NULL") /\ cpu.pc = Len(cpu.instructions) /\ Stays(cpu.instructions, memory)

ExecuteNoOp == Executes("NO_OP") /\ Stays(cpu.instructions, memory)

ExecuteRead == Executes("READ") /\ HasFrame(Fetched.param0) /\ Stays(cpu.instructions, memory)

ExecuteWrite ==
  /\ Executes("WRITE") /\ HasFrame(Fetched.param0)
  /\ Stays(cpu.instructions, WriteValue(PhysicalAddress(Fetched.param0), Fetched.param1))

\* Fault: the source is taken as the value.
ExecuteCopyAddress ==
  /\ Executes("COPY") /\ HasFrame(Fetched.param1)
  /\ Stays(cpu.instructions, WriteValue(PhysicalAddress(0), Fetched.param1))

\* COPY: cycle fetches the operand, and stores it and operandos.op1, which is 0,
\* in the instruction of the PCB; execute_COPY writes to that address.
ExecuteCopy ==
  /\ Executes("COPY") /\ HasFrame(Fetched.param1)
  /\ LET v == ReadValue(PhysicalAddress(Fetched.param1))
     IN  Stays([cpu.instructions EXCEPT ![cpu.pc + 1] = NewInstruction("COPY", 0, v)],
               WriteValue(PhysicalAddress(0), v))

\* Fault: the PCB goes back as it came.
ExecuteIoStale ==
  /\ Executes("IO") /\ Returned("blocked", cpu.instructions, cpu.pc)
  /\ UNCHANGED <<memory, turns, consoleVars, scanVars, parseVars>>

ExecuteIo ==
  /\ Executes("IO") /\ Returned("blocked", cpu.instructions, cpu.pc + 1)
  /\ UNCHANGED <<memory, turns, consoleVars, scanVars, parseVars>>

ExecuteExit ==
  /\ Executes("EXIT") /\ Returned("ended", cpu.instructions, cpu.pc + 1)
  /\ UNCHANGED <<memory, turns, consoleVars, scanVars, parseVars>>

\* cycle, with an interruption.
Interrupted ==
  /\ cpu.busy /\ turns < MaxTurns /\ turns' = turns + 1
  /\ Returned("ready", cpu.instructions, cpu.pc)
  /\ UNCHANGED <<memory, consoleVars, scanVars, parseVars>>

Cpu ==
  \/ ExecuteNothing \/ ExecuteNoOp \/ ExecuteRead \/ ExecuteWrite \/ ExecuteCopy
  \/ ExecuteIo \/ ExecuteExit

Kernel == HandleSyscall \/ HandleInstructions \/ Dispatch \/ EndIo

Next == Console \/ Sigint \/ Kernel \/ Cpu \/ Interrupted

Spec == Init /\ [][Next]_vars

\* The threads of the kernel and the loop of the CPU go on.
FairSpec == Spec /\ WF_vars(Kernel) /\ WF_vars(Cpu)
=============================================================================
