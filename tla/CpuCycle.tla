------------------------------- MODULE CpuCycle -------------------------------
(***************************************************************************)
(* The CPU module (cpu/src): the main thread that runs the instruction     *)
(* cycle, the thread that receives PCBs from the kernel's dispatch         *)
(* connection and the one that receives INT from its interrupt connection. *)
(* They share the pointer g_cpu.pcb, the flag has_interruption and the     *)
(* semaphores cpu_in_use and pcb_received.                                 *)
(*                                                                         *)
(* One action is one access to what is shared.  The kernel is the other    *)
(* end of both connections: it dispatches one process at a time and may    *)
(* decide to interrupt while it has one dispatched (current_estimation is  *)
(* not 0); the INT arrives at any time after that.                         *)
(***************************************************************************)
EXTENDS Integers, Sequences, FiniteSets

CONSTANTS
  Procs,    \* the processes
  NoPcb,    \* NULL
  Program,  \* the instructions of each process
  MaxInts   \* bound: the INTs that the kernel sends

Instructions == {"NO_OP", "MEMORY", "IO", "EXIT"}

ASSUME CpuAssumption ==
  /\ NoPcb \notin Procs
  /\ Program \in [Procs -> Seq(Instructions)]
  /\ MaxInts \in Nat

VARIABLES
  pcb,       \* g_cpu.pcb
  flag,      \* g_cpu.has_interruption
  inUse,     \* semaphore cpu_in_use
  received,  \* semaphore pcb_received
  pc,        \* the program counter in each PCB
  main,      \* the main thread: its place, and the status it gives a PCB back with
  disp,      \* the place of the dispatch thread
  intr,      \* the place of the interrupt thread, and the turn its INT is for
  krn,       \* the kernel's short term scheduler: its place and the process
  last,      \* the status the kernel got each process back with
  wire,      \* the PCB in the dispatch connection, towards the CPU
  back,      \* the PCB in the dispatch connection, towards the kernel
  ints,      \* the INTs that are sent and not read: the turn each is for
  budget,    \* the INTs that the kernel may still send
  turn,      \* history: the number of dispatches so far
  flagFor    \* history: the turn of the INT that raised flag

vars == <<pcb, flag, inUse, received, pc, main, disp, intr, krn, last, wire, back,
          ints, budget, turn, flagFor>>

MainPcs == {"wait", "check", "loop", "cycle", "send", "null", "release", "clear"}
Returned == {"READY", "BLOCKED", "TERMINATED"}
-----------------------------------------------------------------------------
Init ==
  /\ pcb = NoPcb /\ flag = FALSE /\ inUse = 1 /\ received = 0
  /\ pc = [p \in Procs |-> 0]
  /\ main = [at |-> "wait", st |-> "READY"]
  /\ disp = "wait" /\ intr = [at |-> "recv", for |-> 0]
  /\ krn = [at |-> "idle", pcb |-> NoPcb]
  /\ last = [p \in Procs |-> "READY"]
  /\ wire = NoPcb /\ back = NoPcb /\ ints = <<>>
  /\ budget = MaxInts /\ turn = 0 /\ flagFor = 0
-----------------------------------------------------------------------------
(* The kernel.                                                             *)

\* execute sets current_estimation: from now on INT may be sent.
KernelDispatch(p) ==
  /\ krn.at = "idle" /\ last[p] # "TERMINATED"
  /\ krn' = [at |-> "dispatch", pcb |-> p] /\ turn' = turn + 1
  /\ UNCHANGED <<pcb, flag, inUse, received, pc, main, disp, intr, last, wire, back, ints, budget, flagFor>>

KernelSend ==
  /\ krn.at = "dispatch" /\ krn' = [krn EXCEPT !.at = "recv"] /\ wire' = krn.pcb
  /\ UNCHANGED <<pcb, flag, inUse, received, pc, main, disp, intr, last, back, ints, budget, turn, flagFor>>

\* check_interruption, in the long term or the I/O scheduler.
KernelInterrupt ==
  /\ krn.at # "idle" /\ budget > 0
  /\ budget' = budget - 1 /\ ints' = Append(ints, turn)
  /\ UNCHANGED <<pcb, flag, inUse, received, pc, main, disp, intr, krn, last, wire, back, turn, flagFor>>

KernelReceive ==
  /\ krn.at = "recv" /\ back # NoPcb /\ back' = NoPcb
  /\ krn' = [at |-> "idle", pcb |-> NoPcb]
  /\ UNCHANGED <<pcb, flag, inUse, received, pc, main, disp, intr, last, wire, ints, budget, turn, flagFor>>
-----------------------------------------------------------------------------
(* Dispatch thread: receive_pcb.                                           *)

DispStep(from, to) ==
  /\ disp = from /\ disp' = to
  /\ UNCHANGED <<flag, pc, main, intr, krn, last, back, ints, budget, turn, flagFor>>

\* Fault: the PCB is received while the CPU is in use.
DispNoWait ==
  /\ wire # NoPcb /\ DispStep("wait", "set") /\ UNCHANGED <<pcb, inUse, received, wire>>

DispWait ==
  /\ wire # NoPcb /\ DispStep("wait", "set")
  /\ inUse > 0 /\ inUse' = inUse - 1 /\ UNCHANGED <<pcb, received, wire>>

DispSet ==
  /\ DispStep("set", "signal")
  /\ pcb' = wire /\ wire' = NoPcb /\ UNCHANGED <<inUse, received>>

\* Fault: the main thread is not told.
DispNoSignal == DispStep("signal", "wait") /\ UNCHANGED <<pcb, inUse, received, wire>>

DispSignal ==
  /\ DispStep("signal", "wait")
  /\ received' = received + 1 /\ UNCHANGED <<pcb, inUse, wire>>
-----------------------------------------------------------------------------
(* Interrupt thread: request_handler_int.                                  *)

IntStep(from, to, for) ==
  /\ intr.at = from /\ intr' = [at |-> to, for |-> for]
  /\ UNCHANGED <<pcb, inUse, received, pc, main, disp, krn, last, wire, back, budget, turn>>

\* An INT that finds no PCB is ignored.
IntTest ==
  /\ ints # <<>> /\ ints' = Tail(ints)
  /\ IntStep("recv", IF pcb # NoPcb THEN "set" ELSE "recv", Head(ints))
  /\ UNCHANGED <<flag, flagFor>>

IntSet ==
  /\ IntStep("set", "recv", 0)
  /\ flag' = TRUE /\ flagFor' = intr.for /\ UNCHANGED ints
-----------------------------------------------------------------------------
(* Main thread: on_run and cycle.                                          *)

MainStep(from, to, s) ==
  /\ main.at = from /\ main' = [at |-> to, st |-> s]
  /\ UNCHANGED <<disp, intr, krn, wire, ints, budget, turn>>

MainWait ==
  /\ MainStep("wait", "check", main.st)
  /\ received > 0 /\ received' = received - 1
  /\ UNCHANGED <<pcb, flag, inUse, pc, last, back, flagFor>>

\* Without a PCB the semaphore is "corrupted": the thread waits again.
MainCheck ==
  /\ MainStep("check", IF pcb = NoPcb THEN "wait" ELSE "loop", main.st)
  /\ UNCHANGED <<pcb, flag, inUse, received, pc, last, back, flagFor>>

\* Fault: the loop does not look at g_cpu.pcb.
MainLoopUntested ==
  /\ MainStep("loop", "cycle", main.st)
  /\ UNCHANGED <<pcb, flag, inUse, received, pc, last, back, flagFor>>

MainLoop ==
  /\ MainStep("loop", IF pcb = NoPcb THEN "wait" ELSE "cycle", main.st)
  /\ UNCHANGED <<pcb, flag, inUse, received, pc, last, back, flagFor>>

\* The instruction at the program counter; list_get finds none past the end.
Fetched == IF pc[pcb] < Len(Program[pcb]) THEN Program[pcb][pc[pcb] + 1] ELSE "NONE"

\* instruction_fetch moves the program counter.  Every value past the end
\* fetches nothing, so the model stops counting there.
Advance == pc' = [pc EXCEPT ![pcb] = IF @ < Len(Program[pcb]) THEN @ + 1 ELSE @]

\* execute_NO_OP, the memory instructions, and a fetch that found nothing: the
\* main thread touches nothing that is shared until it is back at its loop.
CycleOther ==
  /\ MainStep("cycle", "loop", main.st)
  /\ ~flag /\ Fetched \notin {"IO", "EXIT"} /\ Advance
  /\ UNCHANGED <<pcb, flag, inUse, received, last, back, flagFor>>

CycleIo ==
  /\ MainStep("cycle", "send", "BLOCKED")
  /\ ~flag /\ Fetched = "IO" /\ Advance
  /\ UNCHANGED <<pcb, flag, inUse, received, last, back, flagFor>>

CycleExit ==
  /\ MainStep("cycle", "send", "TERMINATED")
  /\ ~flag /\ Fetched = "EXIT" /\ Advance
  /\ UNCHANGED <<pcb, flag, inUse, received, last, back, flagFor>>

\* Fault: the flag is not looked at.
CycleAlwaysInterrupt ==
  /\ MainStep("cycle", "send", "READY")
  /\ UNCHANGED <<pcb, flag, inUse, received, pc, last, back, flagFor>>

CycleInterrupt ==
  /\ flag
  /\ MainStep("cycle", "send", "READY")
  /\ UNCHANGED <<pcb, flag, inUse, received, pc, last, back, flagFor>>

\* return_pcb: the PCB is in the connection before it is destroyed here ...
ReturnSend ==
  /\ MainStep("send", "null", main.st)
  /\ back' = pcb /\ last' = [last EXCEPT ![pcb] = main.st]
  /\ UNCHANGED <<pcb, flag, inUse, received, pc, flagFor>>

\* Fault: g_cpu.pcb keeps pointing to the destroyed PCB.
ReturnKeep ==
  /\ MainStep("null", "release", main.st)
  /\ UNCHANGED <<pcb, flag, inUse, received, pc, last, back, flagFor>>

ReturnNull ==
  /\ MainStep("null", "release", main.st)
  /\ pcb' = NoPcb /\ UNCHANGED <<flag, inUse, received, pc, last, back, flagFor>>

\* Fault: the CPU stays in use.
ReturnHold ==
  /\ MainStep("release", IF main.st = "READY" THEN "clear" ELSE "loop", main.st)
  /\ UNCHANGED <<pcb, flag, inUse, received, pc, last, back, flagFor>>

\* ... and before the CPU is free for the next one.
ReturnRelease ==
  /\ MainStep("release", IF main.st = "READY" THEN "clear" ELSE "loop", main.st)
  /\ inUse' = inUse + 1 /\ UNCHANGED <<pcb, flag, received, pc, last, back, flagFor>>

\* The flag goes down when return_pcb is back in cycle.
ClearFlag ==
  /\ MainStep("clear", "loop", main.st)
  /\ flag' = FALSE /\ UNCHANGED <<pcb, inUse, received, pc, last, back, flagFor>>
-----------------------------------------------------------------------------
Kernel == (\E p \in Procs : KernelDispatch(p)) \/ KernelSend \/ KernelReceive
Dispatch == DispWait \/ DispSet \/ DispSignal
Interrupt == IntTest \/ IntSet
Main == \/ MainWait \/ MainCheck \/ MainLoop
        \/ CycleOther \/ CycleIo \/ CycleExit \/ CycleInterrupt
        \/ ReturnSend \/ ReturnNull \/ ReturnRelease \/ ClearFlag

Next == Kernel \/ KernelInterrupt \/ Dispatch \/ Interrupt \/ Main

Spec == Init /\ [][Next]_vars

\* The threads of the CPU are never blocked but by a semaphore or a receive,
\* and a kernel that has chosen a process sends it and receives it.
Fairness ==
  /\ WF_vars(KernelSend) /\ WF_vars(KernelReceive)
  /\ WF_vars(Dispatch) /\ WF_vars(Interrupt) /\ WF_vars(Main)

FairSpec == Spec /\ Fairness
-----------------------------------------------------------------------------
(* Properties.                                                             *)

One(b) == IF b THEN 1 ELSE 0

\* The state is well formed, and the main thread has a PCB where it uses one.
TypeOK ==
  /\ pcb \in Procs \union {NoPcb} /\ flag \in BOOLEAN
  /\ inUse \in Nat /\ received \in Nat
  /\ pc \in [Procs -> Nat] /\ (\A p \in Procs : pc[p] <= Len(Program[p]))
  /\ main \in [at : MainPcs, st : Returned]
  /\ disp \in {"wait", "set", "signal"}
  /\ intr \in [at : {"recv", "set"}, for : Nat]
  /\ krn \in [at : {"idle", "dispatch", "recv"}, pcb : Procs \union {NoPcb}]
  /\ last \in [Procs -> Returned]
  /\ wire \in Procs \union {NoPcb} /\ back \in Procs \union {NoPcb}
  /\ ints \in Seq(Nat) /\ budget \in Nat /\ turn \in Nat /\ flagFor \in Nat
  /\ main.at \in {"cycle", "send", "null"} => pcb # NoPcb
  /\ disp = "set" => wire # NoPcb
  /\ krn.at # "idle" => krn.pcb # NoPcb

\* cpu_in_use guards g_cpu.pcb: the CPU is free, or exactly one of the dispatch
\* thread, the PCB in place and the end of return_pcb holds the token.
InUseToken ==
  inUse + One(disp = "set") + One(pcb # NoPcb) + One(main.at = "release") = 1

\* receive_pcb (pcb_controller.c:38) never overwrites a PCB that the main thread
\* still has to give back, although the kernel may send the next one as soon as
\* return_pcb has put the old one in the connection.
NeverOverwritten == disp = "set" => pcb = NoPcb /\ main.at # "null"

\* The process in the CPU that is not given back yet.
InCpu == IF main.at = "null" THEN NoPcb ELSE pcb

\* The process the kernel waits for, and no other, is in exactly one place: on
\* its way to the CPU, in the CPU and not given back, or on its way back.
InOnePlace ==
  IF krn.at = "recv"
  THEN <<wire, InCpu, back>> \in {<<krn.pcb, NoPcb, NoPcb>>, <<NoPcb, krn.pcb, NoPcb>>,
                                 <<NoPcb, NoPcb, krn.pcb>>}
  ELSE wire = NoPcb /\ InCpu = NoPcb /\ back = NoPcb

\* The main thread is never asleep on pcb_received with a PCB in place and
\* nobody about to signal, although it may run a PCB without having waited for it.
NoLostPcb == pcb # NoPcb /\ main.at = "wait" => received > 0 \/ disp = "signal"

\* The I/O instructions that p reaches before its EXIT.
IosLeft(p) == {i \in (pc[p] + 1) .. Len(Program[p]) :
                 Program[p][i] = "IO" /\ \A j \in 1 .. i : Program[p][j] # "EXIT"}

\* The process whose return is decided and not sent has already moved its pc.
IosOwed(p) == One(p = pcb /\ main.at = "send" /\ main.st = "BLOCKED")

\* The flag is up for an INT that has not been paid out by a return yet.
Raised == One(flag /\ ~(main.at \in {"null", "release", "clear"} /\ main.st = "READY"))

\* The CPU as the kernel sees it: where the process is, which one, the INTs
\* that have not had their effect, and the I/O instructions left.
PortPlace == IF krn.at # "recv" THEN "idle" ELSE IF back # NoPcb THEN "back" ELSE "run"
PortHeld == IF krn.at = "recv" THEN krn.pcb ELSE NoPcb
PortInts == Len(ints) + One(intr.at = "set") + Raised
PortBursts == [p \in Procs |-> Cardinality(IosLeft(p)) + IosOwed(p)]

Port == INSTANCE CpuPort WITH place <- PortPlace, held <- PortHeld, ints <- PortInts,
                              status <- last, bursts <- PortBursts

\* The CPU module keeps what CpuPort promises to the kernel: every PCB comes
\* back once, and every pre-emption is paid with an INT that was sent.
ImplementsPort == Port!Spec

\* Every PCB that the kernel sends comes back (cpu.c:208 runs a program until
\* its next I/O, its EXIT or an INT), if its program ends with EXIT.
EveryPcbReturns ==
  \A p \in Procs : "EXIT" \in {Program[p][i] : i \in DOMAIN Program[p]} =>
    (krn.at = "recv" /\ krn.pcb = p ~> krn.at = "idle")

\* request_handler.c:39 ignores an INT when there is no PCB: one that was sent to
\* stop a process never stops the next one.
InterruptsItsTurn == main.at = "send" /\ main.st = "READY" => flagFor = turn

=============================================================================
