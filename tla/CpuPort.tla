------------------------------- MODULE CpuPort -------------------------------
(***************************************************************************)
(* What the kernel may rely on when it hands a process to the CPU module:  *)
(* the CPU gives back the process it was sent, once, for one of three      *)
(* reasons.  BLOCKED is paid with an I/O instruction, TERMINATED means     *)
(* that the I/O instructions before EXIT have all been executed, READY is  *)
(* paid with an INT that the kernel has sent; an INT may be lost.          *)
(*                                                                         *)
(* This is the CPU of KernelScheduler (CpuIo, CpuExit, CpuInterrupted and  *)
(* CpuLosesInt) with the kernel's side reduced to its three calls.         *)
(***************************************************************************)
EXTENDS Integers

CONSTANTS Procs, NoPcb

VARIABLES
  place,   \* "idle", "run", or "back": the process is on its way to the kernel
  held,    \* the process that was sent and not received yet
  ints,    \* the INTs that have not had their effect yet
  status,  \* the status each process was given back with
  bursts   \* the I/O instructions each process still has to execute

portVars == <<place, held, ints, status, bursts>>

Init ==
  /\ place = "idle" /\ held = NoPcb /\ ints = 0
  /\ status = [p \in Procs |-> "READY"]
  /\ bursts \in [Procs -> Nat]

Send(p) ==
  /\ place = "idle" /\ status[p] # "TERMINATED"
  /\ place' = "run" /\ held' = p /\ UNCHANGED <<ints, status, bursts>>

Interrupt == ints' = ints + 1 /\ UNCHANGED <<place, held, status, bursts>>

Receive ==
  /\ place = "back" /\ place' = "idle" /\ held' = NoPcb
  /\ UNCHANGED <<ints, status, bursts>>

GivesBack(s) ==
  /\ place = "run" /\ place' = "back"
  /\ status' = [status EXCEPT ![held] = s] /\ UNCHANGED held

Io ==
  /\ GivesBack("BLOCKED") /\ UNCHANGED ints
  /\ bursts[held] > 0 /\ bursts' = [bursts EXCEPT ![held] = @ - 1]

Exit == GivesBack("TERMINATED") /\ bursts[held] = 0 /\ UNCHANGED <<ints, bursts>>

Interrupted == GivesBack("READY") /\ ints > 0 /\ ints' = ints - 1 /\ UNCHANGED bursts

LosesInt == ints > 0 /\ ints' = ints - 1 /\ UNCHANGED <<place, held, status, bursts>>

Next ==
  \/ \E p \in Procs : Send(p)
  \/ Interrupt \/ Receive \/ Io \/ Exit \/ Interrupted \/ LosesInt

Spec == Init /\ [][Next]_portVars
=============================================================================
