--------------------------- MODULE KernelScheduler ---------------------------
(***************************************************************************)
(* The process scheduler of the kernel module (kernel/src/scheduling).     *)
(*                                                                         *)
(* Five kinds of threads share five PCB queues and four semaphores:        *)
(*   - one dispatcher thread per console puts a new PCB in NEW;            *)
(*   - the long term scheduler (LTS) admits a PCB to READY;                *)
(*   - the short term scheduler (STS) hands the next READY PCB to the CPU  *)
(*     and files it when the CPU gives it back;                            *)
(*   - the I/O scheduler serves one blocked PCB at a time;                 *)
(*   - one tracker thread per I/O block (the medium term scheduler)        *)
(*     suspends the PCB when it has been blocked for too long.             *)
(*                                                                         *)
(* One action is one access to shared state: a queue operation (each takes *)
(* and drops the queue's mutex), a semaphore operation, a message, or an   *)
(* access to current_io, current_estimation or a PCB's status.             *)
(*                                                                         *)
(* A PCB is identified with its process.  The kernel frees its PCB when    *)
(* the CPU gets a copy (obj = "cpu") and builds a new one from the CPU's   *)
(* answer, in the chunk that STS has just freed.  Pointers kept by         *)
(* trackers and queues dangle in between: using one is undefined           *)
(* behaviour, which raises ub and ends the behaviour, so the properties    *)
(* speak of executions up to the first such use.                           *)
(***************************************************************************)
EXTENDS Integers, FiniteSets, SequencesExt

CONSTANTS
  Procs,       \* the processes the consoles submit
  NoPcb,       \* NULL, and the idle value UINT32_MAX of current_io
  Degree,      \* GRADO_MULTIPROGRAMACION
  SRT,         \* ALGORITMO_PLANIFICACION is not "FIFO"
  InitEst,     \* ESTIMACION_INICIAL
  RealTimes,   \* the CPU times that may be measured
  AlphaNum,    \* ALFA is the fraction AlphaNum / AlphaDen
  AlphaDen,
  MaxIO,       \* bound: I/O instructions of each process
  Suspension,  \* TIEMPO_MAXIMO_BLOQUEADO can expire
  ColdStart,   \* processes may arrive before the connections are made
  StaleId      \* a tracker may find some id in the memory of a destroyed PCB

ASSUME ConstantsAssumption ==
  /\ IsFiniteSet(Procs)
  /\ NoPcb \notin Procs
  /\ Degree \in Nat \ {0}
  /\ SRT \in BOOLEAN
  /\ InitEst \in Nat
  /\ RealTimes \subseteq Nat
  /\ AlphaDen \in Nat \ {0}
  /\ AlphaNum \in 0 .. AlphaDen
  /\ MaxIO \in Nat
  /\ Suspension \in BOOLEAN
  /\ ColdStart \in BOOLEAN
  /\ StaleId \in BOOLEAN

VARIABLES
  q,                     \* the five queues of scheduler_t
  sem,                   \* its four semaphores
  currentIo, currentEst, \* its fields current_io and current_estimation
  status, est,           \* fields of each PCB
  obj,                   \* where the PCB of each process lives
  bursts,                \* I/O instructions it still has to execute
  con,                   \* dispatcher thread of each console
  lts, sts, io,          \* the scheduler threads: place and PCB in hand
  trk,                   \* the tracker of each I/O block of each process
  cpu,                   \* the CPU as the kernel sees it, and the INTs sent to it
  mem,                   \* what memory was told last about each process
  up,                    \* the connections of the kernel that are made
  ub                     \* a destroyed PCB has been used

vars == <<q, sem, currentIo, currentEst, status, est, obj, bursts, con, lts, sts,
          io, trk, cpu, mem, up, ub>>

Blocks == 1 .. MaxIO
Connections == {"dispatch", "interrupt", "memory"}
Queues == {"new", "ready", "ready_sus", "blocked", "blocked_sus"}
Sems   == {"dom", "req_admit", "io_request", "execute"}
Status == {"NONE", "READY", "EXECUTING", "BLOCKED", "TERMINATED",
           "SUSPENDED_BLOCKED", "SUSPENDED_READY"}
LtsPcs == {"wait_req", "wait_dom", "resume", "new", "admit", "push", "signal"}
StsPcs == {"wait", "sort", "pop", "dispatch", "send", "recv", "switch", "block",
           "notify", "request", "preempt", "free", "slot", "slot_fail", "signal"}
IoPcs  == {"wait", "sus", "blk", "current", "burst", "ready", "interrupt",
           "signal", "sus_find", "sus_push", "sus_signal", "reset"}
TrkPcs == {"off", "start", "sleep", "current", "remove", "slot", "mark", "push",
           "swap", "done"}
-----------------------------------------------------------------------------
\* safe_queue_push
Push(name, p) == q' = [q EXCEPT ![name] = Append(@, p)]

\* safe_queue_pop of a queue that is not empty
Pop(name) == q' = [q EXCEPT ![name] = Tail(@)]

\* The members of a queue.
Elems(name) == {q[name][i] : i \in 1 .. Len(q[name])}

\* pcb_remove_by_id takes out the first PCB with the id, if there is one.
RemoveById(name, p) ==
  \/ p \notin Elems(name) /\ UNCHANGED q
  \/ \E i \in 1 .. Len(q[name]) :
       /\ q[name][i] = p /\ \A j \in 1 .. i - 1 : q[name][j] # p
       /\ q' = [q EXCEPT ![name] = RemoveAt(@, i)]

Wait(s) == sem[s] > 0 /\ sem' = [sem EXCEPT ![s] = @ - 1]

Signal(s) == sem' = [sem EXCEPT ![s] = @ + 1]

\* The step dereferences the PCBs in S.
Uses(S) == ub' = (\E p \in S : obj[p] # "heap")

SetStatus(p, s) == status' = [status EXCEPT ![p] = s]

\* A message about p to the memory module, dropped when there is no connection.
TellMemory(p, what) == mem' = IF "memory" \in up THEN [mem EXCEPT ![p] = what] ELSE mem

\* The weighted average of re_schedule; both products are truncated.
ReSchedule(real, e) ==
  ((real * AlphaNum) \div AlphaDen) + (((AlphaDen - AlphaNum) * e) \div AlphaDen)

\* Fault: pre_empt without its guard.
RemainingUnguarded(real, e) == e - real

\* The estimation pre_empt leaves to a process taken off the CPU.
Remaining(real, e) == IF real < e THEN e - real ELSE real - e

\* The orders list_sort may leave READY in.
SortedByEstimation ==
  LET n == Len(q["ready"])
      perms == {f \in [1 .. n -> 1 .. n] : \A i, j \in 1 .. n : i # j => f[i] # f[j]}
  IN  {s \in {[i \in 1 .. n |-> q["ready"][f[i]]] : f \in perms} :
         \A i, j \in 1 .. n : i < j => est[s[i]] <= est[s[j]]}

ShouldInterrupt(p) == currentEst > est[p]

\* check_interruption: under SRT a PCB shorter than the running one sends INT,
\* if the CPU is connected.  The estimation is only read, and only for this
\* comparison: in a PCB that is already destroyed it reads as anything, so both
\* outcomes are followed instead of ending the behaviour.
CheckInterruption(p) ==
  \/ /\ SRT /\ "interrupt" \in up /\ (obj[p] = "heap" => ShouldInterrupt(p))
     /\ cpu' = [cpu EXCEPT !.ints = @ + 1]
  \/ /\ SRT /\ "interrupt" \in up => (obj[p] = "heap" => ~ShouldInterrupt(p))
     /\ UNCHANGED cpu
-----------------------------------------------------------------------------
Init ==
  /\ q = [n \in Queues |-> <<>>]
  /\ sem = [s \in Sems |-> IF s = "dom" THEN Degree ELSE 0]
  /\ currentIo = NoPcb /\ currentEst = 0
  /\ status = [p \in Procs |-> "NONE"]
  /\ est = [p \in Procs |-> InitEst]
  /\ obj = [p \in Procs |-> "none"]
  /\ bursts \in [Procs -> 0 .. MaxIO]
  /\ con = [p \in Procs |-> "idle"]
  /\ lts = [pc |-> "wait_req", pcb |-> NoPcb]
  /\ sts = [pc |-> "wait", pcb |-> NoPcb]
  /\ io  = [pc |-> "wait", pcb |-> NoPcb]
  /\ trk = [p \in Procs |-> [k \in Blocks |-> "off"]]
  /\ cpu = [pc |-> "idle", ints |-> 0]
  /\ mem = [p \in Procs |-> "none"]
  /\ up = IF ColdStart THEN {} ELSE Connections
  /\ ub = FALSE
-----------------------------------------------------------------------------
(* A thread of its own retries each connection until it is made.           *)

Connect(m) ==
  /\ ~ub /\ m \notin up /\ up' = up \union {m}
  /\ UNCHANGED <<q, sem, currentIo, currentEst, status, est, obj, bursts, con, lts, sts, io, trk, cpu, mem, ub>>
-----------------------------------------------------------------------------
(* Dispatcher thread of the console of p.                                  *)

DispatchStep(p, from, to) ==
  /\ ~ub /\ con[p] = from /\ con' = [con EXCEPT ![p] = to]
  /\ UNCHANGED <<currentIo, currentEst, status, est, bursts, lts, sts, io, trk, cpu, mem, up>>

\* NEW_PROCESS: a PCB is made and added to g_kernel.pcbs.
DispatchNew(p) ==
  /\ DispatchStep(p, "idle", "created")
  /\ obj' = [obj EXCEPT ![p] = "heap"] /\ UNCHANGED <<q, sem, ub>>

\* The instructions have arrived: get_pcb_by_pid takes the PCB out of that list
\* (Sessions models how), and it goes to NEW.
DispatchPush(p) ==
  /\ DispatchStep(p, "created", "pushed")
  /\ Push("new", p) /\ UNCHANGED <<sem, obj, ub>>

DispatchSignal(p) ==
  /\ DispatchStep(p, "pushed", "done")
  /\ Signal("req_admit") /\ UNCHANGED <<q, obj, ub>>
-----------------------------------------------------------------------------
(* Long term scheduler.                                                    *)

LtsStep(from, to, p) ==
  /\ ~ub /\ lts.pc = from /\ lts' = [pc |-> to, pcb |-> p]
  /\ UNCHANGED <<currentIo, currentEst, est, obj, bursts, con, sts, io, trk, up>>

LtsWaitRequest ==
  /\ LtsStep("wait_req", "wait_dom", NoPcb)
  /\ Wait("req_admit") /\ UNCHANGED <<q, status, cpu, mem, ub>>

\* Fault: admitting without taking a slot.
LtsIgnoreSlot ==
  /\ LtsStep("wait_dom", "resume", NoPcb)
  /\ sem["dom"] > 0 /\ UNCHANGED <<q, sem, status, cpu, mem, ub>>

LtsWaitSlot ==
  /\ LtsStep("wait_dom", "resume", NoPcb)
  /\ Wait("dom") /\ UNCHANGED <<q, status, cpu, mem, ub>>

\* resume: a suspended process that is ready goes before any new one.
LtsResume ==
  /\ IF q["ready_sus"] = <<>>
     THEN LtsStep("resume", "new", NoPcb) /\ UNCHANGED q
     ELSE LtsStep("resume", "admit", Head(q["ready_sus"])) /\ Pop("ready_sus")
  /\ UNCHANGED <<sem, status, cpu, mem, ub>>

\* Fault: memory is not asked for a page table.
LtsPopUntold ==
  /\ LtsStep("new", "admit", Head(q["new"])) /\ Pop("new")
  /\ UNCHANGED <<sem, status, cpu, mem, ub>>

\* Pops NEW and asks memory for a page table.  With nothing in NEW the PCB is
\* NULL: it is dereferenced when memory is connected, and skipped otherwise.
LtsPopNew ==
  /\ IF q["new"] = <<>>
     THEN LtsStep("new", "signal", NoPcb) /\ ub' = ("memory" \in up) /\ UNCHANGED <<q, mem>>
     ELSE /\ LtsStep("new", "admit", Head(q["new"])) /\ Pop("new")
          /\ TellMemory(Head(q["new"]), "init") /\ UNCHANGED ub
  /\ UNCHANGED <<sem, status, cpu>>

LtsAdmit ==
  /\ LtsStep("admit", "push", lts.pcb)
  /\ SetStatus(lts.pcb, "READY") /\ CheckInterruption(lts.pcb) /\ Uses({lts.pcb})
  /\ UNCHANGED <<q, sem, mem>>

LtsPush ==
  /\ LtsStep("push", "signal", lts.pcb)
  /\ Push("ready", lts.pcb) /\ UNCHANGED <<sem, status, cpu, mem, ub>>

LtsSignal ==
  /\ LtsStep("signal", "wait_req", NoPcb)
  /\ Signal("execute") /\ UNCHANGED <<q, status, cpu, mem, ub>>
-----------------------------------------------------------------------------
(* Short term scheduler.                                                   *)

StsStep(from, to, p) ==
  /\ ~ub /\ sts.pc = from /\ sts' = [pc |-> to, pcb |-> p]
  /\ UNCHANGED <<currentIo, bursts, con, lts, io, up>>

\* new_scheduler: the scheduler that interrupts (SRT) got get_next_fifo, and
\* the one that does not (FIFO) get_next_srt, which sorts before it pops.
StsWait ==
  /\ StsStep("wait", IF SRT THEN "pop" ELSE "sort", NoPcb)
  /\ Wait("execute") /\ UNCHANGED <<q, currentEst, status, est, obj, trk, cpu, mem, ub>>

StsSort ==
  /\ StsStep("sort", "pop", NoPcb)
  /\ \E s \in SortedByEstimation : q' = [q EXCEPT !["ready"] = s]
  /\ Uses(Elems("ready")) /\ UNCHANGED <<sem, currentEst, status, est, obj, trk, cpu, mem>>

\* Fault: safe_queue_peek in place of safe_queue_pop.
StsPeek ==
  /\ IF q["ready"] = <<>>
     THEN StsStep("pop", "wait", NoPcb)
     ELSE StsStep("pop", "dispatch", Head(q["ready"]))
  /\ UNCHANGED <<q, sem, currentEst, status, est, obj, trk, cpu, mem, ub>>

StsPop ==
  /\ IF q["ready"] = <<>>
     THEN StsStep("pop", "wait", NoPcb) /\ UNCHANGED q
     ELSE StsStep("pop", "dispatch", Head(q["ready"])) /\ Pop("ready")
  /\ UNCHANGED <<sem, currentEst, status, est, obj, trk, cpu, mem, ub>>

StsDispatch ==
  /\ StsStep("dispatch", "send", sts.pcb)
  /\ SetStatus(sts.pcb, "EXECUTING") /\ currentEst' = est[sts.pcb] /\ Uses({sts.pcb})
  /\ UNCHANGED <<q, sem, est, obj, trk, cpu, mem>>

\* The PCB goes to the CPU and the kernel's copy is destroyed; without a
\* connection the process is terminated.
StsSend ==
  /\ IF "dispatch" \in up
     THEN /\ StsStep("send", "recv", sts.pcb)
          /\ obj' = [obj EXCEPT ![sts.pcb] = "cpu"]
          /\ cpu' = [cpu EXCEPT !.pc = "run"] /\ UNCHANGED mem
     ELSE /\ StsStep("send", "slot_fail", sts.pcb)
          /\ obj' = [obj EXCEPT ![sts.pcb] = "freed"]
          /\ TellMemory(sts.pcb, "freed") /\ UNCHANGED cpu
  /\ Uses({sts.pcb}) /\ UNCHANGED <<q, sem, currentEst, status, est, trk>>

StsReceive ==
  /\ StsStep("recv", "switch", sts.pcb)
  /\ cpu.pc = "back" /\ cpu' = [cpu EXCEPT !.pc = "idle"]
  /\ obj' = [obj EXCEPT ![sts.pcb] = "heap"]
  /\ currentEst' = 0 /\ UNCHANGED <<q, sem, status, est, trk, mem, ub>>

\* Any other status is "corrupted" and ends the process too.
StsSwitch ==
  /\ StsStep("switch", CASE status[sts.pcb] = "BLOCKED" -> "block"
                         [] status[sts.pcb] = "READY"   -> "preempt"
                         [] OTHER                       -> "free", sts.pcb)
  /\ UNCHANGED <<q, sem, currentEst, status, est, obj, trk, cpu, mem, ub>>

StsBlock ==
  /\ StsStep("block", "notify", sts.pcb)
  /\ \E real \in RealTimes : est' = [est EXCEPT ![sts.pcb] = ReSchedule(real, @)]
  /\ Push("blocked", sts.pcb) /\ UNCHANGED <<sem, currentEst, status, obj, trk, cpu, mem, ub>>

\* notify_mts starts the tracker of this block, the first one not used yet.
StsNotify ==
  /\ StsStep("notify", "request", sts.pcb)
  /\ \E k \in Blocks :
       /\ trk[sts.pcb][k] = "off" /\ \A j \in 1 .. k - 1 : trk[sts.pcb][j] # "off"
       /\ trk' = [trk EXCEPT ![sts.pcb][k] = "start"]
  /\ UNCHANGED <<q, sem, currentEst, status, est, obj, cpu, mem, ub>>

StsRequestIo ==
  /\ StsStep("request", "signal", sts.pcb)
  /\ Signal("io_request") /\ UNCHANGED <<q, currentEst, status, est, obj, trk, cpu, mem, ub>>

StsPreempt ==
  /\ StsStep("preempt", "signal", sts.pcb)
  /\ \E real \in RealTimes : est' = [est EXCEPT ![sts.pcb] = Remaining(real, @)]
  /\ Push("ready", sts.pcb) /\ UNCHANGED <<sem, currentEst, status, obj, trk, cpu, mem, ub>>

StsFree ==
  /\ StsStep("free", "slot", sts.pcb)
  /\ TellMemory(sts.pcb, "freed") /\ obj' = [obj EXCEPT ![sts.pcb] = "freed"]
  /\ UNCHANGED <<q, sem, currentEst, status, est, trk, cpu, ub>>

\* Fault: terminate forgets the slot.
StsKeepSlot ==
  /\ StsStep("slot", "signal", NoPcb) \/ StsStep("slot_fail", "wait", NoPcb)
  /\ UNCHANGED <<q, sem, currentEst, status, est, obj, trk, cpu, mem, ub>>

\* terminate gives the slot back; after a failed send execute returns at once.
StsReleaseSlot ==
  /\ StsStep("slot", "signal", NoPcb) \/ StsStep("slot_fail", "wait", NoPcb)
  /\ Signal("dom") /\ UNCHANGED <<q, currentEst, status, est, obj, trk, cpu, mem, ub>>

\* Fault: execute signals the wrong semaphore.
StsSignalIo ==
  /\ StsStep("signal", "wait", NoPcb)
  /\ Signal("io_request") /\ UNCHANGED <<q, currentEst, status, est, obj, trk, cpu, mem, ub>>

StsSignal ==
  /\ StsStep("signal", "wait", NoPcb)
  /\ Signal("execute") /\ UNCHANGED <<q, currentEst, status, est, obj, trk, cpu, mem, ub>>
-----------------------------------------------------------------------------
(* The CPU module as the kernel sees it.  It gives the PCB back once, for  *)
(* an I/O instruction, for EXIT, or because of one of the INT messages     *)
(* sent so far; an INT may also find no PCB, or be forgotten.              *)

CpuGivesBack(s, n) ==
  /\ ~ub /\ cpu.pc = "run" /\ cpu' = [pc |-> "back", ints |-> n]
  /\ SetStatus(sts.pcb, s)
  /\ UNCHANGED <<q, sem, currentIo, currentEst, est, obj, con, lts, sts, io, trk, mem, up, ub>>

CpuIo ==
  /\ CpuGivesBack("BLOCKED", cpu.ints)
  /\ bursts[sts.pcb] > 0 /\ bursts' = [bursts EXCEPT ![sts.pcb] = @ - 1]

CpuExit ==
  /\ CpuGivesBack("TERMINATED", cpu.ints)
  /\ bursts[sts.pcb] = 0 /\ UNCHANGED bursts

CpuInterrupted ==
  /\ cpu.ints > 0
  /\ CpuGivesBack("READY", cpu.ints - 1) /\ UNCHANGED bursts

CpuLosesInt ==
  /\ ~ub /\ cpu.ints > 0 /\ cpu' = [cpu EXCEPT !.ints = @ - 1]
  /\ UNCHANGED <<q, sem, currentIo, currentEst, status, est, obj, bursts, con, lts, sts, io, trk, mem, up, ub>>
-----------------------------------------------------------------------------
(* I/O scheduler.                                                          *)

IoStep(from, to, p) ==
  /\ ~ub /\ io.pc = from /\ io' = [pc |-> to, pcb |-> p]
  /\ UNCHANGED <<currentEst, est, obj, bursts, con, lts, sts, trk, mem, up>>

IoWait ==
  /\ IoStep("wait", "sus", NoPcb)
  /\ Wait("io_request") /\ UNCHANGED <<q, currentIo, status, cpu, ub>>

\* retrieve_pcb looks at SUSPENDED BLOCKED first ...
IoPopSuspended ==
  /\ IF q["blocked_sus"] = <<>>
     THEN IoStep("sus", "blk", NoPcb) /\ UNCHANGED q
     ELSE IoStep("sus", "current", Head(q["blocked_sus"])) /\ Pop("blocked_sus")
  /\ UNCHANGED <<sem, currentIo, status, cpu, ub>>

\* Fault: the PCB served stays in BLOCKED.
IoPeekBlocked ==
  /\ IF q["blocked"] = <<>>
     THEN IoStep("blk", "reset", NoPcb)
     ELSE IoStep("blk", "current", Head(q["blocked"]))
  /\ UNCHANGED <<q, sem, currentIo, status, cpu, ub>>

\* ... and then at BLOCKED: a separate access, under another mutex.
IoPopBlocked ==
  /\ IF q["blocked"] = <<>>
     THEN IoStep("blk", "reset", NoPcb) /\ UNCHANGED q
     ELSE IoStep("blk", "current", Head(q["blocked"])) /\ Pop("blocked")
  /\ UNCHANGED <<sem, currentIo, status, cpu, ub>>

IoCurrent ==
  /\ IoStep("current", "burst", io.pcb)
  /\ currentIo' = io.pcb /\ Uses({io.pcb}) /\ UNCHANGED <<q, sem, status, cpu>>

\* The burst ends and the status decides which event has occurred.
IoBurst ==
  /\ IoStep("burst", IF status[io.pcb] = "SUSPENDED_BLOCKED" THEN "sus_find" ELSE "ready", io.pcb)
  /\ Uses({io.pcb}) /\ UNCHANGED <<q, sem, currentIo, status, cpu>>

\* event: the PCB is in READY before its estimation is compared.
IoReady ==
  /\ IoStep("ready", "interrupt", io.pcb)
  /\ SetStatus(io.pcb, "READY") /\ Push("ready", io.pcb) /\ Uses({io.pcb})
  /\ UNCHANGED <<sem, currentIo, cpu>>

IoInterrupt ==
  /\ IoStep("interrupt", "signal", io.pcb)
  /\ CheckInterruption(io.pcb) /\ UNCHANGED <<q, sem, currentIo, status, ub>>

\* Fault: event does not wake STS up.
IoNoSignal ==
  /\ IoStep("signal", "reset", io.pcb)
  /\ UNCHANGED <<q, sem, currentIo, status, cpu, ub>>

IoSignal ==
  /\ IoStep("signal", "reset", io.pcb)
  /\ Signal("execute") /\ UNCHANGED <<q, currentIo, status, cpu, ub>>

\* suspended_event: the tracker may have queued the PCB during the burst.
IoFindSuspended ==
  /\ IoStep("sus_find", "sus_push", io.pcb)
  /\ RemoveById("blocked_sus", io.pcb) /\ Uses(Elems("blocked_sus") \union {io.pcb})
  /\ UNCHANGED <<sem, currentIo, status, cpu>>

IoPushSuspended ==
  /\ IoStep("sus_push", "sus_signal", io.pcb)
  /\ SetStatus(io.pcb, "SUSPENDED_READY") /\ Push("ready_sus", io.pcb) /\ Uses({io.pcb})
  /\ UNCHANGED <<sem, currentIo, cpu>>

\* Fault: suspended_event wakes STS instead of LTS.
IoSignalWrong ==
  /\ IoStep("sus_signal", "reset", io.pcb)
  /\ Signal("execute") /\ UNCHANGED <<q, currentIo, status, cpu, ub>>

IoSignalSuspended ==
  /\ IoStep("sus_signal", "reset", io.pcb)
  /\ Signal("req_admit") /\ UNCHANGED <<q, currentIo, status, cpu, ub>>

IoReset ==
  /\ IoStep("reset", "wait", NoPcb)
  /\ currentIo' = NoPcb /\ UNCHANGED <<q, sem, status, cpu, ub>>
-----------------------------------------------------------------------------
(* Medium term scheduler: the tracker of block k of process p.             *)

TrkStep(p, k, from, to) ==
  /\ ~ub /\ trk[p][k] = from /\ trk' = [trk EXCEPT ![p][k] = to]
  /\ UNCHANGED <<currentIo, currentEst, est, obj, bursts, con, lts, sts, io, cpu, up>>

\* The thread reads the id of its PCB before it sleeps.  In a PCB that is
\* destroyed by then it reads no process' id, or another one's.
TrackStart(p, k) ==
  /\ Suspension
  /\ TrkStep(p, k, "start", IF obj[p] = "heap" THEN "sleep" ELSE "done")
  /\ \/ ub' = FALSE
     \/ StaleId /\ obj[p] # "heap" /\ ub' = TRUE
  /\ UNCHANGED <<q, sem, status, mem>>

\* The time is over: is the process in BLOCKED ...
TrackTime(p, k) ==
  /\ Suspension
  /\ TrkStep(p, k, "sleep", IF p \in Elems("blocked") THEN "remove" ELSE "current")
  /\ Uses(Elems("blocked")) /\ UNCHANGED <<q, sem, status, mem>>

\* ... or is it the one doing I/O?
TrackCurrentIo(p, k) ==
  /\ TrkStep(p, k, "current", IF currentIo = p THEN "remove" ELSE "done")
  /\ UNCHANGED <<q, sem, status, mem, ub>>

\* The PCB suspended is the tracker's own when BLOCKED no longer has it.
TrackRemove(p, k) ==
  /\ TrkStep(p, k, "remove", "slot")
  /\ RemoveById("blocked", p) /\ Uses(Elems("blocked")) /\ UNCHANGED <<sem, status, mem>>

\* Fault: suspend asks for an admission instead of giving the slot back.
SuspendRequestAdmit(p, k) ==
  /\ TrkStep(p, k, "slot", "mark")
  /\ Signal("req_admit") /\ Uses({p}) /\ UNCHANGED <<q, status, mem>>

SuspendReleaseSlot(p, k) ==
  /\ TrkStep(p, k, "slot", "mark")
  /\ Signal("dom") /\ Uses({p}) /\ UNCHANGED <<q, status, mem>>

SuspendMark(p, k) ==
  /\ TrkStep(p, k, "mark", "push")
  /\ SetStatus(p, "SUSPENDED_BLOCKED") /\ Uses({p}) /\ UNCHANGED <<q, sem, mem>>

SuspendPush(p, k) ==
  /\ TrkStep(p, k, "push", "swap")
  /\ Push("blocked_sus", p) /\ UNCHANGED <<sem, status, mem, ub>>

SuspendSwap(p, k) ==
  /\ TrkStep(p, k, "swap", "done")
  /\ TellMemory(p, "swapped") /\ Uses({p}) /\ UNCHANGED <<q, sem, status>>
-----------------------------------------------------------------------------
Dispatcher(p) == DispatchNew(p) \/ DispatchPush(p) \/ DispatchSignal(p)

Lts == \/ LtsWaitRequest \/ LtsWaitSlot \/ LtsResume \/ LtsPopNew \/ LtsAdmit
       \/ LtsPush \/ LtsSignal

Sts == \/ StsWait \/ StsSort \/ StsPop \/ StsDispatch \/ StsSend \/ StsReceive
       \/ StsSwitch \/ StsBlock \/ StsNotify \/ StsRequestIo \/ StsPreempt
       \/ StsFree \/ StsReleaseSlot \/ StsSignal

Cpu == CpuIo \/ CpuExit \/ CpuInterrupted

Io == \/ IoWait \/ IoPopSuspended \/ IoPopBlocked \/ IoCurrent \/ IoBurst \/ IoReady
      \/ IoInterrupt \/ IoSignal \/ IoFindSuspended \/ IoPushSuspended
      \/ IoSignalSuspended \/ IoReset

Tracker(p, k) ==
  \/ TrackStart(p, k) \/ TrackTime(p, k) \/ TrackCurrentIo(p, k) \/ TrackRemove(p, k)
  \/ SuspendReleaseSlot(p, k) \/ SuspendMark(p, k) \/ SuspendPush(p, k) \/ SuspendSwap(p, k)

Next ==
  \/ \E m \in Connections : Connect(m)
  \/ \E p \in Procs : Dispatcher(p)
  \/ Lts \/ Sts \/ Cpu \/ CpuLosesInt \/ Io
  \/ \E p \in Procs, k \in Blocks : Tracker(p, k)

Spec == Init /\ [][Next]_vars

\* Every thread of the kernel, and the CPU, keeps running; consoles submit
\* their processes and the connection threads retry until they succeed.
Fairness ==
  /\ \A m \in Connections : WF_vars(Connect(m))
  /\ \A p \in Procs : WF_vars(Dispatcher(p))
  /\ WF_vars(Lts) /\ WF_vars(Sts) /\ WF_vars(Cpu) /\ WF_vars(Io)

FairSpec == Spec /\ Fairness
-----------------------------------------------------------------------------
(* Properties.                                                             *)

\* The state is well formed, and no thread is left working on a NULL PCB.
TypeOK ==
  /\ q \in [Queues -> Seq(Procs)]
  /\ sem \in [Sems -> Nat]
  /\ currentIo \in Procs \union {NoPcb} /\ currentEst \in Nat
  /\ status \in [Procs -> Status]
  /\ est \in [Procs -> Nat]
  /\ obj \in [Procs -> {"none", "heap", "cpu", "freed"}]
  /\ bursts \in [Procs -> 0 .. MaxIO]
  /\ con \in [Procs -> {"idle", "created", "pushed", "done"}]
  /\ lts \in [pc : LtsPcs, pcb : Procs \union {NoPcb}]
  /\ sts \in [pc : StsPcs, pcb : Procs \union {NoPcb}]
  /\ io \in [pc : IoPcs, pcb : Procs \union {NoPcb}]
  /\ trk \in [Procs -> [Blocks -> TrkPcs]]
  /\ cpu \in [pc : {"idle", "run", "back"}, ints : Nat]
  /\ mem \in [Procs -> {"none", "init", "swapped", "freed"}]
  /\ up \subseteq Connections
  /\ ub \in BOOLEAN
  /\ lts.pc \in {"admit", "push"} => lts.pcb # NoPcb
  /\ sts.pc \notin {"wait", "sort", "pop", "signal"} => sts.pcb # NoPcb
  /\ io.pc \notin {"wait", "sus", "blk", "reset"} => io.pcb # NoPcb
  /\ cpu.pc # "idle" => sts.pc = "recv"

One(b) == IF b THEN 1 ELSE 0

\* The request LTS has taken and not served, and the one suspended_event owes.
TakenByLts == One(lts.pc \in {"wait_dom", "resume", "new"})
OwedByIo == One(io.pc = "sus_signal")

\* The dispatchers that have filed their PCB and not yet signalled it.
Announcing == {p \in Procs : con[p] = "pushed"}

\* req_admit counts: whatever the interleaving, the PCBs that wait for LTS in
\* NEW and SUSPENDED READY are as many as the requests that are pending, about
\* to be signalled, or taken by LTS and not yet served.
AdmitTokens ==
  Len(q["new"]) + Len(q["ready_sus"]) =
    sem["req_admit"] + TakenByLts + Cardinality(Announcing) + OwedByIo

\* admit (lts.c:87-95) pops NEW and dereferences the PCB without looking: when
\* it gets there NEW is never empty, even if a process was suspended or became
\* ready-suspended after resume found SUSPENDED READY empty.
AdmitFindsProcess == lts.pc = "new" => q["new"] # <<>>

\* The thread is about to signal execute, or to pop READY.
PendingLts == One(lts.pc = "signal")
PendingIo == One(io.pc \in {"interrupt", "signal"})
PendingSts == One(sts.pc \in {"sort", "pop", "signal"})

\* No PCB is left in READY with STS asleep: each one is covered by a token of
\* execute, or by a thread that is about to signal one or to pop READY.
NoLostWakeup == Len(q["ready"]) <= sem["execute"] + PendingLts + PendingIo + PendingSts

\* The processes that take up a slot of the multiprogramming degree: admitted,
\* not destroyed, and not being suspended.
Running == {p \in Procs : /\ obj[p] \in {"heap", "cpu"}
                          /\ status[p] \in {"READY", "EXECUTING", "BLOCKED", "TERMINATED"}
                          /\ \A k \in Blocks : trk[p][k] # "mark"}

\* kernel.h: multiprogramming_grade is "the MAX number of process that will be
\* running at the same time".
DegreeRespected == Cardinality(Running) <= Degree

\* Without suspension no slot is lost or given twice: the free slots, the
\* running processes and the slots in a thread's hands add up to the degree.
SlotsConserved ==
  sem["dom"] + Cardinality(Running) + One(lts.pc \in {"resume", "new", "admit"})
             + One(sts.pc \in {"slot", "slot_fail"}) = Degree

\* retrieve_pcb (io_scheduler.c:109): a request that was signalled always finds
\* a blocked PCB; the alternative "should never happen".
IoFindsPcb == io.pc = "reset" => io.pcb # NoPcb

\* The PCBs in the queues, the ones in the hands of LTS, STS and the I/O
\* scheduler where they are used, and the one event (sts.c:148) compares after
\* it has given it away to READY.
Queued == UNION {Elems(n) : n \in Queues}
InHand ==
  {p \in Procs :
     \/ p = lts.pcb /\ lts.pc \in {"admit", "push"}
     \/ p = sts.pcb /\ sts.pc \in {"dispatch", "send", "switch", "block", "preempt", "free"}
     \/ p = io.pcb /\ io.pc \in {"current", "burst", "ready", "sus_find", "sus_push"}}
Compared == {p \in Procs : SRT /\ p = io.pcb /\ io.pc = "interrupt"}

\* Without suspension the only destroyed PCB that a scheduler can meet is the
\* one event compares when STS has already taken it from READY and sent it: no
\* pointer to it is in a queue or in another hand, and whatever its estimation
\* reads as, no other use of a destroyed PCB follows from it.
LivePcbs ==
  /\ ~ub
  /\ \A p \in Queued \union InHand \union Compared :
       obj[p] = "heap" \/ p \in Compared \ (Queued \union InHand)

\* What check_interruption logs as the new PCB's estimation (scheduler.c:111) is
\* that of the PCB it is called for.
ComparesLivePcb == \A p \in Compared : obj[p] = "heap"

\* A process only executes with a page table: memory, connected all along, has
\* been told of it before and has not been told that it ended.
MemoryKnowsRunning == cpu.pc = "run" => mem[sts.pcb] \in {"init", "swapped"}

\* The queues a process is in and the threads that have it in hand.
Homes(p) ==
  {h \in Queues \X (1 .. Cardinality(Procs)) : h[2] <= Len(q[h[1]]) /\ q[h[1]][h[2]] = p} \union
  {h \in {"lts", "sts", "io"} \X {0} :
     \/ h[1] = "lts" /\ lts.pcb = p /\ lts.pc # "signal"
     \/ h[1] = "sts" /\ sts.pcb = p /\ sts.pc \notin {"notify", "request", "signal"}
     \/ h[1] = "io" /\ io.pcb = p /\ io.pc \in {"current", "burst", "ready", "sus_find", "sus_push"}}

\* Without suspension a PCB is never in two places: no thread works on a PCB
\* that another thread, or a queue, still has.
OneHome == \A p \in Procs : Cardinality(Homes(p)) <= 1

\* Every process that a console submits eventually leaves the system.
EveryProcessEnds == \A p \in Procs : <>(obj[p] = "freed")
=============================================================================
