------------------------ MODULE KernelScheduler_proofs ------------------------
(***************************************************************************)
(* Proofs about KernelScheduler, for every set of processes, every degree  *)
(* of multiprogramming and every number of I/O blocks: types, semaphores,  *)
(* wakeups, and then where the PCB of each process is.                     *)
(***************************************************************************)
EXTENDS KernelScheduler, FiniteSetTheorems, SequenceTheorems, TLAPS

\* Queue operations of safe_queue keep a queue a sequence of processes, and
\* change its length by the element they take or leave.
LEMMA PushQueue ==
  ASSUME NEW s \in Seq(Procs), NEW p \in Procs
  PROVE  Append(s, p) \in Seq(Procs) /\ Len(Append(s, p)) = Len(s) + 1
OBVIOUS

\* safe_queue_pop of a queue that is not empty takes its head.
LEMMA PopQueue ==
  ASSUME NEW s \in Seq(Procs), s # <<>>
  PROVE  /\ Head(s) \in Procs /\ Tail(s) \in Seq(Procs)
         /\ Len(Tail(s)) = Len(s) - 1 /\ Len(s) \in Nat /\ Len(s) > 0
OBVIOUS

\* safe_queue_remove_by takes out one element.
LEMMA RemoveFromQueue ==
  ASSUME NEW s \in Seq(Procs), NEW i \in 1 .. Len(s)
  PROVE  RemoveAt(s, i) \in Seq(Procs) /\ Len(RemoveAt(s, i)) = Len(s) - 1
<1> DEFINE a == SubSeq(s, 1, i - 1)
           b == SubSeq(s, i + 1, Len(s))
<1>1. a \in Seq(Procs) /\ Len(a) = i - 1
  BY SubSeqProperties
<1>2. b \in Seq(Procs) /\ Len(b) = Len(s) - i
  BY SubSeqProperties
<1>3. RemoveAt(s, i) = a \o b
  BY DEF RemoveAt
<1> HIDE DEF a, b
<1>4. a \o b \in Seq(Procs) /\ Len(a \o b) = Len(a) + Len(b)
  BY <1>1, <1>2, ConcatProperties
<1>5. QED
  BY <1>1, <1>2, <1>3, <1>4

\* get_next_srt permutes READY.
LEMMA SortQueue ==
  ASSUME q["ready"] \in Seq(Procs), NEW s \in SortedByEstimation
  PROVE  s \in Seq(Procs) /\ Len(s) = Len(q["ready"])
<1> DEFINE n == Len(q["ready"])
<1>1. PICK f \in [1 .. n -> 1 .. n] : s = [i \in 1 .. n |-> q["ready"][f[i]]]
  BY DEF SortedByEstimation
<1>2. \A i \in 1 .. n : q["ready"][f[i]] \in Procs
  OBVIOUS
<1>3. n \in Nat
  OBVIOUS
<1> HIDE DEF n
<1>4. s \in [1 .. n -> Procs]
  BY <1>1, <1>2
<1>5. QED
  BY <1>3, <1>4 DEF n
-----------------------------------------------------------------------------
(* Type correctness, one lemma per thread.                                 *)

\* What the shared operations do to the types of the variables they change.
LEMMA SignalType ==
  ASSUME sem \in [Sems -> Nat], NEW s \in Sems, Signal(s)
  PROVE  sem' \in [Sems -> Nat]
BY DEF Signal

\* WAIT keeps the semaphores natural numbers.
LEMMA WaitType ==
  ASSUME sem \in [Sems -> Nat], NEW s \in Sems, Wait(s)
  PROVE  sem' \in [Sems -> Nat]
BY DEF Wait

\* safe_queue_push keeps the queues well formed.
LEMMA PushType ==
  ASSUME q \in [Queues -> Seq(Procs)], NEW n \in Queues, NEW p \in Procs, Push(n, p)
  PROVE  q' \in [Queues -> Seq(Procs)]
BY PushQueue DEF Push

\* safe_queue_pop keeps the queues well formed.
LEMMA PopType ==
  ASSUME q \in [Queues -> Seq(Procs)], NEW n \in Queues, q[n] # <<>>, Pop(n)
  PROVE  q' \in [Queues -> Seq(Procs)] /\ Head(q[n]) \in Procs
BY PopQueue DEF Pop

\* pcb_remove_by_id keeps the queues well formed.
LEMMA RemoveByIdType ==
  ASSUME q \in [Queues -> Seq(Procs)], NEW n \in Queues, NEW p \in Procs, RemoveById(n, p)
  PROVE  q' \in [Queues -> Seq(Procs)]
<1>1. CASE UNCHANGED q
  BY <1>1
<1>2. ASSUME NEW i \in 1 .. Len(q[n]), q' = [q EXCEPT ![n] = RemoveAt(@, i)]
      PROVE  q' \in [Queues -> Seq(Procs)]
  BY <1>2, RemoveFromQueue
<1>3. QED
  BY <1>1, <1>2 DEF RemoveById

\* A message to memory keeps the record of messages well formed.
LEMMA TellMemoryType ==
  ASSUME mem \in [Procs -> {"none", "init", "swapped", "freed"}], NEW p \in Procs,
         NEW w \in {"init", "swapped", "freed"}, TellMemory(p, w)
  PROVE  mem' \in [Procs -> {"none", "init", "swapped", "freed"}]
BY DEF TellMemory

\* Setting a status keeps the statuses well formed.
LEMMA SetStatusType ==
  ASSUME status \in [Procs -> Status], NEW p \in Procs, NEW s \in Status, SetStatus(p, s)
  PROVE  status' \in [Procs -> Status]
BY DEF SetStatus

\* Using PCBs leaves a Boolean in ub.
LEMMA UsesType ==
  ASSUME NEW S, Uses(S)
  PROVE  ub' \in BOOLEAN
BY DEF Uses

\* A dispatcher thread keeps the type invariant.
LEMMA DispatcherType ==
  ASSUME TypeOK, NEW p \in Procs, Dispatcher(p)
  PROVE  TypeOK'
<1> "new" \in Queues /\ "req_admit" \in Sems
  BY DEF Queues, Sems
<1>1. CASE DispatchPush(p)
  <2>1. ub' \in BOOLEAN /\ con[p] = "created"
    BY <1>1 DEF TypeOK, DispatchPush, DispatchStep
  <2>2. q' \in [Queues -> Seq(Procs)]
    BY <1>1, PushType DEF TypeOK, DispatchPush
  <2>3. con' \in [Procs -> {"idle", "created", "pushed", "done"}]
    BY <1>1 DEF TypeOK, DispatchPush, DispatchStep
  <2>4. QED
    BY <1>1, <2>1, <2>2, <2>3 DEF TypeOK, DispatchPush, DispatchStep
<1>2. CASE DispatchSignal(p)
  BY <1>2, SignalType DEF TypeOK, DispatchSignal, DispatchStep
<1>3. CASE DispatchNew(p)
  BY <1>3 DEF TypeOK, DispatchNew, DispatchStep
<1>4. QED
  BY <1>1, <1>2, <1>3 DEF Dispatcher

\* A step of LTS keeps the types if what it may change keeps its own.
LEMMA LtsFrame ==
  ASSUME TypeOK, NEW from, NEW to \in LtsPcs, NEW p \in Procs \union {NoPcb},
         LtsStep(from, to, p), to \in {"admit", "push"} => p # NoPcb,
         q' \in [Queues -> Seq(Procs)], sem' \in [Sems -> Nat],
         status' \in [Procs -> Status], ub' \in BOOLEAN,
         cpu' \in [pc : {"idle", "run", "back"}, ints : Nat], cpu'.pc = cpu.pc,
         mem' \in [Procs -> {"none", "init", "swapped", "freed"}]
  PROVE  TypeOK'
BY DEF TypeOK, LtsStep

\* The long term scheduler keeps the type invariant.
LEMMA LtsType ==
  ASSUME TypeOK, Lts
  PROVE  TypeOK'
<1> USE DEF TypeOK
<1> /\ {"new", "ready", "ready_sus"} \subseteq Queues
    /\ {"req_admit", "dom", "execute"} \subseteq Sems
    /\ LtsPcs = {"wait_req", "wait_dom", "resume", "new", "admit", "push", "signal"}
    /\ "READY" \in Status
    /\ NoPcb \notin Procs
  BY ConstantsAssumption DEF Queues, Sems, Status, LtsPcs
<1>1. CASE LtsWaitRequest
  BY <1>1, WaitType, LtsFrame DEF LtsWaitRequest
<1>2. CASE LtsWaitSlot
  BY <1>2, WaitType, LtsFrame DEF LtsWaitSlot
<1>3. CASE LtsResume
  <2>1. CASE q["ready_sus"] = <<>>
    BY <1>3, <2>1, LtsFrame DEF LtsResume
  <2>2. CASE q["ready_sus"] # <<>>
    <3>1. q' \in [Queues -> Seq(Procs)] /\ Head(q["ready_sus"]) \in Procs
      BY <1>3, <2>2, PopType DEF LtsResume
    <3>2. QED
      BY <1>3, <2>2, <3>1, LtsFrame DEF LtsResume
  <2>3. QED
    BY <2>1, <2>2
<1>4. CASE LtsPopNew
  <2>1. CASE q["new"] = <<>>
    <3>1. ub' \in BOOLEAN
      BY <1>4, <2>1 DEF LtsPopNew
    <3>2. QED
      BY <1>4, <2>1, <3>1, LtsFrame DEF LtsPopNew
  <2>2. CASE q["new"] # <<>>
    <3>1. q' \in [Queues -> Seq(Procs)] /\ Head(q["new"]) \in Procs
      BY <1>4, <2>2, PopType DEF LtsPopNew
    <3>2. mem' \in [Procs -> {"none", "init", "swapped", "freed"}]
      BY <1>4, <2>2, <3>1, TellMemoryType DEF LtsPopNew
    <3>3. QED
      BY <1>4, <2>2, <3>1, <3>2, LtsFrame DEF LtsPopNew
  <2>3. QED
    BY <2>1, <2>2
<1>5. CASE LtsAdmit
  <2>1. lts.pcb \in Procs
    BY <1>5 DEF LtsAdmit, LtsStep
  <2>2. cpu' \in [pc : {"idle", "run", "back"}, ints : Nat] /\ (cpu'.pc = cpu.pc)
    BY <1>5 DEF LtsAdmit, CheckInterruption
  <2>3. QED
    BY <1>5, <2>1, <2>2, UsesType, SetStatusType, LtsFrame DEF LtsAdmit
<1>6. CASE LtsPush
  <2>1. lts.pcb \in Procs
    BY <1>6 DEF LtsPush, LtsStep
  <2>2. QED
    BY <1>6, <2>1, PushType, LtsFrame DEF LtsPush
<1>7. CASE LtsSignal
  BY <1>7, SignalType, LtsFrame DEF LtsSignal
<1>8. QED
  BY <1>1, <1>2, <1>3, <1>4, <1>5, <1>6, <1>7 DEF Lts
\* The estimations pre_empt and re_schedule compute are natural numbers.
LEMMA EstimationType ==
  ASSUME NEW real \in RealTimes, NEW e \in Nat
  PROVE  ReSchedule(real, e) \in Nat /\ Remaining(real, e) \in Nat
<1>1. /\ real \in Nat /\ AlphaDen \in Nat \ {0}
      /\ AlphaNum \in Nat /\ AlphaDen - AlphaNum \in Nat
  BY ConstantsAssumption
<1>2. \A x, y \in Nat : x * y \in Nat
  OBVIOUS
<1>3. \A x \in Nat : x \div AlphaDen \in Nat
  BY <1>1
<1>4. /\ (real * AlphaNum) \div AlphaDen \in Nat
      /\ ((AlphaDen - AlphaNum) * e) \div AlphaDen \in Nat
  BY <1>1, <1>2, <1>3
<1>5. QED
  BY <1>1, <1>4 DEF ReSchedule, Remaining

\* Both rules leave an estimation to the process they are applied to.
LEMMA EstimationStep ==
  ASSUME est \in [Procs -> Nat], NEW p \in Procs, NEW real \in RealTimes,
         \/ est' = [est EXCEPT ![p] = ReSchedule(real, @)]
         \/ est' = [est EXCEPT ![p] = Remaining(real, @)]
  PROVE  est' \in [Procs -> Nat]
BY EstimationType

\* A step of STS keeps the types if what it may change keeps its own.
LEMMA StsFrame ==
  ASSUME TypeOK, NEW from, NEW to \in StsPcs, NEW p \in Procs \union {NoPcb},
         StsStep(from, to, p),
         to \notin {"wait", "sort", "pop", "signal"} => p # NoPcb,
         q' \in [Queues -> Seq(Procs)], sem' \in [Sems -> Nat], currentEst' \in Nat,
         status' \in [Procs -> Status], est' \in [Procs -> Nat],
         obj' \in [Procs -> {"none", "heap", "cpu", "freed"}],
         trk' \in [Procs -> [Blocks -> TrkPcs]],
         cpu' \in [pc : {"idle", "run", "back"}, ints : Nat],
         cpu'.pc # "idle" => to = "recv",
         mem' \in [Procs -> {"none", "init", "swapped", "freed"}], ub' \in BOOLEAN
  PROVE  TypeOK'
BY DEF TypeOK, StsStep

\* Outside recv the CPU has nothing of the kernel's.
LEMMA StsCpuIdle ==
  ASSUME TypeOK, NEW from, NEW to, NEW p, StsStep(from, to, p), from # "recv"
  PROVE  cpu.pc = "idle"
BY DEF TypeOK, StsStep

\* Between dispatch and the filing of the PCB, STS has one in hand.
LEMMA StsHasPcb ==
  ASSUME TypeOK, NEW from, NEW to, NEW p, StsStep(from, to, p),
         from \notin {"wait", "sort", "pop", "signal"}
  PROVE  sts.pcb \in Procs
BY DEF TypeOK, StsStep

\* The short term scheduler keeps the type invariant.
LEMMA StsType ==
  ASSUME TypeOK, Sts
  PROVE  TypeOK'
<1> USE DEF TypeOK
<1> /\ {"ready", "blocked"} \subseteq Queues
    /\ {"dom", "io_request", "execute"} \subseteq Sems
    /\ StsPcs = {"wait", "sort", "pop", "dispatch", "send", "recv", "switch", "block",
                 "notify", "request", "preempt", "free", "slot", "slot_fail", "signal"}
    /\ "EXECUTING" \in Status
    /\ NoPcb \notin Procs
  BY ConstantsAssumption DEF Queues, Sems, Status, StsPcs
<1>1. CASE StsWait
  BY <1>1, WaitType, StsFrame, StsCpuIdle DEF StsWait
<1>2. CASE StsSort
  <2>1. q' \in [Queues -> Seq(Procs)]
    BY <1>2, SortQueue DEF StsSort
  <2>2. QED
    BY <1>2, <2>1, UsesType, StsFrame, StsCpuIdle DEF StsSort
<1>3. CASE StsPop
  <2>1. CASE q["ready"] = <<>>
    <3>1. /\ StsStep("pop", "wait", NoPcb)
          /\ UNCHANGED <<q, sem, currentEst, status, est, obj, trk, cpu, mem, ub>>
      BY <1>3, <2>1 DEF StsPop
    <3>2. QED
      BY <3>1, StsFrame, StsCpuIdle
  <2>2. CASE q["ready"] # <<>>
    <3>1. q' \in [Queues -> Seq(Procs)] /\ Head(q["ready"]) \in Procs
      BY <1>3, <2>2, PopType DEF StsPop
    <3>2. QED
      BY <1>3, <2>2, <3>1, StsFrame, StsCpuIdle DEF StsPop
  <2>3. QED
    BY <2>1, <2>2
<1>4. CASE StsDispatch
  <2>1. sts.pcb \in Procs
    BY <1>4, StsHasPcb DEF StsDispatch
  <2>2. QED
    BY <1>4, <2>1, UsesType, SetStatusType, StsFrame, StsCpuIdle DEF StsDispatch
<1>5. CASE StsSend
  <2>1. sts.pcb \in Procs
    BY <1>5, StsHasPcb DEF StsSend
  <2>2. ub' \in BOOLEAN
    BY <1>5, UsesType DEF StsSend
  <2>3. CASE "dispatch" \in up
    <3>1. /\ StsStep("send", "recv", sts.pcb)
          /\ UNCHANGED <<q, sem, currentEst, status, est, trk, mem>>
      BY <1>5, <2>3 DEF StsSend
    <3>2. /\ cpu' \in [pc : {"idle", "run", "back"}, ints : Nat]
          /\ obj' \in [Procs -> {"none", "heap", "cpu", "freed"}]
      BY <1>5, <2>1, <2>3 DEF StsSend
    <3>3. QED
      BY <2>1, <2>2, <3>1, <3>2, StsFrame
  <2>4. CASE "dispatch" \notin up
    <3>1. mem' \in [Procs -> {"none", "init", "swapped", "freed"}]
      BY <1>5, <2>1, <2>4, TellMemoryType DEF StsSend
    <3>2. /\ StsStep("send", "slot_fail", sts.pcb)
          /\ UNCHANGED <<q, sem, currentEst, status, est, trk, cpu>>
      BY <1>5, <2>4 DEF StsSend
    <3>3. obj' \in [Procs -> {"none", "heap", "cpu", "freed"}]
      BY <1>5, <2>1, <2>4 DEF StsSend
    <3>4. QED
      BY <2>1, <2>2, <3>1, <3>2, <3>3, StsFrame, StsCpuIdle
  <2>5. QED
    BY <2>3, <2>4
<1>6. CASE StsReceive
  <2>1. sts.pcb \in Procs
    BY <1>6, StsHasPcb DEF StsReceive
  <2>2. QED
    BY <1>6, <2>1, StsFrame DEF StsReceive
<1>7. CASE StsSwitch
  <2>1. sts.pcb \in Procs
    BY <1>7, StsHasPcb DEF StsSwitch
  <2>2. QED
    <3>1. PICK to \in {"block", "preempt", "free"} : StsStep("switch", to, sts.pcb)
      BY <1>7 DEF StsSwitch
    <3>2. UNCHANGED <<q, sem, currentEst, status, est, obj, trk, cpu, mem, ub>>
      BY <1>7 DEF StsSwitch
    <3>3. QED
      BY <2>1, <3>1, <3>2, StsFrame, StsCpuIdle
<1>8. CASE StsBlock
  <2>1. sts.pcb \in Procs
    BY <1>8, StsHasPcb DEF StsBlock
  <2>2. est' \in [Procs -> Nat]
    <3> est \in [Procs -> Nat]
      OBVIOUS
    <3> HIDE DEF TypeOK
    <3>1. QED
      BY <1>8, <2>1, EstimationStep DEF StsBlock
  <2>3. QED
    BY <1>8, <2>1, <2>2, PushType, StsFrame, StsCpuIdle DEF StsBlock
<1>9. CASE StsNotify
  <2>1. sts.pcb \in Procs
    BY <1>9, StsHasPcb DEF StsNotify
  <2>2. trk' \in [Procs -> [Blocks -> TrkPcs]]
    BY <1>9, <2>1 DEF StsNotify, TrkPcs
  <2>3. QED
    BY <1>9, <2>1, <2>2, StsFrame, StsCpuIdle DEF StsNotify
<1>10. CASE StsRequestIo
  <2>1. sts.pcb \in Procs
    BY <1>10, StsHasPcb DEF StsRequestIo
  <2>2. QED
    BY <1>10, <2>1, SignalType, StsFrame, StsCpuIdle DEF StsRequestIo
<1>11. CASE StsPreempt
  <2>1. sts.pcb \in Procs
    BY <1>11, StsHasPcb DEF StsPreempt
  <2>2. est' \in [Procs -> Nat]
    <3> est \in [Procs -> Nat]
      OBVIOUS
    <3> HIDE DEF TypeOK
    <3>1. QED
      BY <1>11, <2>1, EstimationStep DEF StsPreempt
  <2>3. QED
    BY <1>11, <2>1, <2>2, PushType, StsFrame, StsCpuIdle DEF StsPreempt
<1>12. CASE StsFree
  <2>1. sts.pcb \in Procs
    BY <1>12, StsHasPcb DEF StsFree
  <2>2. QED
    BY <1>12, <2>1, TellMemoryType, StsFrame, StsCpuIdle DEF StsFree
<1>13. CASE StsReleaseSlot
  BY <1>13, SignalType, StsFrame, StsCpuIdle DEF StsReleaseSlot
<1>14. CASE StsSignal
  BY <1>14, SignalType, StsFrame, StsCpuIdle DEF StsSignal
<1>15. QED
  BY <1>1, <1>2, <1>3, <1>4, <1>5, <1>6, <1>7, <1>8, <1>9, <1>10, <1>11, <1>12, <1>13, <1>14
  DEF Sts

\* The CPU gives back the PCB that STS waits for.
LEMMA CpuType ==
  ASSUME TypeOK, Cpu \/ CpuLosesInt
  PROVE  TypeOK'
<1> USE DEF TypeOK
<1>1. ASSUME NEW s \in Status, NEW n \in Nat, CpuGivesBack(s, n),
             bursts' \in [Procs -> 0 .. MaxIO]
      PROVE  TypeOK'
  <2>1. sts.pcb \in Procs
    BY <1>1 DEF CpuGivesBack
  <2>2. status' \in [Procs -> Status]
    BY <1>1, <2>1, SetStatusType DEF CpuGivesBack
  <2>3. QED
    BY <1>1, <2>2 DEF CpuGivesBack
<1>2. CASE CpuIo
  <2>1. sts.pcb \in Procs /\ MaxIO \in Nat
    BY <1>2, ConstantsAssumption DEF CpuIo, CpuGivesBack
  <2>2. bursts' \in [Procs -> 0 .. MaxIO]
    <3> bursts \in [Procs -> 0 .. MaxIO]
      OBVIOUS
    <3> HIDE DEF TypeOK
    <3>1. QED
      BY <1>2, <2>1 DEF CpuIo
  <2>3. QED
    BY <1>1, <1>2, <2>2 DEF CpuIo, Status
<1>3. CASE CpuExit
  BY <1>1, <1>3 DEF CpuExit, Status
<1>4. CASE CpuInterrupted
  <2>1. CpuGivesBack("READY", cpu.ints - 1) /\ cpu.ints \in Nat /\ cpu.ints > 0 /\ bursts' = bursts
    BY <1>4 DEF CpuInterrupted
  <2>2. cpu.ints - 1 \in Nat /\ "READY" \in Status
    BY <2>1 DEF Status
  <2>3. bursts' \in [Procs -> 0 .. MaxIO]
    BY <2>1
  <2> HIDE DEF TypeOK
  <2>4. QED
    BY <1>1, <2>1, <2>2, <2>3
<1>5. CASE CpuLosesInt
  <2>1. cpu.ints \in Nat /\ cpu.ints > 0
    BY <1>5 DEF CpuLosesInt
  <2>2. cpu.ints - 1 \in Nat
    BY <2>1
  <2>3. cpu' = [cpu EXCEPT !.ints = @ - 1]
    BY <1>5 DEF CpuLosesInt
  <2>4. cpu' \in [pc : {"idle", "run", "back"}, ints : Nat] /\ (cpu'.pc = cpu.pc)
    BY <2>2, <2>3
  <2>5. QED
    BY <1>5, <2>4 DEF CpuLosesInt
<1>6. QED
  BY <1>2, <1>3, <1>4, <1>5 DEF Cpu

\* A step of the I/O scheduler keeps the types if what it may change does.
LEMMA IoFrame ==
  ASSUME TypeOK, NEW from, NEW to \in IoPcs, NEW p \in Procs \union {NoPcb},
         IoStep(from, to, p), to \notin {"wait", "sus", "blk", "reset"} => p # NoPcb,
         q' \in [Queues -> Seq(Procs)], sem' \in [Sems -> Nat],
         currentIo' \in Procs \union {NoPcb},
         status' \in [Procs -> Status], ub' \in BOOLEAN,
         cpu' \in [pc : {"idle", "run", "back"}, ints : Nat], cpu'.pc = cpu.pc
  PROVE  TypeOK'
BY DEF TypeOK, IoStep

\* While it serves a request, the I/O scheduler has a PCB in hand.
LEMMA IoHasPcb ==
  ASSUME TypeOK, NEW from, NEW to, NEW p, IoStep(from, to, p),
         from \notin {"wait", "sus", "blk", "reset"}
  PROVE  io.pcb \in Procs
BY DEF TypeOK, IoStep

\* The I/O scheduler keeps the type invariant.
LEMMA IoType ==
  ASSUME TypeOK, Io
  PROVE  TypeOK'
<1> USE DEF TypeOK
<1> /\ {"ready", "ready_sus", "blocked", "blocked_sus"} \subseteq Queues
    /\ {"req_admit", "io_request", "execute"} \subseteq Sems
    /\ IoPcs = {"wait", "sus", "blk", "current", "burst", "ready", "interrupt",
                "signal", "sus_find", "sus_push", "sus_signal", "reset"}
    /\ {"READY", "SUSPENDED_READY"} \subseteq Status
    /\ NoPcb \notin Procs
  BY ConstantsAssumption DEF Queues, Sems, Status, IoPcs
<1>1. CASE IoWait
  BY <1>1, WaitType, IoFrame DEF IoWait
<1>2. CASE IoPopSuspended
  <2>1. CASE q["blocked_sus"] = <<>>
    BY <1>2, <2>1, IoFrame DEF IoPopSuspended
  <2>2. CASE q["blocked_sus"] # <<>>
    <3>1. q' \in [Queues -> Seq(Procs)] /\ Head(q["blocked_sus"]) \in Procs
      BY <1>2, <2>2, PopType DEF IoPopSuspended
    <3>2. QED
      BY <1>2, <2>2, <3>1, IoFrame DEF IoPopSuspended
  <2>3. QED
    BY <2>1, <2>2
<1>3. CASE IoPopBlocked
  <2>1. CASE q["blocked"] = <<>>
    BY <1>3, <2>1, IoFrame DEF IoPopBlocked
  <2>2. CASE q["blocked"] # <<>>
    <3>1. q' \in [Queues -> Seq(Procs)] /\ Head(q["blocked"]) \in Procs
      BY <1>3, <2>2, PopType DEF IoPopBlocked
    <3>2. QED
      BY <1>3, <2>2, <3>1, IoFrame DEF IoPopBlocked
  <2>3. QED
    BY <2>1, <2>2
<1>4. CASE IoCurrent
  <2>1. io.pcb \in Procs
    BY <1>4, IoHasPcb DEF IoCurrent
  <2>2. QED
    BY <1>4, <2>1, UsesType, IoFrame DEF IoCurrent
<1>5. CASE IoBurst
  <2>1. io.pcb \in Procs
    BY <1>5, IoHasPcb DEF IoBurst
  <2>2. PICK to \in {"sus_find", "ready"} : IoStep("burst", to, io.pcb)
    BY <1>5 DEF IoBurst
  <2>3. UNCHANGED <<q, sem, currentIo, status, cpu>> /\ ub' \in BOOLEAN
    BY <1>5, UsesType DEF IoBurst
  <2>4. QED
    BY <2>1, <2>2, <2>3, IoFrame
<1>6. CASE IoReady
  <2>1. io.pcb \in Procs
    BY <1>6, IoHasPcb DEF IoReady
  <2>2. QED
    BY <1>6, <2>1, UsesType, PushType, SetStatusType, IoFrame, ZenonT(40) DEF IoReady
<1>7. CASE IoInterrupt
  <2>1. io.pcb \in Procs
    BY <1>7, IoHasPcb DEF IoInterrupt
  <2>2. cpu' \in [pc : {"idle", "run", "back"}, ints : Nat] /\ (cpu'.pc = cpu.pc)
    BY <1>7 DEF IoInterrupt, CheckInterruption
  <2>3. QED
    BY <1>7, <2>1, <2>2, IoFrame DEF IoInterrupt
<1>8. CASE IoSignal
  BY <1>8, SignalType, IoFrame DEF IoSignal
<1>9. CASE IoFindSuspended
  <2>1. io.pcb \in Procs
    BY <1>9, IoHasPcb DEF IoFindSuspended
  <2>2. q' \in [Queues -> Seq(Procs)]
    BY <1>9, <2>1, RemoveByIdType DEF IoFindSuspended
  <2>3. QED
    BY <1>9, <2>1, <2>2, UsesType, IoFrame DEF IoFindSuspended
<1>10. CASE IoPushSuspended
  <2>1. io.pcb \in Procs
    BY <1>10, IoHasPcb DEF IoPushSuspended
  <2>2. QED
    BY <1>10, <2>1, UsesType, PushType, SetStatusType, IoFrame, ZenonT(40) DEF IoPushSuspended
<1>11. CASE IoSignalSuspended
  BY <1>11, SignalType, IoFrame DEF IoSignalSuspended
<1>12. CASE IoReset
  BY <1>12, IoFrame DEF IoReset
<1>13. QED
  BY <1>1, <1>2, <1>3, <1>4, <1>5, <1>6, <1>7, <1>8, <1>9, <1>10, <1>11, <1>12 DEF Io

\* A step of a tracker keeps the types if what it may change does.
LEMMA TrackerFrame ==
  ASSUME TypeOK, NEW p \in Procs, NEW k \in Blocks, NEW from, NEW to \in TrkPcs,
         TrkStep(p, k, from, to),
         q' \in [Queues -> Seq(Procs)], sem' \in [Sems -> Nat],
         status' \in [Procs -> Status], ub' \in BOOLEAN,
         mem' \in [Procs -> {"none", "init", "swapped", "freed"}]
  PROVE  TypeOK'
<1>1. trk' \in [Procs -> [Blocks -> TrkPcs]]
  BY DEF TypeOK, TrkStep
<1>2. QED
  BY <1>1 DEF TypeOK, TrkStep

\* A tracker keeps the type invariant.
LEMMA TrackerType ==
  ASSUME TypeOK, NEW p \in Procs, NEW k \in Blocks, Tracker(p, k)
  PROVE  TypeOK'
<1> USE DEF TypeOK
<1> /\ {"blocked", "blocked_sus"} \subseteq Queues
    /\ "dom" \in Sems
    /\ TrkPcs = {"off", "start", "sleep", "current", "remove", "slot", "mark", "push", "swap", "done"}
    /\ "SUSPENDED_BLOCKED" \in Status
  BY DEF Queues, Sems, Status, TrkPcs
<1>1. CASE TrackTime(p, k)
  <2>1. PICK to \in {"remove", "current"} : TrkStep(p, k, "sleep", to)
    BY <1>1 DEF TrackTime
  <2>2. UNCHANGED <<q, sem, status, mem>> /\ ub' \in BOOLEAN
    BY <1>1, UsesType DEF TrackTime
  <2>3. QED
    BY <2>1, <2>2, TrackerFrame
<1>2. CASE TrackCurrentIo(p, k)
  <2>1. PICK to \in {"remove", "done"} : TrkStep(p, k, "current", to)
    BY <1>2 DEF TrackCurrentIo
  <2>2. UNCHANGED <<q, sem, status, mem, ub>>
    BY <1>2 DEF TrackCurrentIo
  <2>3. QED
    BY <2>1, <2>2, TrackerFrame
<1>3. CASE TrackRemove(p, k)
  <2>1. q' \in [Queues -> Seq(Procs)]
    BY <1>3, RemoveByIdType DEF TrackRemove
  <2>2. QED
    BY <1>3, <2>1, UsesType, TrackerFrame DEF TrackRemove
<1>4. CASE SuspendReleaseSlot(p, k)
  BY <1>4, UsesType, SignalType, TrackerFrame DEF SuspendReleaseSlot
<1>5. CASE SuspendMark(p, k)
  BY <1>5, UsesType, SetStatusType, TrackerFrame DEF SuspendMark
<1>6. CASE SuspendPush(p, k)
  BY <1>6, PushType, TrackerFrame DEF SuspendPush
<1>7. CASE SuspendSwap(p, k)
  BY <1>7, UsesType, TellMemoryType, TrackerFrame DEF SuspendSwap
<1>8. CASE TrackStart(p, k)
  <2>1. PICK to \in {"sleep", "done"} : TrkStep(p, k, "start", to)
    BY <1>8 DEF TrackStart
  <2>2. UNCHANGED <<q, sem, status, mem>> /\ ub' \in BOOLEAN
    BY <1>8 DEF TrackStart
  <2>3. QED
    BY <2>1, <2>2, TrackerFrame
<1>9. QED
  BY <1>1, <1>2, <1>3, <1>4, <1>5, <1>6, <1>7, <1>8 DEF Tracker

\* new_scheduler establishes the type invariant.
LEMMA InitType ==
  ASSUME Init
  PROVE  TypeOK
<1>1. /\ q \in [Queues -> Seq(Procs)]
      /\ sem \in [Sems -> Nat]
  BY ConstantsAssumption DEF Init
<1>2. /\ status \in [Procs -> Status] /\ est \in [Procs -> Nat]
      /\ trk \in [Procs -> [Blocks -> TrkPcs]]
  BY ConstantsAssumption DEF Init, Status, TrkPcs
<1>3. up \subseteq Connections
  BY DEF Init
<1>4. QED
  BY <1>1, <1>2, <1>3 DEF Init, TypeOK, LtsPcs, StsPcs, IoPcs

\* The state of the scheduler stays well formed: in particular estimations stay
\* natural numbers (pre_empt never wraps around), and STS, LTS and the I/O
\* scheduler never work on a NULL PCB past the checks the code makes.
THEOREM TypeCorrect == Spec => []TypeOK
<1>1. Init => TypeOK
  BY InitType
<1>2. TypeOK /\ [Next]_vars => TypeOK'
  <2> SUFFICES ASSUME TypeOK, [Next]_vars PROVE TypeOK'
    OBVIOUS
  <2>1. CASE UNCHANGED vars
    BY <2>1 DEF TypeOK, vars
  <2>2. ASSUME NEW m \in Connections, Connect(m) PROVE TypeOK'
    BY <2>2 DEF TypeOK, Connect
  <2>3. QED
    BY <2>1, <2>2, DispatcherType, LtsType, StsType, CpuType, IoType, TrackerType DEF Next
<1>3. QED
  BY <1>1, <1>2, PTL DEF Spec
-----------------------------------------------------------------------------
(* The requests of admission.  AdmitTokens is not inductive alone: admit    *)
(* would lose a token if it found NEW empty, which AdmitFindsProcess        *)
(* excludes, and AdmitFindsProcess follows from AdmitTokens when resume     *)
(* finds SUSPENDED READY empty.                                             *)

AdmitInv == TypeOK /\ AdmitTokens /\ AdmitFindsProcess

\* The terms of AdmitTokens, by name.
NewLen == Len(q["new"])
SusLen == Len(q["ready_sus"])
Requests == sem["req_admit"]
Announced == Cardinality(Announcing)

\* AdmitTokens as a sum of named terms.
LEMMA AdmitSum ==
  ASSUME AdmitTokens
  PROVE  NewLen + SusLen = Requests + TakenByLts + Announced + OwedByIo
BY Zenon DEF AdmitTokens, NewLen, SusLen, Requests, Announced

\* The same in the next state.
LEMMA AdmitSumNext ==
  AdmitTokens' <=> NewLen' + SusLen' = Requests' + TakenByLts' + Announced' + OwedByIo'
BY Zenon DEF AdmitTokens, NewLen, SusLen, Requests, Announced

\* The dispatchers that are announcing can be counted.
LEMMA AnnouncingFinite ==
  IsFiniteSet(Announcing) /\ Cardinality(Announcing) \in Nat
<1>1. IsFiniteSet(Procs) /\ Announcing \subseteq Procs
  BY ConstantsAssumption DEF Announcing
<1>2. QED
  BY <1>1, FS_Subset, FS_CardinalityType

\* The terms of the sum are natural numbers.
LEMMA AdmitTermTypes ==
  ASSUME TypeOK
  PROVE  /\ q["new"] \in Seq(Procs) /\ q["ready_sus"] \in Seq(Procs)
         /\ NewLen \in Nat /\ SusLen \in Nat /\ Requests \in Nat /\ Announced \in Nat
         /\ TakenByLts \in {0, 1} /\ OwedByIo \in {0, 1}
<1>1. q["new"] \in Seq(Procs) /\ q["ready_sus"] \in Seq(Procs) /\ sem["req_admit"] \in Nat
  BY DEF TypeOK, Queues, Sems
<1>2. QED
  BY <1>1, AnnouncingFinite
  DEF NewLen, SusLen, Requests, Announced, TakenByLts, OwedByIo, One

\* The terms of the sum and their next values are integers.
LEMMA AdmitTermInts ==
  ASSUME TypeOK
  PROVE  /\ NewLen \in Int /\ SusLen \in Int /\ Requests \in Int
         /\ TakenByLts \in Int /\ Announced \in Int /\ OwedByIo \in Int
BY AdmitTermTypes

\* The places of LTS between taking a request and serving it.
LtsHasToken == lts.pc \in {"wait_dom", "resume", "new"}

\* Steps that change neither the two queues nor the tokens.
LEMMA AdmitFrame ==
  ASSUME AdmitInv, UNCHANGED con, q'["new"] = q["new"], q'["ready_sus"] = q["ready_sus"],
         sem'["req_admit"] = sem["req_admit"],
         LtsHasToken' <=> LtsHasToken, lts'.pc = "new" => lts.pc = "new",
         io'.pc = "sus_signal" <=> io.pc = "sus_signal"
  PROVE  AdmitTokens' /\ AdmitFindsProcess'
<1>1. Announced' = Announced
  BY DEF Announcing, Announced
<1>2. NewLen' = NewLen /\ SusLen' = SusLen /\ Requests' = Requests
  BY DEF NewLen, SusLen, Requests
<1>3. TakenByLts' = TakenByLts /\ OwedByIo' = OwedByIo
  BY DEF TakenByLts, OwedByIo, One, LtsHasToken
<1>4. QED
  BY <1>1, <1>2, <1>3, AdmitSum, AdmitSumNext DEF AdmitInv, AdmitFindsProcess

\* A dispatcher files a PCB and then signals it: the sum balances.
LEMMA DispatcherAdmit ==
  ASSUME AdmitInv, NEW p \in Procs, Dispatcher(p)
  PROVE  AdmitTokens' /\ AdmitFindsProcess'
<1> USE DEF AdmitInv
<1>1. TypeOK /\ "new" \in Queues /\ "ready_sus" \in Queues /\ "req_admit" \in Sems
  BY DEF Queues, Sems
<1>2. lts' = lts /\ io' = io
  BY DEF Dispatcher, DispatchNew, DispatchPush, DispatchSignal, DispatchStep
<1>3. TakenByLts' = TakenByLts /\ OwedByIo' = OwedByIo
  BY <1>2 DEF TakenByLts, OwedByIo
<1>4. CASE DispatchPush(p)
  <2>1. Announcing' = Announcing \union {p} /\ p \notin Announcing
    BY <1>1, <1>4 DEF DispatchPush, DispatchStep, Announcing, TypeOK
  <2>2. Announced' = Announced + 1
    BY <2>1, AnnouncingFinite, FS_AddElement DEF Announced
  <2>3. /\ q'["new"] = Append(q["new"], p) /\ q'["ready_sus"] = q["ready_sus"]
        /\ sem' = sem
    BY <1>1, <1>4 DEF DispatchPush, Push, TypeOK
  <2>4. NewLen' = NewLen + 1 /\ SusLen' = SusLen /\ Requests' = Requests
    BY <1>1, <2>3, AdmitTermTypes, PushQueue DEF NewLen, SusLen, Requests
  <2>5. AdmitFindsProcess'
    BY <1>1, <2>3, AdmitTermTypes DEF AdmitFindsProcess
  <2>6. (NewLen + 1) + SusLen = Requests + TakenByLts + (Announced + 1) + OwedByIo
    BY <1>1, AdmitSum, AdmitTermInts
  <2>7. NewLen' + SusLen' = Requests' + TakenByLts' + Announced' + OwedByIo'
    BY <1>3, <2>2, <2>4, <2>6
  <2>8. QED
    BY <2>5, <2>7, AdmitSumNext
<1>5. CASE DispatchSignal(p)
  <2>1. Announcing' = Announcing \ {p} /\ p \in Announcing
    BY <1>1, <1>5 DEF DispatchSignal, DispatchStep, Announcing, TypeOK
  <2>2. Announced' = Announced - 1
    BY <2>1, AnnouncingFinite, FS_RemoveElement DEF Announced
  <2>3. sem'["req_admit"] = sem["req_admit"] + 1 /\ q' = q
    BY <1>1, <1>5 DEF DispatchSignal, Signal, TypeOK
  <2>4. NewLen' = NewLen /\ SusLen' = SusLen /\ Requests' = Requests + 1
    BY <2>3 DEF NewLen, SusLen, Requests
  <2>5. AdmitFindsProcess'
    BY <1>2, <2>3 DEF AdmitFindsProcess
  <2>6. NewLen + SusLen = (Requests + 1) + TakenByLts + (Announced - 1) + OwedByIo
    BY <1>1, AdmitSum, AdmitTermInts
  <2>7. NewLen' + SusLen' = Requests' + TakenByLts' + Announced' + OwedByIo'
    BY <1>3, <2>2, <2>4, <2>6
  <2>8. QED
    BY <2>5, <2>7, AdmitSumNext
<1>6. CASE DispatchNew(p)
  <2>1. Announcing' = Announcing /\ q' = q /\ sem' = sem
    BY <1>1, <1>6 DEF DispatchNew, DispatchStep, Announcing, TypeOK
  <2>2. NewLen' = NewLen /\ SusLen' = SusLen /\ Requests' = Requests /\ Announced' = Announced
    BY <2>1 DEF NewLen, SusLen, Requests, Announced
  <2>3. AdmitFindsProcess'
    BY <1>2, <2>1 DEF AdmitFindsProcess
  <2>4. QED
    BY <1>3, <2>2, <2>3, AdmitSum, AdmitSumNext
<1>7. QED
  BY <1>4, <1>5, <1>6 DEF Dispatcher

\* The long term scheduler takes a request and then serves one PCB.
LEMMA LtsAdmits ==
  ASSUME AdmitInv, Lts
  PROVE  AdmitTokens' /\ AdmitFindsProcess'
<1> USE DEF AdmitInv
<1>1. /\ {"new", "ready", "ready_sus"} \subseteq Queues
      /\ {"req_admit", "dom", "execute"} \subseteq Sems
  BY DEF Queues, Sems
<1>2. TypeOK /\ q["new"] \in Seq(Procs) /\ q["ready_sus"] \in Seq(Procs)
  BY AdmitTermTypes
<1>3. UNCHANGED <<con, io>> /\ Announced' = Announced /\ OwedByIo' = OwedByIo
  BY DEF Lts, LtsWaitRequest, LtsWaitSlot, LtsResume, LtsPopNew, LtsAdmit, LtsPush,
         LtsSignal, LtsStep, Announcing, Announced, OwedByIo
<1>4. CASE LtsWaitRequest
  <2>1. /\ sem'["req_admit"] = sem["req_admit"] - 1 /\ q' = q
        /\ lts.pc = "wait_req" /\ lts'.pc = "wait_dom"
    BY <1>1, <1>4 DEF LtsWaitRequest, LtsStep, Wait, TypeOK
  <2>2. TakenByLts = 0 /\ TakenByLts' = 1
    BY <2>1 DEF TakenByLts, One
  <2>3. NewLen' = NewLen /\ SusLen' = SusLen /\ Requests' = Requests - 1
    BY <2>1 DEF NewLen, SusLen, Requests
  <2>4. AdmitFindsProcess'
    BY <2>1 DEF AdmitFindsProcess
  <2>5. QED
    BY <1>2, <1>3, <2>2, <2>3, <2>4, AdmitSum, AdmitSumNext, AdmitTermTypes
<1>5. CASE LtsWaitSlot
  <2>1. /\ sem'["req_admit"] = sem["req_admit"] /\ q' = q
        /\ lts.pc = "wait_dom" /\ lts'.pc = "resume"
    BY <1>1, <1>5 DEF LtsWaitSlot, LtsStep, Wait, TypeOK
  <2>2. QED
    BY <1>3, <2>1, AdmitFrame DEF LtsHasToken
<1>6. CASE LtsResume
  <2>1. lts.pc = "resume" /\ TakenByLts = 1 /\ Requests' = Requests
    BY <1>6 DEF LtsResume, LtsStep, TakenByLts, One, Requests
  <2>2. CASE q["ready_sus"] = <<>>
    <3>1. lts'.pc = "new" /\ q' = q
      BY <1>6, <2>2 DEF LtsResume, LtsStep
    <3>2. TakenByLts' = 1 /\ NewLen' = NewLen /\ SusLen' = SusLen /\ SusLen = 0
      BY <2>2, <3>1 DEF TakenByLts, One, NewLen, SusLen
    <3>3. NewLen > 0
      BY <1>2, <2>1, <3>2, AdmitSum, AdmitTermTypes
    <3>4. AdmitFindsProcess'
      BY <1>2, <3>1, <3>3 DEF AdmitFindsProcess, NewLen
    <3>5. NewLen' + SusLen' = Requests' + TakenByLts' + Announced' + OwedByIo'
      BY <1>3, <2>1, <3>2, AdmitSum
    <3>6. QED
      BY <3>4, <3>5, AdmitSumNext
  <2>3. CASE q["ready_sus"] # <<>>
    <3>1. /\ lts' = [pc |-> "admit", pcb |-> Head(q["ready_sus"])]
          /\ q' = [q EXCEPT !["ready_sus"] = Tail(@)]
      BY <1>6, <2>3 DEF LtsResume, LtsStep, Pop
    <3>2. /\ lts'.pc = "admit" /\ q'["new"] = q["new"]
          /\ q'["ready_sus"] = Tail(q["ready_sus"])
      BY <1>1, <3>1 DEF TypeOK
    <3>3. TakenByLts' = 0 /\ NewLen' = NewLen /\ SusLen' = SusLen - 1
      BY <1>2, <2>3, <3>2, PopQueue DEF TakenByLts, One, NewLen, SusLen
    <3>4. AdmitFindsProcess'
      BY <3>2 DEF AdmitFindsProcess
    <3>5. NewLen + (SusLen - 1) = Requests + 0 + Announced + OwedByIo
      <4>1. NewLen + SusLen = Requests + 1 + Announced + OwedByIo
        BY <2>1, AdmitSum, Zenon
      <4>2. /\ NewLen \in Int /\ SusLen \in Int /\ Requests \in Int
            /\ Announced \in Int /\ OwedByIo \in Int
        BY <1>2, AdmitTermInts, Zenon
      <4> HIDE DEF AdmitInv
      <4>3. QED
        BY ONLY <4>1, <4>2, SMT
    <3>6. NewLen' + SusLen' = Requests' + TakenByLts' + Announced' + OwedByIo'
      BY <1>3, <2>1, <3>3, <3>5
    <3>7. QED
      BY <3>4, <3>6, AdmitSumNext
  <2>4. QED
    BY <2>2, <2>3
<1>7. CASE LtsPopNew
  <2>1. lts.pc = "new" /\ TakenByLts = 1 /\ Requests' = Requests
    BY <1>7 DEF LtsPopNew, LtsStep, TakenByLts, One, Requests
  <2>2. q["new"] # <<>>
    BY <2>1 DEF AdmitFindsProcess
  <2>3. /\ lts' = [pc |-> "admit", pcb |-> Head(q["new"])]
        /\ q' = [q EXCEPT !["new"] = Tail(@)]
    BY <1>7, <2>2 DEF LtsPopNew, LtsStep, Pop
  <2>4. /\ lts'.pc = "admit" /\ q'["ready_sus"] = q["ready_sus"]
        /\ q'["new"] = Tail(q["new"])
    BY <1>1, <2>3 DEF TypeOK
  <2>5. TakenByLts' = 0 /\ NewLen' = NewLen - 1 /\ SusLen' = SusLen
    BY <1>2, <2>2, <2>4, PopQueue DEF TakenByLts, One, NewLen, SusLen
  <2>6. AdmitFindsProcess'
    BY <2>4 DEF AdmitFindsProcess
  <2>7. QED
    BY <1>2, <1>3, <2>1, <2>5, <2>6, AdmitSum, AdmitSumNext, AdmitTermTypes, SMTT(30)
<1>8. CASE LtsAdmit
  BY <1>3, <1>8, AdmitFrame DEF LtsAdmit, LtsStep, LtsHasToken
<1>9. CASE LtsPush
  <2>1. q'["new"] = q["new"] /\ q'["ready_sus"] = q["ready_sus"]
    BY <1>1, <1>9 DEF LtsPush, Push, TypeOK
  <2>2. QED
    BY <1>3, <1>9, <2>1, AdmitFrame DEF LtsPush, LtsStep, LtsHasToken
<1>10. CASE LtsSignal
  <2>1. sem'["req_admit"] = sem["req_admit"]
    BY <1>1, <1>10 DEF LtsSignal, Signal, TypeOK
  <2>2. QED
    BY <1>3, <1>10, <2>1, AdmitFrame DEF LtsSignal, LtsStep, LtsHasToken
<1>11. QED
  BY <1>4, <1>5, <1>6, <1>7, <1>8, <1>9, <1>10 DEF Lts

\* STS works on READY, BLOCKED and the other three semaphores only.
LEMMA StsAdmit ==
  ASSUME AdmitInv, Sts
  PROVE  AdmitTokens' /\ AdmitFindsProcess'
<1>1. /\ {"new", "ready", "ready_sus", "blocked"} \subseteq Queues
      /\ {"req_admit", "dom", "execute", "io_request"} \subseteq Sems
  BY DEF Queues, Sems
<1> USE DEF TypeOK, AdmitInv
<1>2. UNCHANGED <<con, lts, io>>
  BY DEF Sts, StsWait, StsSort, StsPop, StsDispatch, StsSend, StsReceive, StsSwitch, StsBlock,
         StsNotify, StsRequestIo, StsPreempt, StsFree, StsReleaseSlot, StsSignal, StsStep
<1>3. q'["new"] = q["new"] /\ q'["ready_sus"] = q["ready_sus"]
  BY <1>1
  DEF Sts, StsWait, StsSort, StsPop, StsDispatch, StsSend, StsReceive, StsSwitch, StsBlock,
      StsNotify, StsRequestIo, StsPreempt, StsFree, StsReleaseSlot, StsSignal, Push, Pop
<1>4. sem'["req_admit"] = sem["req_admit"]
  BY <1>1
  DEF Sts, StsWait, StsSort, StsPop, StsDispatch, StsSend, StsReceive, StsSwitch, StsBlock,
      StsNotify, StsRequestIo, StsPreempt, StsFree, StsReleaseSlot, StsSignal, Wait, Signal
<1>5. QED
  BY <1>2, <1>3, <1>4, AdmitFrame DEF LtsHasToken

\* suspended_event files a PCB and then signals it.
LEMMA IoAdmit ==
  ASSUME AdmitInv, Io
  PROVE  AdmitTokens' /\ AdmitFindsProcess'
<1>1. /\ {"new", "ready", "ready_sus", "blocked", "blocked_sus"} \subseteq Queues
      /\ {"req_admit", "execute", "io_request"} \subseteq Sems
  BY DEF Queues, Sems
<1> USE DEF TypeOK, AdmitInv
<1>2. UNCHANGED <<con, lts>> /\ Announced' = Announced /\ TakenByLts' = TakenByLts
  BY DEF Io, IoWait, IoPopSuspended, IoPopBlocked, IoCurrent, IoBurst, IoReady, IoInterrupt,
         IoSignal, IoFindSuspended, IoPushSuspended, IoSignalSuspended, IoReset, IoStep,
         Announcing, Announced, TakenByLts
<1>3. CASE IoPushSuspended
  <2>1. /\ io.pc = "sus_push" /\ io'.pc = "sus_signal" /\ io.pcb \in Procs
        /\ q'["new"] = q["new"] /\ q'["ready_sus"] = Append(q["ready_sus"], io.pcb)
        /\ UNCHANGED sem
    BY <1>1, <1>3 DEF IoPushSuspended, IoStep, Push
  <2>2. /\ NewLen' = NewLen /\ SusLen' = SusLen + 1 /\ Requests' = Requests
        /\ OwedByIo = 0 /\ OwedByIo' = 1
    BY <2>1, AdmitTermTypes, PushQueue DEF NewLen, SusLen, Requests, OwedByIo, One
  <2>3. AdmitFindsProcess'
    BY <1>2, <2>1 DEF AdmitFindsProcess
  <2>4. QED
    BY <1>2, <2>2, <2>3, AdmitSum, AdmitSumNext, AdmitTermTypes
<1>4. CASE IoSignalSuspended
  <2>1. /\ io.pc = "sus_signal" /\ io'.pc = "reset" /\ q' = q
        /\ sem'["req_admit"] = sem["req_admit"] + 1
    BY <1>1, <1>4 DEF IoSignalSuspended, IoStep, Signal
  <2>2. /\ NewLen' = NewLen /\ SusLen' = SusLen /\ Requests' = Requests + 1
        /\ OwedByIo = 1 /\ OwedByIo' = 0
    BY <2>1 DEF NewLen, SusLen, Requests, OwedByIo, One
  <2>3. AdmitFindsProcess'
    BY <1>2, <2>1 DEF AdmitFindsProcess
  <2>4. QED
    BY <1>2, <2>2, <2>3, AdmitSum, AdmitSumNext, AdmitTermTypes
<1>5. CASE /\ q'["new"] = q["new"] /\ q'["ready_sus"] = q["ready_sus"]
           /\ sem'["req_admit"] = sem["req_admit"]
           /\ io.pc # "sus_signal" /\ io'.pc # "sus_signal"
  BY <1>2, <1>5, AdmitFrame DEF LtsHasToken
<1>6. CASE IoWait
  BY <1>1, <1>5, <1>6 DEF IoWait, IoStep, Wait
<1>7. CASE IoPopSuspended
  BY <1>1, <1>5, <1>7, SMTT(30) DEF IoPopSuspended, IoStep, Pop
<1>8. CASE IoPopBlocked
  BY <1>1, <1>5, <1>8, SMTT(30) DEF IoPopBlocked, IoStep, Pop
<1>9. CASE IoCurrent
  BY <1>1, <1>5, <1>9 DEF IoCurrent, IoStep
<1>10. CASE IoBurst
  BY <1>1, <1>5, <1>10 DEF IoBurst, IoStep
<1>11. CASE IoReady
  BY <1>1, <1>5, <1>11 DEF IoReady, IoStep, Push
<1>12. CASE IoInterrupt
  BY <1>1, <1>5, <1>12 DEF IoInterrupt, IoStep
<1>13. CASE IoSignal
  BY <1>1, <1>5, <1>13 DEF IoSignal, IoStep, Signal
<1>14. CASE IoFindSuspended
  BY <1>1, <1>5, <1>14 DEF IoFindSuspended, IoStep, RemoveById
<1>15. CASE IoReset
  BY <1>1, <1>5, <1>15 DEF IoReset, IoStep
<1>16. QED
  BY <1>3, <1>4, <1>6, <1>7, <1>8, <1>9, <1>10, <1>11, <1>12, <1>13, <1>14, <1>15
  DEF Io

\* A tracker touches no term of the sum.
LEMMA TrackerAdmit ==
  ASSUME AdmitInv, NEW p \in Procs, NEW k \in Blocks, Tracker(p, k)
  PROVE  AdmitTokens' /\ AdmitFindsProcess'
<1>1. /\ {"new", "ready_sus", "blocked", "blocked_sus"} \subseteq Queues
      /\ {"req_admit", "dom"} \subseteq Sems
  BY DEF Queues, Sems
<1>2. UNCHANGED <<con, lts, io>>
  BY DEF Tracker, TrackStart, TrackTime, TrackCurrentIo, TrackRemove, SuspendReleaseSlot, SuspendMark,
         SuspendPush, SuspendSwap, TrkStep
<1>3. /\ q'["new"] = q["new"] /\ q'["ready_sus"] = q["ready_sus"]
      /\ sem'["req_admit"] = sem["req_admit"]
  BY <1>1
  DEF AdmitInv, TypeOK, Tracker, TrackStart, TrackTime, TrackCurrentIo, TrackRemove, SuspendReleaseSlot,
      SuspendMark, SuspendPush, SuspendSwap, Push, Signal, RemoveById
<1>4. QED
  BY <1>2, <1>3, AdmitFrame DEF LtsHasToken

\* Every request LTS takes is backed by a PCB, for any number of processes,
\* with and without suspension.
THEOREM AdmitInvariant == Spec => []AdmitInv
<1>1. Init => AdmitTokens /\ AdmitFindsProcess
  <2> SUFFICES ASSUME Init PROVE AdmitTokens /\ AdmitFindsProcess
    OBVIOUS
  <2>1. Announcing = {}
    BY DEF Init, Announcing
  <2>2. Cardinality(Announcing) = 0
    BY <2>1, FS_EmptySet
  <2>3. QED
    BY <2>2 DEF Init, AdmitTokens, AdmitFindsProcess, TakenByLts, OwedByIo, One, Queues, Sems
<1>2. AdmitInv /\ [Next]_vars => AdmitTokens' /\ AdmitFindsProcess'
  <2> SUFFICES ASSUME AdmitInv, [Next]_vars PROVE AdmitTokens' /\ AdmitFindsProcess'
    OBVIOUS
  <2>1. CASE UNCHANGED <<q, sem, con, lts, io>>
    BY <2>1, AdmitFrame DEF LtsHasToken
  <2>2. CASE \E m \in Connections : Connect(m)
    BY <2>1, <2>2 DEF Connect
  <2>3. CASE Cpu \/ CpuLosesInt
    BY <2>1, <2>3 DEF Cpu, CpuIo, CpuExit, CpuInterrupted, CpuLosesInt, CpuGivesBack
  <2>4. CASE UNCHANGED vars
    BY <2>1, <2>4 DEF vars
  <2>5. QED
    BY <2>2, <2>3, <2>4, DispatcherAdmit, LtsAdmits, StsAdmit, IoAdmit, TrackerAdmit DEF Next
<1>3. QED
  BY <1>1, <1>2, TypeCorrect, PTL DEF Spec, AdmitInv

\* The PCBs that wait for LTS are as many as the requests of admission.
THEOREM AdmitTokensHold == Spec => []AdmitTokens
BY AdmitInvariant, PTL DEF AdmitInv

\* admit never pops an empty NEW queue, so it never dereferences NULL.
THEOREM AdmitNeverNull == Spec => []AdmitFindsProcess
BY AdmitInvariant, PTL DEF AdmitInv
-----------------------------------------------------------------------------
(* No lost wakeup of STS.                                                   *)

\* The terms of NoLostWakeup, by name.
ReadyLen == Len(q["ready"])
Wakeups == sem["execute"]

\* NoLostWakeup as a sum of named terms.
LEMMA WakeSum ==
  ASSUME NoLostWakeup
  PROVE  ReadyLen <= Wakeups + PendingLts + PendingIo + PendingSts
BY Zenon DEF NoLostWakeup, ReadyLen, Wakeups

\* The same in the next state.
LEMMA WakeSumNext ==
  ASSUME ReadyLen' <= Wakeups' + PendingLts' + PendingIo' + PendingSts'
  PROVE  NoLostWakeup'
BY Zenon DEF NoLostWakeup, ReadyLen, Wakeups

\* The terms of the sum are natural numbers.
LEMMA WakeTermTypes ==
  ASSUME TypeOK
  PROVE  /\ q["ready"] \in Seq(Procs)
         /\ ReadyLen \in Nat /\ Wakeups \in Nat
         /\ PendingLts \in Nat /\ PendingIo \in Nat /\ PendingSts \in Nat
<1>1. q["ready"] \in Seq(Procs) /\ sem["execute"] \in Nat
  BY DEF TypeOK, Queues, Sems
<1>2. QED
  BY <1>1 DEF ReadyLen, Wakeups, PendingLts, PendingIo, PendingSts, One

\* The terms of the sum and their next values are integers.
LEMMA WakeTermInts ==
  ASSUME TypeOK
  PROVE  /\ ReadyLen \in Int /\ Wakeups \in Int
         /\ PendingLts \in Int /\ PendingIo \in Int /\ PendingSts \in Int
         /\ 0 <= Wakeups /\ 0 <= PendingLts /\ 0 <= PendingIo /\ 0 <= PendingSts
BY WakeTermTypes

\* Steps that leave READY and the tokens alone, and no thread gives up.
LEMMA WakeFrame ==
  ASSUME TypeOK, NoLostWakeup, q'["ready"] = q["ready"], sem'["execute"] = sem["execute"],
         lts'.pc = "signal" <=> lts.pc = "signal",
         io'.pc \in {"interrupt", "signal"} <=> io.pc \in {"interrupt", "signal"},
         sts'.pc \in {"sort", "pop", "signal"} <=> sts.pc \in {"sort", "pop", "signal"}
  PROVE  NoLostWakeup'
<1>1. ReadyLen' = ReadyLen /\ Wakeups' = Wakeups
  BY DEF ReadyLen, Wakeups
<1>2. PendingLts' = PendingLts /\ PendingIo' = PendingIo /\ PendingSts' = PendingSts
  BY DEF PendingLts, PendingIo, PendingSts, One
<1>3. ReadyLen' <= Wakeups' + PendingLts' + PendingIo' + PendingSts'
  BY <1>1, <1>2, WakeSum
<1>4. QED
  BY <1>3, WakeSumNext

\* The ways a step may move PCBs and tokens: each keeps READY covered.
LEMMA WakeMoves ==
  ASSUME TypeOK, NoLostWakeup,
         \/ /\ ReadyLen' = ReadyLen + 1 /\ Wakeups' = Wakeups /\ PendingIo' = PendingIo
            /\ PendingLts' = PendingLts + 1 /\ PendingSts' = PendingSts
         \/ /\ ReadyLen' = ReadyLen + 1 /\ Wakeups' = Wakeups /\ PendingIo' = PendingIo + 1
            /\ PendingLts' = PendingLts /\ PendingSts' = PendingSts
         \/ /\ ReadyLen' = ReadyLen + 1 /\ Wakeups' = Wakeups /\ PendingIo' = PendingIo
            /\ PendingLts' = PendingLts /\ PendingSts' = PendingSts + 1
         \/ /\ ReadyLen' = ReadyLen - 1 /\ Wakeups' = Wakeups /\ PendingIo' = PendingIo
            /\ PendingLts' = PendingLts /\ PendingSts' = PendingSts - 1
         \/ /\ ReadyLen' = ReadyLen /\ Wakeups' = Wakeups + 1 /\ PendingIo' = PendingIo
            /\ PendingLts' = PendingLts - 1 /\ PendingSts' = PendingSts
         \/ /\ ReadyLen' = ReadyLen /\ Wakeups' = Wakeups + 1 /\ PendingIo' = PendingIo - 1
            /\ PendingLts' = PendingLts /\ PendingSts' = PendingSts
         \/ /\ ReadyLen' = ReadyLen /\ Wakeups' = Wakeups + 1 /\ PendingIo' = PendingIo
            /\ PendingLts' = PendingLts /\ PendingSts' = PendingSts - 1
         \/ /\ ReadyLen' = ReadyLen /\ Wakeups' = Wakeups - 1 /\ PendingIo' = PendingIo
            /\ PendingLts' = PendingLts /\ PendingSts' = PendingSts + 1
         \/ /\ ReadyLen' = ReadyLen /\ Wakeups' = Wakeups /\ PendingIo' = PendingIo
            /\ PendingLts' = PendingLts + 1 /\ PendingSts' = PendingSts
         \/ /\ ReadyLen' = ReadyLen /\ Wakeups' = Wakeups /\ PendingIo' = PendingIo
            /\ PendingLts' = PendingLts /\ PendingSts' = PendingSts + 1
  PROVE  NoLostWakeup'
<1>1. ReadyLen' <= Wakeups' + PendingLts' + PendingIo' + PendingSts'
  BY WakeSum, WakeTermInts
<1>2. QED
  BY <1>1, WakeSumNext
\* The long term scheduler pushes to READY and then signals execute.
LEMMA LtsWakes ==
  ASSUME TypeOK, NoLostWakeup, Lts
  PROVE  NoLostWakeup'
<1>1. /\ {"new", "ready", "ready_sus"} \subseteq Queues
      /\ {"req_admit", "dom", "execute"} \subseteq Sems
  BY DEF Queues, Sems
<1>2. sts' = sts /\ io' = io
  BY DEF Lts, LtsWaitRequest, LtsWaitSlot, LtsResume, LtsPopNew, LtsAdmit, LtsPush,
         LtsSignal, LtsStep
<1>3. PendingIo' = PendingIo /\ PendingSts' = PendingSts
  BY <1>2 DEF PendingIo, PendingSts
<1>4. CASE LtsWaitRequest
  BY <1>1, <1>2, <1>4, WakeFrame DEF LtsWaitRequest, LtsStep, Wait, TypeOK
<1>5. CASE LtsWaitSlot
  BY <1>1, <1>2, <1>5, WakeFrame DEF LtsWaitSlot, LtsStep, Wait, TypeOK
<1>6. CASE LtsResume
  <2>1. q'["ready"] = q["ready"] /\ sem' = sem
    BY <1>1, <1>6 DEF LtsResume, Pop, TypeOK
  <2>2. lts.pc # "signal" /\ lts'.pc # "signal"
    BY <1>6 DEF LtsResume, LtsStep
  <2>3. QED
    BY <1>2, <2>1, <2>2, WakeFrame
<1>7. CASE LtsPopNew
  <2>1. lts.pc = "new" /\ q'["ready"] = q["ready"] /\ sem' = sem
    BY <1>1, <1>7 DEF LtsPopNew, LtsStep, Pop, TypeOK
  <2>2. CASE lts'.pc # "signal"
    BY <1>2, <2>1, <2>2, WakeFrame
  <2>3. CASE lts'.pc = "signal"
    <3>1. PendingLts = 0 /\ PendingLts' = 1 /\ ReadyLen' = ReadyLen /\ Wakeups' = Wakeups
      BY <2>1, <2>3 DEF PendingLts, One, ReadyLen, Wakeups
    <3>2. QED
      BY <1>3, <3>1, WakeMoves
  <2>4. QED
    BY <2>2, <2>3
<1>8. CASE LtsAdmit
  BY <1>2, <1>8, WakeFrame DEF LtsAdmit, LtsStep
<1>9. CASE LtsPush
  <2>1. /\ lts.pc = "push" /\ lts'.pc = "signal" /\ lts.pcb \in Procs
        /\ q'["ready"] = Append(q["ready"], lts.pcb) /\ sem' = sem
    BY <1>1, <1>9, ConstantsAssumption DEF LtsPush, LtsStep, Push, TypeOK
  <2>2. PendingLts = 0 /\ PendingLts' = 1 /\ ReadyLen' = ReadyLen + 1 /\ Wakeups' = Wakeups
    BY <2>1, WakeTermTypes, PushQueue DEF PendingLts, One, ReadyLen, Wakeups
  <2>3. QED
    BY <1>3, <2>2, WakeMoves
<1>10. CASE LtsSignal
  <2>1. /\ lts.pc = "signal" /\ lts'.pc = "wait_req"
        /\ sem'["execute"] = sem["execute"] + 1 /\ q' = q
    BY <1>1, <1>10 DEF LtsSignal, LtsStep, Signal, TypeOK
  <2>2. PendingLts = 1 /\ PendingLts' = 0 /\ ReadyLen' = ReadyLen /\ Wakeups' = Wakeups + 1
    BY <2>1 DEF PendingLts, One, ReadyLen, Wakeups
  <2>3. QED
    BY <1>3, <2>2, WakeMoves
<1>11. QED
  BY <1>4, <1>5, <1>6, <1>7, <1>8, <1>9, <1>10 DEF Lts

\* The short term scheduler pops READY for each token, or had none to pop.
LEMMA StsWakes ==
  ASSUME TypeOK, NoLostWakeup, Sts
  PROVE  NoLostWakeup'
<1>1. /\ {"ready", "blocked"} \subseteq Queues
      /\ {"dom", "execute", "io_request"} \subseteq Sems
  BY DEF Queues, Sems
<1>2. lts' = lts /\ io' = io
  BY DEF Sts, StsWait, StsSort, StsPop, StsDispatch, StsSend, StsReceive, StsSwitch, StsBlock,
         StsNotify, StsRequestIo, StsPreempt, StsFree, StsReleaseSlot, StsSignal, StsStep
<1>3. PendingIo' = PendingIo /\ PendingLts' = PendingLts
  BY <1>2 DEF PendingIo, PendingLts
<1>4. CASE StsWait
  <2>1. /\ sts.pc = "wait" /\ sts'.pc \in {"pop", "sort"}
        /\ sem'["execute"] = sem["execute"] - 1 /\ q' = q
    BY <1>1, <1>4 DEF StsWait, StsStep, Wait, TypeOK
  <2>2. PendingSts = 0 /\ PendingSts' = 1 /\ ReadyLen' = ReadyLen /\ Wakeups' = Wakeups - 1
    BY <2>1 DEF PendingSts, One, ReadyLen, Wakeups
  <2>3. QED
    BY <1>3, <2>2, WakeMoves
<1>5. CASE StsSort
  <2>1. PICK s \in SortedByEstimation : q' = [q EXCEPT !["ready"] = s]
    BY <1>5 DEF StsSort
  <2>2. q["ready"] \in Seq(Procs) /\ Len(s) = Len(q["ready"])
    BY <2>1, SortQueue, WakeTermTypes
  <2>3. q'["ready"] = s
    BY <1>1, <2>1 DEF TypeOK
  <2>4. sts.pc = "sort" /\ sts'.pc = "pop" /\ sem' = sem
    BY <1>5 DEF StsSort, StsStep
  <2>5. ReadyLen' = ReadyLen /\ Wakeups' = Wakeups /\ PendingSts' = PendingSts
    BY <2>2, <2>3, <2>4 DEF ReadyLen, Wakeups, PendingSts, One
  <2>6. ReadyLen' <= Wakeups' + PendingLts' + PendingIo' + PendingSts'
    BY <1>3, <2>5, WakeSum
  <2>7. QED
    BY <2>6, WakeSumNext
<1>6. CASE StsPop
  <2>1. sts.pc = "pop" /\ Wakeups' = Wakeups
    BY <1>6 DEF StsPop, StsStep, Wakeups
  <2>2. CASE q["ready"] = <<>>
    <3>1. q' = q /\ sts' = [pc |-> "wait", pcb |-> NoPcb]
      BY <1>6, <2>2 DEF StsPop, StsStep
    <3>2. ReadyLen' = 0 /\ PendingSts' = 0
      BY <2>2, <3>1 DEF ReadyLen, PendingSts, One
    <3>3. ReadyLen' <= Wakeups' + PendingLts' + PendingIo' + PendingSts'
      BY <1>3, <2>1, <3>2, WakeTermInts
    <3>4. QED
      BY <3>3, WakeSumNext
  <2>3. CASE q["ready"] # <<>>
    <3>1. /\ sts' = [pc |-> "dispatch", pcb |-> Head(q["ready"])]
          /\ q' = [q EXCEPT !["ready"] = Tail(@)]
      BY <1>6, <2>3 DEF StsPop, StsStep, Pop
    <3>2. sts'.pc = "dispatch" /\ q'["ready"] = Tail(q["ready"])
      BY <1>1, <3>1 DEF TypeOK
    <3>3. ReadyLen' = ReadyLen - 1 /\ PendingSts = 1 /\ PendingSts' = 0
      BY <2>1, <2>3, <3>2, WakeTermTypes, PopQueue DEF ReadyLen, PendingSts, One
    <3>4. QED
      BY <1>3, <2>1, <3>3, WakeMoves
  <2>4. QED
    BY <2>2, <2>3
<1>7. CASE StsDispatch
  BY <1>2, <1>7, WakeFrame DEF StsDispatch, StsStep
<1>8. CASE StsSend
  BY <1>2, <1>8, WakeFrame DEF StsSend, StsStep
<1>9. CASE StsReceive
  BY <1>2, <1>9, WakeFrame DEF StsReceive, StsStep
<1>10. CASE StsSwitch
  BY <1>2, <1>10, WakeFrame DEF StsSwitch, StsStep
<1>11. CASE StsBlock
  BY <1>1, <1>2, <1>11, WakeFrame DEF StsBlock, StsStep, Push, TypeOK
<1>12. CASE StsNotify
  BY <1>2, <1>12, WakeFrame DEF StsNotify, StsStep
<1>13. CASE StsRequestIo
  <2>1. /\ sts.pc = "request" /\ sts'.pc = "signal"
        /\ sem'["execute"] = sem["execute"] /\ q' = q
    BY <1>1, <1>13 DEF StsRequestIo, StsStep, Signal, TypeOK
  <2>2. PendingSts = 0 /\ PendingSts' = 1 /\ ReadyLen' = ReadyLen /\ Wakeups' = Wakeups
    BY <2>1 DEF PendingSts, One, ReadyLen, Wakeups
  <2>3. QED
    BY <1>3, <2>2, WakeMoves
<1>14. CASE StsPreempt
  <2>1. sts.pcb \in Procs
    BY <1>14, StsHasPcb DEF StsPreempt
  <2>2. /\ sts.pc = "preempt" /\ sts'.pc = "signal"
        /\ q'["ready"] = Append(q["ready"], sts.pcb) /\ sem' = sem
    BY <1>1, <1>14 DEF StsPreempt, StsStep, Push, TypeOK
  <2>3. PendingSts = 0 /\ PendingSts' = 1 /\ ReadyLen' = ReadyLen + 1 /\ Wakeups' = Wakeups
    BY <2>1, <2>2, WakeTermTypes, PushQueue DEF PendingSts, One, ReadyLen, Wakeups
  <2>4. QED
    BY <1>3, <2>3, WakeMoves
<1>15. CASE StsFree
  BY <1>2, <1>15, WakeFrame DEF StsFree, StsStep
<1>16. CASE StsReleaseSlot
  <2>1. sts.pc \in {"slot", "slot_fail"} /\ sem'["execute"] = sem["execute"] /\ q' = q
    BY <1>1, <1>16 DEF StsReleaseSlot, StsStep, Signal, TypeOK
  <2>2. CASE sts'.pc = "wait"
    BY <1>2, <2>1, <2>2, WakeFrame
  <2>3. CASE sts'.pc = "signal"
    <3>1. PendingSts = 0 /\ PendingSts' = 1 /\ ReadyLen' = ReadyLen /\ Wakeups' = Wakeups
      BY <2>1, <2>3 DEF PendingSts, One, ReadyLen, Wakeups
    <3>2. QED
      BY <1>3, <3>1, WakeMoves
  <2>4. QED
    BY <1>16, <2>2, <2>3 DEF StsReleaseSlot, StsStep
<1>17. CASE StsSignal
  <2>1. /\ sts.pc = "signal" /\ sts'.pc = "wait"
        /\ sem'["execute"] = sem["execute"] + 1 /\ q' = q
    BY <1>1, <1>17 DEF StsSignal, StsStep, Signal, TypeOK
  <2>2. PendingSts = 1 /\ PendingSts' = 0 /\ ReadyLen' = ReadyLen /\ Wakeups' = Wakeups + 1
    BY <2>1 DEF PendingSts, One, ReadyLen, Wakeups
  <2>3. QED
    BY <1>3, <2>2, WakeMoves
<1>18. QED
  BY <1>4, <1>5, <1>6, <1>7, <1>8, <1>9, <1>10, <1>11, <1>12, <1>13, <1>14, <1>15, <1>16, <1>17
  DEF Sts

\* event pushes to READY and then signals execute.
LEMMA IoWakes ==
  ASSUME TypeOK, NoLostWakeup, Io
  PROVE  NoLostWakeup'
<1>1. /\ {"ready", "ready_sus", "blocked", "blocked_sus"} \subseteq Queues
      /\ {"req_admit", "execute", "io_request"} \subseteq Sems
  BY DEF Queues, Sems
<1>2. lts' = lts /\ sts' = sts
  BY DEF Io, IoWait, IoPopSuspended, IoPopBlocked, IoCurrent, IoBurst, IoReady, IoInterrupt,
         IoSignal, IoFindSuspended, IoPushSuspended, IoSignalSuspended, IoReset, IoStep
<1>3. PendingLts' = PendingLts /\ PendingSts' = PendingSts
  BY <1>2 DEF PendingLts, PendingSts
<1>4. CASE IoWait
  BY <1>1, <1>2, <1>4, WakeFrame DEF IoWait, IoStep, Wait, TypeOK
<1>5. CASE IoPopSuspended
  <2>1. q'["ready"] = q["ready"] /\ sem' = sem
    BY <1>1, <1>5 DEF IoPopSuspended, Pop, TypeOK
  <2>2. io.pc \notin {"interrupt", "signal"} /\ io'.pc \notin {"interrupt", "signal"}
    BY <1>5 DEF IoPopSuspended, IoStep
  <2>3. QED
    BY <1>2, <2>1, <2>2, WakeFrame
<1>6. CASE IoPopBlocked
  <2>1. q'["ready"] = q["ready"] /\ sem' = sem
    BY <1>1, <1>6 DEF IoPopBlocked, Pop, TypeOK
  <2>2. io.pc \notin {"interrupt", "signal"} /\ io'.pc \notin {"interrupt", "signal"}
    BY <1>6 DEF IoPopBlocked, IoStep
  <2>3. QED
    BY <1>2, <2>1, <2>2, WakeFrame
<1>7. CASE IoCurrent
  BY <1>2, <1>7, WakeFrame DEF IoCurrent, IoStep
<1>8. CASE IoBurst
  BY <1>2, <1>8, WakeFrame DEF IoBurst, IoStep
<1>9. CASE IoReady
  <2>1. io.pcb \in Procs
    BY <1>9, IoHasPcb DEF IoReady
  <2>2. /\ io.pc = "ready" /\ io'.pc = "interrupt"
        /\ q'["ready"] = Append(q["ready"], io.pcb) /\ sem' = sem
    BY <1>1, <1>9 DEF IoReady, IoStep, Push, TypeOK
  <2>3. PendingIo = 0 /\ PendingIo' = 1 /\ ReadyLen' = ReadyLen + 1 /\ Wakeups' = Wakeups
    BY <2>1, <2>2, WakeTermTypes, PushQueue DEF PendingIo, One, ReadyLen, Wakeups
  <2>4. QED
    BY <1>3, <2>3, WakeMoves
<1>10. CASE IoInterrupt
  BY <1>2, <1>10, WakeFrame DEF IoInterrupt, IoStep
<1>11. CASE IoSignal
  <2>1. /\ io.pc = "signal" /\ io'.pc = "reset"
        /\ sem'["execute"] = sem["execute"] + 1 /\ q' = q
    BY <1>1, <1>11 DEF IoSignal, IoStep, Signal, TypeOK
  <2>2. PendingIo = 1 /\ PendingIo' = 0 /\ ReadyLen' = ReadyLen /\ Wakeups' = Wakeups + 1
    BY <2>1 DEF PendingIo, One, ReadyLen, Wakeups
  <2>3. QED
    BY <1>3, <2>2, WakeMoves
<1>12. CASE IoFindSuspended
  BY <1>1, <1>2, <1>12, WakeFrame DEF IoFindSuspended, IoStep, RemoveById, TypeOK
<1>13. CASE IoPushSuspended
  BY <1>1, <1>2, <1>13, WakeFrame DEF IoPushSuspended, IoStep, Push, TypeOK
<1>14. CASE IoSignalSuspended
  BY <1>1, <1>2, <1>14, WakeFrame DEF IoSignalSuspended, IoStep, Signal, TypeOK
<1>15. CASE IoReset
  BY <1>2, <1>15, WakeFrame DEF IoReset, IoStep
<1>16. QED
  BY <1>4, <1>5, <1>6, <1>7, <1>8, <1>9, <1>10, <1>11, <1>12, <1>13, <1>14, <1>15 DEF Io

\* Dispatchers, trackers, the CPU and the connections leave READY alone.
LEMMA OthersWake ==
  ASSUME TypeOK, NoLostWakeup,
         \/ \E p \in Procs : Dispatcher(p)
         \/ \E p \in Procs, k \in Blocks : Tracker(p, k)
  PROVE  NoLostWakeup'
<1>1. /\ {"new", "ready", "blocked", "blocked_sus"} \subseteq Queues
      /\ {"req_admit", "dom", "execute"} \subseteq Sems
  BY DEF Queues, Sems
<1>2. lts' = lts /\ sts' = sts /\ io' = io
  <2>1. CASE \E p \in Procs : Dispatcher(p)
    BY <2>1 DEF Dispatcher, DispatchNew, DispatchPush, DispatchSignal, DispatchStep
  <2>2. CASE \E p \in Procs, k \in Blocks : Tracker(p, k)
    BY <2>2
    DEF Tracker, TrackStart, TrackTime, TrackCurrentIo, TrackRemove, SuspendReleaseSlot,
        SuspendMark, SuspendPush, SuspendSwap, TrkStep
  <2>3. QED
    BY <2>1, <2>2
<1>3. q'["ready"] = q["ready"] /\ sem'["execute"] = sem["execute"]
  BY <1>1
  DEF TypeOK, Dispatcher, DispatchNew, DispatchPush, DispatchSignal, Tracker, TrackStart, TrackTime, TrackCurrentIo,
      TrackRemove, SuspendReleaseSlot, SuspendMark, SuspendPush, SuspendSwap,
      Push, Signal, RemoveById
<1>4. QED
  BY <1>2, <1>3, WakeFrame

\* STS never sleeps on a PCB in READY that nobody is going to announce: with
\* any number of processes, with suspensions, preemptions and failed sends.
THEOREM NoLostWakeupHolds == Spec => []NoLostWakeup
<1>1. Init => NoLostWakeup
  BY DEF Init, NoLostWakeup, PendingLts, PendingIo, PendingSts, One, Queues, Sems
<1>2. TypeOK /\ NoLostWakeup /\ [Next]_vars => NoLostWakeup'
  <2> SUFFICES ASSUME TypeOK, NoLostWakeup, [Next]_vars PROVE NoLostWakeup'
    OBVIOUS
  <2>1. CASE UNCHANGED <<q, sem, lts, sts, io>>
    BY <2>1, WakeFrame
  <2>2. CASE \E m \in Connections : Connect(m)
    BY <2>1, <2>2 DEF Connect
  <2>3. CASE Cpu \/ CpuLosesInt
    BY <2>1, <2>3 DEF Cpu, CpuIo, CpuExit, CpuInterrupted, CpuLosesInt, CpuGivesBack
  <2>4. CASE UNCHANGED vars
    BY <2>1, <2>4 DEF vars
  <2>5. QED
    BY <2>2, <2>3, <2>4, LtsWakes, StsWakes, IoWakes, OthersWake DEF Next
<1>3. QED
  BY <1>1, <1>2, TypeCorrect, PTL DEF Spec
-----------------------------------------------------------------------------
(***************************************************************************)
(* Where the PCB of each process is.  Proofs about KernelScheduler for     *)
(* every set of processes, degree of multiprogramming, planning algorithm  *)
(* and number of I/O blocks, in the executions in which no blocked process *)
(* waits for so long that it is suspended: no PCB is in two places or used *)
(* after it was destroyed, and the slots of the multiprogramming degree    *)
(* and the I/O requests match the processes that they stand for.           *)
(***************************************************************************)

\* The elements of a queue, and a queue that has no element twice.
In(s, p) == \E i \in 1 .. Len(s) : s[i] = p
Once(s)  == \A i, j \in 1 .. Len(s) : s[i] = s[j] => i = j

\* The scheduler threads that have a PCB to themselves.
LtsHas(t, p) == t.pcb = p /\ t.pc \in {"admit", "push"}
StsHas(t, p) == t.pcb = p /\ t.pc \in {"dispatch", "send", "recv", "switch", "block",
                                       "preempt", "free", "slot", "slot_fail"}
IoHas(t, p)  == t.pcb = p /\ t.pc \in {"current", "burst", "ready"}

AtMostOne(a, b, c, d, e, f) ==
  /\ a => ~b /\ ~c /\ ~d /\ ~e /\ ~f
  /\ b => ~c /\ ~d /\ ~e /\ ~f
  /\ c => ~d /\ ~e /\ ~f
  /\ d => ~e /\ ~f
  /\ e => ~f

\* A PCB is in one place at most.
Placed(qq, l, s, i, p) ==
  AtMostOne(In(qq["new"], p), LtsHas(l, p), In(qq["ready"], p), StsHas(s, p),
            In(qq["blocked"], p), IoHas(i, p))

\* Nobody has the PCB of a process whose instructions have not arrived yet.
Submitted(qq, l, s, i, c, p) ==
  \/ In(qq["new"], p) \/ LtsHas(l, p) \/ In(qq["ready"], p) \/ StsHas(s, p)
  \/ In(qq["blocked"], p) \/ IoHas(i, p)
  => c[p] \in {"pushed", "done"}

\* What a PCB is like where it waits, or in the hands of LTS or the I/O
\* scheduler.
WaitingOK(qq, l, i, st, ob, p) ==
  /\ In(qq["new"], p) => ob[p] = "heap" /\ st[p] = "NONE"
  /\ LtsHas(l, p) => ob[p] = "heap" /\ st[p] = (IF l.pc = "admit" THEN "NONE" ELSE "READY")
  /\ In(qq["ready"], p) => ob[p] = "heap" /\ st[p] = "READY"
  /\ In(qq["blocked"], p) => ob[p] = "heap" /\ st[p] = "BLOCKED"
  /\ IoHas(i, p) => ob[p] = "heap" /\ st[p] = "BLOCKED"

Returned == {"BLOCKED", "READY", "TERMINATED"}

\* What the PCB in the hands of STS is like at each place.
StsHandOK(s, c, st, ob) ==
  /\ s.pc = "dispatch" => ob[s.pcb] = "heap" /\ st[s.pcb] = "READY"
  /\ s.pc = "send" => ob[s.pcb] = "heap" /\ st[s.pcb] = "EXECUTING"
  /\ s.pc = "recv" => /\ ob[s.pcb] = "cpu" /\ c.pc # "idle"
                      /\ c.pc = "run" => st[s.pcb] = "EXECUTING"
                      /\ c.pc = "back" => st[s.pcb] \in Returned
  /\ s.pc = "switch" => ob[s.pcb] = "heap" /\ st[s.pcb] \in Returned
  /\ s.pc = "block" => ob[s.pcb] = "heap" /\ st[s.pcb] = "BLOCKED"
  /\ s.pc = "preempt" => ob[s.pcb] = "heap" /\ st[s.pcb] = "READY"
  /\ s.pc = "free" => ob[s.pcb] = "heap" /\ st[s.pcb] = "TERMINATED"
  /\ s.pc \in {"slot", "slot_fail"} => ob[s.pcb] = "freed"

\* A process has a status from its admission on.
StartOK(c, st, ob, p) ==
  /\ c[p] \in {"idle", "created"} => st[p] = "NONE"
  /\ c[p] = "created" => ob[p] = "heap"
  /\ ob[p] = "none" => st[p] = "NONE"

\* No tracker gets past its sleep, so nothing is suspended.
NothingSuspended ==
  /\ q["ready_sus"] = <<>> /\ q["blocked_sus"] = <<>>
  /\ \A p \in Procs, k \in Blocks : trk[p][k] \in {"off", "start"}
  /\ io.pc \notin {"sus_find", "sus_push", "sus_signal"}

\* A thread that has no PCB in hand keeps no pointer to one.
HandsOK ==
  /\ lts.pc \in {"wait_req", "wait_dom", "resume", "new"} => lts.pcb = NoPcb
  /\ sts.pc \in {"wait", "sort", "pop"} => sts.pcb = NoPcb
  /\ io.pc \in {"wait", "sus", "blk"} => io.pcb = NoPcb

QueuesOK == Once(q["new"]) /\ Once(q["ready"]) /\ Once(q["blocked"])

ProcsOK ==
  \A p \in Procs : /\ Placed(q, lts, sts, io, p)
                   /\ Submitted(q, lts, sts, io, con, p)
                   /\ WaitingOK(q, lts, io, status, obj, p)
                   /\ StartOK(con, status, obj, p)

\* The PCBs in BLOCKED are as many as the I/O requests signalled, about to be
\* signalled, or taken by the I/O scheduler.
IoTokens ==
  Len(q["blocked"]) = sem["io_request"] + One(io.pc \in {"sus", "blk"})
                                        + One(sts.pc \in {"notify", "request"})

\* Memory has been told of a process that was admitted and has not ended.
KnownOK(qq, l, s, i, m, p) ==
  \/ LtsHas(l, p) \/ In(qq["ready"], p) \/ In(qq["blocked"], p) \/ IoHas(i, p)
  \/ StsHas(s, p) /\ s.pc \notin {"slot", "slot_fail"}
  => m[p] = "init"

\* This takes the connection to memory: it is there when no process arrives
\* before it is made.
MemoryOK ==
  ~ColdStart => up = Connections /\ \A p \in Procs : KnownOK(q, lts, sts, io, mem, p)

HomesInv ==
  /\ ub = FALSE
  /\ NothingSuspended /\ HandsOK /\ QueuesOK /\ ProcsOK
  /\ StsHandOK(sts, cpu, status, obj)
  /\ IoTokens /\ IoFindsPcb /\ MemoryOK /\ SlotsConserved
-----------------------------------------------------------------------------
(* Queues as sets of PCBs.                                                 *)

\* safe_queue_push adds one element, and keeps the queue free of repetitions
\* when the element is new.
LEMMA PushIn ==
  ASSUME NEW s \in Seq(Procs), NEW x \in Procs
  PROVE  /\ \A p : In(Append(s, x), p) <=> In(s, p) \/ p = x
         /\ Once(s) /\ ~In(s, x) => Once(Append(s, x))
<1>1. /\ Len(s) \in Nat /\ Len(Append(s, x)) = Len(s) + 1
      /\ \A i \in 1 .. Len(s) : Append(s, x)[i] = s[i]
      /\ Append(s, x)[Len(s) + 1] = x
  OBVIOUS
<1> DEFINE t == Append(s, x)
<1>2. /\ Len(s) \in Nat /\ Len(t) = Len(s) + 1 /\ t[Len(s) + 1] = x
      /\ \A i \in 1 .. Len(s) : t[i] = s[i]
  BY <1>1
<1> HIDE DEF t
<1>3. ASSUME NEW p PROVE In(t, p) <=> In(s, p) \/ p = x
  BY <1>2 DEF In
<1>4. ASSUME Once(s), ~In(s, x) PROVE Once(t)
  BY <1>2, <1>4 DEF In, Once
<1>5. QED
  BY <1>3, <1>4 DEF t

\* safe_queue_pop takes out the head, which is not in the rest of a queue
\* without repetitions.
LEMMA PopIn ==
  ASSUME NEW s \in Seq(Procs), s # <<>>, Once(s)
  PROVE  /\ In(s, Head(s)) /\ Once(Tail(s))
         /\ \A p : In(Tail(s), p) => In(s, p) /\ p # Head(s)
<1>1. /\ Len(s) \in Nat /\ Len(s) > 0 /\ Len(Tail(s)) = Len(s) - 1 /\ Head(s) = s[1]
      /\ \A i \in 1 .. Len(s) - 1 : Tail(s)[i] = s[i + 1]
  OBVIOUS
<1> DEFINE t == Tail(s)
           h == Head(s)
<1>2. /\ Len(s) \in Nat /\ Len(s) > 0 /\ Len(t) = Len(s) - 1 /\ h = s[1]
      /\ \A i \in 1 .. Len(s) - 1 : t[i] = s[i + 1]
  BY <1>1
<1> HIDE DEF t, h
<1>3. In(s, h)
  BY <1>2 DEF In
<1>4. Once(t)
  BY <1>2 DEF Once
<1>5. ASSUME NEW p, In(t, p) PROVE In(s, p) /\ p # h
  <2>1. PICK i \in 1 .. Len(s) - 1 : s[i + 1] = p
    BY <1>2, <1>5 DEF In
  <2>2. i + 1 \in 1 .. Len(s) /\ 1 \in 1 .. Len(s) /\ i + 1 # 1
    BY <1>2
  <2>3. QED
    BY <1>2, <2>1, <2>2 DEF In, Once
<1>6. QED
  BY <1>3, <1>4, <1>5 DEF t, h

\* get_next_srt leaves the same PCBs in READY.
LEMMA SortIn ==
  ASSUME q["ready"] \in Seq(Procs), Once(q["ready"]), NEW s \in SortedByEstimation
  PROVE  Once(s) /\ \A p : In(s, p) => In(q["ready"], p)
<1> DEFINE n == Len(q["ready"])
<1>1. PICK f \in [1 .. n -> 1 .. n] :
        /\ \A i, j \in 1 .. n : i # j => f[i] # f[j]
        /\ s = [i \in 1 .. n |-> q["ready"][f[i]]]
  BY DEF SortedByEstimation
<1>2. Len(s) = n /\ n \in Nat
  BY SortQueue
<1>3. \A i \in 1 .. n : s[i] = q["ready"][f[i]] /\ f[i] \in 1 .. n
  BY <1>1
<1>4. ASSUME NEW p, In(s, p) PROVE In(q["ready"], p)
  BY <1>2, <1>3, <1>4 DEF In
<1>5. ASSUME NEW i \in 1 .. Len(s), NEW j \in 1 .. Len(s), s[i] = s[j] PROVE i = j
  <2>1. /\ q["ready"][f[i]] = q["ready"][f[j]]
        /\ f[i] \in 1 .. Len(q["ready"]) /\ f[j] \in 1 .. Len(q["ready"])
    BY <1>2, <1>3, <1>5
  <2>2. f[i] = f[j]
    BY <2>1 DEF Once
  <2>3. QED
    BY <1>1, <1>2, <2>2
<1>6. QED
  BY <1>4, <1>5 DEF Once
-----------------------------------------------------------------------------
(* The slots of the multiprogramming degree.                               *)

\* An admitted process that has not been destroyed.
Runs(st, ob, p) == /\ ob[p] \in {"heap", "cpu"}
                   /\ st[p] \in {"READY", "EXECUTING", "BLOCKED", "TERMINATED"}

\* While nothing is suspended these are the running processes.
LEMMA RunningIs ==
  ASSUME NothingSuspended
  PROVE  /\ Running = {p \in Procs : Runs(status, obj, p)}
         /\ IsFiniteSet(Running) /\ Cardinality(Running) \in Nat
<1>1. Running = {p \in Procs : Runs(status, obj, p)}
  BY DEF NothingSuspended, Running, Runs
<1>2. Running \subseteq Procs /\ IsFiniteSet(Procs)
  BY <1>1, ConstantsAssumption
<1>3. IsFiniteSet(Running)
  BY <1>2, FS_Subset
<1>4. QED
  BY <1>1, <1>3, FS_CardinalityType

\* The same after a step.
LEMMA RunningNext ==
  ASSUME NothingSuspended'
  PROVE  Running' = {p \in Procs : Runs(status', obj', p)}
BY DEF NothingSuspended, Running, Runs

\* A step that admits no process and destroys none.
LEMMA RunningSame ==
  ASSUME NothingSuspended, NothingSuspended',
         \A p \in Procs : Runs(status', obj', p) <=> Runs(status, obj, p)
  PROVE  Cardinality(Running') = Cardinality(Running)
<1>1. Running' = Running
  BY RunningIs, RunningNext
<1>2. QED
  BY <1>1

\* A step that admits process x.
LEMMA RunningMore ==
  ASSUME NothingSuspended, NothingSuspended', NEW x \in Procs,
         ~Runs(status, obj, x), Runs(status', obj', x),
         \A p \in Procs \ {x} : Runs(status', obj', p) <=> Runs(status, obj, p)
  PROVE  Cardinality(Running') = Cardinality(Running) + 1
<1>1. Running' = Running \union {x} /\ x \notin Running
  BY RunningIs, RunningNext
<1>2. IsFiniteSet(Running)
  BY RunningIs
<1>3. Cardinality(Running \union {x}) = Cardinality(Running) + 1
  BY <1>1, <1>2, FS_AddElement
<1>4. QED
  BY <1>1, <1>3

\* A step that destroys process x.
LEMMA RunningLess ==
  ASSUME NothingSuspended, NothingSuspended', NEW x \in Procs,
         Runs(status, obj, x), ~Runs(status', obj', x),
         \A p \in Procs \ {x} : Runs(status', obj', p) <=> Runs(status, obj, p)
  PROVE  Cardinality(Running') = Cardinality(Running) - 1
<1>1. Running' = Running \ {x} /\ x \in Running
  BY RunningIs, RunningNext
<1>2. IsFiniteSet(Running)
  BY RunningIs
<1>3. Cardinality(Running \ {x}) = Cardinality(Running) - 1
  BY <1>1, <1>2, FS_RemoveElement
<1>4. QED
  BY <1>1, <1>3

\* The slots that LTS and STS have in hand.
HeldByLts == One(lts.pc \in {"resume", "new", "admit"})
HeldBySts == One(sts.pc \in {"slot", "slot_fail"})
Free == sem["dom"]
Taken == Cardinality(Running)

\* The terms of SlotsConserved are numbers.
LEMMA SlotsSum ==
  ASSUME TypeOK, NothingSuspended
  PROVE  /\ SlotsConserved <=> Free + Taken + HeldByLts + HeldBySts = Degree
         /\ Free \in Nat /\ Taken \in Nat /\ HeldByLts \in 0 .. 1 /\ HeldBySts \in 0 .. 1
         /\ Degree \in Nat
<1>1. Taken \in Nat
  BY RunningIs DEF Taken
<1>2. Free \in Nat
  BY DEF TypeOK, Sems, Free
<1>3. HeldByLts \in 0 .. 1 /\ HeldBySts \in 0 .. 1
  BY DEF HeldByLts, HeldBySts, One
<1>4. QED
  BY <1>1, <1>2, <1>3, ConstantsAssumption DEF SlotsConserved, Free, Taken, HeldByLts, HeldBySts

\* A step conserves the slots if what it takes from one term it gives to
\* another.
LEMMA SlotsMove ==
  ASSUME TypeOK, NothingSuspended, SlotsConserved,
         Free' + Taken' + HeldByLts' + HeldBySts' = Free + Taken + HeldByLts + HeldBySts
  PROVE  SlotsConserved'
<1>1. Free' + Taken' + HeldByLts' + HeldBySts' = Degree
  BY SlotsSum
<1>2. QED
  BY <1>1 DEF SlotsConserved, Free, Taken, HeldByLts, HeldBySts
-----------------------------------------------------------------------------
(* HomesInv, one lemma per thread.                                         *)

\* The types that the proofs below use.
LEMMA HomesTypes ==
  ASSUME TypeOK
  PROVE  /\ q \in [Queues -> Seq(Procs)]
         /\ {"new", "ready", "blocked", "ready_sus", "blocked_sus"} \subseteq Queues
         /\ \A n \in Queues : q[n] \in Seq(Procs) /\ Len(q[n]) \in Nat
         /\ sem \in [Sems -> Nat] /\ sem["dom"] \in Nat /\ sem["io_request"] \in Nat
         /\ Len(q["blocked"]) \in Nat
         /\ {"dom", "req_admit", "io_request", "execute"} \subseteq Sems
         /\ status \in [Procs -> Status]
         /\ mem \in [Procs -> {"none", "init", "swapped", "freed"}]
         /\ con \in [Procs -> {"idle", "created", "pushed", "done"}]
         /\ obj \in [Procs -> {"none", "heap", "cpu", "freed"}]
         /\ NoPcb \notin Procs
         /\ lts.pc \in {"admit", "push"} => lts.pcb \in Procs
         /\ sts.pc \notin {"wait", "sort", "pop", "signal"} => sts.pcb \in Procs
         /\ io.pc \notin {"wait", "sus", "blk", "reset"} => io.pcb \in Procs
         /\ lts.pc \in LtsPcs /\ sts.pc \in StsPcs /\ io.pc \in IoPcs
         /\ cpu.pc \in {"idle", "run", "back"}
<1>1. /\ q \in [Queues -> Seq(Procs)] /\ sem \in [Sems -> Nat]
      /\ {"new", "ready", "blocked", "ready_sus", "blocked_sus"} \subseteq Queues
      /\ {"dom", "req_admit", "io_request", "execute"} \subseteq Sems
  BY DEF TypeOK, Queues, Sems
<1>2. /\ sem["dom"] \in Nat /\ sem["io_request"] \in Nat
      /\ \A n \in Queues : q[n] \in Seq(Procs) /\ Len(q[n]) \in Nat
  BY <1>1
<1>3. QED
  BY <1>1, <1>2, ConstantsAssumption DEF TypeOK

\* check_interruption sends a message and no more.
LEMMA InterruptionKeepsPc ==
  ASSUME TypeOK, NEW p, CheckInterruption(p)
  PROVE  cpu'.pc = cpu.pc
BY DEF TypeOK, CheckInterruption

\* The long term scheduler.
LEMMA LtsHomes ==
  ASSUME TypeOK, HomesInv, AdmitFindsProcess, Lts
  PROVE  HomesInv'
<1>1. CASE LtsWaitRequest
  <2>1. /\ lts.pc = "wait_req" /\ lts'.pc = "wait_dom" /\ lts'.pcb = NoPcb
        /\ UNCHANGED <<sts, io, con, status, obj, trk, cpu, mem, up, q>>
        /\ sem'["dom"] = sem["dom"] /\ sem'["io_request"] = sem["io_request"]
    BY <1>1, HomesTypes DEF LtsWaitRequest, LtsStep, Wait
  <2>2. ub' = FALSE
    BY <1>1 DEF LtsWaitRequest, HomesInv
  <2>3. NothingSuspended' /\ HandsOK'
    BY <2>1 DEF HomesInv, NothingSuspended, HandsOK
  <2>4. QueuesOK'
    BY <2>1 DEF HomesInv, QueuesOK
  <2>5. ASSUME NEW p \in Procs
        PROVE  /\ Placed(q', lts', sts', io', p) /\ Submitted(q', lts', sts', io', con', p)
               /\ WaitingOK(q', lts', io', status', obj', p)
               /\ StartOK(con', status', obj', p)
    BY <2>1, HomesTypes
    DEF HomesInv, ProcsOK, Placed, AtMostOne, Submitted, WaitingOK, StartOK, LtsHas, StsHas,
        IoHas
  <2>6. StsHandOK(sts', cpu', status', obj')
    BY <2>1 DEF HomesInv, StsHandOK
  <2>7. IoTokens' /\ IoFindsPcb'
    BY <2>1, HomesTypes DEF HomesInv, IoTokens, IoFindsPcb, One
  <2>8. MemoryOK'
    BY <2>1, HomesTypes DEF HomesInv, MemoryOK, KnownOK, Connections, LtsHas, StsHas, IoHas
  <2>9. \A p \in Procs : Runs(status', obj', p) <=> Runs(status, obj, p)
    BY <2>1 DEF Runs
  <2>10. Taken' = Taken
    BY <2>3, <2>9, RunningSame DEF Taken, HomesInv
  <2>11. Free' = Free /\ HeldByLts' = HeldByLts /\ HeldBySts' = HeldBySts
    BY <2>1 DEF Free, HeldByLts, HeldBySts, One
  <2>12. Free' + Taken' + HeldByLts' + HeldBySts' = Free + Taken + HeldByLts + HeldBySts
    BY <2>10, <2>11, SlotsSum DEF HomesInv
  <2>13. SlotsConserved'
    BY <2>12, SlotsMove DEF HomesInv
  <2>14. QED
    BY <2>2, <2>3, <2>4, <2>5, <2>6, <2>7, <2>8, <2>13 DEF HomesInv, ProcsOK
<1>2. CASE LtsWaitSlot
  <2>1. /\ lts.pc = "wait_dom" /\ lts'.pc = "resume" /\ lts'.pcb = NoPcb
        /\ UNCHANGED <<sts, io, con, status, obj, trk, cpu, mem, up, q>>
        /\ sem'["dom"] = sem["dom"] - 1 /\ sem'["io_request"] = sem["io_request"]
    BY <1>2, HomesTypes DEF LtsWaitSlot, LtsStep, Wait
  <2>2. ub' = FALSE
    BY <1>2 DEF LtsWaitSlot, HomesInv
  <2>3. NothingSuspended' /\ HandsOK'
    BY <2>1 DEF HomesInv, NothingSuspended, HandsOK
  <2>4. QueuesOK'
    BY <2>1 DEF HomesInv, QueuesOK
  <2>5. ASSUME NEW p \in Procs
        PROVE  /\ Placed(q', lts', sts', io', p) /\ Submitted(q', lts', sts', io', con', p)
               /\ WaitingOK(q', lts', io', status', obj', p)
               /\ StartOK(con', status', obj', p)
    BY <2>1, HomesTypes
    DEF HomesInv, ProcsOK, Placed, AtMostOne, Submitted, WaitingOK, StartOK, LtsHas, StsHas,
        IoHas
  <2>6. StsHandOK(sts', cpu', status', obj')
    BY <2>1 DEF HomesInv, StsHandOK
  <2>7. IoTokens' /\ IoFindsPcb'
    BY <2>1, HomesTypes DEF HomesInv, IoTokens, IoFindsPcb, One
  <2>8. MemoryOK'
    BY <2>1, HomesTypes DEF HomesInv, MemoryOK, KnownOK, Connections, LtsHas, StsHas, IoHas
  <2>9. \A p \in Procs : Runs(status', obj', p) <=> Runs(status, obj, p)
    BY <2>1 DEF Runs
  <2>10. Taken' = Taken
    BY <2>3, <2>9, RunningSame DEF Taken, HomesInv
  <2>11. Free' = Free - 1 /\ HeldByLts' = HeldByLts + 1 /\ HeldBySts' = HeldBySts
    BY <2>1 DEF Free, HeldByLts, HeldBySts, One
  <2>12. Free' + Taken' + HeldByLts' + HeldBySts' = Free + Taken + HeldByLts + HeldBySts
    BY <2>10, <2>11, SlotsSum DEF HomesInv
  <2>13. SlotsConserved'
    BY <2>12, SlotsMove DEF HomesInv
  <2>14. QED
    BY <2>2, <2>3, <2>4, <2>5, <2>6, <2>7, <2>8, <2>13 DEF HomesInv, ProcsOK
<1>3. CASE LtsResume
  <2>1. /\ lts.pc = "resume" /\ lts'.pc = "new" /\ lts'.pcb = NoPcb
        /\ UNCHANGED <<sts, io, con, status, obj, trk, cpu, mem, up, q>>
        /\ sem'["dom"] = sem["dom"] /\ sem'["io_request"] = sem["io_request"]
    BY <1>3, HomesTypes DEF LtsResume, LtsStep, HomesInv, NothingSuspended
  <2>2. ub' = FALSE
    BY <1>3 DEF LtsResume, HomesInv
  <2>3. NothingSuspended' /\ HandsOK'
    BY <2>1 DEF HomesInv, NothingSuspended, HandsOK
  <2>4. QueuesOK'
    BY <2>1 DEF HomesInv, QueuesOK
  <2>5. ASSUME NEW p \in Procs
        PROVE  /\ Placed(q', lts', sts', io', p) /\ Submitted(q', lts', sts', io', con', p)
               /\ WaitingOK(q', lts', io', status', obj', p)
               /\ StartOK(con', status', obj', p)
    BY <2>1, HomesTypes
    DEF HomesInv, ProcsOK, Placed, AtMostOne, Submitted, WaitingOK, StartOK, LtsHas, StsHas,
        IoHas
  <2>6. StsHandOK(sts', cpu', status', obj')
    BY <2>1 DEF HomesInv, StsHandOK
  <2>7. IoTokens' /\ IoFindsPcb'
    BY <2>1, HomesTypes DEF HomesInv, IoTokens, IoFindsPcb, One
  <2>8. MemoryOK'
    BY <2>1, HomesTypes DEF HomesInv, MemoryOK, KnownOK, Connections, LtsHas, StsHas, IoHas
  <2>9. \A p \in Procs : Runs(status', obj', p) <=> Runs(status, obj, p)
    BY <2>1 DEF Runs
  <2>10. Taken' = Taken
    BY <2>3, <2>9, RunningSame DEF Taken, HomesInv
  <2>11. Free' = Free /\ HeldByLts' = HeldByLts /\ HeldBySts' = HeldBySts
    BY <2>1 DEF Free, HeldByLts, HeldBySts, One
  <2>12. Free' + Taken' + HeldByLts' + HeldBySts' = Free + Taken + HeldByLts + HeldBySts
    BY <2>10, <2>11, SlotsSum DEF HomesInv
  <2>13. SlotsConserved'
    BY <2>12, SlotsMove DEF HomesInv
  <2>14. QED
    BY <2>2, <2>3, <2>4, <2>5, <2>6, <2>7, <2>8, <2>13 DEF HomesInv, ProcsOK
<1>4. CASE LtsPopNew
  <2>1. q["new"] # <<>>
    BY <1>4, HomesTypes DEF LtsPopNew, LtsStep, AdmitFindsProcess
  <2>2. /\ lts.pc = "new" /\ lts'.pc = "admit" /\ lts'.pcb = Head(q["new"])
        /\ UNCHANGED <<sts, io, con, status, obj, trk, cpu, up>>
        /\ q'["new"] = Tail(q["new"]) /\ q'["ready"] = q["ready"]
        /\ q'["blocked"] = q["blocked"] /\ q'["ready_sus"] = q["ready_sus"]
        /\ q'["blocked_sus"] = q["blocked_sus"]
        /\ sem'["dom"] = sem["dom"] /\ sem'["io_request"] = sem["io_request"]
        /\ \A p \in Procs : mem'[p] = IF p = Head(q["new"]) /\ "memory" \in up THEN "init"
                                                            ELSE mem[p]
    BY <1>4, <2>1, HomesTypes DEF LtsPopNew, LtsStep, Pop, TellMemory
  <2>3. /\ In(q["new"], Head(q["new"])) /\ Once(q'["new"])
        /\ \A p : In(q'["new"], p) => In(q["new"], p) /\ p # Head(q["new"])
        /\ Len(q'["new"]) = Len(q["new"]) - 1
    BY <2>2, <2>1, HomesTypes, PopIn, PopQueue DEF HomesInv, QueuesOK
  <2>4. ub' = FALSE
    BY <1>4, <2>1 DEF LtsPopNew, HomesInv
  <2>5. NothingSuspended' /\ HandsOK'
    BY <2>2, <2>1, <2>3 DEF HomesInv, NothingSuspended, HandsOK
  <2>6. QueuesOK'
    BY <2>2, <2>1, <2>3 DEF HomesInv, QueuesOK
  <2>7. ASSUME NEW p \in Procs
        PROVE  /\ Placed(q', lts', sts', io', p) /\ Submitted(q', lts', sts', io', con', p)
               /\ WaitingOK(q', lts', io', status', obj', p)
               /\ StartOK(con', status', obj', p)
    BY <2>2, <2>1, <2>3, HomesTypes
    DEF HomesInv, ProcsOK, Placed, AtMostOne, Submitted, WaitingOK, StartOK, LtsHas, StsHas,
        IoHas
  <2>8. StsHandOK(sts', cpu', status', obj')
    BY <2>2, <2>1, <2>3 DEF HomesInv, StsHandOK
  <2>9. IoTokens' /\ IoFindsPcb'
    BY <2>2, <2>1, <2>3, HomesTypes DEF HomesInv, IoTokens, IoFindsPcb, One
  <2>10. MemoryOK'
    BY <2>2, <2>1, <2>3, HomesTypes
    DEF HomesInv, MemoryOK, KnownOK, Connections, LtsHas, StsHas, IoHas
  <2>11. \A p \in Procs : Runs(status', obj', p) <=> Runs(status, obj, p)
    BY <2>2 DEF Runs
  <2>12. Taken' = Taken
    BY <2>5, <2>11, RunningSame DEF Taken, HomesInv
  <2>13. Free' = Free /\ HeldByLts' = HeldByLts /\ HeldBySts' = HeldBySts
    BY <2>2, <2>1, <2>3 DEF Free, HeldByLts, HeldBySts, One
  <2>14. Free' + Taken' + HeldByLts' + HeldBySts' = Free + Taken + HeldByLts + HeldBySts
    BY <2>12, <2>13, SlotsSum DEF HomesInv
  <2>15. SlotsConserved'
    BY <2>14, SlotsMove DEF HomesInv
  <2>16. QED
    BY <2>4, <2>5, <2>6, <2>7, <2>8, <2>9, <2>10, <2>15 DEF HomesInv, ProcsOK
<1>5. CASE LtsAdmit
  <2>1. /\ lts.pc = "admit" /\ lts'.pc = "push" /\ lts'.pcb = lts.pcb
        /\ UNCHANGED <<sts, io, con, obj, trk, mem, up, q>>
        /\ sem'["dom"] = sem["dom"] /\ sem'["io_request"] = sem["io_request"]
        /\ \A p \in Procs : status'[p] = IF p = lts.pcb THEN "READY" ELSE status[p]
        /\ cpu'.pc = cpu.pc
    BY <1>5, HomesTypes, InterruptionKeepsPc DEF LtsAdmit, LtsStep, SetStatus
  <2>2. ub' = FALSE
    BY <1>5, HomesTypes
    DEF LtsAdmit, LtsStep, Uses, HomesInv, ProcsOK, WaitingOK, LtsHas, IoHas, StsHandOK
  <2>3. NothingSuspended' /\ HandsOK'
    BY <2>1 DEF HomesInv, NothingSuspended, HandsOK
  <2>4. QueuesOK'
    BY <2>1 DEF HomesInv, QueuesOK
  <2>5. ASSUME NEW p \in Procs
        PROVE  /\ Placed(q', lts', sts', io', p) /\ Submitted(q', lts', sts', io', con', p)
               /\ WaitingOK(q', lts', io', status', obj', p)
               /\ StartOK(con', status', obj', p)
    BY <2>1, HomesTypes
    DEF HomesInv, ProcsOK, Placed, AtMostOne, Submitted, WaitingOK, StartOK, LtsHas, StsHas,
        IoHas
  <2>6. StsHandOK(sts', cpu', status', obj')
    BY <2>1, HomesTypes
    DEF StsHandOK, Returned, HomesInv, ProcsOK, Placed, AtMostOne, Submitted, WaitingOK,
        StartOK, LtsHas, StsHas, IoHas
  <2>7. IoTokens' /\ IoFindsPcb'
    BY <2>1, HomesTypes DEF HomesInv, IoTokens, IoFindsPcb, One
  <2>8. MemoryOK'
    BY <2>1, HomesTypes DEF HomesInv, MemoryOK, KnownOK, Connections, LtsHas, StsHas, IoHas
  <2>9. /\ ~Runs(status, obj, lts.pcb) /\ Runs(status', obj', lts.pcb)
        /\ \A p \in Procs \ {lts.pcb} : Runs(status', obj', p) <=> Runs(status, obj, p)
    BY <2>1, HomesTypes
    DEF Runs, StsHandOK, Returned, HomesInv, ProcsOK, Placed, AtMostOne, Submitted,
        WaitingOK, StartOK, LtsHas, StsHas, IoHas
  <2>10. Taken' = Taken + 1
    BY <2>3, <2>9, <2>1, RunningMore, HomesTypes DEF Taken, HomesInv
  <2>11. Free' = Free /\ HeldByLts' = HeldByLts - 1 /\ HeldBySts' = HeldBySts
    BY <2>1 DEF Free, HeldByLts, HeldBySts, One
  <2>12. Free' + Taken' + HeldByLts' + HeldBySts' = Free + Taken + HeldByLts + HeldBySts
    BY <2>10, <2>11, SlotsSum DEF HomesInv
  <2>13. SlotsConserved'
    BY <2>12, SlotsMove DEF HomesInv
  <2>14. QED
    BY <2>2, <2>3, <2>4, <2>5, <2>6, <2>7, <2>8, <2>13 DEF HomesInv, ProcsOK
<1>6. CASE LtsPush
  <2>1. /\ lts.pc = "push" /\ lts'.pc = "signal" /\ lts'.pcb = lts.pcb
        /\ UNCHANGED <<sts, io, con, status, obj, trk, cpu, mem, up>>
        /\ q'["new"] = q["new"] /\ q'["ready"] = Append(q["ready"], lts.pcb)
        /\ q'["blocked"] = q["blocked"] /\ q'["ready_sus"] = q["ready_sus"]
        /\ q'["blocked_sus"] = q["blocked_sus"]
        /\ sem'["dom"] = sem["dom"] /\ sem'["io_request"] = sem["io_request"]
    BY <1>6, HomesTypes DEF LtsPush, LtsStep, Push
  <2>2. /\ \A p : In(q'["ready"], p) <=> In(q["ready"], p) \/ p = lts.pcb
        /\ ~In(q["ready"], lts.pcb) => Once(q'["ready"])
        /\ Len(q'["ready"]) = Len(q["ready"]) + 1
    BY <2>1, HomesTypes, PushIn, PushQueue DEF HomesInv, QueuesOK
  <2>3. ub' = FALSE
    BY <1>6 DEF LtsPush, HomesInv
  <2>4. NothingSuspended' /\ HandsOK'
    BY <2>1, <2>2 DEF HomesInv, NothingSuspended, HandsOK
  <2>5. QueuesOK'
    BY <2>1, <2>2, HomesTypes
    DEF QueuesOK, HomesInv, ProcsOK, Placed, AtMostOne, Submitted, WaitingOK, StartOK,
        LtsHas, StsHas, IoHas
  <2>6. ASSUME NEW p \in Procs
        PROVE  /\ Placed(q', lts', sts', io', p) /\ Submitted(q', lts', sts', io', con', p)
               /\ WaitingOK(q', lts', io', status', obj', p)
               /\ StartOK(con', status', obj', p)
    BY <2>1, <2>2, HomesTypes
    DEF HomesInv, ProcsOK, Placed, AtMostOne, Submitted, WaitingOK, StartOK, LtsHas, StsHas,
        IoHas
  <2>7. StsHandOK(sts', cpu', status', obj')
    BY <2>1, <2>2 DEF HomesInv, StsHandOK
  <2>8. IoTokens' /\ IoFindsPcb'
    BY <2>1, <2>2, HomesTypes DEF HomesInv, IoTokens, IoFindsPcb, One
  <2>9. MemoryOK'
    BY <2>1, <2>2, HomesTypes
    DEF HomesInv, MemoryOK, KnownOK, Connections, LtsHas, StsHas, IoHas
  <2>10. \A p \in Procs : Runs(status', obj', p) <=> Runs(status, obj, p)
    BY <2>1 DEF Runs
  <2>11. Taken' = Taken
    BY <2>4, <2>10, RunningSame DEF Taken, HomesInv
  <2>12. Free' = Free /\ HeldByLts' = HeldByLts /\ HeldBySts' = HeldBySts
    BY <2>1, <2>2 DEF Free, HeldByLts, HeldBySts, One
  <2>13. Free' + Taken' + HeldByLts' + HeldBySts' = Free + Taken + HeldByLts + HeldBySts
    BY <2>11, <2>12, SlotsSum DEF HomesInv
  <2>14. SlotsConserved'
    BY <2>13, SlotsMove DEF HomesInv
  <2>15. QED
    BY <2>3, <2>4, <2>5, <2>6, <2>7, <2>8, <2>9, <2>14 DEF HomesInv, ProcsOK
<1>7. CASE LtsSignal
  <2>1. /\ lts.pc = "signal" /\ lts'.pc = "wait_req" /\ lts'.pcb = NoPcb
        /\ UNCHANGED <<sts, io, con, status, obj, trk, cpu, mem, up, q>>
        /\ sem'["dom"] = sem["dom"] /\ sem'["io_request"] = sem["io_request"]
    BY <1>7, HomesTypes DEF LtsSignal, LtsStep, Signal
  <2>2. ub' = FALSE
    BY <1>7 DEF LtsSignal, HomesInv
  <2>3. NothingSuspended' /\ HandsOK'
    BY <2>1 DEF HomesInv, NothingSuspended, HandsOK
  <2>4. QueuesOK'
    BY <2>1 DEF HomesInv, QueuesOK
  <2>5. ASSUME NEW p \in Procs
        PROVE  /\ Placed(q', lts', sts', io', p) /\ Submitted(q', lts', sts', io', con', p)
               /\ WaitingOK(q', lts', io', status', obj', p)
               /\ StartOK(con', status', obj', p)
    BY <2>1, HomesTypes
    DEF HomesInv, ProcsOK, Placed, AtMostOne, Submitted, WaitingOK, StartOK, LtsHas, StsHas,
        IoHas
  <2>6. StsHandOK(sts', cpu', status', obj')
    BY <2>1 DEF HomesInv, StsHandOK
  <2>7. IoTokens' /\ IoFindsPcb'
    BY <2>1, HomesTypes DEF HomesInv, IoTokens, IoFindsPcb, One
  <2>8. MemoryOK'
    BY <2>1, HomesTypes DEF HomesInv, MemoryOK, KnownOK, Connections, LtsHas, StsHas, IoHas
  <2>9. \A p \in Procs : Runs(status', obj', p) <=> Runs(status, obj, p)
    BY <2>1 DEF Runs
  <2>10. Taken' = Taken
    BY <2>3, <2>9, RunningSame DEF Taken, HomesInv
  <2>11. Free' = Free /\ HeldByLts' = HeldByLts /\ HeldBySts' = HeldBySts
    BY <2>1 DEF Free, HeldByLts, HeldBySts, One
  <2>12. Free' + Taken' + HeldByLts' + HeldBySts' = Free + Taken + HeldByLts + HeldBySts
    BY <2>10, <2>11, SlotsSum DEF HomesInv
  <2>13. SlotsConserved'
    BY <2>12, SlotsMove DEF HomesInv
  <2>14. QED
    BY <2>2, <2>3, <2>4, <2>5, <2>6, <2>7, <2>8, <2>13 DEF HomesInv, ProcsOK
<1>8. QED
  BY <1>1, <1>2, <1>3, <1>4, <1>5, <1>6, <1>7 DEF Lts

\* The CPU record has its fields.
LEMMA CpuRecord ==
  ASSUME TypeOK
  PROVE  cpu \in [pc : {"idle", "run", "back"}, ints : Nat]
BY DEF TypeOK

\* The short term scheduler.
LEMMA StsHomes ==
  ASSUME TypeOK, HomesInv, Sts
  PROVE  HomesInv'
<1>1. CASE StsWait
  <2>1. CASE SRT
    <3>1. /\ sts.pc = "wait" /\ sts'.pc = "pop" /\ sts'.pcb = NoPcb
          /\ UNCHANGED <<lts, io, con, status, obj, trk, cpu, mem, up, q>>
          /\ sem'["dom"] = sem["dom"] /\ sem'["io_request"] = sem["io_request"]
      BY <1>1, <2>1, HomesTypes DEF StsWait, StsStep, Wait
    <3>2. ub' = FALSE
      BY <1>1, <2>1 DEF StsWait, StsStep, HomesInv
    <3>3. NothingSuspended' /\ HandsOK'
      BY <3>1 DEF HomesInv, NothingSuspended, HandsOK
    <3>4. QueuesOK'
      BY <3>1 DEF HomesInv, QueuesOK
    <3>5. ASSUME NEW p \in Procs
          PROVE  /\ Placed(q', lts', sts', io', p) /\ Submitted(q', lts', sts', io', con', p)
                 /\ WaitingOK(q', lts', io', status', obj', p)
                 /\ StartOK(con', status', obj', p)
      BY <3>1, HomesTypes
      DEF HomesInv, ProcsOK, Placed, AtMostOne, Submitted, WaitingOK, StartOK, LtsHas,
          StsHas, IoHas, StsHandOK
    <3>6. StsHandOK(sts', cpu', status', obj')
      BY <3>1, HomesTypes
      DEF StsHandOK, Returned, HomesInv, ProcsOK, Placed, AtMostOne, Submitted, WaitingOK,
          StartOK, LtsHas, StsHas, IoHas
    <3>7. IoTokens' /\ IoFindsPcb'
      BY <3>1, HomesTypes DEF HomesInv, IoTokens, IoFindsPcb, One
    <3>8. MemoryOK'
      BY <3>1, HomesTypes
      DEF HomesInv, MemoryOK, KnownOK, Connections, LtsHas, StsHas, IoHas
    <3>9. \A p \in Procs : Runs(status', obj', p) <=> Runs(status, obj, p)
      BY <3>1 DEF Runs
    <3>10. Taken' = Taken
      BY <3>3, <3>9, RunningSame DEF Taken, HomesInv
    <3>11. Free' = Free /\ HeldByLts' = HeldByLts /\ HeldBySts' = HeldBySts
      BY <3>1 DEF Free, HeldByLts, HeldBySts, One
    <3>12. Free' + Taken' + HeldByLts' + HeldBySts' = Free + Taken + HeldByLts + HeldBySts
      BY <3>10, <3>11, SlotsSum DEF HomesInv
    <3>13. SlotsConserved'
      BY <3>12, SlotsMove DEF HomesInv
    <3>14. QED
      BY <3>2, <3>3, <3>4, <3>5, <3>6, <3>7, <3>8, <3>13 DEF HomesInv, ProcsOK
  <2>2. CASE ~SRT
    <3>1. /\ sts.pc = "wait" /\ sts'.pc = "sort" /\ sts'.pcb = NoPcb
          /\ UNCHANGED <<lts, io, con, status, obj, trk, cpu, mem, up, q>>
          /\ sem'["dom"] = sem["dom"] /\ sem'["io_request"] = sem["io_request"]
      BY <1>1, <2>2, HomesTypes DEF StsWait, StsStep, Wait
    <3>2. ub' = FALSE
      BY <1>1, <2>2 DEF StsWait, StsStep, HomesInv
    <3>3. NothingSuspended' /\ HandsOK'
      BY <3>1 DEF HomesInv, NothingSuspended, HandsOK
    <3>4. QueuesOK'
      BY <3>1 DEF HomesInv, QueuesOK
    <3>5. ASSUME NEW p \in Procs
          PROVE  /\ Placed(q', lts', sts', io', p) /\ Submitted(q', lts', sts', io', con', p)
                 /\ WaitingOK(q', lts', io', status', obj', p)
                 /\ StartOK(con', status', obj', p)
      BY <3>1, HomesTypes
      DEF HomesInv, ProcsOK, Placed, AtMostOne, Submitted, WaitingOK, StartOK, LtsHas,
          StsHas, IoHas, StsHandOK
    <3>6. StsHandOK(sts', cpu', status', obj')
      BY <3>1, HomesTypes
      DEF StsHandOK, Returned, HomesInv, ProcsOK, Placed, AtMostOne, Submitted, WaitingOK,
          StartOK, LtsHas, StsHas, IoHas
    <3>7. IoTokens' /\ IoFindsPcb'
      BY <3>1, HomesTypes DEF HomesInv, IoTokens, IoFindsPcb, One
    <3>8. MemoryOK'
      BY <3>1, HomesTypes
      DEF HomesInv, MemoryOK, KnownOK, Connections, LtsHas, StsHas, IoHas
    <3>9. \A p \in Procs : Runs(status', obj', p) <=> Runs(status, obj, p)
      BY <3>1 DEF Runs
    <3>10. Taken' = Taken
      BY <3>3, <3>9, RunningSame DEF Taken, HomesInv
    <3>11. Free' = Free /\ HeldByLts' = HeldByLts /\ HeldBySts' = HeldBySts
      BY <3>1 DEF Free, HeldByLts, HeldBySts, One
    <3>12. Free' + Taken' + HeldByLts' + HeldBySts' = Free + Taken + HeldByLts + HeldBySts
      BY <3>10, <3>11, SlotsSum DEF HomesInv
    <3>13. SlotsConserved'
      BY <3>12, SlotsMove DEF HomesInv
    <3>14. QED
      BY <3>2, <3>3, <3>4, <3>5, <3>6, <3>7, <3>8, <3>13 DEF HomesInv, ProcsOK
  <2>3. QED
    BY <2>1, <2>2
<1>2. CASE StsSort
  <2>1. /\ sts.pc = "sort" /\ sts'.pc = "pop" /\ sts'.pcb = NoPcb
        /\ UNCHANGED <<lts, io, con, status, obj, trk, cpu, mem, up>>
        /\ q'["new"] = q["new"] /\ q'["ready"] \in SortedByEstimation
        /\ q'["blocked"] = q["blocked"] /\ q'["ready_sus"] = q["ready_sus"]
        /\ q'["blocked_sus"] = q["blocked_sus"]
        /\ sem'["dom"] = sem["dom"] /\ sem'["io_request"] = sem["io_request"]
    BY <1>2, HomesTypes DEF StsSort, StsStep
  <2>2. /\ Once(q'["ready"]) /\ \A p : In(q'["ready"], p) => In(q["ready"], p)
        /\ Len(q'["ready"]) = Len(q["ready"])
    BY <2>1, HomesTypes, SortIn, SortQueue DEF HomesInv, QueuesOK
  <2>3. ub' = FALSE
    BY <1>2, HomesTypes
    DEF StsSort, StsStep, Uses, Elems, In, HomesInv, ProcsOK, WaitingOK, LtsHas, IoHas,
        StsHandOK
  <2>4. NothingSuspended' /\ HandsOK'
    BY <2>1, <2>2 DEF HomesInv, NothingSuspended, HandsOK
  <2>5. QueuesOK'
    BY <2>1, <2>2 DEF HomesInv, QueuesOK
  <2>6. ASSUME NEW p \in Procs
        PROVE  /\ Placed(q', lts', sts', io', p) /\ Submitted(q', lts', sts', io', con', p)
               /\ WaitingOK(q', lts', io', status', obj', p)
               /\ StartOK(con', status', obj', p)
    BY <2>1, <2>2, HomesTypes
    DEF HomesInv, ProcsOK, Placed, AtMostOne, Submitted, WaitingOK, StartOK, LtsHas, StsHas,
        IoHas, StsHandOK
  <2>7. StsHandOK(sts', cpu', status', obj')
    BY <2>1, <2>2, HomesTypes
    DEF StsHandOK, Returned, HomesInv, ProcsOK, Placed, AtMostOne, Submitted, WaitingOK,
        StartOK, LtsHas, StsHas, IoHas
  <2>8. IoTokens' /\ IoFindsPcb'
    BY <2>1, <2>2, HomesTypes DEF HomesInv, IoTokens, IoFindsPcb, One
  <2>9. MemoryOK'
    BY <2>1, <2>2, HomesTypes
    DEF HomesInv, MemoryOK, KnownOK, Connections, LtsHas, StsHas, IoHas
  <2>10. \A p \in Procs : Runs(status', obj', p) <=> Runs(status, obj, p)
    BY <2>1 DEF Runs
  <2>11. Taken' = Taken
    BY <2>4, <2>10, RunningSame DEF Taken, HomesInv
  <2>12. Free' = Free /\ HeldByLts' = HeldByLts /\ HeldBySts' = HeldBySts
    BY <2>1, <2>2 DEF Free, HeldByLts, HeldBySts, One
  <2>13. Free' + Taken' + HeldByLts' + HeldBySts' = Free + Taken + HeldByLts + HeldBySts
    BY <2>11, <2>12, SlotsSum DEF HomesInv
  <2>14. SlotsConserved'
    BY <2>13, SlotsMove DEF HomesInv
  <2>15. QED
    BY <2>3, <2>4, <2>5, <2>6, <2>7, <2>8, <2>9, <2>14 DEF HomesInv, ProcsOK
<1>3. CASE StsPop
  <2>1. CASE q["ready"] = <<>>
    <3>1. /\ sts.pc = "pop" /\ sts'.pc = "wait" /\ sts'.pcb = NoPcb
          /\ UNCHANGED <<lts, io, con, status, obj, trk, cpu, mem, up, q>>
          /\ sem'["dom"] = sem["dom"] /\ sem'["io_request"] = sem["io_request"]
      BY <1>3, <2>1, HomesTypes DEF StsPop, StsStep
    <3>2. ub' = FALSE
      BY <1>3, <2>1 DEF StsPop, HomesInv
    <3>3. NothingSuspended' /\ HandsOK'
      BY <3>1 DEF HomesInv, NothingSuspended, HandsOK
    <3>4. QueuesOK'
      BY <3>1 DEF HomesInv, QueuesOK
    <3>5. ASSUME NEW p \in Procs
          PROVE  /\ Placed(q', lts', sts', io', p) /\ Submitted(q', lts', sts', io', con', p)
                 /\ WaitingOK(q', lts', io', status', obj', p)
                 /\ StartOK(con', status', obj', p)
      BY <3>1, HomesTypes
      DEF HomesInv, ProcsOK, Placed, AtMostOne, Submitted, WaitingOK, StartOK, LtsHas,
          StsHas, IoHas, StsHandOK
    <3>6. StsHandOK(sts', cpu', status', obj')
      BY <3>1, HomesTypes
      DEF StsHandOK, Returned, HomesInv, ProcsOK, Placed, AtMostOne, Submitted, WaitingOK,
          StartOK, LtsHas, StsHas, IoHas
    <3>7. IoTokens' /\ IoFindsPcb'
      BY <3>1, HomesTypes DEF HomesInv, IoTokens, IoFindsPcb, One
    <3>8. MemoryOK'
      BY <3>1, HomesTypes
      DEF HomesInv, MemoryOK, KnownOK, Connections, LtsHas, StsHas, IoHas
    <3>9. \A p \in Procs : Runs(status', obj', p) <=> Runs(status, obj, p)
      BY <3>1 DEF Runs
    <3>10. Taken' = Taken
      BY <3>3, <3>9, RunningSame DEF Taken, HomesInv
    <3>11. Free' = Free /\ HeldByLts' = HeldByLts /\ HeldBySts' = HeldBySts
      BY <3>1 DEF Free, HeldByLts, HeldBySts, One
    <3>12. Free' + Taken' + HeldByLts' + HeldBySts' = Free + Taken + HeldByLts + HeldBySts
      BY <3>10, <3>11, SlotsSum DEF HomesInv
    <3>13. SlotsConserved'
      BY <3>12, SlotsMove DEF HomesInv
    <3>14. QED
      BY <3>2, <3>3, <3>4, <3>5, <3>6, <3>7, <3>8, <3>13 DEF HomesInv, ProcsOK
  <2>2. CASE q["ready"] # <<>>
    <3>1. q["ready"] # <<>>
      BY <1>3, <2>2, HomesTypes
    <3>2. /\ sts.pc = "pop" /\ sts'.pc = "dispatch" /\ sts'.pcb = Head(q["ready"])
          /\ UNCHANGED <<lts, io, con, status, obj, trk, cpu, mem, up>>
          /\ q'["new"] = q["new"] /\ q'["ready"] = Tail(q["ready"])
          /\ q'["blocked"] = q["blocked"] /\ q'["ready_sus"] = q["ready_sus"]
          /\ q'["blocked_sus"] = q["blocked_sus"]
          /\ sem'["dom"] = sem["dom"] /\ sem'["io_request"] = sem["io_request"]
      BY <1>3, <2>2, <3>1, HomesTypes DEF StsPop, StsStep, Pop
    <3>3. /\ In(q["ready"], Head(q["ready"])) /\ Once(q'["ready"])
          /\ \A p : In(q'["ready"], p) => In(q["ready"], p) /\ p # Head(q["ready"])
          /\ Len(q'["ready"]) = Len(q["ready"]) - 1
      BY <3>2, <3>1, HomesTypes, PopIn, PopQueue DEF HomesInv, QueuesOK
    <3>4. ub' = FALSE
      BY <1>3, <2>2, <3>1 DEF StsPop, HomesInv
    <3>5. NothingSuspended' /\ HandsOK'
      BY <3>2, <3>1, <3>3 DEF HomesInv, NothingSuspended, HandsOK
    <3>6. QueuesOK'
      BY <3>2, <3>1, <3>3 DEF HomesInv, QueuesOK
    <3>7. ASSUME NEW p \in Procs
          PROVE  /\ Placed(q', lts', sts', io', p) /\ Submitted(q', lts', sts', io', con', p)
                 /\ WaitingOK(q', lts', io', status', obj', p)
                 /\ StartOK(con', status', obj', p)
      BY <3>2, <3>1, <3>3, HomesTypes
      DEF HomesInv, ProcsOK, Placed, AtMostOne, Submitted, WaitingOK, StartOK, LtsHas,
          StsHas, IoHas, StsHandOK
    <3>8. StsHandOK(sts', cpu', status', obj')
      BY <3>2, <3>1, <3>3, HomesTypes
      DEF StsHandOK, Returned, HomesInv, ProcsOK, Placed, AtMostOne, Submitted, WaitingOK,
          StartOK, LtsHas, StsHas, IoHas
    <3>9. IoTokens' /\ IoFindsPcb'
      BY <3>2, <3>1, <3>3, HomesTypes DEF HomesInv, IoTokens, IoFindsPcb, One
    <3>10. MemoryOK'
      BY <3>2, <3>1, <3>3, HomesTypes
      DEF HomesInv, MemoryOK, KnownOK, Connections, LtsHas, StsHas, IoHas
    <3>11. \A p \in Procs : Runs(status', obj', p) <=> Runs(status, obj, p)
      BY <3>2 DEF Runs
    <3>12. Taken' = Taken
      BY <3>5, <3>11, RunningSame DEF Taken, HomesInv
    <3>13. Free' = Free /\ HeldByLts' = HeldByLts /\ HeldBySts' = HeldBySts
      BY <3>2, <3>1, <3>3 DEF Free, HeldByLts, HeldBySts, One
    <3>14. Free' + Taken' + HeldByLts' + HeldBySts' = Free + Taken + HeldByLts + HeldBySts
      BY <3>12, <3>13, SlotsSum DEF HomesInv
    <3>15. SlotsConserved'
      BY <3>14, SlotsMove DEF HomesInv
    <3>16. QED
      BY <3>4, <3>5, <3>6, <3>7, <3>8, <3>9, <3>10, <3>15 DEF HomesInv, ProcsOK
  <2>3. QED
    BY <2>1, <2>2
<1>4. CASE StsDispatch
  <2>1. /\ sts.pc = "dispatch" /\ sts'.pc = "send" /\ sts'.pcb = sts.pcb
        /\ UNCHANGED <<lts, io, con, obj, trk, cpu, mem, up, q>>
        /\ sem'["dom"] = sem["dom"] /\ sem'["io_request"] = sem["io_request"]
        /\ \A p \in Procs : status'[p] = IF p = sts.pcb THEN "EXECUTING" ELSE status[p]
    BY <1>4, HomesTypes DEF StsDispatch, StsStep, SetStatus
  <2>2. ub' = FALSE
    BY <1>4, HomesTypes
    DEF StsDispatch, StsStep, Uses, HomesInv, ProcsOK, WaitingOK, LtsHas, IoHas, StsHandOK
  <2>3. NothingSuspended' /\ HandsOK'
    BY <2>1 DEF HomesInv, NothingSuspended, HandsOK
  <2>4. QueuesOK'
    BY <2>1 DEF HomesInv, QueuesOK
  <2>5. ASSUME NEW p \in Procs
        PROVE  /\ Placed(q', lts', sts', io', p) /\ Submitted(q', lts', sts', io', con', p)
               /\ WaitingOK(q', lts', io', status', obj', p)
               /\ StartOK(con', status', obj', p)
    BY <2>1, HomesTypes
    DEF HomesInv, ProcsOK, Placed, AtMostOne, Submitted, WaitingOK, StartOK, LtsHas, StsHas,
        IoHas, StsHandOK
  <2>6. StsHandOK(sts', cpu', status', obj')
    BY <2>1, HomesTypes
    DEF StsHandOK, Returned, HomesInv, ProcsOK, Placed, AtMostOne, Submitted, WaitingOK,
        StartOK, LtsHas, StsHas, IoHas
  <2>7. IoTokens' /\ IoFindsPcb'
    BY <2>1, HomesTypes DEF HomesInv, IoTokens, IoFindsPcb, One
  <2>8. MemoryOK'
    BY <2>1, HomesTypes DEF HomesInv, MemoryOK, KnownOK, Connections, LtsHas, StsHas, IoHas
  <2>9. \A p \in Procs : Runs(status', obj', p) <=> Runs(status, obj, p)
    BY <2>1, HomesTypes
    DEF Runs, StsHandOK, Returned, HomesInv, ProcsOK, Placed, AtMostOne, Submitted,
        WaitingOK, StartOK, LtsHas, StsHas, IoHas
  <2>10. Taken' = Taken
    BY <2>3, <2>9, RunningSame DEF Taken, HomesInv
  <2>11. Free' = Free /\ HeldByLts' = HeldByLts /\ HeldBySts' = HeldBySts
    BY <2>1 DEF Free, HeldByLts, HeldBySts, One
  <2>12. Free' + Taken' + HeldByLts' + HeldBySts' = Free + Taken + HeldByLts + HeldBySts
    BY <2>10, <2>11, SlotsSum DEF HomesInv
  <2>13. SlotsConserved'
    BY <2>12, SlotsMove DEF HomesInv
  <2>14. QED
    BY <2>2, <2>3, <2>4, <2>5, <2>6, <2>7, <2>8, <2>13 DEF HomesInv, ProcsOK
<1>5. CASE StsSend
  <2>1. CASE "dispatch" \in up
    <3>1. /\ sts.pc = "send" /\ sts'.pc = "recv" /\ sts'.pcb = sts.pcb
          /\ UNCHANGED <<lts, io, con, status, trk, mem, up, q>>
          /\ sem'["dom"] = sem["dom"] /\ sem'["io_request"] = sem["io_request"]
          /\ \A p \in Procs : obj'[p] = IF p = sts.pcb THEN "cpu" ELSE obj[p]
          /\ cpu'.pc = "run"
      BY <1>5, <2>1, HomesTypes, CpuRecord DEF StsSend, StsStep
    <3>2. ub' = FALSE
      BY <1>5, <2>1, HomesTypes
      DEF StsSend, StsStep, Uses, HomesInv, ProcsOK, WaitingOK, LtsHas, IoHas, StsHandOK
    <3>3. NothingSuspended' /\ HandsOK'
      BY <3>1 DEF HomesInv, NothingSuspended, HandsOK
    <3>4. QueuesOK'
      BY <3>1 DEF HomesInv, QueuesOK
    <3>5. ASSUME NEW p \in Procs
          PROVE  /\ Placed(q', lts', sts', io', p) /\ Submitted(q', lts', sts', io', con', p)
                 /\ WaitingOK(q', lts', io', status', obj', p)
                 /\ StartOK(con', status', obj', p)
      BY <3>1, HomesTypes
      DEF HomesInv, ProcsOK, Placed, AtMostOne, Submitted, WaitingOK, StartOK, LtsHas,
          StsHas, IoHas, StsHandOK
    <3>6. StsHandOK(sts', cpu', status', obj')
      BY <3>1, HomesTypes
      DEF StsHandOK, Returned, HomesInv, ProcsOK, Placed, AtMostOne, Submitted, WaitingOK,
          StartOK, LtsHas, StsHas, IoHas
    <3>7. IoTokens' /\ IoFindsPcb'
      BY <3>1, HomesTypes DEF HomesInv, IoTokens, IoFindsPcb, One
    <3>8. MemoryOK'
      BY <3>1, HomesTypes
      DEF HomesInv, MemoryOK, KnownOK, Connections, LtsHas, StsHas, IoHas
    <3>9. \A p \in Procs : Runs(status', obj', p) <=> Runs(status, obj, p)
      BY <3>1, HomesTypes
      DEF Runs, StsHandOK, Returned, HomesInv, ProcsOK, Placed, AtMostOne, Submitted,
          WaitingOK, StartOK, LtsHas, StsHas, IoHas
    <3>10. Taken' = Taken
      BY <3>3, <3>9, RunningSame DEF Taken, HomesInv
    <3>11. Free' = Free /\ HeldByLts' = HeldByLts /\ HeldBySts' = HeldBySts
      BY <3>1 DEF Free, HeldByLts, HeldBySts, One
    <3>12. Free' + Taken' + HeldByLts' + HeldBySts' = Free + Taken + HeldByLts + HeldBySts
      BY <3>10, <3>11, SlotsSum DEF HomesInv
    <3>13. SlotsConserved'
      BY <3>12, SlotsMove DEF HomesInv
    <3>14. QED
      BY <3>2, <3>3, <3>4, <3>5, <3>6, <3>7, <3>8, <3>13 DEF HomesInv, ProcsOK
  <2>2. CASE "dispatch" \notin up
    <3>1. /\ sts.pc = "send" /\ sts'.pc = "slot_fail" /\ sts'.pcb = sts.pcb
          /\ UNCHANGED <<lts, io, con, status, trk, cpu, up, q>>
          /\ sem'["dom"] = sem["dom"] /\ sem'["io_request"] = sem["io_request"]
          /\ \A p \in Procs : obj'[p] = IF p = sts.pcb THEN "freed" ELSE obj[p]
          /\ \A p \in Procs : mem'[p] = IF p = sts.pcb /\ "memory" \in up THEN "freed"
                                                              ELSE mem[p]
      BY <1>5, <2>2, HomesTypes DEF StsSend, StsStep, TellMemory
    <3>2. ub' = FALSE
      BY <1>5, <2>2, HomesTypes
      DEF StsSend, StsStep, Uses, HomesInv, ProcsOK, WaitingOK, LtsHas, IoHas, StsHandOK
    <3>3. NothingSuspended' /\ HandsOK'
      BY <3>1 DEF HomesInv, NothingSuspended, HandsOK
    <3>4. QueuesOK'
      BY <3>1 DEF HomesInv, QueuesOK
    <3>5. ASSUME NEW p \in Procs
          PROVE  /\ Placed(q', lts', sts', io', p) /\ Submitted(q', lts', sts', io', con', p)
                 /\ WaitingOK(q', lts', io', status', obj', p)
                 /\ StartOK(con', status', obj', p)
      BY <3>1, HomesTypes
      DEF HomesInv, ProcsOK, Placed, AtMostOne, Submitted, WaitingOK, StartOK, LtsHas,
          StsHas, IoHas, StsHandOK
    <3>6. StsHandOK(sts', cpu', status', obj')
      BY <3>1, HomesTypes
      DEF StsHandOK, Returned, HomesInv, ProcsOK, Placed, AtMostOne, Submitted, WaitingOK,
          StartOK, LtsHas, StsHas, IoHas
    <3>7. IoTokens' /\ IoFindsPcb'
      BY <3>1, HomesTypes DEF HomesInv, IoTokens, IoFindsPcb, One
    <3>8. MemoryOK'
      BY <3>1, HomesTypes
      DEF HomesInv, MemoryOK, KnownOK, Connections, LtsHas, StsHas, IoHas, ProcsOK, Placed,
          AtMostOne
    <3>9. /\ Runs(status, obj, sts.pcb) /\ ~Runs(status', obj', sts.pcb)
          /\ \A p \in Procs \ {sts.pcb} : Runs(status', obj', p) <=> Runs(status, obj, p)
      BY <3>1, HomesTypes
      DEF Runs, StsHandOK, Returned, HomesInv, ProcsOK, Placed, AtMostOne, Submitted,
          WaitingOK, StartOK, LtsHas, StsHas, IoHas
    <3>10. Taken' = Taken - 1
      BY <3>3, <3>9, <3>1, RunningLess, HomesTypes DEF Taken, HomesInv
    <3>11. Free' = Free /\ HeldByLts' = HeldByLts /\ HeldBySts' = HeldBySts + 1
      BY <3>1 DEF Free, HeldByLts, HeldBySts, One
    <3>12. Free' + Taken' + HeldByLts' + HeldBySts' = Free + Taken + HeldByLts + HeldBySts
      BY <3>10, <3>11, SlotsSum DEF HomesInv
    <3>13. SlotsConserved'
      BY <3>12, SlotsMove DEF HomesInv
    <3>14. QED
      BY <3>2, <3>3, <3>4, <3>5, <3>6, <3>7, <3>8, <3>13 DEF HomesInv, ProcsOK
  <2>3. QED
    BY <2>1, <2>2
<1>6. CASE StsReceive
  <2>1. /\ sts.pc = "recv" /\ sts'.pc = "switch" /\ sts'.pcb = sts.pcb
        /\ UNCHANGED <<lts, io, con, status, trk, mem, up, q>>
        /\ sem'["dom"] = sem["dom"] /\ sem'["io_request"] = sem["io_request"]
        /\ \A p \in Procs : obj'[p] = IF p = sts.pcb THEN "heap" ELSE obj[p]
        /\ cpu.pc = "back" /\ cpu'.pc = "idle"
    BY <1>6, HomesTypes, CpuRecord DEF StsReceive, StsStep
  <2>2. ub' = FALSE
    BY <1>6 DEF StsReceive, StsStep, HomesInv
  <2>3. NothingSuspended' /\ HandsOK'
    BY <2>1 DEF HomesInv, NothingSuspended, HandsOK
  <2>4. QueuesOK'
    BY <2>1 DEF HomesInv, QueuesOK
  <2>5. ASSUME NEW p \in Procs
        PROVE  /\ Placed(q', lts', sts', io', p) /\ Submitted(q', lts', sts', io', con', p)
               /\ WaitingOK(q', lts', io', status', obj', p)
               /\ StartOK(con', status', obj', p)
    BY <2>1, HomesTypes
    DEF HomesInv, ProcsOK, Placed, AtMostOne, Submitted, WaitingOK, StartOK, LtsHas, StsHas,
        IoHas, StsHandOK
  <2>6. StsHandOK(sts', cpu', status', obj')
    BY <2>1, HomesTypes
    DEF StsHandOK, Returned, HomesInv, ProcsOK, Placed, AtMostOne, Submitted, WaitingOK,
        StartOK, LtsHas, StsHas, IoHas
  <2>7. IoTokens' /\ IoFindsPcb'
    BY <2>1, HomesTypes DEF HomesInv, IoTokens, IoFindsPcb, One
  <2>8. MemoryOK'
    BY <2>1, HomesTypes DEF HomesInv, MemoryOK, KnownOK, Connections, LtsHas, StsHas, IoHas
  <2>9. \A p \in Procs : Runs(status', obj', p) <=> Runs(status, obj, p)
    BY <2>1, HomesTypes
    DEF Runs, StsHandOK, Returned, HomesInv, ProcsOK, Placed, AtMostOne, Submitted,
        WaitingOK, StartOK, LtsHas, StsHas, IoHas
  <2>10. Taken' = Taken
    BY <2>3, <2>9, RunningSame DEF Taken, HomesInv
  <2>11. Free' = Free /\ HeldByLts' = HeldByLts /\ HeldBySts' = HeldBySts
    BY <2>1 DEF Free, HeldByLts, HeldBySts, One
  <2>12. Free' + Taken' + HeldByLts' + HeldBySts' = Free + Taken + HeldByLts + HeldBySts
    BY <2>10, <2>11, SlotsSum DEF HomesInv
  <2>13. SlotsConserved'
    BY <2>12, SlotsMove DEF HomesInv
  <2>14. QED
    BY <2>2, <2>3, <2>4, <2>5, <2>6, <2>7, <2>8, <2>13 DEF HomesInv, ProcsOK
<1>7. CASE StsSwitch
  <2>1. status[sts.pcb] \in Returned
    BY <1>7 DEF StsSwitch, StsStep, HomesInv, StsHandOK
  <2>2. CASE status[sts.pcb] = "BLOCKED"
    <3>1. /\ sts.pc = "switch" /\ sts'.pc = "block" /\ sts'.pcb = sts.pcb
          /\ UNCHANGED <<lts, io, con, status, obj, trk, cpu, mem, up, q>>
          /\ sem'["dom"] = sem["dom"] /\ sem'["io_request"] = sem["io_request"]
          /\ status[sts.pcb] = "BLOCKED"
      BY <1>7, <2>2, HomesTypes DEF StsSwitch, StsStep
    <3>2. ub' = FALSE
      BY <1>7, <2>2 DEF StsSwitch, HomesInv
    <3>3. NothingSuspended' /\ HandsOK'
      BY <3>1 DEF HomesInv, NothingSuspended, HandsOK
    <3>4. QueuesOK'
      BY <3>1 DEF HomesInv, QueuesOK
    <3>5. ASSUME NEW p \in Procs
          PROVE  /\ Placed(q', lts', sts', io', p) /\ Submitted(q', lts', sts', io', con', p)
                 /\ WaitingOK(q', lts', io', status', obj', p)
                 /\ StartOK(con', status', obj', p)
      BY <3>1, HomesTypes
      DEF HomesInv, ProcsOK, Placed, AtMostOne, Submitted, WaitingOK, StartOK, LtsHas,
          StsHas, IoHas, StsHandOK
    <3>6. StsHandOK(sts', cpu', status', obj')
      BY <3>1, HomesTypes
      DEF StsHandOK, Returned, HomesInv, ProcsOK, Placed, AtMostOne, Submitted, WaitingOK,
          StartOK, LtsHas, StsHas, IoHas
    <3>7. IoTokens' /\ IoFindsPcb'
      BY <3>1, HomesTypes DEF HomesInv, IoTokens, IoFindsPcb, One
    <3>8. MemoryOK'
      BY <3>1, HomesTypes
      DEF HomesInv, MemoryOK, KnownOK, Connections, LtsHas, StsHas, IoHas
    <3>9. \A p \in Procs : Runs(status', obj', p) <=> Runs(status, obj, p)
      BY <3>1 DEF Runs
    <3>10. Taken' = Taken
      BY <3>3, <3>9, RunningSame DEF Taken, HomesInv
    <3>11. Free' = Free /\ HeldByLts' = HeldByLts /\ HeldBySts' = HeldBySts
      BY <3>1 DEF Free, HeldByLts, HeldBySts, One
    <3>12. Free' + Taken' + HeldByLts' + HeldBySts' = Free + Taken + HeldByLts + HeldBySts
      BY <3>10, <3>11, SlotsSum DEF HomesInv
    <3>13. SlotsConserved'
      BY <3>12, SlotsMove DEF HomesInv
    <3>14. QED
      BY <3>2, <3>3, <3>4, <3>5, <3>6, <3>7, <3>8, <3>13 DEF HomesInv, ProcsOK
  <2>3. CASE status[sts.pcb] = "READY"
    <3>1. /\ sts.pc = "switch" /\ sts'.pc = "preempt" /\ sts'.pcb = sts.pcb
          /\ UNCHANGED <<lts, io, con, status, obj, trk, cpu, mem, up, q>>
          /\ sem'["dom"] = sem["dom"] /\ sem'["io_request"] = sem["io_request"]
          /\ status[sts.pcb] = "READY"
      BY <1>7, <2>3, HomesTypes DEF StsSwitch, StsStep
    <3>2. ub' = FALSE
      BY <1>7, <2>3 DEF StsSwitch, HomesInv
    <3>3. NothingSuspended' /\ HandsOK'
      BY <3>1 DEF HomesInv, NothingSuspended, HandsOK
    <3>4. QueuesOK'
      BY <3>1 DEF HomesInv, QueuesOK
    <3>5. ASSUME NEW p \in Procs
          PROVE  /\ Placed(q', lts', sts', io', p) /\ Submitted(q', lts', sts', io', con', p)
                 /\ WaitingOK(q', lts', io', status', obj', p)
                 /\ StartOK(con', status', obj', p)
      BY <3>1, HomesTypes
      DEF HomesInv, ProcsOK, Placed, AtMostOne, Submitted, WaitingOK, StartOK, LtsHas,
          StsHas, IoHas, StsHandOK
    <3>6. StsHandOK(sts', cpu', status', obj')
      BY <3>1, HomesTypes
      DEF StsHandOK, Returned, HomesInv, ProcsOK, Placed, AtMostOne, Submitted, WaitingOK,
          StartOK, LtsHas, StsHas, IoHas
    <3>7. IoTokens' /\ IoFindsPcb'
      BY <3>1, HomesTypes DEF HomesInv, IoTokens, IoFindsPcb, One
    <3>8. MemoryOK'
      BY <3>1, HomesTypes
      DEF HomesInv, MemoryOK, KnownOK, Connections, LtsHas, StsHas, IoHas
    <3>9. \A p \in Procs : Runs(status', obj', p) <=> Runs(status, obj, p)
      BY <3>1 DEF Runs
    <3>10. Taken' = Taken
      BY <3>3, <3>9, RunningSame DEF Taken, HomesInv
    <3>11. Free' = Free /\ HeldByLts' = HeldByLts /\ HeldBySts' = HeldBySts
      BY <3>1 DEF Free, HeldByLts, HeldBySts, One
    <3>12. Free' + Taken' + HeldByLts' + HeldBySts' = Free + Taken + HeldByLts + HeldBySts
      BY <3>10, <3>11, SlotsSum DEF HomesInv
    <3>13. SlotsConserved'
      BY <3>12, SlotsMove DEF HomesInv
    <3>14. QED
      BY <3>2, <3>3, <3>4, <3>5, <3>6, <3>7, <3>8, <3>13 DEF HomesInv, ProcsOK
  <2>4. CASE status[sts.pcb] = "TERMINATED"
    <3>1. /\ sts.pc = "switch" /\ sts'.pc = "free" /\ sts'.pcb = sts.pcb
          /\ UNCHANGED <<lts, io, con, status, obj, trk, cpu, mem, up, q>>
          /\ sem'["dom"] = sem["dom"] /\ sem'["io_request"] = sem["io_request"]
          /\ status[sts.pcb] = "TERMINATED"
      BY <1>7, <2>4, HomesTypes DEF StsSwitch, StsStep
    <3>2. ub' = FALSE
      BY <1>7, <2>4 DEF StsSwitch, HomesInv
    <3>3. NothingSuspended' /\ HandsOK'
      BY <3>1 DEF HomesInv, NothingSuspended, HandsOK
    <3>4. QueuesOK'
      BY <3>1 DEF HomesInv, QueuesOK
    <3>5. ASSUME NEW p \in Procs
          PROVE  /\ Placed(q', lts', sts', io', p) /\ Submitted(q', lts', sts', io', con', p)
                 /\ WaitingOK(q', lts', io', status', obj', p)
                 /\ StartOK(con', status', obj', p)
      BY <3>1, HomesTypes
      DEF HomesInv, ProcsOK, Placed, AtMostOne, Submitted, WaitingOK, StartOK, LtsHas,
          StsHas, IoHas, StsHandOK
    <3>6. StsHandOK(sts', cpu', status', obj')
      BY <3>1, HomesTypes
      DEF StsHandOK, Returned, HomesInv, ProcsOK, Placed, AtMostOne, Submitted, WaitingOK,
          StartOK, LtsHas, StsHas, IoHas
    <3>7. IoTokens' /\ IoFindsPcb'
      BY <3>1, HomesTypes DEF HomesInv, IoTokens, IoFindsPcb, One
    <3>8. MemoryOK'
      BY <3>1, HomesTypes
      DEF HomesInv, MemoryOK, KnownOK, Connections, LtsHas, StsHas, IoHas
    <3>9. \A p \in Procs : Runs(status', obj', p) <=> Runs(status, obj, p)
      BY <3>1 DEF Runs
    <3>10. Taken' = Taken
      BY <3>3, <3>9, RunningSame DEF Taken, HomesInv
    <3>11. Free' = Free /\ HeldByLts' = HeldByLts /\ HeldBySts' = HeldBySts
      BY <3>1 DEF Free, HeldByLts, HeldBySts, One
    <3>12. Free' + Taken' + HeldByLts' + HeldBySts' = Free + Taken + HeldByLts + HeldBySts
      BY <3>10, <3>11, SlotsSum DEF HomesInv
    <3>13. SlotsConserved'
      BY <3>12, SlotsMove DEF HomesInv
    <3>14. QED
      BY <3>2, <3>3, <3>4, <3>5, <3>6, <3>7, <3>8, <3>13 DEF HomesInv, ProcsOK
  <2>5. QED
    BY <2>1, <2>2, <2>3, <2>4 DEF Returned
<1>8. CASE StsBlock
  <2>1. /\ sts.pc = "block" /\ sts'.pc = "notify" /\ sts'.pcb = sts.pcb
        /\ UNCHANGED <<lts, io, con, status, obj, trk, cpu, mem, up>>
        /\ q'["new"] = q["new"] /\ q'["ready"] = q["ready"]
        /\ q'["blocked"] = Append(q["blocked"], sts.pcb) /\ q'["ready_sus"] = q["ready_sus"]
        /\ q'["blocked_sus"] = q["blocked_sus"]
        /\ sem'["dom"] = sem["dom"] /\ sem'["io_request"] = sem["io_request"]
    BY <1>8, HomesTypes DEF StsBlock, StsStep, Push
  <2>2. /\ \A p : In(q'["blocked"], p) <=> In(q["blocked"], p) \/ p = sts.pcb
        /\ ~In(q["blocked"], sts.pcb) => Once(q'["blocked"])
        /\ Len(q'["blocked"]) = Len(q["blocked"]) + 1
    BY <2>1, HomesTypes, PushIn, PushQueue DEF HomesInv, QueuesOK
  <2>3. ub' = FALSE
    BY <1>8 DEF StsBlock, HomesInv
  <2>4. NothingSuspended' /\ HandsOK'
    BY <2>1, <2>2 DEF HomesInv, NothingSuspended, HandsOK
  <2>5. QueuesOK'
    BY <2>1, <2>2, HomesTypes
    DEF QueuesOK, HomesInv, ProcsOK, Placed, AtMostOne, Submitted, WaitingOK, StartOK,
        LtsHas, StsHas, IoHas
  <2>6. ASSUME NEW p \in Procs
        PROVE  /\ Placed(q', lts', sts', io', p) /\ Submitted(q', lts', sts', io', con', p)
               /\ WaitingOK(q', lts', io', status', obj', p)
               /\ StartOK(con', status', obj', p)
    BY <2>1, <2>2, HomesTypes
    DEF HomesInv, ProcsOK, Placed, AtMostOne, Submitted, WaitingOK, StartOK, LtsHas, StsHas,
        IoHas, StsHandOK
  <2>7. StsHandOK(sts', cpu', status', obj')
    BY <2>1, <2>2, HomesTypes
    DEF StsHandOK, Returned, HomesInv, ProcsOK, Placed, AtMostOne, Submitted, WaitingOK,
        StartOK, LtsHas, StsHas, IoHas
  <2>8. IoTokens' /\ IoFindsPcb'
    BY <2>1, <2>2, HomesTypes, SMTT(30) DEF HomesInv, IoTokens, IoFindsPcb, One
  <2>9. MemoryOK'
    BY <2>1, <2>2, HomesTypes
    DEF HomesInv, MemoryOK, KnownOK, Connections, LtsHas, StsHas, IoHas
  <2>10. \A p \in Procs : Runs(status', obj', p) <=> Runs(status, obj, p)
    BY <2>1 DEF Runs
  <2>11. Taken' = Taken
    BY <2>4, <2>10, RunningSame DEF Taken, HomesInv
  <2>12. Free' = Free /\ HeldByLts' = HeldByLts /\ HeldBySts' = HeldBySts
    BY <2>1, <2>2 DEF Free, HeldByLts, HeldBySts, One
  <2>13. Free' + Taken' + HeldByLts' + HeldBySts' = Free + Taken + HeldByLts + HeldBySts
    BY <2>11, <2>12, SlotsSum DEF HomesInv
  <2>14. SlotsConserved'
    BY <2>13, SlotsMove DEF HomesInv
  <2>15. QED
    BY <2>3, <2>4, <2>5, <2>6, <2>7, <2>8, <2>9, <2>14 DEF HomesInv, ProcsOK
<1>9. CASE StsNotify
  <2>1. /\ sts.pc = "notify" /\ sts'.pc = "request" /\ sts'.pcb = sts.pcb
        /\ UNCHANGED <<lts, io, con, status, obj, cpu, mem, up, q>>
        /\ sem'["dom"] = sem["dom"] /\ sem'["io_request"] = sem["io_request"]
        /\ \A p \in Procs, k \in Blocks : trk'[p][k] \in {trk[p][k], "start"}
    BY <1>9, HomesTypes DEF StsNotify, StsStep, TypeOK
  <2>2. ub' = FALSE
    BY <1>9 DEF StsNotify, HomesInv
  <2>3. NothingSuspended' /\ HandsOK'
    BY <2>1 DEF HomesInv, NothingSuspended, HandsOK
  <2>4. QueuesOK'
    BY <2>1 DEF HomesInv, QueuesOK
  <2>5. ASSUME NEW p \in Procs
        PROVE  /\ Placed(q', lts', sts', io', p) /\ Submitted(q', lts', sts', io', con', p)
               /\ WaitingOK(q', lts', io', status', obj', p)
               /\ StartOK(con', status', obj', p)
    BY <2>1, HomesTypes
    DEF HomesInv, ProcsOK, Placed, AtMostOne, Submitted, WaitingOK, StartOK, LtsHas, StsHas,
        IoHas, StsHandOK
  <2>6. StsHandOK(sts', cpu', status', obj')
    BY <2>1, HomesTypes
    DEF StsHandOK, Returned, HomesInv, ProcsOK, Placed, AtMostOne, Submitted, WaitingOK,
        StartOK, LtsHas, StsHas, IoHas
  <2>7. IoTokens' /\ IoFindsPcb'
    BY <2>1, HomesTypes DEF HomesInv, IoTokens, IoFindsPcb, One
  <2>8. MemoryOK'
    BY <2>1, HomesTypes DEF HomesInv, MemoryOK, KnownOK, Connections, LtsHas, StsHas, IoHas
  <2>9. \A p \in Procs : Runs(status', obj', p) <=> Runs(status, obj, p)
    BY <2>1 DEF Runs
  <2>10. Taken' = Taken
    BY <2>3, <2>9, RunningSame DEF Taken, HomesInv
  <2>11. Free' = Free /\ HeldByLts' = HeldByLts /\ HeldBySts' = HeldBySts
    BY <2>1 DEF Free, HeldByLts, HeldBySts, One
  <2>12. Free' + Taken' + HeldByLts' + HeldBySts' = Free + Taken + HeldByLts + HeldBySts
    BY <2>10, <2>11, SlotsSum DEF HomesInv
  <2>13. SlotsConserved'
    BY <2>12, SlotsMove DEF HomesInv
  <2>14. QED
    BY <2>2, <2>3, <2>4, <2>5, <2>6, <2>7, <2>8, <2>13 DEF HomesInv, ProcsOK
<1>10. CASE StsRequestIo
  <2>1. /\ sts.pc = "request" /\ sts'.pc = "signal" /\ sts'.pcb = sts.pcb
        /\ UNCHANGED <<lts, io, con, status, obj, trk, cpu, mem, up, q>>
        /\ sem'["dom"] = sem["dom"] /\ sem'["io_request"] = sem["io_request"] + 1
    BY <1>10, HomesTypes DEF StsRequestIo, StsStep, Signal
  <2>2. ub' = FALSE
    BY <1>10 DEF StsRequestIo, HomesInv
  <2>3. NothingSuspended' /\ HandsOK'
    BY <2>1 DEF HomesInv, NothingSuspended, HandsOK
  <2>4. QueuesOK'
    BY <2>1 DEF HomesInv, QueuesOK
  <2>5. ASSUME NEW p \in Procs
        PROVE  /\ Placed(q', lts', sts', io', p) /\ Submitted(q', lts', sts', io', con', p)
               /\ WaitingOK(q', lts', io', status', obj', p)
               /\ StartOK(con', status', obj', p)
    BY <2>1, HomesTypes
    DEF HomesInv, ProcsOK, Placed, AtMostOne, Submitted, WaitingOK, StartOK, LtsHas, StsHas,
        IoHas, StsHandOK
  <2>6. StsHandOK(sts', cpu', status', obj')
    BY <2>1, HomesTypes
    DEF StsHandOK, Returned, HomesInv, ProcsOK, Placed, AtMostOne, Submitted, WaitingOK,
        StartOK, LtsHas, StsHas, IoHas
  <2>7. IoTokens' /\ IoFindsPcb'
    BY <2>1, HomesTypes DEF HomesInv, IoTokens, IoFindsPcb, One
  <2>8. MemoryOK'
    BY <2>1, HomesTypes DEF HomesInv, MemoryOK, KnownOK, Connections, LtsHas, StsHas, IoHas
  <2>9. \A p \in Procs : Runs(status', obj', p) <=> Runs(status, obj, p)
    BY <2>1 DEF Runs
  <2>10. Taken' = Taken
    BY <2>3, <2>9, RunningSame DEF Taken, HomesInv
  <2>11. Free' = Free /\ HeldByLts' = HeldByLts /\ HeldBySts' = HeldBySts
    BY <2>1 DEF Free, HeldByLts, HeldBySts, One
  <2>12. Free' + Taken' + HeldByLts' + HeldBySts' = Free + Taken + HeldByLts + HeldBySts
    BY <2>10, <2>11, SlotsSum DEF HomesInv
  <2>13. SlotsConserved'
    BY <2>12, SlotsMove DEF HomesInv
  <2>14. QED
    BY <2>2, <2>3, <2>4, <2>5, <2>6, <2>7, <2>8, <2>13 DEF HomesInv, ProcsOK
<1>11. CASE StsPreempt
  <2>1. /\ sts.pc = "preempt" /\ sts'.pc = "signal" /\ sts'.pcb = sts.pcb
        /\ UNCHANGED <<lts, io, con, status, obj, trk, cpu, mem, up>>
        /\ q'["new"] = q["new"] /\ q'["ready"] = Append(q["ready"], sts.pcb)
        /\ q'["blocked"] = q["blocked"] /\ q'["ready_sus"] = q["ready_sus"]
        /\ q'["blocked_sus"] = q["blocked_sus"]
        /\ sem'["dom"] = sem["dom"] /\ sem'["io_request"] = sem["io_request"]
    BY <1>11, HomesTypes DEF StsPreempt, StsStep, Push
  <2>2. /\ \A p : In(q'["ready"], p) <=> In(q["ready"], p) \/ p = sts.pcb
        /\ ~In(q["ready"], sts.pcb) => Once(q'["ready"])
        /\ Len(q'["ready"]) = Len(q["ready"]) + 1
    BY <2>1, HomesTypes, PushIn, PushQueue DEF HomesInv, QueuesOK
  <2>3. ub' = FALSE
    BY <1>11 DEF StsPreempt, HomesInv
  <2>4. NothingSuspended' /\ HandsOK'
    BY <2>1, <2>2 DEF HomesInv, NothingSuspended, HandsOK
  <2>5. QueuesOK'
    BY <2>1, <2>2, HomesTypes
    DEF QueuesOK, HomesInv, ProcsOK, Placed, AtMostOne, Submitted, WaitingOK, StartOK,
        LtsHas, StsHas, IoHas
  <2>6. ASSUME NEW p \in Procs
        PROVE  /\ Placed(q', lts', sts', io', p) /\ Submitted(q', lts', sts', io', con', p)
               /\ WaitingOK(q', lts', io', status', obj', p)
               /\ StartOK(con', status', obj', p)
    BY <2>1, <2>2, HomesTypes
    DEF HomesInv, ProcsOK, Placed, AtMostOne, Submitted, WaitingOK, StartOK, LtsHas, StsHas,
        IoHas, StsHandOK
  <2>7. StsHandOK(sts', cpu', status', obj')
    BY <2>1, <2>2, HomesTypes
    DEF StsHandOK, Returned, HomesInv, ProcsOK, Placed, AtMostOne, Submitted, WaitingOK,
        StartOK, LtsHas, StsHas, IoHas
  <2>8. IoTokens' /\ IoFindsPcb'
    BY <2>1, <2>2, HomesTypes DEF HomesInv, IoTokens, IoFindsPcb, One
  <2>9. MemoryOK'
    BY <2>1, <2>2, HomesTypes
    DEF HomesInv, MemoryOK, KnownOK, Connections, LtsHas, StsHas, IoHas
  <2>10. \A p \in Procs : Runs(status', obj', p) <=> Runs(status, obj, p)
    BY <2>1 DEF Runs
  <2>11. Taken' = Taken
    BY <2>4, <2>10, RunningSame DEF Taken, HomesInv
  <2>12. Free' = Free /\ HeldByLts' = HeldByLts /\ HeldBySts' = HeldBySts
    BY <2>1, <2>2 DEF Free, HeldByLts, HeldBySts, One
  <2>13. Free' + Taken' + HeldByLts' + HeldBySts' = Free + Taken + HeldByLts + HeldBySts
    BY <2>11, <2>12, SlotsSum DEF HomesInv
  <2>14. SlotsConserved'
    BY <2>13, SlotsMove DEF HomesInv
  <2>15. QED
    BY <2>3, <2>4, <2>5, <2>6, <2>7, <2>8, <2>9, <2>14 DEF HomesInv, ProcsOK
<1>12. CASE StsFree
  <2>1. /\ sts.pc = "free" /\ sts'.pc = "slot" /\ sts'.pcb = sts.pcb
        /\ UNCHANGED <<lts, io, con, status, trk, cpu, up, q>>
        /\ sem'["dom"] = sem["dom"] /\ sem'["io_request"] = sem["io_request"]
        /\ \A p \in Procs : obj'[p] = IF p = sts.pcb THEN "freed" ELSE obj[p]
        /\ \A p \in Procs : mem'[p] = IF p = sts.pcb /\ "memory" \in up THEN "freed"
                                                            ELSE mem[p]
    BY <1>12, HomesTypes DEF StsFree, StsStep, TellMemory
  <2>2. ub' = FALSE
    BY <1>12 DEF StsFree, StsStep, HomesInv
  <2>3. NothingSuspended' /\ HandsOK'
    BY <2>1 DEF HomesInv, NothingSuspended, HandsOK
  <2>4. QueuesOK'
    BY <2>1 DEF HomesInv, QueuesOK
  <2>5. ASSUME NEW p \in Procs
        PROVE  /\ Placed(q', lts', sts', io', p) /\ Submitted(q', lts', sts', io', con', p)
               /\ WaitingOK(q', lts', io', status', obj', p)
               /\ StartOK(con', status', obj', p)
    BY <2>1, HomesTypes
    DEF HomesInv, ProcsOK, Placed, AtMostOne, Submitted, WaitingOK, StartOK, LtsHas, StsHas,
        IoHas, StsHandOK
  <2>6. StsHandOK(sts', cpu', status', obj')
    BY <2>1, HomesTypes
    DEF StsHandOK, Returned, HomesInv, ProcsOK, Placed, AtMostOne, Submitted, WaitingOK,
        StartOK, LtsHas, StsHas, IoHas
  <2>7. IoTokens' /\ IoFindsPcb'
    BY <2>1, HomesTypes DEF HomesInv, IoTokens, IoFindsPcb, One
  <2>8. MemoryOK'
    BY <2>1, HomesTypes
    DEF HomesInv, MemoryOK, KnownOK, Connections, LtsHas, StsHas, IoHas, ProcsOK, Placed,
        AtMostOne
  <2>9. /\ Runs(status, obj, sts.pcb) /\ ~Runs(status', obj', sts.pcb)
        /\ \A p \in Procs \ {sts.pcb} : Runs(status', obj', p) <=> Runs(status, obj, p)
    BY <2>1, HomesTypes
    DEF Runs, StsHandOK, Returned, HomesInv, ProcsOK, Placed, AtMostOne, Submitted,
        WaitingOK, StartOK, LtsHas, StsHas, IoHas
  <2>10. Taken' = Taken - 1
    BY <2>3, <2>9, <2>1, RunningLess, HomesTypes DEF Taken, HomesInv
  <2>11. Free' = Free /\ HeldByLts' = HeldByLts /\ HeldBySts' = HeldBySts + 1
    BY <2>1 DEF Free, HeldByLts, HeldBySts, One
  <2>12. Free' + Taken' + HeldByLts' + HeldBySts' = Free + Taken + HeldByLts + HeldBySts
    BY <2>10, <2>11, SlotsSum DEF HomesInv
  <2>13. SlotsConserved'
    BY <2>12, SlotsMove DEF HomesInv
  <2>14. QED
    BY <2>2, <2>3, <2>4, <2>5, <2>6, <2>7, <2>8, <2>13 DEF HomesInv, ProcsOK
<1>13. CASE StsReleaseSlot
  <2>1. CASE sts.pc = "slot"
    <3>1. /\ sts.pc = "slot" /\ sts'.pc = "signal" /\ sts'.pcb = NoPcb
          /\ UNCHANGED <<lts, io, con, status, obj, trk, cpu, mem, up, q>>
          /\ sem'["dom"] = sem["dom"] + 1 /\ sem'["io_request"] = sem["io_request"]
      BY <1>13, <2>1, HomesTypes DEF StsReleaseSlot, StsStep, Signal
    <3>2. ub' = FALSE
      BY <1>13, <2>1 DEF StsReleaseSlot, HomesInv
    <3>3. NothingSuspended' /\ HandsOK'
      BY <3>1 DEF HomesInv, NothingSuspended, HandsOK
    <3>4. QueuesOK'
      BY <3>1 DEF HomesInv, QueuesOK
    <3>5. ASSUME NEW p \in Procs
          PROVE  /\ Placed(q', lts', sts', io', p) /\ Submitted(q', lts', sts', io', con', p)
                 /\ WaitingOK(q', lts', io', status', obj', p)
                 /\ StartOK(con', status', obj', p)
      BY <3>1, HomesTypes
      DEF HomesInv, ProcsOK, Placed, AtMostOne, Submitted, WaitingOK, StartOK, LtsHas,
          StsHas, IoHas, StsHandOK
    <3>6. StsHandOK(sts', cpu', status', obj')
      BY <3>1, HomesTypes
      DEF StsHandOK, Returned, HomesInv, ProcsOK, Placed, AtMostOne, Submitted, WaitingOK,
          StartOK, LtsHas, StsHas, IoHas
    <3>7. IoTokens' /\ IoFindsPcb'
      BY <3>1, HomesTypes DEF HomesInv, IoTokens, IoFindsPcb, One
    <3>8. MemoryOK'
      BY <3>1, HomesTypes
      DEF HomesInv, MemoryOK, KnownOK, Connections, LtsHas, StsHas, IoHas
    <3>9. \A p \in Procs : Runs(status', obj', p) <=> Runs(status, obj, p)
      BY <3>1 DEF Runs
    <3>10. Taken' = Taken
      BY <3>3, <3>9, RunningSame DEF Taken, HomesInv
    <3>11. Free' = Free + 1 /\ HeldByLts' = HeldByLts /\ HeldBySts' = HeldBySts - 1
      BY <3>1 DEF Free, HeldByLts, HeldBySts, One
    <3>12. Free' + Taken' + HeldByLts' + HeldBySts' = Free + Taken + HeldByLts + HeldBySts
      BY <3>10, <3>11, SlotsSum DEF HomesInv
    <3>13. SlotsConserved'
      BY <3>12, SlotsMove DEF HomesInv
    <3>14. QED
      BY <3>2, <3>3, <3>4, <3>5, <3>6, <3>7, <3>8, <3>13 DEF HomesInv, ProcsOK
  <2>2. CASE sts.pc = "slot_fail"
    <3>1. /\ sts.pc = "slot_fail" /\ sts'.pc = "wait" /\ sts'.pcb = NoPcb
          /\ UNCHANGED <<lts, io, con, status, obj, trk, cpu, mem, up, q>>
          /\ sem'["dom"] = sem["dom"] + 1 /\ sem'["io_request"] = sem["io_request"]
      BY <1>13, <2>2, HomesTypes DEF StsReleaseSlot, StsStep, Signal
    <3>2. ub' = FALSE
      BY <1>13, <2>2 DEF StsReleaseSlot, HomesInv
    <3>3. NothingSuspended' /\ HandsOK'
      BY <3>1 DEF HomesInv, NothingSuspended, HandsOK
    <3>4. QueuesOK'
      BY <3>1 DEF HomesInv, QueuesOK
    <3>5. ASSUME NEW p \in Procs
          PROVE  /\ Placed(q', lts', sts', io', p) /\ Submitted(q', lts', sts', io', con', p)
                 /\ WaitingOK(q', lts', io', status', obj', p)
                 /\ StartOK(con', status', obj', p)
      BY <3>1, HomesTypes
      DEF HomesInv, ProcsOK, Placed, AtMostOne, Submitted, WaitingOK, StartOK, LtsHas,
          StsHas, IoHas, StsHandOK
    <3>6. StsHandOK(sts', cpu', status', obj')
      BY <3>1, HomesTypes
      DEF StsHandOK, Returned, HomesInv, ProcsOK, Placed, AtMostOne, Submitted, WaitingOK,
          StartOK, LtsHas, StsHas, IoHas
    <3>7. IoTokens' /\ IoFindsPcb'
      BY <3>1, HomesTypes DEF HomesInv, IoTokens, IoFindsPcb, One
    <3>8. MemoryOK'
      BY <3>1, HomesTypes
      DEF HomesInv, MemoryOK, KnownOK, Connections, LtsHas, StsHas, IoHas
    <3>9. \A p \in Procs : Runs(status', obj', p) <=> Runs(status, obj, p)
      BY <3>1 DEF Runs
    <3>10. Taken' = Taken
      BY <3>3, <3>9, RunningSame DEF Taken, HomesInv
    <3>11. Free' = Free + 1 /\ HeldByLts' = HeldByLts /\ HeldBySts' = HeldBySts - 1
      BY <3>1 DEF Free, HeldByLts, HeldBySts, One
    <3>12. Free' + Taken' + HeldByLts' + HeldBySts' = Free + Taken + HeldByLts + HeldBySts
      BY <3>10, <3>11, SlotsSum DEF HomesInv
    <3>13. SlotsConserved'
      BY <3>12, SlotsMove DEF HomesInv
    <3>14. QED
      BY <3>2, <3>3, <3>4, <3>5, <3>6, <3>7, <3>8, <3>13 DEF HomesInv, ProcsOK
  <2>3. QED
    BY <1>13, <2>1, <2>2 DEF StsReleaseSlot, StsStep
<1>14. CASE StsSignal
  <2>1. /\ sts.pc = "signal" /\ sts'.pc = "wait" /\ sts'.pcb = NoPcb
        /\ UNCHANGED <<lts, io, con, status, obj, trk, cpu, mem, up, q>>
        /\ sem'["dom"] = sem["dom"] /\ sem'["io_request"] = sem["io_request"]
    BY <1>14, HomesTypes DEF StsSignal, StsStep, Signal
  <2>2. ub' = FALSE
    BY <1>14 DEF StsSignal, HomesInv
  <2>3. NothingSuspended' /\ HandsOK'
    BY <2>1 DEF HomesInv, NothingSuspended, HandsOK
  <2>4. QueuesOK'
    BY <2>1 DEF HomesInv, QueuesOK
  <2>5. ASSUME NEW p \in Procs
        PROVE  /\ Placed(q', lts', sts', io', p) /\ Submitted(q', lts', sts', io', con', p)
               /\ WaitingOK(q', lts', io', status', obj', p)
               /\ StartOK(con', status', obj', p)
    BY <2>1, HomesTypes
    DEF HomesInv, ProcsOK, Placed, AtMostOne, Submitted, WaitingOK, StartOK, LtsHas, StsHas,
        IoHas, StsHandOK
  <2>6. StsHandOK(sts', cpu', status', obj')
    BY <2>1, HomesTypes
    DEF StsHandOK, Returned, HomesInv, ProcsOK, Placed, AtMostOne, Submitted, WaitingOK,
        StartOK, LtsHas, StsHas, IoHas
  <2>7. IoTokens' /\ IoFindsPcb'
    BY <2>1, HomesTypes DEF HomesInv, IoTokens, IoFindsPcb, One
  <2>8. MemoryOK'
    BY <2>1, HomesTypes DEF HomesInv, MemoryOK, KnownOK, Connections, LtsHas, StsHas, IoHas
  <2>9. \A p \in Procs : Runs(status', obj', p) <=> Runs(status, obj, p)
    BY <2>1 DEF Runs
  <2>10. Taken' = Taken
    BY <2>3, <2>9, RunningSame DEF Taken, HomesInv
  <2>11. Free' = Free /\ HeldByLts' = HeldByLts /\ HeldBySts' = HeldBySts
    BY <2>1 DEF Free, HeldByLts, HeldBySts, One
  <2>12. Free' + Taken' + HeldByLts' + HeldBySts' = Free + Taken + HeldByLts + HeldBySts
    BY <2>10, <2>11, SlotsSum DEF HomesInv
  <2>13. SlotsConserved'
    BY <2>12, SlotsMove DEF HomesInv
  <2>14. QED
    BY <2>2, <2>3, <2>4, <2>5, <2>6, <2>7, <2>8, <2>13 DEF HomesInv, ProcsOK
<1>15. QED
  BY <1>1, <1>2, <1>3, <1>4, <1>5, <1>6, <1>7, <1>8, <1>9,
     <1>10, <1>11, <1>12, <1>13, <1>14 DEF Sts

\* The I/O scheduler: what it has in hand is blocked, so the burst ends with
\* the event of a process that is not suspended.
LEMMA IoHomes ==
  ASSUME TypeOK, HomesInv, Io
  PROVE  HomesInv'
<1> io.pc \notin {"sus_find", "sus_push", "sus_signal"}
  BY DEF HomesInv, NothingSuspended
<1>1. CASE IoWait
  <2>1. /\ io.pc = "wait" /\ io'.pc = "sus" /\ io'.pcb = NoPcb
        /\ UNCHANGED <<lts, sts, con, status, obj, trk, cpu, mem, up, q>>
        /\ sem'["dom"] = sem["dom"] /\ sem'["io_request"] = sem["io_request"] - 1
    BY <1>1, HomesTypes DEF IoWait, IoStep, Wait
  <2>2. ub' = FALSE
    BY <1>1 DEF IoWait, HomesInv
  <2>3. NothingSuspended' /\ HandsOK'
    BY <2>1 DEF HomesInv, NothingSuspended, HandsOK
  <2>4. QueuesOK'
    BY <2>1 DEF HomesInv, QueuesOK
  <2>5. ASSUME NEW p \in Procs
        PROVE  /\ Placed(q', lts', sts', io', p) /\ Submitted(q', lts', sts', io', con', p)
               /\ WaitingOK(q', lts', io', status', obj', p)
               /\ StartOK(con', status', obj', p)
    BY <2>1, HomesTypes
    DEF HomesInv, ProcsOK, Placed, AtMostOne, Submitted, WaitingOK, StartOK, LtsHas, StsHas,
        IoHas
  <2>6. StsHandOK(sts', cpu', status', obj')
    BY <2>1 DEF HomesInv, StsHandOK
  <2>7. IoTokens' /\ IoFindsPcb'
    BY <2>1, HomesTypes, SMTT(30) DEF HomesInv, IoTokens, IoFindsPcb, One
  <2>8. MemoryOK'
    BY <2>1, HomesTypes DEF HomesInv, MemoryOK, KnownOK, Connections, LtsHas, StsHas, IoHas
  <2>9. \A p \in Procs : Runs(status', obj', p) <=> Runs(status, obj, p)
    BY <2>1 DEF Runs
  <2>10. Taken' = Taken
    BY <2>3, <2>9, RunningSame DEF Taken, HomesInv
  <2>11. Free' = Free /\ HeldByLts' = HeldByLts /\ HeldBySts' = HeldBySts
    BY <2>1 DEF Free, HeldByLts, HeldBySts, One
  <2>12. Free' + Taken' + HeldByLts' + HeldBySts' = Free + Taken + HeldByLts + HeldBySts
    BY <2>10, <2>11, SlotsSum DEF HomesInv
  <2>13. SlotsConserved'
    BY <2>12, SlotsMove DEF HomesInv
  <2>14. QED
    BY <2>2, <2>3, <2>4, <2>5, <2>6, <2>7, <2>8, <2>13 DEF HomesInv, ProcsOK
<1>2. CASE IoPopSuspended
  <2>1. /\ io.pc = "sus" /\ io'.pc = "blk" /\ io'.pcb = NoPcb
        /\ UNCHANGED <<lts, sts, con, status, obj, trk, cpu, mem, up, q>>
        /\ sem'["dom"] = sem["dom"] /\ sem'["io_request"] = sem["io_request"]
    BY <1>2, HomesTypes DEF IoPopSuspended, IoStep, HomesInv, NothingSuspended
  <2>2. ub' = FALSE
    BY <1>2 DEF IoPopSuspended, HomesInv
  <2>3. NothingSuspended' /\ HandsOK'
    BY <2>1 DEF HomesInv, NothingSuspended, HandsOK
  <2>4. QueuesOK'
    BY <2>1 DEF HomesInv, QueuesOK
  <2>5. ASSUME NEW p \in Procs
        PROVE  /\ Placed(q', lts', sts', io', p) /\ Submitted(q', lts', sts', io', con', p)
               /\ WaitingOK(q', lts', io', status', obj', p)
               /\ StartOK(con', status', obj', p)
    BY <2>1, HomesTypes
    DEF HomesInv, ProcsOK, Placed, AtMostOne, Submitted, WaitingOK, StartOK, LtsHas, StsHas,
        IoHas
  <2>6. StsHandOK(sts', cpu', status', obj')
    BY <2>1 DEF HomesInv, StsHandOK
  <2>7. IoTokens' /\ IoFindsPcb'
    BY <2>1, HomesTypes DEF HomesInv, IoTokens, IoFindsPcb, One
  <2>8. MemoryOK'
    BY <2>1, HomesTypes DEF HomesInv, MemoryOK, KnownOK, Connections, LtsHas, StsHas, IoHas
  <2>9. \A p \in Procs : Runs(status', obj', p) <=> Runs(status, obj, p)
    BY <2>1 DEF Runs
  <2>10. Taken' = Taken
    BY <2>3, <2>9, RunningSame DEF Taken, HomesInv
  <2>11. Free' = Free /\ HeldByLts' = HeldByLts /\ HeldBySts' = HeldBySts
    BY <2>1 DEF Free, HeldByLts, HeldBySts, One
  <2>12. Free' + Taken' + HeldByLts' + HeldBySts' = Free + Taken + HeldByLts + HeldBySts
    BY <2>10, <2>11, SlotsSum DEF HomesInv
  <2>13. SlotsConserved'
    BY <2>12, SlotsMove DEF HomesInv
  <2>14. QED
    BY <2>2, <2>3, <2>4, <2>5, <2>6, <2>7, <2>8, <2>13 DEF HomesInv, ProcsOK
<1>3. CASE IoPopBlocked
  <2>1. q["blocked"] # <<>>
    BY <1>3, HomesTypes DEF IoPopBlocked, IoStep, HomesInv, IoTokens, One
  <2>2. /\ io.pc = "blk" /\ io'.pc = "current" /\ io'.pcb = Head(q["blocked"])
        /\ UNCHANGED <<lts, sts, con, status, obj, trk, cpu, mem, up>>
        /\ q'["new"] = q["new"] /\ q'["ready"] = q["ready"]
        /\ q'["blocked"] = Tail(q["blocked"]) /\ q'["ready_sus"] = q["ready_sus"]
        /\ q'["blocked_sus"] = q["blocked_sus"]
        /\ sem'["dom"] = sem["dom"] /\ sem'["io_request"] = sem["io_request"]
    BY <1>3, <2>1, HomesTypes DEF IoPopBlocked, IoStep, Pop
  <2>3. /\ In(q["blocked"], Head(q["blocked"])) /\ Once(q'["blocked"])
        /\ \A p : In(q'["blocked"], p) => In(q["blocked"], p) /\ p # Head(q["blocked"])
        /\ Len(q'["blocked"]) = Len(q["blocked"]) - 1
    BY <2>2, <2>1, HomesTypes, PopIn, PopQueue DEF HomesInv, QueuesOK
  <2>4. ub' = FALSE
    BY <1>3, <2>1 DEF IoPopBlocked, HomesInv
  <2>5. NothingSuspended' /\ HandsOK'
    BY <2>2, <2>1, <2>3 DEF HomesInv, NothingSuspended, HandsOK
  <2>6. QueuesOK'
    BY <2>2, <2>1, <2>3 DEF HomesInv, QueuesOK
  <2>7. ASSUME NEW p \in Procs
        PROVE  /\ Placed(q', lts', sts', io', p) /\ Submitted(q', lts', sts', io', con', p)
               /\ WaitingOK(q', lts', io', status', obj', p)
               /\ StartOK(con', status', obj', p)
    BY <2>2, <2>1, <2>3, HomesTypes
    DEF HomesInv, ProcsOK, Placed, AtMostOne, Submitted, WaitingOK, StartOK, LtsHas, StsHas,
        IoHas
  <2>8. StsHandOK(sts', cpu', status', obj')
    BY <2>2, <2>1, <2>3 DEF HomesInv, StsHandOK
  <2>9. /\ One(io.pc \in {"sus", "blk"}) = 1 /\ One(io'.pc \in {"sus", "blk"}) = 0
        /\ One(sts'.pc \in {"notify", "request"}) = One(sts.pc \in {"notify", "request"})
        /\ One(sts.pc \in {"notify", "request"}) \in Nat
        /\ io'.pc # "reset"
    BY <2>2 DEF One
  <2>10. /\ Len(q["blocked"]) \in Nat /\ sem["io_request"] \in Nat
         /\ Len(q'["blocked"]) = Len(q["blocked"]) - 1 /\ sem'["io_request"] = sem["io_request"]
    BY <2>2, <2>1, <2>3, HomesTypes
  <2>11. IoTokens' /\ IoFindsPcb'
    BY <2>9, <2>10 DEF HomesInv, IoTokens, IoFindsPcb
  <2>12. MemoryOK'
    BY <2>2, <2>1, <2>3, HomesTypes
    DEF HomesInv, MemoryOK, KnownOK, Connections, LtsHas, StsHas, IoHas
  <2>13. \A p \in Procs : Runs(status', obj', p) <=> Runs(status, obj, p)
    BY <2>2 DEF Runs
  <2>14. Taken' = Taken
    BY <2>5, <2>13, RunningSame DEF Taken, HomesInv
  <2>15. Free' = Free /\ HeldByLts' = HeldByLts /\ HeldBySts' = HeldBySts
    BY <2>2, <2>1, <2>3 DEF Free, HeldByLts, HeldBySts, One
  <2>16. Free' + Taken' + HeldByLts' + HeldBySts' = Free + Taken + HeldByLts + HeldBySts
    BY <2>14, <2>15, SlotsSum DEF HomesInv
  <2>17. SlotsConserved'
    BY <2>16, SlotsMove DEF HomesInv
  <2>18. QED
    BY <2>4, <2>5, <2>6, <2>7, <2>8, <2>11, <2>12, <2>17 DEF HomesInv, ProcsOK
<1>4. CASE IoCurrent
  <2>1. /\ io.pc = "current" /\ io'.pc = "burst" /\ io'.pcb = io.pcb
        /\ UNCHANGED <<lts, sts, con, status, obj, trk, cpu, mem, up, q>>
        /\ sem'["dom"] = sem["dom"] /\ sem'["io_request"] = sem["io_request"]
    BY <1>4, HomesTypes DEF IoCurrent, IoStep
  <2>2. ub' = FALSE
    BY <1>4, HomesTypes
    DEF IoCurrent, IoStep, Uses, HomesInv, ProcsOK, WaitingOK, LtsHas, IoHas, StsHandOK
  <2>3. NothingSuspended' /\ HandsOK'
    BY <2>1 DEF HomesInv, NothingSuspended, HandsOK
  <2>4. QueuesOK'
    BY <2>1 DEF HomesInv, QueuesOK
  <2>5. ASSUME NEW p \in Procs
        PROVE  /\ Placed(q', lts', sts', io', p) /\ Submitted(q', lts', sts', io', con', p)
               /\ WaitingOK(q', lts', io', status', obj', p)
               /\ StartOK(con', status', obj', p)
    BY <2>1, HomesTypes
    DEF HomesInv, ProcsOK, Placed, AtMostOne, Submitted, WaitingOK, StartOK, LtsHas, StsHas,
        IoHas
  <2>6. StsHandOK(sts', cpu', status', obj')
    BY <2>1 DEF HomesInv, StsHandOK
  <2>7. IoTokens' /\ IoFindsPcb'
    BY <2>1, HomesTypes DEF HomesInv, IoTokens, IoFindsPcb, One
  <2>8. MemoryOK'
    BY <2>1, HomesTypes DEF HomesInv, MemoryOK, KnownOK, Connections, LtsHas, StsHas, IoHas
  <2>9. \A p \in Procs : Runs(status', obj', p) <=> Runs(status, obj, p)
    BY <2>1 DEF Runs
  <2>10. Taken' = Taken
    BY <2>3, <2>9, RunningSame DEF Taken, HomesInv
  <2>11. Free' = Free /\ HeldByLts' = HeldByLts /\ HeldBySts' = HeldBySts
    BY <2>1 DEF Free, HeldByLts, HeldBySts, One
  <2>12. Free' + Taken' + HeldByLts' + HeldBySts' = Free + Taken + HeldByLts + HeldBySts
    BY <2>10, <2>11, SlotsSum DEF HomesInv
  <2>13. SlotsConserved'
    BY <2>12, SlotsMove DEF HomesInv
  <2>14. QED
    BY <2>2, <2>3, <2>4, <2>5, <2>6, <2>7, <2>8, <2>13 DEF HomesInv, ProcsOK
<1>5. CASE IoBurst
  <2>1. /\ io.pc = "burst" /\ io'.pc = "ready" /\ io'.pcb = io.pcb
        /\ UNCHANGED <<lts, sts, con, status, obj, trk, cpu, mem, up, q>>
        /\ sem'["dom"] = sem["dom"] /\ sem'["io_request"] = sem["io_request"]
    BY <1>5, HomesTypes DEF IoBurst, IoStep, HomesInv, ProcsOK, WaitingOK, IoHas
  <2>2. ub' = FALSE
    BY <1>5, HomesTypes
    DEF IoBurst, IoStep, Uses, HomesInv, ProcsOK, WaitingOK, LtsHas, IoHas, StsHandOK
  <2>3. NothingSuspended' /\ HandsOK'
    BY <2>1 DEF HomesInv, NothingSuspended, HandsOK
  <2>4. QueuesOK'
    BY <2>1 DEF HomesInv, QueuesOK
  <2>5. ASSUME NEW p \in Procs
        PROVE  /\ Placed(q', lts', sts', io', p) /\ Submitted(q', lts', sts', io', con', p)
               /\ WaitingOK(q', lts', io', status', obj', p)
               /\ StartOK(con', status', obj', p)
    BY <2>1, HomesTypes
    DEF HomesInv, ProcsOK, Placed, AtMostOne, Submitted, WaitingOK, StartOK, LtsHas, StsHas,
        IoHas
  <2>6. StsHandOK(sts', cpu', status', obj')
    BY <2>1 DEF HomesInv, StsHandOK
  <2>7. IoTokens' /\ IoFindsPcb'
    BY <2>1, HomesTypes DEF HomesInv, IoTokens, IoFindsPcb, One
  <2>8. MemoryOK'
    BY <2>1, HomesTypes DEF HomesInv, MemoryOK, KnownOK, Connections, LtsHas, StsHas, IoHas
  <2>9. \A p \in Procs : Runs(status', obj', p) <=> Runs(status, obj, p)
    BY <2>1 DEF Runs
  <2>10. Taken' = Taken
    BY <2>3, <2>9, RunningSame DEF Taken, HomesInv
  <2>11. Free' = Free /\ HeldByLts' = HeldByLts /\ HeldBySts' = HeldBySts
    BY <2>1 DEF Free, HeldByLts, HeldBySts, One
  <2>12. Free' + Taken' + HeldByLts' + HeldBySts' = Free + Taken + HeldByLts + HeldBySts
    BY <2>10, <2>11, SlotsSum DEF HomesInv
  <2>13. SlotsConserved'
    BY <2>12, SlotsMove DEF HomesInv
  <2>14. QED
    BY <2>2, <2>3, <2>4, <2>5, <2>6, <2>7, <2>8, <2>13 DEF HomesInv, ProcsOK
<1>6. CASE IoReady
  <2>1. /\ io.pc = "ready" /\ io'.pc = "interrupt" /\ io'.pcb = io.pcb
        /\ UNCHANGED <<lts, sts, con, obj, trk, cpu, mem, up>>
        /\ q'["new"] = q["new"] /\ q'["ready"] = Append(q["ready"], io.pcb)
        /\ q'["blocked"] = q["blocked"] /\ q'["ready_sus"] = q["ready_sus"]
        /\ q'["blocked_sus"] = q["blocked_sus"]
        /\ sem'["dom"] = sem["dom"] /\ sem'["io_request"] = sem["io_request"]
        /\ \A p \in Procs : status'[p] = IF p = io.pcb THEN "READY" ELSE status[p]
    BY <1>6, HomesTypes DEF IoReady, IoStep, Push, SetStatus
  <2>2. /\ \A p : In(q'["ready"], p) <=> In(q["ready"], p) \/ p = io.pcb
        /\ ~In(q["ready"], io.pcb) => Once(q'["ready"])
        /\ Len(q'["ready"]) = Len(q["ready"]) + 1
    BY <2>1, HomesTypes, PushIn, PushQueue DEF HomesInv, QueuesOK
  <2>3. ub' = FALSE
    BY <1>6, HomesTypes
    DEF IoReady, IoStep, Uses, HomesInv, ProcsOK, WaitingOK, LtsHas, IoHas, StsHandOK
  <2>4. NothingSuspended' /\ HandsOK'
    BY <2>1, <2>2 DEF HomesInv, NothingSuspended, HandsOK
  <2>5. QueuesOK'
    BY <2>1, <2>2, HomesTypes
    DEF QueuesOK, HomesInv, ProcsOK, Placed, AtMostOne, Submitted, WaitingOK, StartOK,
        LtsHas, StsHas, IoHas
  <2>6. ASSUME NEW p \in Procs
        PROVE  /\ Placed(q', lts', sts', io', p) /\ Submitted(q', lts', sts', io', con', p)
               /\ WaitingOK(q', lts', io', status', obj', p)
               /\ StartOK(con', status', obj', p)
    BY <2>1, <2>2, HomesTypes
    DEF HomesInv, ProcsOK, Placed, AtMostOne, Submitted, WaitingOK, StartOK, LtsHas, StsHas,
        IoHas
  <2>7. StsHandOK(sts', cpu', status', obj')
    BY <2>1, <2>2, HomesTypes
    DEF StsHandOK, Returned, HomesInv, ProcsOK, Placed, AtMostOne, Submitted, WaitingOK,
        StartOK, LtsHas, StsHas, IoHas
  <2>8. IoTokens' /\ IoFindsPcb'
    BY <2>1, <2>2, HomesTypes DEF HomesInv, IoTokens, IoFindsPcb, One
  <2>9. MemoryOK'
    BY <2>1, <2>2, HomesTypes
    DEF HomesInv, MemoryOK, KnownOK, Connections, LtsHas, StsHas, IoHas
  <2>10. \A p \in Procs : Runs(status', obj', p) <=> Runs(status, obj, p)
    BY <2>1, <2>2, HomesTypes
    DEF Runs, StsHandOK, Returned, HomesInv, ProcsOK, Placed, AtMostOne, Submitted,
        WaitingOK, StartOK, LtsHas, StsHas, IoHas
  <2>11. Taken' = Taken
    BY <2>4, <2>10, RunningSame DEF Taken, HomesInv
  <2>12. Free' = Free /\ HeldByLts' = HeldByLts /\ HeldBySts' = HeldBySts
    BY <2>1, <2>2 DEF Free, HeldByLts, HeldBySts, One
  <2>13. Free' + Taken' + HeldByLts' + HeldBySts' = Free + Taken + HeldByLts + HeldBySts
    BY <2>11, <2>12, SlotsSum DEF HomesInv
  <2>14. SlotsConserved'
    BY <2>13, SlotsMove DEF HomesInv
  <2>15. QED
    BY <2>3, <2>4, <2>5, <2>6, <2>7, <2>8, <2>9, <2>14 DEF HomesInv, ProcsOK
<1>7. CASE IoInterrupt
  <2>1. /\ io.pc = "interrupt" /\ io'.pc = "signal" /\ io'.pcb = io.pcb
        /\ UNCHANGED <<lts, sts, con, status, obj, trk, mem, up, q>>
        /\ sem'["dom"] = sem["dom"] /\ sem'["io_request"] = sem["io_request"]
        /\ cpu'.pc = cpu.pc
    BY <1>7, HomesTypes, InterruptionKeepsPc DEF IoInterrupt, IoStep
  <2>2. ub' = FALSE
    BY <1>7 DEF IoInterrupt, HomesInv
  <2>3. NothingSuspended' /\ HandsOK'
    BY <2>1 DEF HomesInv, NothingSuspended, HandsOK
  <2>4. QueuesOK'
    BY <2>1 DEF HomesInv, QueuesOK
  <2>5. ASSUME NEW p \in Procs
        PROVE  /\ Placed(q', lts', sts', io', p) /\ Submitted(q', lts', sts', io', con', p)
               /\ WaitingOK(q', lts', io', status', obj', p)
               /\ StartOK(con', status', obj', p)
    BY <2>1, HomesTypes
    DEF HomesInv, ProcsOK, Placed, AtMostOne, Submitted, WaitingOK, StartOK, LtsHas, StsHas,
        IoHas
  <2>6. StsHandOK(sts', cpu', status', obj')
    BY <2>1 DEF HomesInv, StsHandOK
  <2>7. IoTokens' /\ IoFindsPcb'
    BY <2>1, HomesTypes DEF HomesInv, IoTokens, IoFindsPcb, One
  <2>8. MemoryOK'
    BY <2>1, HomesTypes DEF HomesInv, MemoryOK, KnownOK, Connections, LtsHas, StsHas, IoHas
  <2>9. \A p \in Procs : Runs(status', obj', p) <=> Runs(status, obj, p)
    BY <2>1 DEF Runs
  <2>10. Taken' = Taken
    BY <2>3, <2>9, RunningSame DEF Taken, HomesInv
  <2>11. Free' = Free /\ HeldByLts' = HeldByLts /\ HeldBySts' = HeldBySts
    BY <2>1 DEF Free, HeldByLts, HeldBySts, One
  <2>12. Free' + Taken' + HeldByLts' + HeldBySts' = Free + Taken + HeldByLts + HeldBySts
    BY <2>10, <2>11, SlotsSum DEF HomesInv
  <2>13. SlotsConserved'
    BY <2>12, SlotsMove DEF HomesInv
  <2>14. QED
    BY <2>2, <2>3, <2>4, <2>5, <2>6, <2>7, <2>8, <2>13 DEF HomesInv, ProcsOK
<1>8. CASE IoSignal
  <2>1. /\ io.pc = "signal" /\ io'.pc = "reset" /\ io'.pcb = io.pcb
        /\ UNCHANGED <<lts, sts, con, status, obj, trk, cpu, mem, up, q>>
        /\ sem'["dom"] = sem["dom"] /\ sem'["io_request"] = sem["io_request"]
    BY <1>8, HomesTypes DEF IoSignal, IoStep, Signal
  <2>2. ub' = FALSE
    BY <1>8 DEF IoSignal, HomesInv
  <2>3. NothingSuspended' /\ HandsOK'
    BY <2>1 DEF HomesInv, NothingSuspended, HandsOK
  <2>4. QueuesOK'
    BY <2>1 DEF HomesInv, QueuesOK
  <2>5. ASSUME NEW p \in Procs
        PROVE  /\ Placed(q', lts', sts', io', p) /\ Submitted(q', lts', sts', io', con', p)
               /\ WaitingOK(q', lts', io', status', obj', p)
               /\ StartOK(con', status', obj', p)
    BY <2>1, HomesTypes
    DEF HomesInv, ProcsOK, Placed, AtMostOne, Submitted, WaitingOK, StartOK, LtsHas, StsHas,
        IoHas
  <2>6. StsHandOK(sts', cpu', status', obj')
    BY <2>1 DEF HomesInv, StsHandOK
  <2>7. IoTokens' /\ IoFindsPcb'
    BY <2>1, HomesTypes DEF HomesInv, IoTokens, IoFindsPcb, One
  <2>8. MemoryOK'
    BY <2>1, HomesTypes DEF HomesInv, MemoryOK, KnownOK, Connections, LtsHas, StsHas, IoHas
  <2>9. \A p \in Procs : Runs(status', obj', p) <=> Runs(status, obj, p)
    BY <2>1 DEF Runs
  <2>10. Taken' = Taken
    BY <2>3, <2>9, RunningSame DEF Taken, HomesInv
  <2>11. Free' = Free /\ HeldByLts' = HeldByLts /\ HeldBySts' = HeldBySts
    BY <2>1 DEF Free, HeldByLts, HeldBySts, One
  <2>12. Free' + Taken' + HeldByLts' + HeldBySts' = Free + Taken + HeldByLts + HeldBySts
    BY <2>10, <2>11, SlotsSum DEF HomesInv
  <2>13. SlotsConserved'
    BY <2>12, SlotsMove DEF HomesInv
  <2>14. QED
    BY <2>2, <2>3, <2>4, <2>5, <2>6, <2>7, <2>8, <2>13 DEF HomesInv, ProcsOK
<1>9. CASE IoReset
  <2>1. /\ io.pc = "reset" /\ io'.pc = "wait" /\ io'.pcb = NoPcb
        /\ UNCHANGED <<lts, sts, con, status, obj, trk, cpu, mem, up, q>>
        /\ sem'["dom"] = sem["dom"] /\ sem'["io_request"] = sem["io_request"]
    BY <1>9, HomesTypes DEF IoReset, IoStep
  <2>2. ub' = FALSE
    BY <1>9 DEF IoReset, HomesInv
  <2>3. NothingSuspended' /\ HandsOK'
    BY <2>1 DEF HomesInv, NothingSuspended, HandsOK
  <2>4. QueuesOK'
    BY <2>1 DEF HomesInv, QueuesOK
  <2>5. ASSUME NEW p \in Procs
        PROVE  /\ Placed(q', lts', sts', io', p) /\ Submitted(q', lts', sts', io', con', p)
               /\ WaitingOK(q', lts', io', status', obj', p)
               /\ StartOK(con', status', obj', p)
    BY <2>1, HomesTypes
    DEF HomesInv, ProcsOK, Placed, AtMostOne, Submitted, WaitingOK, StartOK, LtsHas, StsHas,
        IoHas
  <2>6. StsHandOK(sts', cpu', status', obj')
    BY <2>1 DEF HomesInv, StsHandOK
  <2>7. IoTokens' /\ IoFindsPcb'
    BY <2>1, HomesTypes DEF HomesInv, IoTokens, IoFindsPcb, One
  <2>8. MemoryOK'
    BY <2>1, HomesTypes DEF HomesInv, MemoryOK, KnownOK, Connections, LtsHas, StsHas, IoHas
  <2>9. \A p \in Procs : Runs(status', obj', p) <=> Runs(status, obj, p)
    BY <2>1 DEF Runs
  <2>10. Taken' = Taken
    BY <2>3, <2>9, RunningSame DEF Taken, HomesInv
  <2>11. Free' = Free /\ HeldByLts' = HeldByLts /\ HeldBySts' = HeldBySts
    BY <2>1 DEF Free, HeldByLts, HeldBySts, One
  <2>12. Free' + Taken' + HeldByLts' + HeldBySts' = Free + Taken + HeldByLts + HeldBySts
    BY <2>10, <2>11, SlotsSum DEF HomesInv
  <2>13. SlotsConserved'
    BY <2>12, SlotsMove DEF HomesInv
  <2>14. QED
    BY <2>2, <2>3, <2>4, <2>5, <2>6, <2>7, <2>8, <2>13 DEF HomesInv, ProcsOK
<1>10. QED
  BY <1>1, <1>2, <1>3, <1>4, <1>5, <1>6, <1>7, <1>8, <1>9
  DEF Io, IoFindSuspended, IoPushSuspended, IoSignalSuspended, IoStep

\* The dispatcher of a console.
LEMMA DispatcherHomes ==
  ASSUME TypeOK, HomesInv, NEW x \in Procs, Dispatcher(x)
  PROVE  HomesInv'
<1>1. CASE DispatchNew(x)
  <2>1. /\ UNCHANGED <<lts, sts, io, status, trk, cpu, mem, up, q>>
        /\ sem'["dom"] = sem["dom"] /\ sem'["io_request"] = sem["io_request"]
        /\ \A p \in Procs : con'[p] = IF p = x THEN "created" ELSE con[p]
        /\ \A p \in Procs : obj'[p] = IF p = x THEN "heap" ELSE obj[p]
        /\ con[x] = "idle"
    BY <1>1, HomesTypes DEF DispatchNew, DispatchStep
  <2>2. ub' = FALSE
    BY <1>1 DEF DispatchNew, DispatchStep, HomesInv
  <2>3. NothingSuspended' /\ HandsOK'
    BY <2>1 DEF HomesInv, NothingSuspended, HandsOK
  <2>4. QueuesOK'
    BY <2>1 DEF HomesInv, QueuesOK
  <2>5. ASSUME NEW p \in Procs
        PROVE  /\ Placed(q', lts', sts', io', p) /\ Submitted(q', lts', sts', io', con', p)
               /\ WaitingOK(q', lts', io', status', obj', p)
               /\ StartOK(con', status', obj', p)
    BY <2>1, HomesTypes
    DEF HomesInv, ProcsOK, Placed, AtMostOne, Submitted, WaitingOK, StartOK, LtsHas, StsHas,
        IoHas
  <2>6. StsHandOK(sts', cpu', status', obj')
    BY <2>1, HomesTypes, ZenonT(40)
    DEF StsHandOK, Returned, HomesInv, ProcsOK, Placed, AtMostOne, Submitted, WaitingOK,
        StartOK, LtsHas, StsHas, IoHas
  <2>7. IoTokens' /\ IoFindsPcb'
    BY <2>1, HomesTypes DEF HomesInv, IoTokens, IoFindsPcb, One
  <2>8. MemoryOK'
    BY <2>1, HomesTypes DEF HomesInv, MemoryOK, KnownOK, Connections, LtsHas, StsHas, IoHas
  <2>9. \A p \in Procs : Runs(status', obj', p) <=> Runs(status, obj, p)
    BY <2>1, HomesTypes
    DEF Runs, StsHandOK, Returned, HomesInv, ProcsOK, Placed, AtMostOne, Submitted,
        WaitingOK, StartOK, LtsHas, StsHas, IoHas
  <2>10. Taken' = Taken
    BY <2>3, <2>9, RunningSame DEF Taken, HomesInv
  <2>11. Free' = Free /\ HeldByLts' = HeldByLts /\ HeldBySts' = HeldBySts
    BY <2>1 DEF Free, HeldByLts, HeldBySts, One
  <2>12. Free' + Taken' + HeldByLts' + HeldBySts' = Free + Taken + HeldByLts + HeldBySts
    BY <2>10, <2>11, SlotsSum DEF HomesInv
  <2>13. SlotsConserved'
    BY <2>12, SlotsMove DEF HomesInv
  <2>14. QED
    BY <2>2, <2>3, <2>4, <2>5, <2>6, <2>7, <2>8, <2>13 DEF HomesInv, ProcsOK
<1>2. CASE DispatchPush(x)
  <2>1. /\ UNCHANGED <<lts, sts, io, status, obj, trk, cpu, mem, up>>
        /\ q'["new"] = Append(q["new"], x) /\ q'["ready"] = q["ready"]
        /\ q'["blocked"] = q["blocked"] /\ q'["ready_sus"] = q["ready_sus"]
        /\ q'["blocked_sus"] = q["blocked_sus"]
        /\ sem'["dom"] = sem["dom"] /\ sem'["io_request"] = sem["io_request"]
        /\ \A p \in Procs : con'[p] = IF p = x THEN "pushed" ELSE con[p]
        /\ con[x] = "created"
    BY <1>2, HomesTypes DEF DispatchPush, DispatchStep, Push
  <2>2. /\ \A p : In(q'["new"], p) <=> In(q["new"], p) \/ p = x
        /\ ~In(q["new"], x) => Once(q'["new"])
        /\ Len(q'["new"]) = Len(q["new"]) + 1
    BY <2>1, HomesTypes, PushIn, PushQueue DEF HomesInv, QueuesOK
  <2>3. ub' = FALSE
    BY <1>2 DEF DispatchPush, DispatchStep, HomesInv
  <2>4. NothingSuspended' /\ HandsOK'
    BY <2>1, <2>2 DEF HomesInv, NothingSuspended, HandsOK
  <2>5. QueuesOK'
    BY <2>1, <2>2, HomesTypes
    DEF QueuesOK, HomesInv, ProcsOK, Placed, AtMostOne, Submitted, WaitingOK, StartOK,
        LtsHas, StsHas, IoHas
  <2>6. ASSUME NEW p \in Procs
        PROVE  /\ Placed(q', lts', sts', io', p) /\ Submitted(q', lts', sts', io', con', p)
               /\ WaitingOK(q', lts', io', status', obj', p)
               /\ StartOK(con', status', obj', p)
    BY <2>1, <2>2, HomesTypes
    DEF HomesInv, ProcsOK, Placed, AtMostOne, Submitted, WaitingOK, StartOK, LtsHas, StsHas,
        IoHas
  <2>7. StsHandOK(sts', cpu', status', obj')
    BY <2>1, <2>2 DEF HomesInv, StsHandOK
  <2>8. IoTokens' /\ IoFindsPcb'
    BY <2>1, <2>2, HomesTypes DEF HomesInv, IoTokens, IoFindsPcb, One
  <2>9. MemoryOK'
    BY <2>1, <2>2, HomesTypes
    DEF HomesInv, MemoryOK, KnownOK, Connections, LtsHas, StsHas, IoHas
  <2>10. \A p \in Procs : Runs(status', obj', p) <=> Runs(status, obj, p)
    BY <2>1 DEF Runs
  <2>11. Taken' = Taken
    BY <2>4, <2>10, RunningSame DEF Taken, HomesInv
  <2>12. Free' = Free /\ HeldByLts' = HeldByLts /\ HeldBySts' = HeldBySts
    BY <2>1, <2>2 DEF Free, HeldByLts, HeldBySts, One
  <2>13. Free' + Taken' + HeldByLts' + HeldBySts' = Free + Taken + HeldByLts + HeldBySts
    BY <2>11, <2>12, SlotsSum DEF HomesInv
  <2>14. SlotsConserved'
    BY <2>13, SlotsMove DEF HomesInv
  <2>15. QED
    BY <2>3, <2>4, <2>5, <2>6, <2>7, <2>8, <2>9, <2>14 DEF HomesInv, ProcsOK
<1>3. CASE DispatchSignal(x)
  <2>1. /\ UNCHANGED <<lts, sts, io, status, obj, trk, cpu, mem, up, q>>
        /\ sem'["dom"] = sem["dom"] /\ sem'["io_request"] = sem["io_request"]
        /\ \A p \in Procs : con'[p] = IF p = x THEN "done" ELSE con[p]
        /\ con[x] = "pushed"
    BY <1>3, HomesTypes DEF DispatchSignal, DispatchStep, Signal
  <2>2. ub' = FALSE
    BY <1>3 DEF DispatchSignal, DispatchStep, HomesInv
  <2>3. NothingSuspended' /\ HandsOK'
    BY <2>1 DEF HomesInv, NothingSuspended, HandsOK
  <2>4. QueuesOK'
    BY <2>1 DEF HomesInv, QueuesOK
  <2>5. ASSUME NEW p \in Procs
        PROVE  /\ Placed(q', lts', sts', io', p) /\ Submitted(q', lts', sts', io', con', p)
               /\ WaitingOK(q', lts', io', status', obj', p)
               /\ StartOK(con', status', obj', p)
    BY <2>1, HomesTypes
    DEF HomesInv, ProcsOK, Placed, AtMostOne, Submitted, WaitingOK, StartOK, LtsHas, StsHas,
        IoHas
  <2>6. StsHandOK(sts', cpu', status', obj')
    BY <2>1 DEF HomesInv, StsHandOK
  <2>7. IoTokens' /\ IoFindsPcb'
    BY <2>1, HomesTypes DEF HomesInv, IoTokens, IoFindsPcb, One
  <2>8. MemoryOK'
    BY <2>1, HomesTypes DEF HomesInv, MemoryOK, KnownOK, Connections, LtsHas, StsHas, IoHas
  <2>9. \A p \in Procs : Runs(status', obj', p) <=> Runs(status, obj, p)
    BY <2>1 DEF Runs
  <2>10. Taken' = Taken
    BY <2>3, <2>9, RunningSame DEF Taken, HomesInv
  <2>11. Free' = Free /\ HeldByLts' = HeldByLts /\ HeldBySts' = HeldBySts
    BY <2>1 DEF Free, HeldByLts, HeldBySts, One
  <2>12. Free' + Taken' + HeldByLts' + HeldBySts' = Free + Taken + HeldByLts + HeldBySts
    BY <2>10, <2>11, SlotsSum DEF HomesInv
  <2>13. SlotsConserved'
    BY <2>12, SlotsMove DEF HomesInv
  <2>14. QED
    BY <2>2, <2>3, <2>4, <2>5, <2>6, <2>7, <2>8, <2>13 DEF HomesInv, ProcsOK
<1>4. QED
  BY <1>1, <1>2, <1>3 DEF Dispatcher

\* The CPU, and the connections.
LEMMA CpuHomes ==
  ASSUME TypeOK, HomesInv, Cpu \/ CpuLosesInt \/ \E m \in Connections : Connect(m)
  PROVE  HomesInv'
<1>1. CASE CpuIo
  <2>1. cpu.pc = "run" /\ sts.pc = "recv"
    BY <1>1, HomesTypes DEF CpuIo, CpuGivesBack, TypeOK
  <2>2. /\ UNCHANGED <<lts, sts, io, con, obj, trk, mem, up, q>>
        /\ sem'["dom"] = sem["dom"] /\ sem'["io_request"] = sem["io_request"]
        /\ \A p \in Procs : status'[p] = IF p = sts.pcb THEN "BLOCKED" ELSE status[p]
        /\ cpu'.pc = "back"
    BY <1>1, <2>1, HomesTypes DEF CpuIo, CpuGivesBack, SetStatus
  <2>3. ub' = FALSE
    BY <1>1, <2>1 DEF CpuIo, CpuGivesBack, HomesInv
  <2>4. NothingSuspended' /\ HandsOK'
    BY <2>2, <2>1 DEF HomesInv, NothingSuspended, HandsOK
  <2>5. QueuesOK'
    BY <2>2, <2>1 DEF HomesInv, QueuesOK
  <2>6. ASSUME NEW p \in Procs
        PROVE  /\ Placed(q', lts', sts', io', p) /\ Submitted(q', lts', sts', io', con', p)
               /\ WaitingOK(q', lts', io', status', obj', p)
               /\ StartOK(con', status', obj', p)
    BY <2>2, <2>1, HomesTypes
    DEF HomesInv, ProcsOK, Placed, AtMostOne, Submitted, WaitingOK, StartOK, LtsHas, StsHas,
        IoHas, StsHandOK
  <2>7. StsHandOK(sts', cpu', status', obj')
    BY <2>2, <2>1, HomesTypes
    DEF StsHandOK, Returned, HomesInv, ProcsOK, Placed, AtMostOne, Submitted, WaitingOK,
        StartOK, LtsHas, StsHas, IoHas
  <2>8. IoTokens' /\ IoFindsPcb'
    BY <2>2, <2>1, HomesTypes DEF HomesInv, IoTokens, IoFindsPcb, One
  <2>9. MemoryOK'
    BY <2>2, <2>1, HomesTypes
    DEF HomesInv, MemoryOK, KnownOK, Connections, LtsHas, StsHas, IoHas
  <2>10. \A p \in Procs : Runs(status', obj', p) <=> Runs(status, obj, p)
    BY <2>2, <2>1, HomesTypes
    DEF Runs, StsHandOK, Returned, HomesInv, ProcsOK, Placed, AtMostOne, Submitted,
        WaitingOK, StartOK, LtsHas, StsHas, IoHas
  <2>11. Taken' = Taken
    BY <2>4, <2>10, RunningSame DEF Taken, HomesInv
  <2>12. Free' = Free /\ HeldByLts' = HeldByLts /\ HeldBySts' = HeldBySts
    BY <2>2, <2>1 DEF Free, HeldByLts, HeldBySts, One
  <2>13. Free' + Taken' + HeldByLts' + HeldBySts' = Free + Taken + HeldByLts + HeldBySts
    BY <2>11, <2>12, SlotsSum DEF HomesInv
  <2>14. SlotsConserved'
    BY <2>13, SlotsMove DEF HomesInv
  <2>15. QED
    BY <2>3, <2>4, <2>5, <2>6, <2>7, <2>8, <2>9, <2>14 DEF HomesInv, ProcsOK
<1>2. CASE CpuExit
  <2>1. cpu.pc = "run" /\ sts.pc = "recv"
    BY <1>2, HomesTypes DEF CpuExit, CpuGivesBack, TypeOK
  <2>2. /\ UNCHANGED <<lts, sts, io, con, obj, trk, mem, up, q>>
        /\ sem'["dom"] = sem["dom"] /\ sem'["io_request"] = sem["io_request"]
        /\ \A p \in Procs : status'[p] = IF p = sts.pcb THEN "TERMINATED" ELSE status[p]
        /\ cpu'.pc = "back"
    BY <1>2, <2>1, HomesTypes DEF CpuExit, CpuGivesBack, SetStatus
  <2>3. ub' = FALSE
    BY <1>2, <2>1 DEF CpuExit, CpuGivesBack, HomesInv
  <2>4. NothingSuspended' /\ HandsOK'
    BY <2>2, <2>1 DEF HomesInv, NothingSuspended, HandsOK
  <2>5. QueuesOK'
    BY <2>2, <2>1 DEF HomesInv, QueuesOK
  <2>6. ASSUME NEW p \in Procs
        PROVE  /\ Placed(q', lts', sts', io', p) /\ Submitted(q', lts', sts', io', con', p)
               /\ WaitingOK(q', lts', io', status', obj', p)
               /\ StartOK(con', status', obj', p)
    BY <2>2, <2>1, HomesTypes
    DEF HomesInv, ProcsOK, Placed, AtMostOne, Submitted, WaitingOK, StartOK, LtsHas, StsHas,
        IoHas, StsHandOK
  <2>7. StsHandOK(sts', cpu', status', obj')
    BY <2>2, <2>1, HomesTypes
    DEF StsHandOK, Returned, HomesInv, ProcsOK, Placed, AtMostOne, Submitted, WaitingOK,
        StartOK, LtsHas, StsHas, IoHas
  <2>8. IoTokens' /\ IoFindsPcb'
    BY <2>2, <2>1, HomesTypes DEF HomesInv, IoTokens, IoFindsPcb, One
  <2>9. MemoryOK'
    BY <2>2, <2>1, HomesTypes
    DEF HomesInv, MemoryOK, KnownOK, Connections, LtsHas, StsHas, IoHas
  <2>10. \A p \in Procs : Runs(status', obj', p) <=> Runs(status, obj, p)
    BY <2>2, <2>1, HomesTypes
    DEF Runs, StsHandOK, Returned, HomesInv, ProcsOK, Placed, AtMostOne, Submitted,
        WaitingOK, StartOK, LtsHas, StsHas, IoHas
  <2>11. Taken' = Taken
    BY <2>4, <2>10, RunningSame DEF Taken, HomesInv
  <2>12. Free' = Free /\ HeldByLts' = HeldByLts /\ HeldBySts' = HeldBySts
    BY <2>2, <2>1 DEF Free, HeldByLts, HeldBySts, One
  <2>13. Free' + Taken' + HeldByLts' + HeldBySts' = Free + Taken + HeldByLts + HeldBySts
    BY <2>11, <2>12, SlotsSum DEF HomesInv
  <2>14. SlotsConserved'
    BY <2>13, SlotsMove DEF HomesInv
  <2>15. QED
    BY <2>3, <2>4, <2>5, <2>6, <2>7, <2>8, <2>9, <2>14 DEF HomesInv, ProcsOK
<1>3. CASE CpuInterrupted
  <2>1. cpu.pc = "run" /\ sts.pc = "recv"
    BY <1>3, HomesTypes DEF CpuInterrupted, CpuGivesBack, TypeOK
  <2>2. /\ UNCHANGED <<lts, sts, io, con, obj, trk, mem, up, q>>
        /\ sem'["dom"] = sem["dom"] /\ sem'["io_request"] = sem["io_request"]
        /\ \A p \in Procs : status'[p] = IF p = sts.pcb THEN "READY" ELSE status[p]
        /\ cpu'.pc = "back"
    BY <1>3, <2>1, HomesTypes DEF CpuInterrupted, CpuGivesBack, SetStatus
  <2>3. ub' = FALSE
    BY <1>3, <2>1 DEF CpuInterrupted, CpuGivesBack, HomesInv
  <2>4. NothingSuspended' /\ HandsOK'
    BY <2>2, <2>1 DEF HomesInv, NothingSuspended, HandsOK
  <2>5. QueuesOK'
    BY <2>2, <2>1 DEF HomesInv, QueuesOK
  <2>6. ASSUME NEW p \in Procs
        PROVE  /\ Placed(q', lts', sts', io', p) /\ Submitted(q', lts', sts', io', con', p)
               /\ WaitingOK(q', lts', io', status', obj', p)
               /\ StartOK(con', status', obj', p)
    BY <2>2, <2>1, HomesTypes
    DEF HomesInv, ProcsOK, Placed, AtMostOne, Submitted, WaitingOK, StartOK, LtsHas, StsHas,
        IoHas, StsHandOK
  <2>7. StsHandOK(sts', cpu', status', obj')
    BY <2>2, <2>1, HomesTypes
    DEF StsHandOK, Returned, HomesInv, ProcsOK, Placed, AtMostOne, Submitted, WaitingOK,
        StartOK, LtsHas, StsHas, IoHas
  <2>8. IoTokens' /\ IoFindsPcb'
    BY <2>2, <2>1, HomesTypes DEF HomesInv, IoTokens, IoFindsPcb, One
  <2>9. MemoryOK'
    BY <2>2, <2>1, HomesTypes
    DEF HomesInv, MemoryOK, KnownOK, Connections, LtsHas, StsHas, IoHas
  <2>10. \A p \in Procs : Runs(status', obj', p) <=> Runs(status, obj, p)
    BY <2>2, <2>1, HomesTypes
    DEF Runs, StsHandOK, Returned, HomesInv, ProcsOK, Placed, AtMostOne, Submitted,
        WaitingOK, StartOK, LtsHas, StsHas, IoHas
  <2>11. Taken' = Taken
    BY <2>4, <2>10, RunningSame DEF Taken, HomesInv
  <2>12. Free' = Free /\ HeldByLts' = HeldByLts /\ HeldBySts' = HeldBySts
    BY <2>2, <2>1 DEF Free, HeldByLts, HeldBySts, One
  <2>13. Free' + Taken' + HeldByLts' + HeldBySts' = Free + Taken + HeldByLts + HeldBySts
    BY <2>11, <2>12, SlotsSum DEF HomesInv
  <2>14. SlotsConserved'
    BY <2>13, SlotsMove DEF HomesInv
  <2>15. QED
    BY <2>3, <2>4, <2>5, <2>6, <2>7, <2>8, <2>9, <2>14 DEF HomesInv, ProcsOK
<1>4. CASE CpuLosesInt
  <2>1. /\ UNCHANGED <<lts, sts, io, con, status, obj, trk, mem, up, q>>
        /\ sem'["dom"] = sem["dom"] /\ sem'["io_request"] = sem["io_request"]
        /\ cpu'.pc = cpu.pc
    BY <1>4, HomesTypes, CpuRecord DEF CpuLosesInt
  <2>2. ub' = FALSE
    BY <1>4 DEF CpuLosesInt, HomesInv
  <2>3. NothingSuspended' /\ HandsOK'
    BY <2>1 DEF HomesInv, NothingSuspended, HandsOK
  <2>4. QueuesOK'
    BY <2>1 DEF HomesInv, QueuesOK
  <2>5. ASSUME NEW p \in Procs
        PROVE  /\ Placed(q', lts', sts', io', p) /\ Submitted(q', lts', sts', io', con', p)
               /\ WaitingOK(q', lts', io', status', obj', p)
               /\ StartOK(con', status', obj', p)
    BY <2>1, HomesTypes
    DEF HomesInv, ProcsOK, Placed, AtMostOne, Submitted, WaitingOK, StartOK, LtsHas, StsHas,
        IoHas, StsHandOK
  <2>6. StsHandOK(sts', cpu', status', obj')
    BY <2>1 DEF HomesInv, StsHandOK
  <2>7. IoTokens' /\ IoFindsPcb'
    BY <2>1, HomesTypes DEF HomesInv, IoTokens, IoFindsPcb, One
  <2>8. MemoryOK'
    BY <2>1, HomesTypes DEF HomesInv, MemoryOK, KnownOK, Connections, LtsHas, StsHas, IoHas
  <2>9. \A p \in Procs : Runs(status', obj', p) <=> Runs(status, obj, p)
    BY <2>1 DEF Runs
  <2>10. Taken' = Taken
    BY <2>3, <2>9, RunningSame DEF Taken, HomesInv
  <2>11. Free' = Free /\ HeldByLts' = HeldByLts /\ HeldBySts' = HeldBySts
    BY <2>1 DEF Free, HeldByLts, HeldBySts, One
  <2>12. Free' + Taken' + HeldByLts' + HeldBySts' = Free + Taken + HeldByLts + HeldBySts
    BY <2>10, <2>11, SlotsSum DEF HomesInv
  <2>13. SlotsConserved'
    BY <2>12, SlotsMove DEF HomesInv
  <2>14. QED
    BY <2>2, <2>3, <2>4, <2>5, <2>6, <2>7, <2>8, <2>13 DEF HomesInv, ProcsOK
<1>5. CASE \E m \in Connections : Connect(m)
  <2>1. /\ UNCHANGED <<lts, sts, io, con, status, obj, trk, cpu, mem, q>>
        /\ sem'["dom"] = sem["dom"] /\ sem'["io_request"] = sem["io_request"]
        /\ up = Connections => up' = Connections
    BY <1>5, HomesTypes DEF Connect
  <2>2. ub' = FALSE
    BY <1>5 DEF Connect, HomesInv
  <2>3. NothingSuspended' /\ HandsOK'
    BY <2>1 DEF HomesInv, NothingSuspended, HandsOK
  <2>4. QueuesOK'
    BY <2>1 DEF HomesInv, QueuesOK
  <2>5. ASSUME NEW p \in Procs
        PROVE  /\ Placed(q', lts', sts', io', p) /\ Submitted(q', lts', sts', io', con', p)
               /\ WaitingOK(q', lts', io', status', obj', p)
               /\ StartOK(con', status', obj', p)
    BY <2>1, HomesTypes
    DEF HomesInv, ProcsOK, Placed, AtMostOne, Submitted, WaitingOK, StartOK, LtsHas, StsHas,
        IoHas, StsHandOK
  <2>6. StsHandOK(sts', cpu', status', obj')
    BY <2>1 DEF HomesInv, StsHandOK
  <2>7. IoTokens' /\ IoFindsPcb'
    BY <2>1, HomesTypes DEF HomesInv, IoTokens, IoFindsPcb, One
  <2>8. MemoryOK'
    BY <2>1, HomesTypes DEF HomesInv, MemoryOK, KnownOK, Connections, LtsHas, StsHas, IoHas
  <2>9. \A p \in Procs : Runs(status', obj', p) <=> Runs(status, obj, p)
    BY <2>1 DEF Runs
  <2>10. Taken' = Taken
    BY <2>3, <2>9, RunningSame DEF Taken, HomesInv
  <2>11. Free' = Free /\ HeldByLts' = HeldByLts /\ HeldBySts' = HeldBySts
    BY <2>1 DEF Free, HeldByLts, HeldBySts, One
  <2>12. Free' + Taken' + HeldByLts' + HeldBySts' = Free + Taken + HeldByLts + HeldBySts
    BY <2>10, <2>11, SlotsSum DEF HomesInv
  <2>13. SlotsConserved'
    BY <2>12, SlotsMove DEF HomesInv
  <2>14. QED
    BY <2>2, <2>3, <2>4, <2>5, <2>6, <2>7, <2>8, <2>13 DEF HomesInv, ProcsOK
<1>6. QED
  BY <1>1, <1>2, <1>3, <1>4, <1>5 DEF Cpu

\* Without suspension no tracker does anything.
LEMMA TrackersAsleep ==
  ASSUME ~Suspension, HomesInv, NEW p \in Procs, NEW k \in Blocks
  PROVE  ~Tracker(p, k)
<1>1. trk[p][k] \in {"off", "start"}
  BY DEF HomesInv, NothingSuspended
<1>2. QED
  BY <1>1
  DEF Tracker, TrackStart, TrackTime, TrackCurrentIo, TrackRemove, SuspendReleaseSlot,
      SuspendMark, SuspendPush, SuspendSwap, TrkStep

\* At the start every queue is empty and every slot free.
LEMMA InitHomes ==
  ASSUME Init
  PROVE  HomesInv
<1>1. /\ \A n \in Queues : q[n] = <<>>
      /\ {"new", "ready", "blocked", "ready_sus", "blocked_sus"} \subseteq Queues
      /\ sem["dom"] = Degree /\ sem["io_request"] = 0
      /\ lts.pc = "wait_req" /\ sts.pc = "wait" /\ io.pc = "wait"
      /\ lts.pcb = NoPcb /\ sts.pcb = NoPcb /\ io.pcb = NoPcb
      /\ \A p \in Procs : status[p] = "NONE" /\ obj[p] = "none" /\ con[p] = "idle"
      /\ \A p \in Procs, k \in Blocks : trk[p][k] = "off"
      /\ ub = FALSE
  BY DEF Init, Queues, Sems
<1>2. \A n \in Queues : \A p : ~In(q[n], p)
  BY <1>1 DEF In
<1>3. NothingSuspended /\ HandsOK
  BY <1>1 DEF NothingSuspended, HandsOK
<1>4. QueuesOK
  BY <1>1 DEF QueuesOK, Once
<1>5. ProcsOK
  BY <1>1, <1>2
  DEF ProcsOK, Placed, AtMostOne, Submitted, WaitingOK, StartOK, LtsHas, StsHas, IoHas
<1>6. StsHandOK(sts, cpu, status, obj)
  BY <1>1 DEF StsHandOK
<1>7. IoTokens /\ IoFindsPcb
  BY <1>1 DEF IoTokens, IoFindsPcb, One
<1>8. MemoryOK
  BY <1>1, <1>2 DEF Init, MemoryOK, KnownOK, LtsHas, StsHas, IoHas
<1>9. Running = {}
  BY <1>1, <1>3, RunningIs DEF Runs
<1>10. SlotsConserved
  BY <1>1, <1>9, FS_EmptySet, ConstantsAssumption DEF SlotsConserved, One
<1>11. QED
  BY <1>1, <1>3, <1>4, <1>5, <1>6, <1>7, <1>8, <1>10 DEF HomesInv
-----------------------------------------------------------------------------
(* Theorems.                                                               *)

\* As long as no process is suspended, every PCB is in one place, in the state
\* that the place calls for, and the semaphores count what they stand for.  This
\* holds whichever way the comparison of event goes when STS has already sent
\* the PCB that event compares.
THEOREM HomesInvariant == ASSUME ~Suspension PROVE Spec => []HomesInv
<1>1. Init => HomesInv
  BY InitHomes
<1>2. TypeOK /\ AdmitFindsProcess /\ HomesInv /\ [Next]_vars => HomesInv'
  <2> SUFFICES ASSUME TypeOK, AdmitFindsProcess, HomesInv, [Next]_vars PROVE HomesInv'
    OBVIOUS
  <2>1. CASE UNCHANGED vars
    BY <2>1
    DEF vars, HomesInv, NothingSuspended, HandsOK, QueuesOK, ProcsOK, IoTokens, IoFindsPcb,
        MemoryOK, SlotsConserved, Running
  <2>2. QED
    BY <2>1, DispatcherHomes, LtsHomes, StsHomes, CpuHomes, IoHomes, TrackersAsleep DEF Next
<1>3. QED
  BY <1>1, <1>2, TypeCorrect, AdmitNeverNull, PTL DEF Spec

\* Without suspension no slot of the multiprogramming degree is lost or given
\* twice, whatever the interleaving of LTS and STS and however many sends to the
\* CPU fail.
THEOREM SlotsConservedAlways == ASSUME ~Suspension PROVE Spec => []SlotsConserved
<1>1. HomesInv => SlotsConserved
  BY DEF HomesInv
<1>2. QED
  BY <1>1, HomesInvariant, PTL

\* Without suspension there are never more processes running than
\* GRADO_MULTIPROGRAMACION says.
THEOREM DegreeRespectedAlways == ASSUME ~Suspension PROVE Spec => []DegreeRespected
<1>1. TypeOK /\ HomesInv => DegreeRespected
  BY SlotsSum DEF HomesInv, DegreeRespected, Taken
<1>2. QED
  BY <1>1, HomesInvariant, TypeCorrect, PTL

\* Without suspension the I/O scheduler finds a blocked PCB for every request:
\* what retrieve_pcb says should never happen does not.
THEOREM IoFindsPcbAlways == ASSUME ~Suspension PROVE Spec => []IoFindsPcb
<1>1. HomesInv => IoFindsPcb
  BY DEF HomesInv
<1>2. QED
  BY <1>1, HomesInvariant, PTL

\* Without suspension LTS, STS and the I/O scheduler use live PCBs, but for the
\* one whose estimation event compares after it has pushed it to READY.
THEOREM LivePcbsAlways == ASSUME ~Suspension PROVE Spec => []LivePcbs
<1>1. TypeOK /\ HomesInv => LivePcbs
  <2> SUFFICES ASSUME TypeOK, HomesInv, NEW p \in Queued \union InHand PROVE obj[p] = "heap"
    BY DEF LivePcbs, HomesInv
  <2>1. CASE p \in Queued
    <3>1. PICK n \in Queues : In(q[n], p)
      BY <2>1 DEF Queued, Elems, In
    <3>2. p \in Procs
      BY <3>1, HomesTypes DEF In
    <3>3. n \notin {"ready_sus", "blocked_sus"}
      BY <3>1 DEF HomesInv, NothingSuspended, In
    <3>4. QED
      BY <3>1, <3>2, <3>3 DEF HomesInv, ProcsOK, WaitingOK, Queues
  <2>2. CASE p \in Procs /\ p = lts.pcb /\ lts.pc \in {"admit", "push"}
    BY <2>2 DEF HomesInv, ProcsOK, WaitingOK, LtsHas
  <2>3. CASE /\ p \in Procs /\ p = sts.pcb
             /\ sts.pc \in {"dispatch", "send", "switch", "block", "preempt", "free"}
    BY <2>3 DEF HomesInv, StsHandOK
  <2>4. CASE /\ p \in Procs /\ p = io.pcb
             /\ io.pc \in {"current", "burst", "ready", "sus_find", "sus_push"}
    BY <2>4 DEF HomesInv, NothingSuspended, ProcsOK, WaitingOK, IoHas
  <2>5. QED
    BY <2>1, <2>2, <2>3, <2>4 DEF InHand
<1>2. QED
  BY <1>1, HomesInvariant, TypeCorrect, PTL

\* Without suspension no thread works on a PCB that another thread, or a queue,
\* still has.
THEOREM OneHomeAlways == ASSUME ~Suspension PROVE Spec => []OneHome
<1>1. TypeOK /\ HomesInv => OneHome
  <2> SUFFICES ASSUME TypeOK, HomesInv, NEW p \in Procs
               PROVE  Cardinality(Homes(p)) <= 1
    BY DEF OneHome
  <2> DEFINE waits == {h \in Queues \X (1 .. Cardinality(Procs)) :
                         h[2] <= Len(q[h[1]]) /\ q[h[1]][h[2]] = p}
             works == {h \in {"lts", "sts", "io"} \X {0} :
               \/ h[1] = "lts" /\ lts.pcb = p /\ lts.pc # "signal"
               \/ h[1] = "sts" /\ sts.pcb = p /\ sts.pc \notin {"notify", "request", "signal"}
               \/ h[1] = "io" /\ io.pcb = p
                    /\ io.pc \in {"current", "burst", "ready", "sus_find", "sus_push"}}
  <2>1. Homes(p) = waits \union works
    BY DEF Homes
  <2>2. ASSUME NEW h \in waits
        PROVE  /\ h[1] \in {"new", "ready", "blocked"} /\ In(q[h[1]], p)
               /\ h = <<h[1], h[2]>> /\ h[2] \in 1 .. Len(q[h[1]]) /\ q[h[1]][h[2]] = p
    <3>1. h[1] \in Queues /\ h[2] \in 1 .. Cardinality(Procs) /\ h = <<h[1], h[2]>>
      OBVIOUS
    <3>2. h[2] <= Len(q[h[1]]) /\ q[h[1]][h[2]] = p
      OBVIOUS
    <3>3. Cardinality(Procs) \in Nat /\ Len(q[h[1]]) \in Nat
      BY <3>1, HomesTypes, FS_CardinalityType, ConstantsAssumption
    <3>4. h[2] \in 1 .. Len(q[h[1]])
      BY <3>1, <3>2, <3>3
    <3>5. In(q[h[1]], p)
      BY <3>2, <3>4 DEF In
    <3>6. h[1] \notin {"ready_sus", "blocked_sus"}
      BY <3>4 DEF HomesInv, NothingSuspended
    <3>7. QED
      BY <3>1, <3>2, <3>4, <3>5, <3>6 DEF Queues
  <2>3. ASSUME NEW h \in works
        PROVE  /\ h = <<h[1], 0>>
               /\ \/ h[1] = "lts" /\ LtsHas(lts, p)
                  \/ h[1] = "sts" /\ StsHas(sts, p)
                  \/ h[1] = "io" /\ IoHas(io, p)
    <3>1. h = <<h[1], 0>>
      OBVIOUS
    <3>2. \/ h[1] = "lts" /\ lts.pcb = p /\ lts.pc # "signal"
          \/ h[1] = "sts" /\ sts.pcb = p /\ sts.pc \notin {"notify", "request", "signal"}
          \/ h[1] = "io" /\ io.pcb = p
               /\ io.pc \in {"current", "burst", "ready", "sus_find", "sus_push"}
      OBVIOUS
    <3>3. QED
      BY <3>1, <3>2, HomesTypes
      DEF HomesInv, NothingSuspended, HandsOK, LtsHas, StsHas, IoHas, LtsPcs, StsPcs
  <2> HIDE DEF waits, works
  <2>4. Placed(q, lts, sts, io, p) /\ QueuesOK
    BY DEF HomesInv, ProcsOK
  <2>5. ASSUME NEW h \in Homes(p), NEW g \in Homes(p) PROVE h = g
    <3>1. CASE h \in waits /\ g \in waits
      <4>1. h[1] = g[1]
        BY <2>2, <2>4, <3>1 DEF Placed, AtMostOne
      <4>2. h[2] = g[2]
        BY <2>2, <2>4, <3>1, <4>1 DEF QueuesOK, Once
      <4>3. QED
        BY <2>2, <3>1, <4>1, <4>2
    <3>2. CASE h \in works /\ g \in works
      BY <2>3, <2>4, <3>2 DEF Placed, AtMostOne
    <3>3. CASE h \in waits /\ g \in works
      BY <2>2, <2>3, <2>4, <3>3 DEF Placed, AtMostOne
    <3>4. CASE h \in works /\ g \in waits
      BY <2>2, <2>3, <2>4, <3>4 DEF Placed, AtMostOne
    <3>5. QED
      BY <2>1, <3>1, <3>2, <3>3, <3>4
  <2>6. CASE Homes(p) = {}
    BY <2>6, FS_EmptySet
  <2>7. CASE Homes(p) # {}
    <3>1. PICK h : Homes(p) = {h}
      BY <2>5, <2>7
    <3>2. QED
      BY <3>1, FS_Singleton
  <2>8. QED
    BY <2>6, <2>7
<1>2. QED
  BY <1>1, HomesInvariant, TypeCorrect, PTL

\* Without suspension, and with the connections made before the first process
\* arrives, a process only executes while memory keeps its page table.
THEOREM MemoryKnowsRunningAlways ==
  ASSUME ~Suspension, ~ColdStart PROVE Spec => []MemoryKnowsRunning
<1>1. TypeOK /\ HomesInv => MemoryKnowsRunning
  <2> SUFFICES ASSUME TypeOK, HomesInv, cpu.pc = "run"
               PROVE  mem[sts.pcb] \in {"init", "swapped"}
    BY DEF MemoryKnowsRunning
  <2>1. sts.pc = "recv" /\ sts.pcb \in Procs
    BY DEF TypeOK
  <2>2. StsHas(sts, sts.pcb)
    BY <2>1 DEF StsHas
  <2>3. QED
    BY <2>1, <2>2 DEF HomesInv, MemoryOK, KnownOK
<1>2. QED
  BY <1>1, HomesInvariant, TypeCorrect, PTL
=============================================================================
