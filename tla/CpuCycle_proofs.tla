--------------------------- MODULE CpuCycle_proofs ---------------------------
(***************************************************************************)
(* Proofs about CpuCycle, for every set of processes, every program and    *)
(* every number of INTs.                                                   *)
(***************************************************************************)
EXTENDS CpuCycle, FiniteSetTheorems, TLAPS

\* What the main thread knows when it gives a PCB back: it only pre-empts with
\* the flag up, and only a process that has executed its EXIT is terminated.
Reasons ==
  /\ main.at = "send" /\ main.st = "READY" => flag
  /\ main.at = "clear" => main.st = "READY"
  /\ main.at = "send" /\ main.st = "TERMINATED" =>
       pc[pcb] \in 1 .. Len(Program[pcb]) /\ Program[pcb][pc[pcb]] = "EXIT"
  /\ krn.at # "idle" /\ back = NoPcb => last[krn.pcb] # "TERMINATED"
  /\ \A p \in Procs : \A j \in 1 .. pc[p] : Program[p][j] = "EXIT" =>
       last[p] = "TERMINATED" \/ (p = pcb /\ main.at = "send" /\ main.st = "TERMINATED")

CpuInv == TypeOK /\ InUseToken /\ InOnePlace /\ NoLostPcb /\ Reasons

\* The token of cpu_in_use without arithmetic.
TokenCases ==
  \/ inUse = 1 /\ disp # "set" /\ pcb = NoPcb /\ main.at # "release"
  \/ inUse = 0 /\ disp = "set" /\ pcb = NoPcb /\ main.at # "release"
  \/ inUse = 0 /\ disp # "set" /\ pcb # NoPcb /\ main.at # "release"
  \/ inUse = 0 /\ disp # "set" /\ pcb = NoPcb /\ main.at = "release"

\* InUseToken says that one of four holders has the token.
LEMMA TokenIsOneOfFour == ASSUME inUse \in Nat PROVE InUseToken <=> TokenCases
<1> DEFINE a == disp = "set"
           b == pcb # NoPcb
           c == main.at = "release"
<1>1. InUseToken <=> inUse + One(a) + One(b) + One(c) = 1
  BY DEF InUseToken
<1>2. TokenCases <=> \/ inUse = 1 /\ ~a /\ ~b /\ ~c
                     \/ inUse = 0 /\ a /\ ~b /\ ~c
                     \/ inUse = 0 /\ ~a /\ b /\ ~c
                     \/ inUse = 0 /\ ~a /\ ~b /\ c
  BY DEF TokenCases
<1> HIDE DEF a, b, c
<1>3. (a => One(a) = 1) /\ (~a => One(a) = 0)
  BY DEF One
<1>4. (b => One(b) = 1) /\ (~b => One(b) = 0)
  BY DEF One
<1>5. (c => One(c) = 1) /\ (~c => One(c) = 0)
  BY DEF One
<1> DEFINE x == One(a)
           y == One(b)
           z == One(c)
<1> HIDE DEF x, y, z
<1>6. QED
  BY <1>1, <1>2, <1>3, <1>4, <1>5 DEF x, y, z

\* The same in the state after a step.
LEMMA TokenNext == ASSUME inUse' \in Nat PROVE InUseToken' <=> TokenCases'
<1> DEFINE a == (disp' = "set")
           b == (pcb' # NoPcb)
           c == (main'.at = "release")
<1>1. InUseToken' <=> inUse' + One(a) + One(b) + One(c) = 1
  BY DEF InUseToken, One
<1>2. TokenCases' <=> \/ inUse' = 1 /\ ~a /\ ~b /\ ~c
                      \/ inUse' = 0 /\ a /\ ~b /\ ~c
                      \/ inUse' = 0 /\ ~a /\ b /\ ~c
                      \/ inUse' = 0 /\ ~a /\ ~b /\ c
  BY DEF TokenCases
<1> HIDE DEF a, b, c
<1>3. (a => One(a) = 1) /\ (~a => One(a) = 0)
  BY DEF One
<1>4. (b => One(b) = 1) /\ (~b => One(b) = 0)
  BY DEF One
<1>5. (c => One(c) = 1) /\ (~c => One(c) = 0)
  BY DEF One
<1>6. QED
  BY <1>1, <1>2, <1>3, <1>4, <1>5

\* Every step keeps the state well formed.
LEMMA TypeStep == ASSUME CpuInv, [Next]_vars PROVE TypeOK'
<1> USE CpuAssumption, TokenIsOneOfFour DEF CpuInv, TypeOK, MainPcs, Returned, TokenCases
<1>1. ASSUME NEW p \in Procs, KernelDispatch(p) PROVE TypeOK'
  BY <1>1 DEF KernelDispatch
<1>2. CASE KernelSend
  BY <1>2, ZenonT(40) DEF KernelSend
<1>3. CASE KernelReceive
  BY <1>3 DEF KernelReceive
<1>4. CASE KernelInterrupt
  BY <1>4 DEF KernelInterrupt
<1>5. CASE DispWait
  BY <1>5 DEF DispWait, DispStep
<1>6. CASE DispSet
  BY <1>6 DEF DispSet, DispStep
<1>7. CASE DispSignal
  BY <1>7 DEF DispSignal, DispStep
<1>8. CASE IntTest
  BY <1>8 DEF IntTest, IntStep
<1>9. CASE IntSet
  BY <1>9 DEF IntSet, IntStep
<1>10. CASE MainWait
  BY <1>10 DEF MainWait, MainStep
<1>11. CASE MainCheck
  BY <1>11 DEF MainCheck, MainStep
<1>12. CASE MainLoop
  BY <1>12 DEF MainLoop, MainStep
<1>13. CASE CycleOther
  BY <1>13 DEF CycleOther, MainStep, Advance
<1>14. CASE CycleIo
  BY <1>14 DEF CycleIo, MainStep, Advance
<1>15. CASE CycleExit
  BY <1>15 DEF CycleExit, MainStep, Advance
<1>16. CASE CycleInterrupt
  BY <1>16 DEF CycleInterrupt, MainStep
<1>17. CASE ReturnSend
  BY <1>17 DEF ReturnSend, MainStep
<1>18. CASE ReturnNull
  BY <1>18 DEF ReturnNull, MainStep
<1>19. CASE ReturnRelease
  BY <1>19 DEF ReturnRelease, MainStep
<1>20. CASE ClearFlag
  BY <1>20 DEF ClearFlag, MainStep
<1>21. CASE UNCHANGED vars
  BY <1>21 DEF vars
<1>22. QED
  BY <1>1, <1>2, <1>3, <1>4, <1>5, <1>6, <1>7, <1>8, <1>9, <1>10, <1>11, <1>12, <1>13, <1>14, <1>15, <1>16, <1>17, <1>18, <1>19, <1>20, <1>21
     DEF Next, Kernel, Dispatch, Interrupt, Main

\* Every step keeps the token of cpu_in_use in one place.
LEMMA TokenStep == ASSUME CpuInv, [Next]_vars PROVE TokenCases'
<1> USE TokenIsOneOfFour DEF CpuInv, TypeOK, TokenCases
<1>1. ASSUME NEW p \in Procs, KernelDispatch(p) PROVE TokenCases'
  BY <1>1 DEF KernelDispatch
<1>2. CASE KernelSend
  BY <1>2 DEF KernelSend
<1>3. CASE KernelReceive
  BY <1>3 DEF KernelReceive
<1>4. CASE KernelInterrupt
  BY <1>4 DEF KernelInterrupt
<1>5. CASE DispWait
  BY <1>5 DEF DispWait, DispStep
<1>6. CASE DispSet
  BY <1>6 DEF DispSet, DispStep
<1>7. CASE DispSignal
  BY <1>7 DEF DispSignal, DispStep
<1>8. CASE IntTest
  BY <1>8 DEF IntTest, IntStep
<1>9. CASE IntSet
  BY <1>9 DEF IntSet, IntStep
<1>10. CASE MainWait
  BY <1>10 DEF MainWait, MainStep
<1>11. CASE MainCheck
  BY <1>11 DEF MainCheck, MainStep
<1>12. CASE MainLoop
  BY <1>12 DEF MainLoop, MainStep
<1>13. CASE CycleOther
  BY <1>13 DEF CycleOther, MainStep, Advance
<1>14. CASE CycleIo
  BY <1>14 DEF CycleIo, MainStep, Advance
<1>15. CASE CycleExit
  BY <1>15 DEF CycleExit, MainStep, Advance
<1>16. CASE CycleInterrupt
  BY <1>16 DEF CycleInterrupt, MainStep
<1>17. CASE ReturnSend
  BY <1>17 DEF ReturnSend, MainStep
<1>18. CASE ReturnNull
  BY <1>18 DEF ReturnNull, MainStep
<1>19. CASE ReturnRelease
  BY <1>19 DEF ReturnRelease, MainStep
<1>20. CASE ClearFlag
  BY <1>20 DEF ClearFlag, MainStep
<1>21. CASE UNCHANGED vars
  BY <1>21 DEF vars
<1>22. QED
  BY <1>1, <1>2, <1>3, <1>4, <1>5, <1>6, <1>7, <1>8, <1>9, <1>10, <1>11, <1>12, <1>13, <1>14, <1>15, <1>16, <1>17, <1>18, <1>19, <1>20, <1>21
     DEF Next, Kernel, Dispatch, Interrupt, Main

\* Every step keeps the dispatched process in one place.
LEMMA PlaceStep == ASSUME CpuInv, [Next]_vars PROVE InOnePlace'
<1> USE CpuAssumption, TokenIsOneOfFour DEF CpuInv, TypeOK, TokenCases, InOnePlace, InCpu
<1>1. ASSUME NEW p \in Procs, KernelDispatch(p) PROVE InOnePlace'
  BY <1>1 DEF KernelDispatch
<1>2. CASE KernelSend
  BY <1>2 DEF KernelSend
<1>3. CASE KernelReceive
  BY <1>3 DEF KernelReceive
<1>4. CASE KernelInterrupt
  BY <1>4 DEF KernelInterrupt
<1>5. CASE DispWait
  BY <1>5 DEF DispWait, DispStep
<1>6. CASE DispSet
  BY <1>6 DEF DispSet, DispStep
<1>7. CASE DispSignal
  BY <1>7 DEF DispSignal, DispStep
<1>8. CASE IntTest
  BY <1>8 DEF IntTest, IntStep
<1>9. CASE IntSet
  BY <1>9 DEF IntSet, IntStep
<1>10. CASE MainWait
  BY <1>10 DEF MainWait, MainStep
<1>11. CASE MainCheck
  BY <1>11 DEF MainCheck, MainStep
<1>12. CASE MainLoop
  BY <1>12 DEF MainLoop, MainStep
<1>13. CASE CycleOther
  BY <1>13 DEF CycleOther, MainStep, Advance
<1>14. CASE CycleIo
  BY <1>14 DEF CycleIo, MainStep, Advance
<1>15. CASE CycleExit
  BY <1>15 DEF CycleExit, MainStep, Advance
<1>16. CASE CycleInterrupt
  BY <1>16 DEF CycleInterrupt, MainStep
<1>17. CASE ReturnSend
  BY <1>17 DEF ReturnSend, MainStep
<1>18. CASE ReturnNull
  BY <1>18 DEF ReturnNull, MainStep
<1>19. CASE ReturnRelease
  BY <1>19 DEF ReturnRelease, MainStep
<1>20. CASE ClearFlag
  BY <1>20 DEF ClearFlag, MainStep
<1>21. CASE UNCHANGED vars
  BY <1>21 DEF vars
<1>22. QED
  BY <1>1, <1>2, <1>3, <1>4, <1>5, <1>6, <1>7, <1>8, <1>9, <1>10, <1>11, <1>12, <1>13, <1>14, <1>15, <1>16, <1>17, <1>18, <1>19, <1>20, <1>21
     DEF Next, Kernel, Dispatch, Interrupt, Main

\* No step leaves the main thread asleep on a PCB.
LEMMA WakeStep == ASSUME CpuInv, [Next]_vars PROVE NoLostPcb'
<1> USE CpuAssumption, TokenIsOneOfFour DEF CpuInv, TypeOK, TokenCases, NoLostPcb
<1>1. ASSUME NEW p \in Procs, KernelDispatch(p) PROVE NoLostPcb'
  BY <1>1 DEF KernelDispatch
<1>2. CASE KernelSend
  BY <1>2 DEF KernelSend
<1>3. CASE KernelReceive
  BY <1>3 DEF KernelReceive
<1>4. CASE KernelInterrupt
  BY <1>4 DEF KernelInterrupt
<1>5. CASE DispWait
  BY <1>5 DEF DispWait, DispStep
<1>6. CASE DispSet
  BY <1>6 DEF DispSet, DispStep
<1>7. CASE DispSignal
  BY <1>7 DEF DispSignal, DispStep
<1>8. CASE IntTest
  BY <1>8 DEF IntTest, IntStep
<1>9. CASE IntSet
  BY <1>9 DEF IntSet, IntStep
<1>10. CASE MainWait
  BY <1>10 DEF MainWait, MainStep
<1>11. CASE MainCheck
  BY <1>11 DEF MainCheck, MainStep
<1>12. CASE MainLoop
  BY <1>12 DEF MainLoop, MainStep
<1>13. CASE CycleOther
  BY <1>13 DEF CycleOther, MainStep, Advance
<1>14. CASE CycleIo
  BY <1>14 DEF CycleIo, MainStep, Advance
<1>15. CASE CycleExit
  BY <1>15 DEF CycleExit, MainStep, Advance
<1>16. CASE CycleInterrupt
  BY <1>16 DEF CycleInterrupt, MainStep
<1>17. CASE ReturnSend
  BY <1>17 DEF ReturnSend, MainStep
<1>18. CASE ReturnNull
  BY <1>18 DEF ReturnNull, MainStep
<1>19. CASE ReturnRelease
  BY <1>19 DEF ReturnRelease, MainStep
<1>20. CASE ClearFlag
  BY <1>20 DEF ClearFlag, MainStep
<1>21. CASE UNCHANGED vars
  BY <1>21 DEF vars
<1>22. QED
  BY <1>1, <1>2, <1>3, <1>4, <1>5, <1>6, <1>7, <1>8, <1>9, <1>10, <1>11, <1>12, <1>13, <1>14, <1>15, <1>16, <1>17, <1>18, <1>19, <1>20, <1>21
     DEF Next, Kernel, Dispatch, Interrupt, Main

\* Every step keeps the reasons to give a PCB back.
LEMMA ReasonsStep == ASSUME CpuInv, [Next]_vars PROVE Reasons'
<1> USE CpuAssumption, TokenIsOneOfFour DEF CpuInv, TypeOK, TokenCases, InOnePlace, InCpu, Reasons
<1>1. ASSUME NEW p \in Procs, KernelDispatch(p) PROVE Reasons'
  BY <1>1 DEF KernelDispatch
<1>2. CASE KernelSend
  BY <1>2 DEF KernelSend
<1>3. CASE KernelReceive
  BY <1>3 DEF KernelReceive
<1>4. CASE KernelInterrupt
  BY <1>4 DEF KernelInterrupt
<1>5. CASE DispWait
  BY <1>5 DEF DispWait, DispStep
<1>6. CASE DispSet
  BY <1>6 DEF DispSet, DispStep
<1>7. CASE DispSignal
  BY <1>7 DEF DispSignal, DispStep
<1>8. CASE IntTest
  BY <1>8 DEF IntTest, IntStep
<1>9. CASE IntSet
  BY <1>9 DEF IntSet, IntStep
<1>10. CASE MainWait
  BY <1>10 DEF MainWait, MainStep
<1>11. CASE MainCheck
  BY <1>11 DEF MainCheck, MainStep
<1>12. CASE MainLoop
  BY <1>12 DEF MainLoop, MainStep
<1>13. CASE CycleOther
  BY <1>13 DEF CycleOther, MainStep, Advance, Fetched
<1>14. CASE CycleIo
  BY <1>14 DEF CycleIo, MainStep, Advance, Fetched
<1>15. CASE CycleExit
  BY <1>15 DEF CycleExit, MainStep, Advance, Fetched
<1>16. CASE CycleInterrupt
  BY <1>16 DEF CycleInterrupt, MainStep
<1>17. CASE ReturnSend
  BY <1>17 DEF ReturnSend, MainStep
<1>18. CASE ReturnNull
  BY <1>18 DEF ReturnNull, MainStep
<1>19. CASE ReturnRelease
  BY <1>19 DEF ReturnRelease, MainStep
<1>20. CASE ClearFlag
  BY <1>20 DEF ClearFlag, MainStep
<1>21. CASE UNCHANGED vars
  BY <1>21 DEF vars
<1>22. QED
  BY <1>1, <1>2, <1>3, <1>4, <1>5, <1>6, <1>7, <1>8, <1>9, <1>10, <1>11, <1>12, <1>13, <1>14, <1>15, <1>16, <1>17, <1>18, <1>19, <1>20, <1>21
     DEF Next, Kernel, Dispatch, Interrupt, Main

\* The invariant that the steps of all the threads keep together.
THEOREM CpuInvariant == Spec => []CpuInv
<1>1. Init => CpuInv
  <2> SUFFICES ASSUME Init PROVE CpuInv
    OBVIOUS
  <2>1. \A p \in Procs : pc[p] = 0 /\ Len(Program[p]) \in Nat
    BY CpuAssumption DEF Init
  <2>2. ints \in Seq(Nat) /\ pc \in [Procs -> Nat] /\ last \in [Procs -> Returned]
    BY DEF Init, Returned
  <2>3. /\ main \in [at : MainPcs, st : Returned] /\ intr \in [at : {"recv", "set"}, for : Nat]
        /\ krn \in [at : {"idle", "dispatch", "recv"}, pcb : Procs \union {NoPcb}]
        /\ main.at = "wait" /\ krn.at = "idle"
    BY DEF Init, MainPcs, Returned
  <2>4. /\ pcb = NoPcb /\ inUse = 1 /\ received = 0 /\ disp = "wait"
        /\ wire = NoPcb /\ back = NoPcb /\ budget \in Nat /\ turn = 0 /\ flagFor = 0
    BY CpuAssumption DEF Init
  <2>5. flag \in BOOLEAN
    BY DEF Init
  <2>6. TypeOK
    BY <2>1, <2>2, <2>3, <2>4, <2>5 DEF TypeOK
  <2>7. InUseToken
    BY <2>6, TokenIsOneOfFour DEF Init, TokenCases, TypeOK
  <2>8. InOnePlace /\ NoLostPcb /\ Reasons
    BY CpuAssumption DEF Init, InOnePlace, InCpu, NoLostPcb, Reasons
  <2>9. QED
    BY <2>6, <2>7, <2>8 DEF CpuInv
<1>2. CpuInv /\ [Next]_vars => CpuInv'
  <2> SUFFICES ASSUME CpuInv, [Next]_vars PROVE CpuInv'
    OBVIOUS
  <2>1. TypeOK' /\ TokenCases' /\ InOnePlace' /\ NoLostPcb' /\ Reasons'
    BY TypeStep, TokenStep, PlaceStep, WakeStep, ReasonsStep
  <2>2. inUse' \in Nat
    BY <2>1 DEF TypeOK
  <2>3. InUseToken'
    BY <2>1, <2>2, TokenNext
  <2>4. QED
    BY <2>1, <2>3 DEF CpuInv
<1>3. QED
  BY <1>1, <1>2, PTL DEF Spec

\* The state of the CPU module is well formed, and the main thread never runs
\* an instruction cycle or return_pcb without a PCB (cpu.c:208-281).
THEOREM CpuTypeCorrect == Spec => []TypeOK
BY CpuInvariant, PTL DEF CpuInv

\* cpu_in_use is a mutual exclusion token for g_cpu.pcb.
THEOREM InUseTokenHolds == Spec => []InUseToken
BY CpuInvariant, PTL DEF CpuInv

\* receive_pcb never overwrites a PCB that the main thread has to give back.
THEOREM NeverOverwrittenHolds == Spec => []NeverOverwritten
<1>1. CpuInv => NeverOverwritten
  BY TokenIsOneOfFour DEF CpuInv, TypeOK, TokenCases, NeverOverwritten
<1>2. QED
  BY <1>1, CpuInvariant, PTL

\* The process that the kernel waits for is in one place, and is given back once.
THEOREM InOnePlaceHolds == Spec => []InOnePlace
BY CpuInvariant, PTL DEF CpuInv

\* The main thread never sleeps on pcb_received with a PCB in place.
THEOREM NoLostPcbHolds == Spec => []NoLostPcb
BY CpuInvariant, PTL DEF CpuInv
-----------------------------------------------------------------------------
(* The CPU module implements CpuPort.                                      *)

\* The three kinds of pending INT are counted by numbers.
LEMMA PendingTypes ==
  ASSUME ints \in Seq(Nat)
  PROVE  Len(ints) \in Nat /\ One(intr.at = "set") \in {0, 1} /\ Raised \in {0, 1}
<1>1. Len(ints) \in Nat
  OBVIOUS
<1>2. One(intr.at = "set") \in {0, 1} /\ Raised \in {0, 1}
  BY DEF One, Raised
<1>3. QED
  BY <1>1, <1>2

\* The I/O instructions left are finitely many.
LEMMA IosLeftFinite ==
  ASSUME TypeOK, NEW p \in Procs
  PROVE  IsFiniteSet(IosLeft(p)) /\ Cardinality(IosLeft(p)) \in Nat
<1>1. pc[p] + 1 \in Int /\ Len(Program[p]) \in Int
  BY CpuAssumption DEF TypeOK
<1>2. IsFiniteSet((pc[p] + 1) .. Len(Program[p]))
  BY <1>1, FS_Interval
<1>3. IosLeft(p) \subseteq (pc[p] + 1) .. Len(Program[p])
  BY DEF IosLeft
<1>4. QED
  BY <1>2, <1>3, FS_Subset, FS_CardinalityType

\* The kernel's view of the I/O instructions left does not depend on anything
\* but the program counters and the return that is decided and not sent.
LEMMA SameBursts ==
  ASSUME \A p \in Procs : IosLeft(p)' = IosLeft(p) /\ IosOwed(p)' = IosOwed(p)
  PROVE  PortBursts' = PortBursts
BY DEF PortBursts

\* The I/O left only depends on the program counters.
LEMMA SamePcs == ASSUME pc' = pc, NEW p \in Procs PROVE IosLeft(p)' = IosLeft(p)
BY DEF IosLeft

\* A step that is not the main thread deciding or sending a return leaves the
\* kernel's view of the I/O instructions alone.
LEMMA BurstsFrame ==
  ASSUME pc' = pc, (main'.at = "send") <=> (main.at = "send"), main'.st = main.st,
         pcb' = pcb \/ main.at # "send"
  PROVE  PortBursts' = PortBursts
<1>1. \A p \in Procs : IosOwed(p)' = IosOwed(p)
  BY DEF IosOwed
<1>2. QED
  BY <1>1, SamePcs, SameBursts

\* An instruction that is not I/O leaves the I/O instructions as they are.
LEMMA OtherBursts ==
  ASSUME TypeOK, CycleOther \/ CycleExit
  PROVE  PortBursts' = PortBursts
<1>1. pcb \in Procs /\ pc \in [Procs -> Nat] /\ Fetched # "IO" /\ Advance
  BY DEF TypeOK, CycleOther, CycleExit, MainStep
<1>2. ASSUME NEW p \in Procs PROVE IosLeft(p)' = IosLeft(p)
  <2>1. Len(Program[p]) \in Nat /\ pc[p] \in Nat
    BY <1>1, CpuAssumption
  <2>2. CASE p # pcb \/ pc[p] >= Len(Program[p])
    <3>1. pc'[p] = pc[p]
      BY <1>1, <2>1, <2>2 DEF Advance
    <3>2. QED
      BY <3>1 DEF IosLeft
  <2>3. CASE p = pcb /\ pc[p] < Len(Program[p])
    <3>1. pc'[p] = pc[p] + 1 /\ Program[p][pc[p] + 1] # "IO"
      BY <1>1, <2>3 DEF Advance, Fetched
    <3>2. QED
      BY <2>1, <2>3, <3>1 DEF IosLeft
  <2>4. QED
    BY <2>1, <2>2, <2>3
<1>3. \A p \in Procs : IosOwed(p)' = IosOwed(p)
  BY DEF CycleOther, CycleExit, MainStep, IosOwed, One
<1>4. QED
  BY <1>2, <1>3, SameBursts

\* An I/O instruction moves from the ones left to the one owed.
LEMMA IoBursts ==
  ASSUME CpuInv, CycleIo
  PROVE  PortBursts' = PortBursts
<1> DEFINE n == pc[pcb] + 1
<1>1. /\ pcb \in Procs /\ pcb' = pcb /\ pc \in [Procs -> Nat] /\ main.at = "cycle"
      /\ main' = [at |-> "send", st |-> "BLOCKED"] /\ Advance /\ Fetched = "IO"
  BY DEF CpuInv, TypeOK, CycleIo, MainStep
<1>2. Len(Program[pcb]) \in Nat /\ pc[pcb] \in Nat
  BY <1>1, CpuAssumption
<1>3. pc[pcb] < Len(Program[pcb]) /\ Program[pcb][n] = "IO"
  BY <1>1 DEF Fetched
<1>4. krn.at = "recv" /\ pcb = krn.pcb /\ back = NoPcb
  BY <1>1, CpuAssumption DEF CpuInv, InOnePlace, InCpu, TypeOK
<1>5. \A j \in 1 .. pc[pcb] : Program[pcb][j] # "EXIT"
  BY <1>1, <1>4 DEF CpuInv, Reasons
<1>6. n \in IosLeft(pcb)
  BY <1>2, <1>3, <1>5 DEF IosLeft
<1>7. pc' = [pc EXCEPT ![pcb] = n]
  BY <1>1, <1>3 DEF Advance
<1>8. IosLeft(pcb)' = IosLeft(pcb) \ {n}
  <2>1. pc'[pcb] = n
    BY <1>1, <1>7
  <2>2. IosLeft(pcb)' = {i \in (n + 1) .. Len(Program[pcb]) :
                           Program[pcb][i] = "IO" /\ \A j \in 1 .. i : Program[pcb][j] # "EXIT"}
    BY <1>1, <2>1 DEF IosLeft
  <2>3. IosLeft(pcb) = {i \in n .. Len(Program[pcb]) :
                          Program[pcb][i] = "IO" /\ \A j \in 1 .. i : Program[pcb][j] # "EXIT"}
    BY DEF IosLeft
  <2>4. n \in Nat
    BY <1>2
  <2> HIDE DEF n
  <2>5. \A i \in Int : i \in (n + 1) .. Len(Program[pcb]) <=> i \in n .. Len(Program[pcb]) /\ i # n
    BY <1>2, <2>4
  <2>6. QED
    BY <1>2, <2>2, <2>3, <2>4, <2>5, SMTT(30)
<1>9. /\ IsFiniteSet(IosLeft(pcb)) /\ Cardinality(IosLeft(pcb)) \in Nat
      /\ Cardinality(IosLeft(pcb) \ {n}) = Cardinality(IosLeft(pcb)) - 1
  BY <1>1, <1>6, IosLeftFinite, FS_RemoveElement DEF CpuInv
<1> HIDE DEF n
<1>10. IosOwed(pcb) = 0 /\ IosOwed(pcb)' = 1
  BY <1>1 DEF IosOwed, One
<1>11. PortBursts'[pcb] = PortBursts[pcb]
  BY <1>1, <1>8, <1>9, <1>10 DEF PortBursts
<1>12. ASSUME NEW p \in Procs, p # pcb PROVE PortBursts'[p] = PortBursts[p]
  <2>1. pc'[p] = pc[p]
    BY <1>1, <1>7, <1>12
  <2>2. IosLeft(p)' = IosLeft(p)
    BY <2>1 DEF IosLeft
  <2>3. IosOwed(p)' = IosOwed(p)
    BY <1>1, <1>12 DEF IosOwed, One
  <2>4. QED
    BY <2>2, <2>3 DEF PortBursts
<1>13. QED
  BY <1>11, <1>12 DEF PortBursts

\* A step that leaves the connections and the pending INTs alone is invisible
\* to the kernel.
LEMMA CpuFrame ==
  ASSUME krn' = krn, back' = back, ints' = ints, intr' = intr, Raised' = Raised
  PROVE  PortPlace' = PortPlace /\ PortHeld' = PortHeld /\ PortInts' = PortInts
BY DEF PortPlace, PortHeld, PortInts

\* Steps of the dispatch thread are invisible to the kernel.
LEMMA DispatchStutters ==
  ASSUME CpuInv, Dispatch
  PROVE  UNCHANGED Port!portVars
<1>1. /\ pc' = pc /\ main' = main /\ krn' = krn /\ back' = back /\ ints' = ints
      /\ intr' = intr /\ flag' = flag /\ last' = last
  BY DEF Dispatch, DispWait, DispSet, DispSignal, DispStep
<1>2. pcb' = pcb \/ main.at # "send"
  BY TokenIsOneOfFour DEF CpuInv, TypeOK, TokenCases, Dispatch, DispWait, DispSet, DispSignal, DispStep
<1>3. Raised' = Raised
  BY <1>1 DEF Raised
<1>4. QED
  BY <1>1, <1>2, <1>3, BurstsFrame, CpuFrame DEF Port!portVars

\* Of the main thread the kernel only sees the step that sends the PCB.
LEMMA MainStutters ==
  ASSUME CpuInv, Main, ~ReturnSend
  PROVE  UNCHANGED Port!portVars
<1>1. /\ krn' = krn /\ back' = back /\ ints' = ints /\ intr' = intr /\ last' = last
  BY DEF Main, MainWait, MainCheck, MainLoop, CycleOther, CycleIo, CycleExit, CycleInterrupt,
         ReturnNull, ReturnRelease, ClearFlag, MainStep
<1>2. Raised' = Raised /\ PortBursts' = PortBursts
  <2>1. CASE MainWait \/ MainCheck \/ MainLoop
    <3>1. /\ pc' = pc /\ pcb' = pcb /\ flag' = flag /\ main'.st = main.st
          /\ main.at \in {"wait", "check", "loop"} /\ main'.at \in {"wait", "check", "loop", "cycle"}
      BY <2>1 DEF MainWait, MainCheck, MainLoop, MainStep
    <3>2. Raised' = Raised
      BY <3>1 DEF Raised, One
    <3>3. QED
      BY <3>1, <3>2, BurstsFrame
  <2>2. CASE CycleOther \/ CycleIo \/ CycleExit
    <3>1. ~flag /\ ~flag'
      BY <2>2 DEF CycleOther, CycleIo, CycleExit
    <3>2. Raised' = Raised
      BY <3>1 DEF Raised, One
    <3>3. QED
      BY <2>2, <3>2, OtherBursts, IoBursts DEF CpuInv
  <2>3. CASE CycleInterrupt
    <3>1. /\ pc' = pc /\ main.at = "cycle" /\ main'.at = "send" /\ main'.st = "READY" /\ flag' = flag
      BY <2>3 DEF CycleInterrupt, MainStep
    <3>2. Raised' = Raised
      BY <3>1 DEF Raised, One
    <3>3. \A p \in Procs : IosOwed(p)' = IosOwed(p)
      BY <3>1 DEF IosOwed, One
    <3>4. QED
      BY <3>1, <3>2, <3>3, SamePcs, SameBursts
  <2>4. CASE ReturnNull
    <3>1. /\ pc' = pc /\ main.at = "null" /\ main'.at = "release" /\ main'.st = main.st /\ flag' = flag
      BY <2>4 DEF ReturnNull, MainStep
    <3>2. Raised' = Raised
      BY <3>1 DEF Raised, One
    <3>3. QED
      BY <3>1, <3>2, BurstsFrame
  <2>5. CASE ReturnRelease
    <3>1. /\ pc' = pc /\ main.at = "release" /\ main'.st = main.st /\ flag' = flag
          /\ main'.at = IF main.st = "READY" THEN "clear" ELSE "loop"
      BY <2>5 DEF ReturnRelease, MainStep
    <3>2. Raised' = Raised
      BY <3>1 DEF Raised, One
    <3>3. QED
      BY <3>1, <3>2, BurstsFrame
  <2>6. CASE ClearFlag
    <3>1. /\ pc' = pc /\ main.at = "clear" /\ main.st = "READY" /\ main'.st = main.st
          /\ main'.at = "loop" /\ ~flag'
      BY <2>6 DEF ClearFlag, MainStep, CpuInv, Reasons
    <3>2. Raised' = Raised
      BY <3>1 DEF Raised, One
    <3>3. QED
      BY <3>1, <3>2, BurstsFrame
  <2>7. QED
    BY <2>1, <2>2, <2>3, <2>4, <2>5, <2>6 DEF Main
<1>3. QED
  BY <1>1, <1>2, CpuFrame DEF Port!portVars

\* Reading an INT, or raising a flag that is up already, may lose it.
LEMMA InterruptPort ==
  ASSUME CpuInv, Interrupt
  PROVE  Port!LosesInt \/ UNCHANGED Port!portVars
<1>1. /\ pc' = pc /\ main' = main /\ krn' = krn /\ back' = back /\ last' = last /\ pcb' = pcb
  BY DEF Interrupt, IntTest, IntSet, IntStep
<1>2. PortBursts' = PortBursts
  BY <1>1, BurstsFrame
<1>3. PortPlace' = PortPlace /\ PortHeld' = PortHeld
  BY <1>1 DEF PortPlace, PortHeld
<1>4. Len(ints) \in Nat /\ One(intr.at = "set") \in Nat /\ Raised \in Nat
  BY PendingTypes DEF CpuInv, TypeOK
<1>5. PortInts > 0 /\ (PortInts' = PortInts \/ PortInts' = PortInts - 1)
  <2> DEFINE k == Len(ints)
             a == One(intr.at = "set")
             r == Raised
  <2>1. k \in Int /\ a \in Int /\ r \in Int /\ k >= 0 /\ a >= 0 /\ r >= 0
    BY <1>4
  <2>2. PortInts = k + a + r
    BY DEF PortInts
  <2>3. CASE IntTest
    <3>1. ints # <<>> /\ intr.at = "recv" /\ flag' = flag /\ ints' = Tail(ints)
      BY <2>3 DEF IntTest, IntStep
    <3>2. a = 0 /\ r' = r /\ a' \in Int /\ (a' = 0 \/ a' = 1)
      BY <1>1, <3>1 DEF One, Raised
    <3>3. k > 0 /\ k' = k - 1
      BY <3>1 DEF CpuInv, TypeOK
    <3>4. PortInts' = (k - 1) + 0 + r \/ PortInts' = (k - 1) + 1 + r
      BY <3>2, <3>3 DEF PortInts
    <3> HIDE DEF k, a, r
    <3>5. PortInts' = k + r - 1 \/ PortInts' = k + r
      BY <2>1, <3>4
    <3>6. PortInts = k + r
      BY <2>1, <2>2, <3>2
    <3>7. k + r > 0
      BY <2>1, <3>3
    <3>8. QED
      BY <2>1, <3>5, <3>6, <3>7
  <2>4. CASE IntSet
    <3>1. ints' = ints /\ intr.at = "set" /\ intr'.at = "recv" /\ flag' = TRUE
      BY <2>4 DEF IntSet, IntStep
    <3>2. a = 1 /\ a' = 0 /\ k' = k /\ (r' = r \/ (r = 0 /\ r' = 1))
      BY <1>1, <3>1 DEF One, Raised
    <3>3. PortInts' = k + 0 + r'
      BY <3>2 DEF PortInts
    <3> HIDE DEF k, a, r
    <3>4. PortInts' = k + r \/ PortInts' = k + r + 1
      BY <2>1, <3>2, <3>3
    <3>5. PortInts = k + r + 1
      BY <2>1, <2>2, <3>2
    <3>6. QED
      BY <2>1, <3>4, <3>5
  <2>5. QED
    BY <2>3, <2>4 DEF Interrupt
<1>6. QED
  BY <1>1, <1>2, <1>3, <1>5 DEF Port!LosesInt, Port!portVars

\* The step that puts the PCB in the connection gives it back for its reason.
LEMMA ReturnPort ==
  ASSUME CpuInv, ReturnSend
  PROVE  Port!Io \/ Port!Exit \/ Port!Interrupted
<1>1. /\ main.at = "send" /\ main' = [at |-> "null", st |-> main.st] /\ krn' = krn
      /\ ints' = ints /\ intr' = intr /\ flag' = flag /\ pc' = pc /\ pcb' = pcb
      /\ back' = pcb /\ last' = [last EXCEPT ![pcb] = main.st]
  BY DEF ReturnSend, MainStep
<1>2. /\ pcb \in Procs /\ main.st \in Returned /\ krn.at = "recv" /\ pcb = krn.pcb
      /\ back = NoPcb /\ back' # NoPcb
  BY <1>1, CpuAssumption DEF CpuInv, InOnePlace, InCpu, TypeOK
<1>3. /\ PortPlace = "run" /\ PortPlace' = "back" /\ PortHeld = pcb /\ PortHeld' = PortHeld
  BY <1>1, <1>2 DEF PortPlace, PortHeld
<1>4. Port!GivesBack(main.st)
  BY <1>1, <1>3 DEF Port!GivesBack
<1>5. \A p \in Procs : IosLeft(p)' = IosLeft(p) /\ IosOwed(p)' = 0
  BY <1>1, SamePcs DEF IosOwed, One
<1>6. \A p \in Procs : p # pcb \/ main.st # "BLOCKED" => IosOwed(p) = 0
  BY DEF IosOwed, One
<1>7. Cardinality(IosLeft(pcb)) \in Nat
  BY <1>2, IosLeftFinite DEF CpuInv
<1>8. CASE main.st = "BLOCKED"
  <2>1. Raised' = Raised /\ IosOwed(pcb) = 1
    BY <1>1, <1>8 DEF Raised, IosOwed, One
  <2>2. PortInts' = PortInts
    BY <1>1, <2>1 DEF PortInts
  <2>3. PortBursts[pcb] = Cardinality(IosLeft(pcb)) + 1
    BY <1>2, <2>1 DEF PortBursts
  <2>4. PortBursts' = [p \in Procs |-> Cardinality(IosLeft(p)) + 0]
    BY <1>5 DEF PortBursts
  <2>5. PortBursts' = [PortBursts EXCEPT ![pcb] = @ - 1]
    BY <1>2, <1>6, <1>7, <2>3, <2>4 DEF PortBursts
  <2>6. QED
    BY <1>3, <1>4, <1>7, <1>8, <2>2, <2>3, <2>5 DEF Port!Io
<1>9. CASE main.st = "TERMINATED"
  <2>1. Raised' = Raised
    BY <1>1, <1>9 DEF Raised, One
  <2>2. PortInts' = PortInts
    BY <1>1, <2>1 DEF PortInts
  <2>3. PortBursts' = PortBursts
    BY <1>5, <1>6, <1>9 DEF PortBursts
  <2>4. IosLeft(pcb) = {}
    <3>1. pc[pcb] \in 1 .. Len(Program[pcb]) /\ Program[pcb][pc[pcb]] = "EXIT"
      BY <1>1, <1>9 DEF CpuInv, Reasons
    <3>2. Len(Program[pcb]) \in Nat /\ pc[pcb] \in Nat
      BY <1>2, CpuAssumption DEF CpuInv, TypeOK
    <3>3. \A i \in (pc[pcb] + 1) .. Len(Program[pcb]) : pc[pcb] \in 1 .. i
      BY <3>1, <3>2
    <3>4. QED
      BY <3>1, <3>3 DEF IosLeft
  <2>5. PortBursts[pcb] = 0
    BY <1>2, <1>6, <1>9, <2>4, FS_EmptySet DEF PortBursts
  <2>6. QED
    BY <1>3, <1>4, <1>9, <2>2, <2>3, <2>5 DEF Port!Exit
<1>10. CASE main.st = "READY"
  <2>1. PortBursts' = PortBursts
    BY <1>5, <1>6, <1>10 DEF PortBursts
  <2>2. flag
    BY <1>1, <1>10 DEF CpuInv, Reasons
  <2>3. Raised = 1 /\ Raised' = 0
    BY <1>1, <1>10, <2>2 DEF Raised, One
  <2> DEFINE k == Len(ints)
             a == One(intr.at = "set")
  <2>4. k \in Nat /\ a \in Nat
    BY PendingTypes DEF CpuInv, TypeOK
  <2>5. PortInts = k + a + 1 /\ PortInts' = k + a + 0
    BY <1>1, <2>3 DEF PortInts
  <2> HIDE DEF k, a
  <2>6. PortInts > 0 /\ PortInts' = PortInts - 1
    BY <2>4, <2>5
  <2>7. QED
    BY <1>4, <1>10, <2>1, <2>6 DEF Port!Interrupted
<1>11. QED
  BY <1>2, <1>8, <1>9, <1>10 DEF Returned

\* The kernel's own steps are its calls of the port.
LEMMA KernelPort ==
  ASSUME CpuInv, Kernel \/ KernelInterrupt
  PROVE  Port!Next \/ UNCHANGED Port!portVars
<1>1. /\ pc' = pc /\ main' = main /\ pcb' = pcb /\ flag' = flag /\ intr' = intr /\ last' = last
  BY DEF Kernel, KernelDispatch, KernelSend, KernelReceive, KernelInterrupt
<1>2. PortBursts' = PortBursts /\ Raised' = Raised
  BY <1>1, BurstsFrame DEF Raised
<1>3. ASSUME NEW p \in Procs, KernelDispatch(p) PROVE UNCHANGED Port!portVars
  <2>1. krn.at = "idle" /\ krn'.at = "dispatch" /\ back' = back /\ ints' = ints
    BY <1>3 DEF KernelDispatch
  <2>2. PortPlace' = PortPlace /\ PortHeld' = PortHeld /\ PortInts' = PortInts
    BY <1>1, <1>2, <2>1 DEF PortPlace, PortHeld, PortInts
  <2>3. QED
    BY <1>1, <1>2, <2>2 DEF Port!portVars
<1>4. CASE KernelSend
  <2>1. /\ krn.at = "dispatch" /\ krn'.at = "recv" /\ krn'.pcb = krn.pcb /\ back' = back
        /\ ints' = ints /\ krn.pcb \in Procs /\ back = NoPcb /\ last[krn.pcb] # "TERMINATED"
    BY <1>4 DEF KernelSend, CpuInv, TypeOK, InOnePlace, Reasons
  <2>2. /\ PortPlace = "idle" /\ PortPlace' = "run" /\ PortHeld' = krn.pcb /\ PortInts' = PortInts
    BY <1>1, <1>2, <2>1 DEF PortPlace, PortHeld, PortInts
  <2>3. Port!Send(krn.pcb)
    BY <1>1, <1>2, <2>1, <2>2 DEF Port!Send
  <2>4. QED
    BY <2>1, <2>3 DEF Port!Next
<1>5. CASE KernelReceive
  <2>1. /\ krn.at = "recv" /\ krn'.at = "idle" /\ back # NoPcb /\ ints' = ints
    BY <1>5 DEF KernelReceive
  <2>2. /\ PortPlace = "back" /\ PortPlace' = "idle" /\ PortHeld' = NoPcb /\ PortInts' = PortInts
    BY <1>1, <1>2, <2>1 DEF PortPlace, PortHeld, PortInts
  <2>3. QED
    BY <1>1, <1>2, <2>2 DEF Port!Receive, Port!Next
<1>6. CASE KernelInterrupt
  <2>1. krn' = krn /\ back' = back /\ ints' = Append(ints, turn)
    BY <1>6 DEF KernelInterrupt
  <2>2. PortPlace' = PortPlace /\ PortHeld' = PortHeld
    BY <2>1 DEF PortPlace, PortHeld
  <2> DEFINE k == Len(ints)
             a == One(intr.at = "set")
             r == Raised
  <2>3. k \in Nat /\ a \in Nat /\ r \in Nat
    BY PendingTypes DEF CpuInv, TypeOK
  <2>4. k' = k + 1
    BY <2>1 DEF CpuInv, TypeOK
  <2>5. PortInts = k + a + r /\ PortInts' = (k + 1) + a + r
    BY <1>1, <1>2, <2>4 DEF PortInts
  <2> HIDE DEF k, a, r
  <2>6. PortInts' = PortInts + 1
    BY <2>3, <2>5
  <2>7. QED
    BY <1>1, <1>2, <2>2, <2>6 DEF Port!Interrupt, Port!Next
<1>7. QED
  BY <1>3, <1>4, <1>5, <1>6 DEF Kernel

\* The CPU module keeps the promise of CpuPort, for every program: a PCB comes
\* back once, BLOCKED for one of its I/O instructions, TERMINATED when no I/O
\* instruction is left before EXIT, READY for an INT that the kernel has sent.
THEOREM PortImplemented == Spec => ImplementsPort
<1>1. Init => Port!Init
  <2> SUFFICES ASSUME Init PROVE Port!Init
    OBVIOUS
  <2>1. ASSUME NEW p \in Procs PROVE Cardinality(IosLeft(p)) + IosOwed(p) \in Nat
    <3>1. pc[p] = 0 /\ Len(Program[p]) \in Nat
      BY CpuAssumption DEF Init
    <3>2. IsFiniteSet((pc[p] + 1) .. Len(Program[p]))
      BY <3>1, FS_Interval
    <3>3. IosLeft(p) \subseteq (pc[p] + 1) .. Len(Program[p])
      BY DEF IosLeft
    <3>4. Cardinality(IosLeft(p)) \in Nat
      BY <3>2, <3>3, FS_Subset, FS_CardinalityType
    <3>5. IosOwed(p) = 0
      BY DEF Init, IosOwed, One
    <3>6. QED
      BY <3>4, <3>5
  <2>2. PortBursts \in [Procs -> Nat]
    BY <2>1 DEF PortBursts
  <2>3. Len(ints) = 0 /\ One(intr.at = "set") = 0 /\ Raised = 0
    BY DEF Init, One, Raised
  <2>4. PortInts = 0
    BY <2>3 DEF PortInts
  <2>5. PortPlace = "idle" /\ PortHeld = NoPcb /\ last = [p \in Procs |-> "READY"]
    BY DEF Init, PortPlace, PortHeld
  <2>6. QED
    BY <2>2, <2>4, <2>5 DEF Port!Init
<1>2. CpuInv /\ [Next]_vars => [Port!Next]_Port!portVars
  <2> SUFFICES ASSUME CpuInv, [Next]_vars PROVE Port!Next \/ UNCHANGED Port!portVars
    OBVIOUS
  <2>1. CASE Kernel \/ KernelInterrupt
    BY <2>1, KernelPort
  <2>2. CASE Dispatch
    BY <2>2, DispatchStutters
  <2>3. CASE Interrupt
    BY <2>3, InterruptPort DEF Port!Next
  <2>4. CASE Main
    BY <2>4, MainStutters, ReturnPort DEF Port!Next
  <2>5. CASE UNCHANGED vars
    <3>1. /\ pc' = pc /\ main' = main /\ pcb' = pcb /\ krn' = krn /\ back' = back /\ ints' = ints
          /\ intr' = intr /\ flag' = flag /\ last' = last
      BY <2>5 DEF vars
    <3>2. Raised' = Raised
      BY <3>1 DEF Raised
    <3>3. QED
      BY <3>1, <3>2, BurstsFrame, CpuFrame DEF Port!portVars
  <2>6. QED
    BY <2>1, <2>2, <2>3, <2>4, <2>5 DEF Next
<1>3. QED
  BY <1>1, <1>2, CpuInvariant, PTL DEF Spec, Port!Spec, ImplementsPort
=============================================================================
