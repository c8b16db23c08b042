------------------------------- MODULE SwapFile -------------------------------
(***************************************************************************)
(* The swap file of a process (memory/src/module/swap.c, fs.c) and the     *)
(* main memory behind its pages.                                           *)
(*                                                                         *)
(* Two threads of memory use the file, without a lock: the one that serves *)
(* the CPU swaps pages out and in while it handles FRAME (cpu_controller.c)*)
(* and the one that serves the kernel creates the file, saves the PCB of a *)
(* suspended process in it and deletes it (kernel_controller.c).  SWAP_PCB *)
(* has no answer, so the process may run again when it is handled.         *)
(*                                                                         *)
(* The unit is the word of four bytes.  A page keeps its frame for good,   *)
(* so it is named by its frame number.  An entry of the file is that       *)
(* number and the words of the page.  A word of the file has a tag that    *)
(* says what it was written as; the code sees values only.  A store beyond *)
(* the end of the file is lost, and zero is read there.  FrameSelector and *)
(* Paging say which page a replacement takes: here it is any page that is  *)
(* present and, with CLOCK, any that is already swapped out.  A WT goes to *)
(* the frame that the CPU was last told for the page, which the TLB keeps  *)
(* after the page is swapped out, and which is not the page's frame after  *)
(* it is swapped in.  A page starts with zeros.                            *)
(***************************************************************************)
EXTENDS Integers, Sequences, FiniteSets, FiniteSetsExt

CONSTANTS
  Frames,      \* the frame numbers of the pages of the process
  PageWords,   \* TAM_PAGINA in words
  MaxFrames,   \* MARCOS_POR_PROCESO
  Sizes,       \* sizes of the process in words
  Values,      \* what programs write
  PcbStreams,  \* serialised PCBs; the first word is the pid
  Improved,    \* ALGORITMO_REEMPLAZO is not "CLOCK"
  MaxWrites,   \* bound: writes
  MaxSwapPcbs, \* bound: times the process is suspended
  MaxRequests, \* bound: page faults and suspensions
  MaxRepeats   \* bound: replacements of a page that is already out

ASSUME SwapAssumption ==
  /\ Frames \subseteq Nat /\ IsFiniteSet(Frames) /\ MaxFrames \in Nat \ {0}
  /\ PageWords \in Nat /\ PageWords >= 2
  /\ Sizes \subseteq Nat /\ Values \subseteq Nat
  /\ PcbStreams \subseteq Seq(Nat) \ {<<>>}
  /\ Improved \in BOOLEAN
  /\ MaxWrites \in Nat /\ MaxSwapPcbs \in Nat /\ MaxRequests \in Nat /\ MaxRepeats \in Nat

VARIABLES
  stage,     \* of the process in memory: "new", "live" or "ended"
  size,      \* swap_data->size
  offset,    \* swap_data->offset
  file,      \* the words of the file
  assigned,  \* the pages that have a frame
  present,   \* those that are present
  mem,       \* the words of their frames
  answer,    \* the frame that the CPU was last told for each page
  cpu,       \* the thread that serves the CPU
  kernel,    \* the thread that serves the kernel
  written,   \* history: what the process wrote last in each word
  why,       \* history: how the page may have lost its contents
  repeats,   \* history: pages copied to the file that were already out
  writes, swaps, requests  \* counters for the bounds

vars == <<stage, size, offset, file, assigned, present, mem, answer, cpu, kernel,
          written, why, repeats, writes, swaps, requests>>
pages == <<assigned, present, mem, answer, written, why, repeats>>

Offsets   == 1 .. PageWords
Entry     == PageWords + 1       \* sizeof(uint32_t) + tam_pagina()
Copied    == 2                   \* sizeof(page_size), on a 64 bit machine
Garbage   == -1                  \* a word of malloc that was not written
Zeros     == [w \in Offsets |-> 0]
ZeroWord  == [val |-> 0, tag |-> "zero"]
NoFrame   == -1                  \* UINT32_MAX, or a frame of another process
IdleCpu   == [pc |-> "idle", page |-> 0, victim |-> 0, again |-> FALSE]
IdleKernel == [pc |-> "idle", stream |-> <<>>]
-----------------------------------------------------------------------------
(* The file.                                                               *)

\* ftruncate
Truncated(f, n) == [i \in 1 .. n |-> IF i <= Len(f) THEN f[i] ELSE ZeroWord]

\* memcpy into the mapping, behind the first "at" words.
Overwritten(f, at, words) ==
  [i \in 1 .. Len(f) |-> IF i \in at + 1 .. at + Len(words) THEN words[i - at] ELSE f[i]]

\* What the mapping shows behind the first "at" words.
Shown(f, at, n) == [i \in 1 .. n |-> IF at + i <= Len(f) THEN f[at + i] ELSE ZeroWord]

\* The stream of swap_frame.
EntryOf(f) ==
  <<[val |-> f, tag |-> "head"]>> \o [w \in Offsets |-> [val |-> mem[f][w], tag |-> "data"]]

\* Where unswap_frame_for_pcb finds the number of the frame.
Matches(f) == {i \in 0 .. offset - 1 : i % Entry = 0 /\ Shown(file, i, 1)[1].val = f}
-----------------------------------------------------------------------------
Init ==
  /\ stage = "new" /\ size = 0 /\ offset = 0 /\ file = <<>>
  /\ assigned = {} /\ present = {} /\ mem = [f \in Frames |-> Zeros]
  /\ answer = [f \in Frames |-> f] /\ repeats = 0
  /\ cpu = IdleCpu /\ kernel = IdleKernel
  /\ written = [f \in Frames |-> Zeros] /\ why = [f \in Frames |-> {}]
  /\ writes = 0 /\ swaps = 0 /\ requests = 0
-----------------------------------------------------------------------------
(* The thread that serves the kernel.                                      *)

\* kernel_controller_memory_init: new_swap_data, create_file.  Nothing is
\* mapped, and no pid is stored, when the size is 0.
MemoryInit ==
  /\ stage = "new" /\ stage' = "live"
  /\ \E n \in Sizes, s \in PcbStreams :
       /\ size' = n
       /\ file' = Overwritten(Truncated(<<>>, n), 0, <<[val |-> Head(s), tag |-> "pcb"]>>)
  /\ offset' = 0
  /\ UNCHANGED <<cpu, kernel, writes, swaps, requests>> /\ UNCHANGED pages

\* swap_pcb_ sets the length of the file to that of the stream ...
SwapPcbTruncate ==
  /\ stage = "live" /\ kernel.pc = "idle" /\ swaps < MaxSwapPcbs /\ swaps' = swaps + 1
  /\ requests < MaxRequests /\ requests' = requests + 1
  /\ \E s \in PcbStreams :
       kernel' = [pc |-> "copy", stream |-> s] /\ file' = Truncated(file, Len(s))
  /\ UNCHANGED <<stage, size, offset, cpu, writes>> /\ UNCHANGED pages

\* ... and copies the stream over its start; swap_data stays as it is.
SwapPcbCopy ==
  /\ kernel.pc = "copy" /\ kernel' = IdleKernel
  /\ file' = Overwritten(file, 0, [i \in 1 .. Len(kernel.stream) |->
                                     [val |-> kernel.stream[i], tag |-> "pcb"]])
  /\ UNCHANGED <<stage, size, offset, cpu, writes, swaps, requests>> /\ UNCHANGED pages

\* kernel_controller_destroy_process_file: delete_process, delete_swapped_pcb.
\* The process has exited, so the CPU asks for nothing of it.
DestroyProcessFile ==
  /\ stage = "live" /\ kernel.pc = "idle" /\ cpu.pc = "idle"
  /\ stage' = "ended" /\ file' = <<>> /\ offset' = 0 /\ size' = 0
  /\ assigned' = {} /\ present' = {}
  /\ UNCHANGED <<mem, answer, cpu, kernel, written, why, repeats, writes, swaps, requests>>
-----------------------------------------------------------------------------
(* The thread that serves the CPU.                                         *)

\* cpu_controller_write, of the frame that the CPU has for the page f.  It is
\* refused when the frame is in no table.
Write ==
  /\ stage = "live" /\ cpu.pc = "idle" /\ writes < MaxWrites /\ writes' = writes + 1
  /\ \E f \in assigned, w \in Offsets, v \in Values :
       LET d == answer[f]
       IN  /\ mem' = IF d \in assigned THEN [mem EXCEPT ![d][w] = v] ELSE mem
           /\ written' = [written EXCEPT ![f][w] = v]
           /\ why' = [g \in Frames |-> why[g] \union
                        (IF d # f /\ g \in {d, f} THEN {"astray"} ELSE {}) \union
                        (IF d = f /\ g = f /\ f \notin present THEN {"late"} ELSE {})]
  /\ UNCHANGED <<stage, size, offset, file, assigned, present, answer, cpu, kernel, repeats, swaps, requests>>

\* cpu_controller_write for another process, which was told a frame that was
\* free then and belongs to this one now.
WriteOther ==
  /\ stage = "live" /\ cpu.pc = "idle" /\ writes < MaxWrites /\ writes' = writes + 1
  /\ \E d \in assigned, w \in Offsets, v \in Values :
       /\ mem' = [mem EXCEPT ![d][w] = v]
       /\ why' = [why EXCEPT ![d] = @ \union {"astray"}]
  /\ UNCHANGED <<stage, size, offset, file, assigned, present, answer, cpu, kernel, written, repeats, swaps, requests>>

\* obtain_frame of a page that is present.
Ask(f) ==
  /\ stage = "live" /\ cpu.pc = "idle" /\ f \in present
  /\ answer' = [answer EXCEPT ![f] = f]
  /\ UNCHANGED <<stage, size, offset, file, assigned, present, mem, cpu, kernel, written, why, repeats, writes, swaps, requests>>

\* What the algorithm may name: clock_selector ends at the row under the hand,
\* whether it is present or not.
Victims == present \union (IF Improved \/ repeats >= MaxRepeats THEN {} ELSE assigned \ present)

\* obtain_frame of a page that is not present.  replace_frame takes the victim
\* out of the tables before it is swapped.
Frame(f) ==
  /\ stage = "live" /\ cpu.pc = "idle" /\ f \notin present
  /\ requests < MaxRequests /\ requests' = requests + 1
  /\ IF Cardinality(present) >= MaxFrames
     THEN \E v \in Victims :
            /\ cpu' = [pc |-> "truncate", page |-> f, victim |-> v, again |-> v \notin present]
            /\ present' = present \ {v}
     ELSE cpu' = [pc |-> "fill", page |-> f, victim |-> f, again |-> FALSE] /\ UNCHANGED present
  /\ UNCHANGED <<stage, size, offset, file, assigned, mem, answer, kernel, written, why, repeats, writes, swaps>>

\* swap_frame_for_pcb: the file gets its length back.  A file of length 0
\* cannot be mapped, and then nothing is swapped.
SwapTruncate ==
  /\ cpu.pc = "truncate"
  /\ file' = Truncated(file, size)
  /\ cpu' = [cpu EXCEPT !.pc = IF size = 0 THEN "fill" ELSE "copy"]
  /\ UNCHANGED <<stage, size, offset, kernel, writes, swaps, requests>> /\ UNCHANGED pages

\* Fault: the offset moves by the page, without the frame number.
SwapFrameShort ==
  /\ cpu.pc = "copy" /\ cpu' = [cpu EXCEPT !.pc = "fill"]
  /\ file' = Overwritten(file, offset, EntryOf(cpu.victim))
  /\ offset' = offset + PageWords
  /\ repeats' = repeats + (IF cpu.again THEN 1 ELSE 0)
  /\ why' = IF cpu.again THEN [why EXCEPT ![cpu.victim] = @ \union {"twice"}] ELSE why
  /\ UNCHANGED <<stage, size, assigned, present, mem, answer, kernel, written, writes, swaps, requests>>

\* swap_frame, which does not look for an entry of the same frame.
SwapFrame ==
  /\ cpu.pc = "copy" /\ cpu' = [cpu EXCEPT !.pc = "fill"]
  /\ file' = Overwritten(file, offset, EntryOf(cpu.victim))
  /\ offset' = offset + Entry
  /\ repeats' = repeats + (IF cpu.again THEN 1 ELSE 0)
  /\ why' = IF cpu.again THEN [why EXCEPT ![cpu.victim] = @ \union {"twice"}] ELSE why
  /\ UNCHANGED <<stage, size, assigned, present, mem, answer, kernel, written, writes, swaps, requests>>

\* create_frame_for_table, for a page that has no frame.
Assign ==
  /\ cpu.pc = "fill" /\ cpu.page \notin assigned /\ cpu' = IdleCpu
  /\ assigned' = assigned \union {cpu.page} /\ present' = present \union {cpu.page}
  /\ answer' = [answer EXCEPT ![cpu.page] = cpu.page]
  /\ UNCHANGED <<stage, size, offset, file, mem, kernel, written, why, repeats, writes, swaps, requests>>

\* Fault: the data is taken where the frame number is.
RestoredHead(i) == [w \in Offsets |-> IF w <= Copied THEN Shown(file, i, PageWords)[w].val ELSE Garbage]

\* The words that the frame gets back from the entry at i: the buffer is filled
\* with Copied words only.
Restored(i) == [w \in Offsets |-> IF w <= Copied THEN Shown(file, i + 1, PageWords)[w].val ELSE Garbage]

\* How a page loses contents when it is restored from the entry at i: the
\* match was no frame number, or its words are not the entry's, and the words
\* that are not copied.
Losses(i) ==
  {"short"} \union (IF Shown(file, i, 1)[1].tag # "head" THEN {"alias"} ELSE {})
            \union (IF \E w \in 1 .. Copied : Shown(file, i + 1, PageWords)[w].tag # "data" THEN {"cut"} ELSE {})

\* Where the gap is closed: at the entry found, or at the first one.
ReplaceIndex(f) == IF Matches(f) = {} THEN 0 ELSE Min(Matches(f))

\* obtain_frame answers the frame that it found free, and has freed again.
AnswerNewFrame ==
  \E g \in (Frames \ assigned) \union {NoFrame} : answer' = [answer EXCEPT ![cpu.page] = g]

\* Fault: the entry is left where it is.
UnswapLeaves ==
  /\ cpu.pc = "fill" /\ cpu.page \in assigned /\ size > 0 /\ cpu' = IdleCpu
  /\ present' = present \union {cpu.page} /\ AnswerNewFrame
  /\ IF Matches(cpu.page) = {} THEN UNCHANGED <<mem, why>>
     ELSE LET i == ReplaceIndex(cpu.page)
          IN  /\ mem' = [mem EXCEPT ![cpu.page] = Restored(i)]
              /\ why' = [why EXCEPT ![cpu.page] = @ \union Losses(i)]
  /\ UNCHANGED <<stage, size, offset, file, assigned, kernel, written, repeats, writes, swaps, requests>>

\* unswap_frame_for_pcb: the words of the entry found go back to the frame, and
\* PageWords words before the end, which are not an entry, close the gap.
Unswap ==
  /\ cpu.pc = "fill" /\ cpu.page \in assigned /\ size > 0 /\ cpu' = IdleCpu
  /\ present' = present \union {cpu.page} /\ AnswerNewFrame
  /\ LET i == ReplaceIndex(cpu.page)
     IN  /\ IF Matches(cpu.page) = {} THEN UNCHANGED <<mem, why>>
            ELSE /\ mem' = [mem EXCEPT ![cpu.page] = Restored(i)]
                 /\ why' = [why EXCEPT ![cpu.page] = @ \union Losses(i)]
         /\ IF offset > PageWords
            THEN /\ file' = Overwritten(file, i, Shown(file, offset - PageWords, PageWords))
                 /\ offset' = offset - Entry
            ELSE offset' = 0 /\ UNCHANGED file
  /\ UNCHANGED <<stage, size, assigned, kernel, written, repeats, writes, swaps, requests>>

\* The file of length 0 cannot be mapped: the page stays absent, although it
\* is answered.
UnswapUnmapped ==
  /\ cpu.pc = "fill" /\ cpu.page \in assigned /\ size = 0 /\ cpu' = IdleCpu
  /\ AnswerNewFrame
  /\ UNCHANGED <<stage, size, offset, file, assigned, present, mem, kernel, written, why, repeats, writes, swaps, requests>>
-----------------------------------------------------------------------------
Next ==
  \/ MemoryInit \/ SwapPcbTruncate \/ SwapPcbCopy \/ DestroyProcessFile
  \/ Write \/ WriteOther \/ (\E f \in Frames : Ask(f) \/ Frame(f)) \/ SwapTruncate \/ SwapFrame
  \/ Assign \/ Unswap \/ UnswapUnmapped

Spec == Init /\ [][Next]_vars
-----------------------------------------------------------------------------
(* Properties.                                                             *)

\* The pages in the file: those that have a frame and are not present, but for
\* a victim that was present and is not copied yet.
SwappedOut ==
  (assigned \ present) \
    (IF cpu.pc \in {"truncate", "copy"} /\ ~cpu.again THEN {cpu.victim} ELSE {})

\* The end of the entries, which swap.c keeps apart from the page tables, agrees
\* with them: one entry for each page that is swapped out, whether its entry is
\* still found or not, and although suspending overwrites the file
\* (kernel_controller.c:225, swap.c:196); and one more, which nothing takes back,
\* each time that CLOCK named a page that was out already (algorithms.c:90).
OffsetCounts == size > 0 => offset = Entry * (Cardinality(SwappedOut) + repeats)

\* swap_frame copies without looking at the length of the file (swap.c:157): it
\* stays inside when the size that the console gave has room for the entries of
\* all pages that are not present, for one more, because the victim is swapped out
\* before the page that replaces it is swapped in, and for the entries that CLOCK
\* had made of pages that were out already.
OffsetInside ==
  size >= Entry * (Cardinality(Frames) - MaxFrames + 1 + repeats) => offset <= size

\* The only ways in which a page that is present has lost what was written: the
\* words behind the first two were restored from a buffer that was not filled
\* ("short"), the frame number was found in a word that is none ("alias"), the
\* file was truncated between the two halves of a copy ("cut"), the page was
\* written while it was swapped out ("late"), it was copied to the file while it
\* was swapped out, so that an older entry of it is found first ("twice"), or the
\* CPU wrote in another frame than the page's, because it was told one that was
\* freed (cpu_controller.c:440, "astray").  An entry that suspending or closing a
\* gap has destroyed costs nothing: the frame still has the page.
ContentsKept ==
  \A f \in present, w \in Offsets :
    \/ mem[f][w] = written[f][w]
    \/ w > Copied /\ "short" \in why[f]
    \/ why[f] \intersect {"alias", "cut", "late", "twice", "astray"} # {}
=============================================================================
