-------------------------------- MODULE Paging --------------------------------
(***************************************************************************)
(* The memory module (memory/src) and the MMU of the CPU (cpu.c, tlb.c).   *)
(*                                                                         *)
(* Memory keeps a list of first level tables, one per process, a list of   *)
(* second level tables and the frames in use.  One of its threads serves   *)
(* the kernel (a table for a new process, the end of a process), another   *)
(* one the CPU (the frame of a page, reads and writes); each handles its   *)
(* requests in order, and they share the tables.                           *)
(*                                                                         *)
(* The CPU looks a page up in the TLB, asks memory for the frame when it   *)
(* is not there, and sends the read, whose answer it waits for, or the     *)
(* write, which has none.  A handler is atomic between its delays: the one *)
(* of FRAME sleeps while a page is swapped out.  The contents of frames    *)
(* and of swap files are left out, and so is the second level table's own  *)
(* request (SND_PAGE): the entries of a first level table never change.    *)
(*                                                                         *)
(* Table ids count from 1.  Swapping a frame that does not exist reads     *)
(* outside the main memory: it raises ub, and the behaviour ends.          *)
(***************************************************************************)
EXTENDS FrameSelector, SequencesExt

CONSTANTS
  Procs,       \* the processes
  NoProc,      \* no PCB
  Entries,     \* ENTRADAS_POR_TABLA
  NoOfFrames,  \* TAM_MEMORIA / TAM_PAGINA
  MaxFrames,   \* MARCOS_POR_PROCESO
  Improved,    \* ALGORITMO_REEMPLAZO is not "CLOCK"
  TlbSize,     \* ENTRADAS_TLB
  Lru,         \* REEMPLAZO_TLB is "LRU"
  Accessed,    \* the pages that the programs use
  MaxAge       \* bound: the age of a TLB entry

ASSUME PagingAssumption ==
  /\ NoProc \notin Procs
  /\ Entries \in Nat \ {0} /\ NoOfFrames \in Nat /\ MaxFrames \in Nat \ {0}
  /\ TlbSize \in Nat \ {0} /\ MaxAge \in Nat
  /\ Improved \in BOOLEAN /\ Lru \in BOOLEAN
  /\ Accessed \subseteq 0 .. Entries * Entries - 1

VARIABLES
  frames,      \* memory->frames: the frames marked as used
  lvl1,        \* tables_lvl_1: the second level ids of each first level table
  lvl2,        \* tables_lvl_2: the rows of each second level table
  clock,       \* the hand of the frame selector
  requests,    \* what the kernel has sent to memory
  stage,       \* of each process in the kernel
  page_table,  \* the first level id in each PCB
  cur,         \* the process in the CPU
  cpu,         \* the access it is making
  tlb,         \* its TLB
  oldest,      \* the static index of replace_fifo
  write,       \* the WT that memory has not handled
  ub           \* a frame that does not exist was swapped

vars == <<frames, lvl1, lvl2, clock, requests, stage, page_table, cur, cpu, tlb, oldest, write, ub>>
memoryVars == <<frames, lvl1, lvl2, clock, ub>>
kernelVars == <<requests, stage, page_table>>
cpuVars == <<cur, cpu, tlb, oldest>>

NoFrame == -1
NoTable == <<>>
NoWrite == [proc |-> NoProc, frame |-> NoFrame]
Frames  == 0 .. NoOfFrames - 1
Indexes == 0 .. Entries - 1
Pages   == 0 .. Entries * Entries - 1
Empty   == [page |-> -1, frame |-> NoFrame, age |-> 0]
Idle    == [pc |-> "run", page |-> 0, frame |-> NoFrame]
-----------------------------------------------------------------------------
(* Tables.                                                                 *)

\* new_page_table_lvl2
NewTable == [j \in Indexes |-> [frame |-> NoFrame, present |-> FALSE, use |-> FALSE, modified |-> FALSE]]

\* Fault: the last place of the list counts as free.
FindIdLast(list) == IF list = <<>> THEN 1 ELSE Len(list)

\* find_id: the place of a table that was deleted, or a new one at the end.
FindId(list) ==
  LET deleted == {i \in DOMAIN list : list[i] = NoTable}
  IN  IF deleted = {} THEN Len(list) + 1 ELSE Min(deleted)

\* create_big_table: the rows of all second level tables of a first level one.
BigTable(id) == [k \in Pages |-> lvl2[lvl1[id][k \div Entries]][k % Entries]]

\* get_table_lvl2_number: the first table with the frame, 0 if there is none.
TableOfFrame(f) ==
  LET tables == {i \in DOMAIN lvl2 : lvl2[i] # NoTable /\ \E j \in Indexes : lvl2[i][j].frame = f}
  IN  IF tables = {} THEN 0 ELSE Min(tables)

\* get_frame_ref: the first row of that table with the frame.
RowOfFrame(f) == Min({j \in Indexes : lvl2[TableOfFrame(f)][j].frame = f})

\* get_table_lvl1_number: the first level table that a second level one is in.
Lvl1Of(id2) == Min({i \in DOMAIN lvl1 : lvl1[i] # NoTable /\ \E k \in Indexes : lvl1[i][k] = id2})

\* The rows that are present in the tables of a process.
Resident(id) == {k \in Pages : BigTable(id)[k].present}

\* find_free_frame
FreeFrame == IF Frames \subseteq frames THEN NoFrame ELSE Min(Frames \ frames)
-----------------------------------------------------------------------------
Init ==
  /\ frames = {} /\ lvl1 = <<>> /\ lvl2 = <<>> /\ clock = 0 /\ ub = FALSE
  /\ requests = <<>> /\ stage = [p \in Procs |-> "new"] /\ page_table = [p \in Procs |-> 0]
  /\ cur = NoProc /\ cpu = Idle /\ tlb = [i \in 1 .. TlbSize |-> Empty] /\ oldest = 1
  /\ write = NoWrite
-----------------------------------------------------------------------------
(* The kernel, and the thread of memory that serves it.                    *)

\* admit asks for a table (MEMORY_INIT) and waits for its id; the long term
\* scheduler admits one process at a time.
Admit(p) ==
  /\ ~ub /\ stage[p] = "new" /\ \A p2 \in Procs : stage[p2] # "asked"
  /\ stage' = [stage EXCEPT ![p] = "asked"]
  /\ requests' = Append(requests, [op |-> "INIT", proc |-> p])
  /\ UNCHANGED <<page_table, write>> /\ UNCHANGED memoryVars /\ UNCHANGED cpuVars

\* create_lvl2_tables: at the end of the list, even if tables were deleted.
NewIds == [k \in Indexes |-> Len(lvl2) + 1 + k]

\* create_table
CreateTable(id, ids) == IF id > Len(lvl1) THEN Append(lvl1, ids) ELSE [lvl1 EXCEPT ![id] = ids]

\* kernel_controller_memory_init: create_new_process.
MemoryInit ==
  /\ ~ub /\ requests # <<>> /\ Head(requests).op = "INIT" /\ requests' = Tail(requests)
  /\ LET p == Head(requests).proc
         id == FindId(lvl1)
     IN  /\ lvl2' = lvl2 \o [i \in 1 .. Entries |-> NewTable]
         /\ lvl1' = CreateTable(id, NewIds)
         /\ page_table' = [page_table EXCEPT ![p] = id]
         /\ stage' = [stage EXCEPT ![p] = "ready"]
  /\ UNCHANGED <<frames, clock, write, ub>> /\ UNCHANGED cpuVars

\* The frames that delete_level_2_table frees: it only looks at the first
\* max_frames rows of each table.
FreedWith(id) ==
  {lvl2[lvl1[id][k]][j].frame : k \in Indexes, j \in {j \in Indexes : j < MaxFrames}}

\* delete_related_tables
DeleteTables(id) ==
  /\ lvl2' = [i \in DOMAIN lvl2 |-> IF \E k \in Indexes : lvl1[id][k] = i THEN NoTable ELSE lvl2[i]]
  /\ lvl1' = [lvl1 EXCEPT ![id] = NoTable]

\* Fault: the frames are not freed.
DestroyKeepFrames ==
  /\ ~ub /\ requests # <<>> /\ Head(requests).op = "END" /\ requests' = Tail(requests)
  /\ DeleteTables(page_table[Head(requests).proc])
  /\ UNCHANGED <<frames, clock, stage, page_table, write, ub>> /\ UNCHANGED cpuVars

\* kernel_controller_destroy_process_file: delete_process.
DestroyProcess ==
  /\ ~ub /\ requests # <<>> /\ Head(requests).op = "END" /\ requests' = Tail(requests)
  /\ LET id == page_table[Head(requests).proc]
     IN  frames' = frames \ FreedWith(id) /\ DeleteTables(id)
  /\ UNCHANGED <<clock, stage, page_table, write, ub>> /\ UNCHANGED cpuVars
-----------------------------------------------------------------------------
(* A process enters and leaves the CPU.                                    *)

Dispatch(p) ==
  /\ ~ub /\ cur = NoProc /\ stage[p] = "ready" /\ cur' = p
  /\ UNCHANGED <<cpu, tlb, oldest, write>> /\ UNCHANGED memoryVars /\ UNCHANGED kernelVars

\* return_pcb, between two instructions.  It resets the TLB after the PCB is on
\* its way, and only then frees the CPU for the next process.
Leave(buffer) ==
  /\ ~ub /\ cur # NoProc /\ cpu.pc = "run" /\ cur' = NoProc /\ tlb' = buffer
  /\ UNCHANGED <<cpu, oldest, page_table, write>> /\ UNCHANGED memoryVars

\* tlb_reset; the index of replace_fifo stays.
TlbReset == [i \in 1 .. TlbSize |-> Empty]

\* Fault: the TLB is kept.
LeaveForNowWarm == Leave(tlb) /\ UNCHANGED <<requests, stage>>

\* For an I/O instruction (execute_IO) or because of an INT.
LeaveForNow == Leave(TlbReset) /\ UNCHANGED <<requests, stage>>

\* EXIT: the kernel then has memory delete the process.
LeaveForGood ==
  /\ Leave(TlbReset) /\ stage' = [stage EXCEPT ![cur] = "ended"]
  /\ requests' = Append(requests, [op |-> "END", proc |-> cur])
-----------------------------------------------------------------------------
(* The MMU.                                                                *)

\* page_in_TLB: the entries before the one that matches grow older.
TlbLookup(n) ==
  LET hits == {i \in 1 .. TlbSize : tlb[i].page = n}
      aged == [i \in 1 .. TlbSize |-> [tlb[i] EXCEPT !.age = @ + 1]]
  IN  IF hits = {} THEN [hit |-> FALSE, frame |-> NoFrame, tlb |-> aged]
      ELSE [hit |-> TRUE, frame |-> tlb[Min(hits)].frame,
            tlb |-> [i \in 1 .. TlbSize |->
                       CASE i < Min(hits) -> aged[i]
                         [] i = Min(hits) -> [tlb[i] EXCEPT !.age = 0]
                         [] OTHER         -> tlb[i]]]

\* replace_lru: the first empty entry, else the first of the oldest ones; the
\* entries before the empty one, or all of them, grow older.
ReplaceLru(n, f) ==
  LET empties == {i \in 1 .. TlbSize : tlb[i].page = -1}
      oldests == {i \in 1 .. TlbSize : \A j \in 1 .. TlbSize : tlb[j].age <= tlb[i].age}
      victim == IF empties # {} THEN Min(empties) ELSE Min(oldests)
  IN  [i \in 1 .. TlbSize |->
         CASE i = victim -> [page |-> n, frame |-> f, age |-> 0]
           [] i # victim /\ (empties = {} \/ i < victim) -> [tlb[i] EXCEPT !.age = @ + 1]
           [] OTHER -> tlb[i]]

\* replace_fifo
ReplaceFifo(n, f) == [tlb EXCEPT ![oldest].page = n, ![oldest].frame = f]

\* req_physical_address of an address in page n; whether it is for a read or a
\* write makes no difference until the frame is known.
Translate(n) ==
  /\ ~ub /\ cur # NoProc /\ cpu.pc = "run" /\ \A i \in 1 .. TlbSize : tlb[i].age < MaxAge
  /\ tlb' = TlbLookup(n).tlb
  /\ cpu' = [pc |-> IF TlbLookup(n).hit THEN "access" ELSE "frame", page |-> n,
             frame |-> TlbLookup(n).frame]
  /\ UNCHANGED <<cur, oldest, write>> /\ UNCHANGED memoryVars /\ UNCHANGED kernelVars

TlbReplace ==
  /\ ~ub /\ cpu.pc = "answer" /\ cpu' = [cpu EXCEPT !.pc = "access"]
  /\ tlb' = IF Lru THEN ReplaceLru(cpu.page, cpu.frame) ELSE ReplaceFifo(cpu.page, cpu.frame)
  /\ oldest' = CASE Lru -> oldest [] ~Lru /\ oldest < TlbSize -> oldest + 1 [] OTHER -> 1
  /\ UNCHANGED <<cur, write>> /\ UNCHANGED memoryVars /\ UNCHANGED kernelVars
-----------------------------------------------------------------------------
(* The thread of memory that serves the CPU.                               *)

\* obtain_second_page
SecondPage(id, index) == lvl1[id][index]

\* The second level table and the row of page n of the process in the CPU.
TableOf(n) == SecondPage(page_table[cur], Min({n \div Entries, Entries - 1}))
RowOf(n) == lvl2[TableOf(n)][n % Entries]

CpuThread(from, to, f) ==
  /\ ~ub /\ cpu.pc = from
  /\ cpu' = IF to = "run" THEN Idle ELSE [cpu EXCEPT !.pc = to, !.frame = f]
  /\ UNCHANGED <<cur, tlb, oldest>> /\ UNCHANGED kernelVars

\* obtain_frame, of a page that is present.
FramePresent ==
  /\ write = NoWrite /\ cpu.pc = "frame" /\ RowOf(cpu.page).present
  /\ CpuThread("frame", "answer", RowOf(cpu.page).frame)
  /\ UNCHANGED <<write>> /\ UNCHANGED memoryVars

\* Fault: one frame too many.
ShouldReplaceLate(id2) == Cardinality(Resident(Lvl1Of(id2))) > MaxFrames

\* should_replace_frame
ShouldReplace(id2) == Cardinality(Resident(Lvl1Of(id2))) >= MaxFrames

\* The frame selector applied to the tables of the process.
Selected(id) ==
  IF Improved THEN ImprovedClockSelector(BigTable(id), clock) ELSE ClockSelector(BigTable(id), clock)

\* The second level tables when the selector has changed the rows of id, and
\* replace_frame has taken the frame f out of the rows that have it.
Replaced(id, rows, f) ==
  [i \in DOMAIN lvl2 |->
     IF lvl2[i] = NoTable THEN NoTable
     ELSE [j \in Indexes |->
             LET row == IF \E k \in Indexes : lvl1[id][k] = i
                        THEN rows[(CHOOSE k \in Indexes : lvl1[id][k] = i) * Entries + j]
                        ELSE lvl2[i][j]
             IN  IF row.frame = f /\ i = TableOfFrame(f)
                 THEN [row EXCEPT !.present = FALSE, !.use = FALSE] ELSE row]]

\* obtain_frame, of a page that is not present: a free frame is reserved, and a
\* page of the process is swapped out when it has all its frames.
FrameFault ==
  /\ write = NoWrite /\ cpu.pc = "frame" /\ ~RowOf(cpu.page).present
  /\ CpuThread("frame", "fill", FreeFrame)
  /\ frames' = frames \union ({FreeFrame} \ {NoFrame})
  /\ IF ShouldReplace(TableOf(cpu.page))
     THEN LET id  == Lvl1Of(TableOf(cpu.page))
              sel == Selected(id)
              f   == IF sel.row = NoRow THEN NoFrame ELSE BigTable(id)[sel.row].frame
          IN  /\ clock' = sel.clock /\ ub' = (f = NoFrame)
              /\ lvl2' = Replaced(id, sel.table, f)
     ELSE UNCHANGED <<clock, lvl2, ub>>
  /\ UNCHANGED <<lvl1, write>>

\* Fault: the frame is freed again in either case.
FrameFillFree ==
  /\ CpuThread("fill", "answer", cpu.frame)
  /\ LET id == TableOf(cpu.page)
         unassigned == RowOf(cpu.page).frame = NoFrame
         j == IF unassigned THEN Min({i \in Indexes : lvl2[id][i].frame = NoFrame}) ELSE cpu.page % Entries
     IN  lvl2' = [lvl2 EXCEPT ![id][j].present = TRUE, ![id][j].use = TRUE,
                              ![id][j].frame = IF unassigned THEN cpu.frame ELSE @]
  /\ frames' = frames \ {cpu.frame} /\ UNCHANGED <<lvl1, clock, write, ub>>

\* ... and then the page gets the reserved frame, in the first row of its table
\* that has none (create_frame_for_table); or it has a frame already, is swapped
\* in, and the reserved frame is freed again.  The answer is the reserved frame.
FrameFill ==
  /\ CpuThread("fill", "answer", cpu.frame)
  /\ LET id == TableOf(cpu.page)
         unassigned == RowOf(cpu.page).frame = NoFrame
         j == IF unassigned THEN Min({i \in Indexes : lvl2[id][i].frame = NoFrame}) ELSE cpu.page % Entries
     IN  /\ lvl2' = [lvl2 EXCEPT ![id][j].present = TRUE, ![id][j].use = TRUE,
                                 ![id][j].frame = IF unassigned THEN cpu.frame ELSE @]
         /\ frames' = IF unassigned THEN frames ELSE frames \ {cpu.frame}
  /\ UNCHANGED <<lvl1, clock, write, ub>>

\* The frame of a physical address is in some table.  An address made from
\* NoFrame wraps around to a frame that does not exist.
Mapped(f) == f # NoFrame /\ TableOfFrame(f) # 0

SetModified(f, b) ==
  lvl2' = IF Mapped(f) THEN [lvl2 EXCEPT ![TableOfFrame(f)][RowOfFrame(f)].modified = b] ELSE lvl2

\* cpu_controller_read clears the modified bit; the CPU waits for the value.
Read ==
  /\ write = NoWrite
  /\ CpuThread("access", "run", NoFrame)
  /\ SetModified(cpu.frame, FALSE) /\ UNCHANGED <<frames, lvl1, clock, write, ub>>

\* execute_WRITE; one write at a time is on its way.
SendWrite ==
  /\ write = NoWrite
  /\ CpuThread("access", "run", NoFrame)
  /\ write' = [proc |-> cur, frame |-> cpu.frame] /\ UNCHANGED memoryVars

\* cpu_controller_write
Write ==
  /\ ~ub /\ write # NoWrite /\ write' = NoWrite
  /\ SetModified(write.frame, TRUE)
  /\ UNCHANGED <<frames, lvl1, clock, ub>> /\ UNCHANGED kernelVars /\ UNCHANGED cpuVars
-----------------------------------------------------------------------------
Next ==
  \/ \E p \in Procs : Admit(p) \/ Dispatch(p)
  \/ MemoryInit \/ DestroyProcess
  \/ LeaveForNow \/ LeaveForGood
  \/ \E n \in Accessed : Translate(n)
  \/ TlbReplace \/ FramePresent \/ FrameFault \/ FrameFill \/ Read \/ SendWrite \/ Write

Spec == Init /\ [][Next]_vars
-----------------------------------------------------------------------------
(* Properties.                                                             *)

\* The state is well formed: the clock hand and the index of replace_fifo stay
\* inside their tables, and an access is always some process'.
TypeOK ==
  /\ frames \subseteq Frames /\ clock \in Pages /\ oldest \in 1 .. TlbSize /\ ub \in BOOLEAN
  /\ \A i \in DOMAIN lvl1 : lvl1[i] = NoTable \/ lvl1[i] \in [Indexes -> DOMAIN lvl2]
  /\ \A i \in DOMAIN lvl2 :
       lvl2[i] = NoTable \/ lvl2[i] \in [Indexes -> [frame : Frames \union {NoFrame}, present : BOOLEAN,
                                                   use : BOOLEAN, modified : BOOLEAN]]
  /\ stage \in [Procs -> {"new", "asked", "ready", "ended"}]
  /\ page_table \in [Procs -> 0 .. Len(lvl1)]
  /\ cur \in Procs \union {NoProc} /\ (cpu.pc # "run" => cur # NoProc)
  /\ cpu \in [pc : {"run", "frame", "fill", "answer", "access"}, page : Pages,
              frame : Frames \union {NoFrame}]
  /\ tlb \in [1 .. TlbSize -> [page : Pages \union {-1}, frame : Frames \union {NoFrame}, age : Nat]]
  /\ write \in [proc : Procs \union {NoProc}, frame : Frames \union {NoFrame}]

\* The processes that have tables: memory has made them and not deleted them.
Live == {p \in Procs : \/ stage[p] = "ready"
                       \/ \E i \in DOMAIN requests : requests[i] = [op |-> "END", proc |-> p]}

\* The rows of all tables, and those that have a frame.
TableRows == {r \in (DOMAIN lvl2) \X Indexes : lvl2[r[1]] # NoTable}
Assigned == {r \in TableRows : lvl2[r[1]][r[2]].frame # NoFrame}

\* No frame is in two rows of any tables (os_memory.c:101 gives it to one page
\* only), and a frame in a row is marked as used, whatever was swapped, freed or
\* deleted before, and with memory exhausted too.
FramesExclusive ==
  /\ \A r, s \in Assigned : lvl2[r[1]][r[2]].frame = lvl2[s[1]][s[2]].frame => r = s
  /\ \A r \in Assigned : lvl2[r[1]][r[2]].frame \in frames

\* No frame is lost: a frame marked as used is in some row, or reserved by the
\* page fault that is being handled; where max_frames is less than the rows of a
\* table, delete_level_2_table (os_memory.c:340) does lose some.
FramesAccounted ==
  MaxFrames >= Entries =>
    frames = {lvl2[r[1]][r[2]].frame : r \in Assigned}
               \union (IF cpu.pc = "fill" THEN {cpu.frame} \ {NoFrame} ELSE {})

\* The processes that live have first level tables of their own, whose second
\* level tables exist and are not shared, although ids are used again
\* (os_memory.c:288).
TablesDisjoint ==
  \A p \in Live :
    /\ lvl1[page_table[p]] # NoTable
    /\ \A k \in Indexes : lvl2[lvl1[page_table[p]][k]] # NoTable
    /\ \A p2 \in Live \ {p}, k, k2 \in Indexes : lvl1[page_table[p]][k] # lvl1[page_table[p2]][k2]

\* memory_module.h: "Max Frames per Process".  A process never has more pages
\* present than that, although pages are counted before the fault is handled and
\* the selector may take any row (it holds with the improved clock only).
ResidentBound == \A p \in Live : Cardinality(Resident(page_table[p])) <= MaxFrames

\* The processes that have frame f.
Owners(f) ==
  {p \in Live : f # NoFrame /\ \E k \in Pages : BigTable(page_table[p])[k].frame = f}

\* The processes whose frames are about to be read or written for another one.
Foreign ==
  (IF cpu.pc = "access" THEN Owners(cpu.frame) \ {cur} ELSE {})
    \union (IF write # NoWrite THEN Owners(write.frame) \ {write.proc} ELSE {})

\* A process never reads or writes a frame that another one has, although the TLB
\* knows no process ids, the CPU is answered and caches the number of a frame that
\* was freed (cpu_controller.c:434), and a write may still be on its way when its
\* process has left the CPU or has been deleted by the kernel's thread.  It rests
\* on the reset of the TLB before the CPU is free (pcb_controller.c:80).
OwnFrames == Foreign = {}

\* tlb.c:131: "Si la pagina esta en la TLB, devuelvo True y el Marco
\* correspondiente": the frame in an entry is the one that the page has.
TlbCorresponds ==
  cur # NoProc => \A i \in 1 .. TlbSize : tlb[i].page # -1 => tlb[i].frame = RowOf(tlb[i].page).frame

\* "Ahora uno si o si matcheara" (algorithms.c:221): when a page has to be
\* replaced, the last round of improved_clock_selector always finds one.
VictimFound ==
  Improved /\ ~ub /\ write = NoWrite /\ cpu.pc = "frame" /\ ~RowOf(cpu.page).present
    /\ ShouldReplace(TableOf(cpu.page)) =>
    Selected(Lvl1Of(TableOf(cpu.page))).row # NoRow
=============================================================================
