----------------------------- MODULE Paging_proofs -----------------------------
(***************************************************************************)
(* Proofs about the memory module and the MMU, for any number of processes *)
(* and frames, any size of the tables and of the TLB, and either frame     *)
(* selector.                                                               *)
(*                                                                         *)
(* The invariant speaks of the second level tables through two relations   *)
(* only: a table exists, and a row of a table that exists has a frame.     *)
(* Every handler is first shown to change the two in its own way, and then *)
(* the parts of the invariant are proved from that.                        *)
(***************************************************************************)
EXTENDS Paging, FrameSelector_proofs

FrameIds == Frames \union {NoFrame}
Rows == [frame : FrameIds, present : BOOLEAN, use : BOOLEAN, modified : BOOLEAN]
Tables1 == [Indexes -> Nat \ {0}] \union {NoTable}
Tables2 == [Indexes -> Rows] \union {NoTable}
Requests == [op : {"INIT", "END"}, proc : Procs]
CpuState == [pc : {"run", "frame", "fill", "answer", "access"}, page : Pages, frame : FrameIds]
TlbEntry == [page : Pages \union {-1}, frame : FrameIds, age : Nat]
WriteState == [proc : Procs \union {NoProc}, frame : FrameIds]

MemoryTypeOK ==
  /\ frames \in SUBSET Frames /\ clock \in Pages /\ ub \in BOOLEAN
  /\ lvl1 \in Seq(Tables1) /\ lvl2 \in Seq(Tables2)
KernelTypeOK ==
  /\ requests \in Seq(Requests) /\ stage \in [Procs -> {"new", "asked", "ready", "ended"}]
  /\ page_table \in [Procs -> Nat]
CpuTypeOK ==
  /\ cur \in Procs \union {NoProc} /\ cpu \in CpuState /\ oldest \in 1 .. TlbSize
  /\ tlb \in [1 .. TlbSize -> TlbEntry] /\ write \in WriteState
PagingTypeOK == MemoryTypeOK /\ KernelTypeOK /\ CpuTypeOK

\* Table i exists in a list of tables; row j of it has frame f.
Exists(list, i) == i \in DOMAIN list /\ list[i] # NoTable
Has(list, i, j, f) == Exists(list, i) /\ j \in Indexes /\ list[i][j].frame = f

\* A request is of a process that waits for its table, or that has ended, and there
\* is one of each at most; a process in the CPU has its table.
RequestsOK ==
  /\ \A i \in DOMAIN requests : stage[requests[i].proc] = IF requests[i].op = "INIT" THEN "asked" ELSE "ended"
  /\ \A i, j \in DOMAIN requests : requests[i].proc = requests[j].proc => i = j
  /\ cur # NoProc => stage[cur] = "ready"
  /\ cpu.pc # "run" => cur # NoProc

\* The first level tables that exist have second level tables of their own.
TablesOK ==
  /\ \A i \in DOMAIN lvl1, k \in Indexes : Exists(lvl1, i) => Exists(lvl2, lvl1[i][k])
  /\ \A i, i2 \in DOMAIN lvl1, k, k2 \in Indexes :
       Exists(lvl1, i) /\ Exists(lvl1, i2) /\ lvl1[i][k] = lvl1[i2][k2] => i = i2 /\ k = k2

\* The processes that live have first level tables of their own.
OwnTablesOK ==
  /\ \A p \in Procs : page_table[p] <= Len(lvl1)
  /\ \A p \in Live : Exists(lvl1, page_table[p])
  /\ \A p, q \in Live : page_table[p] = page_table[q] => p = q

\* No frame is in two rows; a frame in a row is marked as used; the frame that a
\* page fault has reserved is marked too and in no row yet; when the rows of a table
\* are all looked at as it is deleted, there are no other marked frames.
ExclusiveOK ==
  \A f \in Frames, i, i2 \in Nat, j, j2 \in Indexes :
    Has(lvl2, i, j, f) /\ Has(lvl2, i2, j2, f) => i = i2 /\ j = j2
MarkedOK == \A f \in Frames, i \in Nat, j \in Indexes : Has(lvl2, i, j, f) => f \in frames
ReservedOK ==
  cpu.pc = "fill" /\ cpu.frame # NoFrame =>
    cpu.frame \in frames /\ \A i \in Nat, j \in Indexes : ~Has(lvl2, i, j, cpu.frame)
AccountedOK ==
  MaxFrames >= Entries =>
    \A f \in frames : \/ \E i \in Nat, j \in Indexes : Has(lvl2, i, j, f)
                      \/ cpu.pc = "fill" /\ cpu.frame = f
FramesOK == ExclusiveOK /\ MarkedOK /\ ReservedOK /\ AccountedOK

\* No process but q has frame f in its tables.
AllowedIn(live, pt, l1, l2, f, q) ==
  f # NoFrame => \A p \in live, k, j \in Indexes : Has(l2, l1[pt[p]][k], j, f) => p = q
Allowed(f, q) == AllowedIn(Live, page_table, lvl1, lvl2, f, q)

\* The frames in the TLB, in the CPU's hands and in the write on its way are in no
\* tables but those of the process that they are for.  With nobody in the CPU the
\* TLB has no process' frames.
HoldersOK ==
  /\ \A i \in 1 .. TlbSize : Allowed(tlb[i].frame, cur)
  /\ cpu.pc \in {"answer", "access"} => Allowed(cpu.frame, cur)
  /\ write # NoWrite => Allowed(write.frame, write.proc)
  /\ cpu.pc = "fill" => write = NoWrite

PagingInv ==
  PagingTypeOK /\ RequestsOK /\ TablesOK /\ OwnTablesOK /\ FramesOK /\ HoldersOK
-----------------------------------------------------------------------------
(* Numbers, rows and lists.                                                *)

\* A page number is a table and a row of it.
LEMMA PageSplits ==
  ASSUME NEW k \in Pages
  PROVE  /\ k \div Entries \in Indexes /\ k % Entries \in Indexes
         /\ (k \div Entries) * Entries + (k % Entries) = k
<1> DEFINE d == k \div Entries
           m == k % Entries
<1>1. Entries \in Nat /\ Entries > 0
  BY PagingAssumption
<1>2. k \in Nat /\ k < Entries * Entries
  BY <1>1 DEF Pages
<1>3. d \in Int /\ m \in 0 .. Entries - 1 /\ k = Entries * d + m
  BY <1>1, <1>2
<1> HIDE DEF d, m
<1>4. d < Entries
  <2>1. SUFFICES ASSUME d >= Entries PROVE FALSE
    BY <1>1, <1>3
  <2>2. Entries * d >= Entries * Entries
    BY <1>1, <1>3, <2>1
  <2>3. QED
    BY <1>1, <1>2, <1>3, <2>2
<1>5. d >= 0
  <2>1. SUFFICES ASSUME d <= -1 PROVE FALSE
    BY <1>3
  <2>2. Entries * d <= -Entries
    BY <1>1, <1>3, <2>1
  <2>3. QED
    BY <1>1, <1>2, <1>3, <2>2
<1>6. d * Entries + m = k
  BY <1>1, <1>3
<1>7. QED
  BY <1>1, <1>3, <1>4, <1>5, <1>6 DEF d, m, Indexes

\* A table and a row of it make a page number.
LEMMA PageJoins ==
  ASSUME NEW a \in Indexes, NEW j \in Indexes
  PROVE  /\ a * Entries + j \in Pages
         /\ (a * Entries + j) \div Entries = a /\ (a * Entries + j) % Entries = j
<1>1. Entries \in Nat /\ Entries > 0 /\ a \in Nat /\ j \in Nat /\ a <= Entries - 1 /\ j <= Entries - 1
  BY PagingAssumption DEF Indexes
<1> DEFINE ae == a * Entries
           k == ae + j
           d == k \div Entries
           m == k % Entries
<1>2. ae \in Nat /\ ae + Entries <= Entries * Entries
  <2> DEFINE x == Entries - 1 - a
  <2>1. x \in Nat /\ Entries * Entries = a * Entries + Entries + x * Entries /\ x * Entries >= 0
    BY <1>1
  <2>2. QED
    BY <1>1, <2>1
<1>3. k \in Pages /\ k \in Nat
  <2> HIDE DEF ae
  <2>1. QED
    BY <1>1, <1>2 DEF Pages
<1>4. d \in Int /\ m \in 0 .. Entries - 1 /\ k = Entries * d + m
  <2> HIDE DEF k
  <2>1. QED
    BY <1>1, <1>3
<1> HIDE DEF d, m
<1>5. Entries * (d - a) = j - m /\ d - a \in Int
  BY <1>1, <1>4
<1>6. d - a = 0
  <2> DEFINE z == d - a
  <2>1. z \in Int /\ Entries * z = j - m
    BY <1>5
  <2> HIDE DEF z
  <2>2. z < 1
    <3>1. SUFFICES ASSUME z >= 1 PROVE FALSE
      BY <2>1
    <3>2. Entries * z >= Entries
      BY <1>1, <2>1, <3>1
    <3>3. QED
      BY <1>1, <1>4, <2>1, <3>2
  <2>3. z > -1
    <3>1. SUFFICES ASSUME z <= -1 PROVE FALSE
      BY <2>1
    <3>2. Entries * z <= -Entries
      BY <1>1, <2>1, <3>1
    <3>3. QED
      BY <1>1, <1>4, <2>1, <3>2
  <2>4. QED
    BY <2>1, <2>2, <2>3 DEF z
<1>7. d = a /\ m = j
  BY <1>1, <1>4, <1>5, <1>6
<1>8. QED
  BY <1>3, <1>7 DEF d, m

\* Rows and pages are numbered from 0.
LEMMA IndexFacts ==
        /\ Entries \in Nat /\ Entries > 0 /\ 0 \in Indexes /\ 0 \in Pages
        /\ Entries * Entries \in Nat /\ Entries * Entries > 0
<1>1. Entries \in Nat /\ Entries > 0
  BY PagingAssumption
<1>2. Entries * Entries \in Nat /\ Entries * Entries > 0
  BY <1>1
<1>3. QED
  BY <1>1, <1>2 DEF Indexes, Pages

\* A table is not the one that was deleted.
LEMMA TableIsTable ==
  ASSUME NEW S, NEW g \in [Indexes -> S]
  PROVE  g # NoTable
<1>1. 0 \in DOMAIN g
  BY IndexFacts
<1>2. DOMAIN NoTable = {}
  BY DEF NoTable
<1>3. QED
  BY <1>1, <1>2

\* Frames are numbers, and NoFrame is none of them.
LEMMA FrameFacts == Frames \subseteq Nat /\ NoFrame \notin Frames /\ NoFrame \in FrameIds /\ Frames \subseteq FrameIds
  BY PagingAssumption DEF Frames, NoFrame, FrameIds

\* The second level tables and the first level ones, as the types have them.
LEMMA TableTypes ==
  ASSUME MemoryTypeOK
  PROVE  /\ \A i : Exists(lvl1, i) => i \in Nat /\ i > 0 /\ lvl1[i] \in [Indexes -> Nat \ {0}]
         /\ \A i : Exists(lvl2, i) => i \in Nat /\ i > 0 /\ lvl2[i] \in [Indexes -> Rows]
<1>1. lvl1 \in Seq(Tables1) /\ lvl2 \in Seq(Tables2)
  BY DEF MemoryTypeOK
<1>2. \A i \in DOMAIN lvl1 : i \in Nat /\ i > 0 /\ lvl1[i] \in Tables1
  BY <1>1
<1>3. \A i \in DOMAIN lvl2 : i \in Nat /\ i > 0 /\ lvl2[i] \in Tables2
  BY <1>1
<1>4. QED
  BY <1>2, <1>3 DEF Exists, Tables1, Tables2

-----------------------------------------------------------------------------
(* What the handlers do to the tables.                                     *)

\* The same tables exist and their rows have the same frames.
SameFrames(l, m) ==
  /\ \A i \in Nat : Exists(m, i) <=> Exists(l, i)
  /\ \A f \in Frames, i \in Nat, j \in Indexes : Has(m, i, j, f) <=> Has(l, i, j, f)

\* One row of one table is replaced.
WithRow(l, i, j, row) == [l EXCEPT ![i] = [l[i] EXCEPT ![j] = row]]

\* Writing row j of table i changes that row and no other.
LEMMA RowUpdate ==
  ASSUME NEW l \in Seq(Tables2), NEW i, Exists(l, i), NEW j \in Indexes, NEW row \in Rows,
         NEW m, m = WithRow(l, i, j, row)
  PROVE  /\ m \in Seq(Tables2) /\ DOMAIN m = DOMAIN l
         /\ \A x \in Nat : Exists(m, x) <=> Exists(l, x)
         /\ \A x \in DOMAIN l : x # i => m[x] = l[x]
         /\ m[i][j] = row /\ \A y \in Indexes : y # j => m[i][y] = l[i][y]
         /\ \A x \in Nat, y \in Indexes, f \in FrameIds :
              Has(m, x, y, f) <=> IF x = i /\ y = j THEN row.frame = f ELSE Has(l, x, y, f)
<1>1. i \in DOMAIN l /\ i \in 1 .. Len(l) /\ l[i] \in [Indexes -> Rows]
  BY DEF Exists, Tables2
<1> DEFINE t == [l[i] EXCEPT ![j] = row]
<1>2. t \in [Indexes -> Rows] /\ t[j] = row /\ \A y \in Indexes : y # j => t[y] = l[i][y]
  BY <1>1
<1>3. t # NoTable
  BY <1>2, TableIsTable
<1>4. t \in Tables2
  BY <1>2 DEF Tables2
<1> HIDE DEF t
<1>5. m = [l EXCEPT ![i] = t]
  BY DEF t, WithRow
<1>6. m \in Seq(Tables2) /\ DOMAIN m = DOMAIN l /\ m[i] = t /\ \A x \in DOMAIN l : x # i => m[x] = l[x]
  <2>1. Len(l) \in Nat /\ l \in [1 .. Len(l) -> Tables2] /\ DOMAIN l = 1 .. Len(l)
    OBVIOUS
  <2>2. /\ m \in [1 .. Len(l) -> Tables2] /\ DOMAIN m = DOMAIN l /\ m[i] = t
        /\ \A x \in DOMAIN l : x # i => m[x] = l[x]
    BY <1>1, <1>4, <1>5, <2>1
  <2>3. QED
    BY <2>1, <2>2, FunctionIsSeq
<1>7. \A x \in Nat : Exists(m, x) <=> Exists(l, x)
  BY <1>1, <1>3, <1>6 DEF Exists
<1>8. ASSUME NEW x \in Nat, NEW y \in Indexes, NEW f \in FrameIds
      PROVE  Has(m, x, y, f) <=> IF x = i /\ y = j THEN row.frame = f ELSE Has(l, x, y, f)
  <2>1. CASE x = i
    <3>1. Exists(m, i) /\ m[i] = t
      BY <1>6, <1>7, <2>1
    <3>2. QED
      BY <1>2, <2>1, <3>1 DEF Has
  <2>2. CASE x # i
    BY <1>6, <1>7, <2>2 DEF Has, Exists
  <2>3. QED
    BY <2>1, <2>2
<1>9. QED
  BY <1>2, <1>6, <1>7, <1>8

\* Tables of the process in the CPU.
LEMMA CurTable ==
  ASSUME PagingTypeOK, RequestsOK, TablesOK, OwnTablesOK, cur # NoProc
  PROVE  /\ cur \in Live /\ Exists(lvl1, page_table[cur]) /\ page_table[cur] \in DOMAIN lvl1
         /\ lvl1[page_table[cur]] \in [Indexes -> Nat \ {0}]
         /\ \A k \in Indexes : Exists(lvl2, lvl1[page_table[cur]][k])
<1>1. cur \in Procs /\ stage[cur] = "ready"
  BY DEF PagingTypeOK, CpuTypeOK, RequestsOK
<1>2. cur \in Live
  BY <1>1 DEF Live
<1>3. Exists(lvl1, page_table[cur])
  BY <1>2 DEF OwnTablesOK
<1>4. page_table[cur] \in DOMAIN lvl1
  BY <1>3 DEF Exists
<1>5. QED
  BY <1>2, <1>3, <1>4, TableTypes DEF TablesOK, PagingTypeOK

\* The index that obtain_second_page is called with is inside the table.
LEMMA IndexInside ==
  ASSUME NEW n \in Pages
  PROVE  Min({n \div Entries, Entries - 1}) \in Indexes
<1> DEFINE S == {n \div Entries, Entries - 1}
<1>1. \A x \in S : x \in Indexes /\ x \in Nat
  <2>1. n \div Entries \in Indexes
    BY PageSplits
  <2>2. Entries - 1 \in Indexes /\ Indexes \subseteq Nat
    BY IndexFacts DEF Indexes
  <2>3. QED
    BY <2>1, <2>2
<1>2. S \in SUBSET Nat /\ S # {}
  BY <1>1
<1> HIDE DEF S
<1>3. Min(S) \in S
  BY <1>2, MinIsLeast
<1>4. QED
  BY <1>1, <1>3 DEF S

\* The table of a page of the process in the CPU, and its row.
LEMMA TableOfPage ==
  ASSUME PagingTypeOK, RequestsOK, TablesOK, OwnTablesOK, cur # NoProc, NEW n \in Pages
  PROVE  /\ \E k \in Indexes : TableOf(n) = lvl1[page_table[cur]][k]
         /\ Exists(lvl2, TableOf(n)) /\ TableOf(n) \in Nat
         /\ lvl2[TableOf(n)] \in [Indexes -> Rows] /\ RowOf(n) \in Rows
         /\ n % Entries \in Indexes
<1>1. PICK k \in Indexes : TableOf(n) = lvl1[page_table[cur]][k]
  BY IndexInside DEF TableOf, SecondPage
<1>2. Exists(lvl2, TableOf(n))
  BY <1>1, CurTable
<1>3. TableOf(n) \in Nat /\ lvl2[TableOf(n)] \in [Indexes -> Rows]
  BY <1>2, TableTypes DEF PagingTypeOK
<1>4. n % Entries \in Indexes
  BY PageSplits
<1>5. RowOf(n) \in Rows
  BY <1>3, <1>4 DEF RowOf
<1>6. QED
  BY <1>1, <1>2, <1>3, <1>4, <1>5

\* get_table_lvl1_number finds the first level table of the process in the CPU.
LEMMA Lvl1OfPage ==
  ASSUME PagingTypeOK, RequestsOK, TablesOK, OwnTablesOK, cur # NoProc, NEW n \in Pages
  PROVE  Lvl1Of(TableOf(n)) = page_table[cur]
<1> DEFINE S == {i \in DOMAIN lvl1 : lvl1[i] # NoTable /\ \E k \in Indexes : lvl1[i][k] = TableOf(n)}
<1>1. PICK k \in Indexes : TableOf(n) = lvl1[page_table[cur]][k]
  BY TableOfPage
<1>2. page_table[cur] \in S
  BY <1>1, CurTable DEF Exists
<1>3. ASSUME NEW i \in S PROVE i = page_table[cur]
  <2>1. PICK k2 \in Indexes : lvl1[i][k2] = TableOf(n)
    OBVIOUS
  <2>2. i \in DOMAIN lvl1 /\ Exists(lvl1, i) /\ page_table[cur] \in DOMAIN lvl1 /\ Exists(lvl1, page_table[cur])
    BY CurTable DEF Exists
  <2>3. QED
    BY <1>1, <2>1, <2>2 DEF TablesOK
<1>4. S \in SUBSET Nat /\ S # {}
  BY <1>2, <1>3 DEF PagingTypeOK, MemoryTypeOK
<1>5. Lvl1Of(TableOf(n)) = Min(S)
  BY DEF Lvl1Of
<1> HIDE DEF S
<1>6. QED
  BY <1>3, <1>4, <1>5, MinIsLeast

\* The rows that create_big_table copies are those of the tables.
LEMMA BigTableRows ==
  ASSUME PagingTypeOK, TablesOK, NEW id, Exists(lvl1, id)
  PROVE  /\ BigTable(id) \in BigTables(Entries * Entries, FrameIds) /\ DOMAIN BigTable(id) = Pages
         /\ \A a, j \in Indexes : BigTable(id)[a * Entries + j] = lvl2[lvl1[id][a]][j]
         /\ \A k \in Pages : BigTable(id)[k] = lvl2[lvl1[id][k \div Entries]][k % Entries]
<1>1. id \in DOMAIN lvl1
  BY DEF Exists
<1>2. \A a \in Indexes : lvl2[lvl1[id][a]] \in [Indexes -> Rows]
  BY <1>1, TableTypes DEF TablesOK, PagingTypeOK
<1>3. BigTable(id) = [k \in Pages |-> lvl2[lvl1[id][k \div Entries]][k % Entries]]
  BY DEF BigTable
<1>4. \A k \in Pages : lvl2[lvl1[id][k \div Entries]][k % Entries] \in Rows
  BY <1>2, PageSplits
<1>5. BigTable(id) \in [Pages -> Rows] /\ DOMAIN BigTable(id) = Pages
  BY <1>3, <1>4
<1>6. \A k \in Pages : BigTable(id)[k] = lvl2[lvl1[id][k \div Entries]][k % Entries]
  BY <1>3
<1>7. ASSUME NEW a \in Indexes, NEW j \in Indexes
      PROVE  BigTable(id)[a * Entries + j] = lvl2[lvl1[id][a]][j]
  <2> DEFINE k == a * Entries + j
  <2>1. k \in Pages /\ k \div Entries = a /\ k % Entries = j
    BY PageJoins
  <2> HIDE DEF k
  <2>2. BigTable(id)[k] = lvl2[lvl1[id][a]][j]
    BY <1>6, <2>1
  <2>3. QED
    BY <2>2 DEF k
<1>8. BigTables(Entries * Entries, FrameIds) = [Pages -> Rows]
  BY DEF BigTables, Pages, Rows
<1>9. QED
  BY <1>5, <1>6, <1>7, <1>8

\* The tables m when frame f was taken out of the rows that have it.
TakenOut(m, f) ==
  /\ m \in Seq(Tables2) /\ DOMAIN m = DOMAIN lvl2
  /\ \A i \in Nat : Exists(m, i) <=> Exists(lvl2, i)
  /\ \A i \in Nat, j \in Indexes : Exists(lvl2, i) =>
       /\ m[i][j].frame = lvl2[i][j].frame
       /\ lvl2[i][j].frame = f /\ i = TableOfFrame(f) => m[i][j].present = FALSE
       /\ ~(lvl2[i][j].frame = f /\ i = TableOfFrame(f)) => m[i][j].present = lvl2[i][j].present

\* Replacing a frame changes no frame of a row, and takes the bit of the rows that
\* have the frame in the first table that has it.
LEMMA ReplacedRows ==
  ASSUME PagingTypeOK, TablesOK, NEW id, Exists(lvl1, id),
         NEW rows \in BigTables(Entries * Entries, FrameIds), OnlyUse(BigTable(id), rows), NEW f,
         NEW m, m = Replaced(id, rows, f)
  PROVE  TakenOut(m, f)
<1> DEFINE own(i) == \E k \in Indexes : lvl1[id][k] = i
           src(i, j) == IF own(i) THEN rows[(CHOOSE k \in Indexes : lvl1[id][k] = i) * Entries + j]
                        ELSE lvl2[i][j]
           new(i, j) == IF src(i, j).frame = f /\ i = TableOfFrame(f)
                        THEN [src(i, j) EXCEPT !.present = FALSE, !.use = FALSE] ELSE src(i, j)
<1>1. m = [i \in DOMAIN lvl2 |-> IF lvl2[i] = NoTable THEN NoTable ELSE [j \in Indexes |-> new(i, j)]]
  BY DEF Replaced
<1>2. rows \in [Pages -> Rows] /\ DOMAIN BigTable(id) = Pages
  BY BigTableRows DEF BigTables, Pages, Rows
<1>3. ASSUME NEW i, Exists(lvl2, i), NEW j \in Indexes
      PROVE  src(i, j) \in Rows /\ src(i, j).frame = lvl2[i][j].frame /\ src(i, j).present = lvl2[i][j].present
  <2>1. CASE own(i)
    <3> DEFINE k == CHOOSE k \in Indexes : lvl1[id][k] = i
               n == k * Entries + j
    <3>1. k \in Indexes /\ lvl1[id][k] = i
      BY <2>1
    <3> HIDE DEF k
    <3>2. n \in Pages
      BY <3>1, PageJoins
    <3>3. BigTable(id)[n] = lvl2[i][j]
      BY <3>1, BigTableRows
    <3>4. src(i, j) = rows[n]
      BY <2>1 DEF k
    <3> HIDE DEF n
    <3>5. rows[n].frame = lvl2[i][j].frame /\ rows[n].present = lvl2[i][j].present /\ rows[n] \in Rows
      BY <1>2, <3>2, <3>3 DEF OnlyUse
    <3> HIDE DEF src
    <3>6. QED
      BY <3>4, <3>5
  <2>2. CASE ~own(i)
    BY <1>3, <2>2, TableTypes DEF PagingTypeOK
  <2>3. QED
    BY <2>1, <2>2
<1> HIDE DEF src
<1>4. ASSUME NEW i, Exists(lvl2, i), NEW j \in Indexes
      PROVE  /\ new(i, j) \in Rows /\ new(i, j).frame = lvl2[i][j].frame
             /\ new(i, j).present =
                  IF lvl2[i][j].frame = f /\ i = TableOfFrame(f) THEN FALSE ELSE lvl2[i][j].present
  <2>1. src(i, j) \in Rows /\ src(i, j).frame = lvl2[i][j].frame /\ src(i, j).present = lvl2[i][j].present
    BY <1>3, <1>4
  <2>2. CASE src(i, j).frame = f /\ i = TableOfFrame(f)
    <3>1. new(i, j) = [src(i, j) EXCEPT !.present = FALSE, !.use = FALSE]
      BY <2>2
    <3>2. QED
      BY <2>1, <2>2, <3>1 DEF Rows
  <2>3. CASE ~(src(i, j).frame = f /\ i = TableOfFrame(f))
    BY <2>1, <2>3
  <2>4. QED
    BY <2>2, <2>3
<1> HIDE DEF new
<1>5. ASSUME NEW i \in DOMAIN lvl2, lvl2[i] # NoTable
      PROVE  m[i] = [j \in Indexes |-> new(i, j)] /\ m[i] \in [Indexes -> Rows] /\ m[i] # NoTable
  <2>1. m[i] = [j \in Indexes |-> new(i, j)]
    BY <1>1, <1>5
  <2>2. m[i] \in [Indexes -> Rows]
    <3>1. \A j \in Indexes : new(i, j) \in Rows
      BY <1>4, <1>5 DEF Exists
    <3>2. QED
      BY <2>1, <3>1
  <2>3. QED
    BY <2>1, <2>2, TableIsTable
<1>6. ASSUME NEW i \in DOMAIN lvl2, lvl2[i] = NoTable
      PROVE  m[i] = NoTable
  BY <1>1, <1>6
<1>7. DOMAIN m = DOMAIN lvl2 /\ m \in Seq(Tables2)
  <2>1. Len(lvl2) \in Nat /\ DOMAIN lvl2 = 1 .. Len(lvl2)
    BY DEF PagingTypeOK, MemoryTypeOK
  <2>2. DOMAIN m = DOMAIN lvl2 /\ m = [i \in DOMAIN lvl2 |-> m[i]]
    BY <1>1
  <2>3. \A i \in DOMAIN lvl2 : m[i] \in Tables2
    BY <1>5, <1>6 DEF Tables2
  <2>4. m \in [1 .. Len(lvl2) -> Tables2]
    BY <2>1, <2>2, <2>3
  <2>5. QED
    BY <2>1, <2>2, <2>4, FunctionIsSeq
<1>8. \A i \in Nat : Exists(m, i) <=> Exists(lvl2, i)
  BY <1>5, <1>6, <1>7 DEF Exists
<1>9. ASSUME NEW i \in Nat, NEW j \in Indexes, Exists(lvl2, i)
      PROVE  m[i][j] = new(i, j)
  BY <1>5, <1>9 DEF Exists
<1>10. QED
  BY <1>4, <1>7, <1>8, <1>9, ZenonT(40) DEF TakenOut

\* A frame that is in some row is found by get_table_lvl2_number and get_frame_ref.
LEMMA MappedRow ==
  ASSUME PagingTypeOK, NEW f, Mapped(f)
  PROVE  /\ Exists(lvl2, TableOfFrame(f)) /\ RowOfFrame(f) \in Indexes
         /\ lvl2[TableOfFrame(f)][RowOfFrame(f)].frame = f
<1> DEFINE tables == {i \in DOMAIN lvl2 : lvl2[i] # NoTable /\ \E j \in Indexes : lvl2[i][j].frame = f}
<1>1. tables # {} /\ TableOfFrame(f) = Min(tables)
  BY DEF Mapped, TableOfFrame
<1>2. tables \in SUBSET Nat
  BY DEF PagingTypeOK, MemoryTypeOK
<1>3. \A i \in tables : Exists(lvl2, i) /\ \E j \in Indexes : lvl2[i][j].frame = f
  BY DEF Exists
<1> HIDE DEF tables
<1>4. TableOfFrame(f) \in tables
  BY <1>1, <1>2, MinIsLeast
<1> DEFINE S == {j \in Indexes : lvl2[TableOfFrame(f)][j].frame = f}
<1>5. S # {} /\ S \in SUBSET Nat /\ RowOfFrame(f) = Min(S)
  BY <1>3, <1>4, IndexFacts DEF RowOfFrame, Indexes
<1>6. Min(S) \in S
  <2> HIDE DEF S
  <2>1. QED
    BY <1>5, MinIsLeast
<1>7. QED
  BY <1>3, <1>4, <1>5, <1>6

\* Reading or writing changes no frame of a row.
LEMMA SetModifiedRows ==
  ASSUME PagingTypeOK, NEW f, NEW b \in BOOLEAN, SetModified(f, b)
  PROVE  /\ lvl2' \in Seq(Tables2) /\ DOMAIN lvl2' = DOMAIN lvl2
         /\ \A i \in Nat : Exists(lvl2', i) <=> Exists(lvl2, i)
         /\ \A i \in Nat, j \in Indexes : Exists(lvl2, i) =>
              lvl2'[i][j].frame = lvl2[i][j].frame /\ lvl2'[i][j].present = lvl2[i][j].present
<1>0. lvl2 \in Seq(Tables2)
  BY DEF PagingTypeOK, MemoryTypeOK
<1>1. CASE ~Mapped(f)
  <2>1. lvl2' = lvl2
    BY <1>1 DEF SetModified
  <2>2. QED
    BY <1>0, <2>1
<1>2. CASE Mapped(f)
  <2> DEFINE x == TableOfFrame(f)
             y == RowOfFrame(f)
             row == [lvl2[x][y] EXCEPT !.modified = b]
  <2>1. Exists(lvl2, x) /\ y \in Indexes
    BY <1>2, MappedRow
  <2>2. lvl2[x] \in [Indexes -> Rows] /\ x \in DOMAIN lvl2
    BY <2>1, TableTypes DEF PagingTypeOK, Exists
  <2>3. lvl2' = [lvl2 EXCEPT ![x][y].modified = b]
    BY <1>2 DEF SetModified
  <2> HIDE DEF x, y
  <2>4. lvl2[x][y] \in Rows
    BY <2>1, <2>2
  <2>5. row \in Rows /\ row.frame = lvl2[x][y].frame /\ row.present = lvl2[x][y].present
    BY <2>4 DEF Rows
  <2>6. lvl2' = WithRow(lvl2, x, y, row)
    BY <2>3 DEF WithRow
  <2> HIDE DEF row
  <2>7. /\ lvl2' \in Seq(Tables2) /\ DOMAIN lvl2' = DOMAIN lvl2
        /\ \A i \in Nat : Exists(lvl2', i) <=> Exists(lvl2, i)
        /\ \A i \in DOMAIN lvl2 : i # x => lvl2'[i] = lvl2[i]
        /\ lvl2'[x][y] = row /\ \A j \in Indexes : j # y => lvl2'[x][j] = lvl2[x][j]
    BY <1>0, <2>1, <2>5, <2>6, RowUpdate
  <2>8. ASSUME NEW i \in Nat, NEW j \in Indexes, Exists(lvl2, i)
        PROVE  lvl2'[i][j].frame = lvl2[i][j].frame /\ lvl2'[i][j].present = lvl2[i][j].present
    <3>1. i \in DOMAIN lvl2
      BY <2>8 DEF Exists
    <3>2. CASE i = x /\ j = y
      BY <2>5, <2>7, <3>2
    <3>3. CASE i = x /\ j # y
      BY <2>7, <3>3
    <3>4. CASE i # x
      BY <2>7, <3>1, <3>4
    <3>5. QED
      BY <3>2, <3>3, <3>4
  <2>9. QED
    BY <2>7, <2>8
<1>3. QED
  BY <1>1, <1>2

\* The row of a page that has got its frame.
LEMMA RowFilled ==
  ASSUME NEW r \in Rows, NEW g
  PROVE  [[[r EXCEPT !.present = TRUE] EXCEPT !.use = TRUE] EXCEPT !.frame = g]
           = [frame |-> g, present |-> TRUE, use |-> TRUE, modified |-> r.modified]
<1> DEFINE a == [r EXCEPT !.present = TRUE]
           b == [a EXCEPT !.use = TRUE]
<1>1. a \in Rows /\ a.present = TRUE /\ a.modified = r.modified
  BY DEF Rows
<1> HIDE DEF a
<1>2. b \in Rows /\ b.present = TRUE /\ b.use = TRUE /\ b.modified = r.modified
  BY <1>1 DEF Rows
<1> HIDE DEF b
<1>3. [b EXCEPT !.frame = g] = [frame |-> g, present |-> b.present, use |-> b.use, modified |-> b.modified]
  BY <1>2 DEF Rows
<1>4. QED
  BY <1>2, <1>3 DEF a, b

\* The frame that a row is given: a new one if it had none.
Granted(row) == IF row.frame = NoFrame THEN cpu.frame ELSE row.frame

\* The end of a page fault: one row of a table of the process in the CPU is present.
\* It had no frame and gets the reserved one, or it keeps its frame.
LEMMA FillRows ==
  ASSUME PagingInv, FrameFill
  PROVE  \E k, j \in Indexes :
           LET x == lvl1[page_table[cur]][k]
           IN  /\ Exists(lvl2, x) /\ x \in Nat /\ lvl2[x][j] \in Rows
               /\ lvl2' \in Seq(Tables2)
               /\ \A i \in Nat : Exists(lvl2', i) <=> Exists(lvl2, i)
               /\ \A i \in Nat, y \in Indexes : Exists(lvl2, i) /\ ~(i = x /\ y = j) => lvl2'[i][y] = lvl2[i][y]
               /\ lvl2'[x][j].present /\ lvl2'[x][j].frame = Granted(lvl2[x][j])
               /\ frames' = IF lvl2[x][j].frame = NoFrame THEN frames ELSE frames \ {cpu.frame}
               /\ \A i \in Nat, y \in Indexes, f \in FrameIds :
                    Has(lvl2', i, y, f) <=>
                      IF i = x /\ y = j THEN f = Granted(lvl2[x][j]) ELSE Has(lvl2, i, y, f)
<1> DEFINE x == TableOf(cpu.page)
           n == cpu.page % Entries
           S == {i \in Indexes : lvl2[x][i].frame = NoFrame}
           u == lvl2[x][n].frame = NoFrame
           j == IF u THEN Min(S) ELSE n
           row == [frame |-> Granted(lvl2[x][j]), present |-> TRUE, use |-> TRUE, modified |-> lvl2[x][j].modified]
<1>1. cur # NoProc /\ cpu.page \in Pages /\ cpu.frame \in FrameIds
  BY DEF PagingInv, FrameFill, CpuThread, RequestsOK, PagingTypeOK, CpuTypeOK, CpuState
<1>2. PICK k \in Indexes : x = lvl1[page_table[cur]][k]
  BY <1>1, TableOfPage DEF PagingInv
<1>3. Exists(lvl2, x) /\ x \in Nat /\ lvl2[x] \in [Indexes -> Rows] /\ n \in Indexes /\ x \in DOMAIN lvl2
  BY <1>1, TableOfPage DEF PagingInv, Exists
<1>4. /\ lvl2' = [lvl2 EXCEPT ![x][j].present = TRUE, ![x][j].use = TRUE,
                              ![x][j].frame = IF u THEN cpu.frame ELSE @]
      /\ frames' = IF u THEN frames ELSE frames \ {cpu.frame}
  BY DEF FrameFill, RowOf
<1> HIDE DEF x, n
<1>5. j \in Indexes /\ (u <=> lvl2[x][j].frame = NoFrame)
  <2>1. CASE u
    <3>1. n \in S /\ S \in SUBSET Nat /\ S # {}
      BY <1>3, <2>1, IndexFacts DEF Indexes
    <3>2. Min(S) \in S
      <4> HIDE DEF S
      <4>1. QED
        BY <3>1, MinIsLeast
    <3>3. QED
      BY <2>1, <3>2
  <2>2. CASE ~u
    BY <1>3, <2>2
  <2>3. QED
    BY <2>1, <2>2
<1> HIDE DEF j
<1>6. lvl2[x][j] \in Rows
  BY <1>3, <1>5
<1>7. row \in Rows /\ row.frame = Granted(lvl2[x][j]) /\ row.present
  BY <1>1, <1>6 DEF Rows, Granted
<1>8. lvl2' = WithRow(lvl2, x, j, row)
  <2> DEFINE r == lvl2[x][j]
             g == IF u THEN cpu.frame ELSE r.frame
             e == [[[r EXCEPT !.present = TRUE] EXCEPT !.use = TRUE] EXCEPT !.frame = g]
  <2>1. g = Granted(r) /\ r \in Rows
    BY <1>5, <1>6 DEF Granted
  <2>2. lvl2' = WithRow(lvl2, x, j, e)
    BY <1>3, <1>4, <1>5 DEF WithRow
  <2>3. e = row
    <3>1. row = [frame |-> g, present |-> TRUE, use |-> TRUE, modified |-> r.modified]
      BY <2>1
    <3> HIDE DEF g, r, row
    <3>2. e = [frame |-> g, present |-> TRUE, use |-> TRUE, modified |-> r.modified]
      BY <2>1, RowFilled
    <3>3. QED
      BY <3>1, <3>2
  <2>4. QED
    BY <2>2, <2>3
<1>9. lvl2 \in Seq(Tables2)
  BY DEF PagingInv, PagingTypeOK, MemoryTypeOK
<1> HIDE DEF row
<1>10. /\ lvl2' \in Seq(Tables2) /\ DOMAIN lvl2' = DOMAIN lvl2
       /\ \A i \in Nat : Exists(lvl2', i) <=> Exists(lvl2, i)
       /\ \A i \in DOMAIN lvl2 : i # x => lvl2'[i] = lvl2[i]
       /\ lvl2'[x][j] = row /\ \A y \in Indexes : y # j => lvl2'[x][y] = lvl2[x][y]
       /\ \A i \in Nat, y \in Indexes, f \in FrameIds :
              Has(lvl2', i, y, f) <=> IF i = x /\ y = j THEN row.frame = f ELSE Has(lvl2, i, y, f)
  <2>1. Exists(lvl2, x) /\ j \in Indexes /\ row \in Rows
    BY <1>3, <1>5, <1>7
  <2>2. QED
    BY <1>8, <1>9, <2>1, RowUpdate
<1>11. \A i \in Nat, y \in Indexes : Exists(lvl2, i) /\ ~(i = x /\ y = j) => lvl2'[i][y] = lvl2[i][y]
  BY <1>10 DEF Exists
<1>12. frames' = IF lvl2[x][j].frame = NoFrame THEN frames ELSE frames \ {cpu.frame}
  BY <1>4, <1>5
<1> HIDE DEF u
<1>13. QED
  BY <1>2, <1>3, <1>5, <1>6, <1>7, <1>10, <1>11, <1>12, SMTT(30)

\* Tables with the same frames in the same rows.
LEMMA SameRows ==
  ASSUME NEW l, NEW m, \A i \in Nat : Exists(m, i) <=> Exists(l, i),
         \A i \in Nat, j \in Indexes : Exists(l, i) => m[i][j].frame = l[i][j].frame
  PROVE  SameFrames(l, m)
BY DEF SameFrames, Has

\* find_free_frame: a frame that is not marked, or none.
LEMMA FreeFrameFree == FreeFrame = NoFrame \/ (FreeFrame \in Frames /\ FreeFrame \notin frames)
<1>1. CASE Frames \subseteq frames
  BY <1>1 DEF FreeFrame
<1>2. CASE ~(Frames \subseteq frames)
  <2> DEFINE S == Frames \ frames
  <2>1. S \in SUBSET Nat /\ S # {} /\ FreeFrame = Min(S)
    BY <1>2, FrameFacts DEF FreeFrame
  <2>2. Min(S) \in S
    <3> HIDE DEF S
    <3>1. QED
      BY <2>1, MinIsLeast
  <2>3. QED
    BY <2>1, <2>2
<1>3. QED
  BY <1>1, <1>2

\* The selector applied to the tables of the process in the CPU.
LEMMA SelectedRows ==
  ASSUME PagingInv, NEW id, Exists(lvl1, id)
  PROVE  Selects(Selected(id), Entries * Entries, FrameIds, BigTable(id))
<1> DEFINE n == Entries * Entries
           t == BigTable(id)
<1>1. n \in Nat
  BY IndexFacts
<1>2. clock \in 0 .. n - 1
  BY DEF PagingInv, PagingTypeOK, MemoryTypeOK, Pages
<1>3. t \in BigTables(n, FrameIds)
  BY BigTableRows DEF PagingInv
<1> HIDE DEF n, t
<1>4. Selects(ClockSelector(t, clock), n, FrameIds, t)
  BY <1>1, <1>2, <1>3, ClockSelects
<1>5. Selects(ImprovedClockSelector(t, clock), n, FrameIds, t)
  BY <1>1, <1>2, <1>3, ImprovedSelects
<1>6. QED
  BY <1>4, <1>5 DEF Selected, n, t

\* The first part of a page fault changes no frame of a row.
LEMMA FaultRows ==
  ASSUME PagingInv, FrameFault
  PROVE  /\ lvl2' \in Seq(Tables2) /\ SameFrames(lvl2, lvl2') /\ clock' \in Pages /\ ub' \in BOOLEAN
         /\ \A i \in Nat, j \in Indexes :
              Exists(lvl2, i) /\ lvl2'[i][j].present => lvl2[i][j].present
<1>1. cur # NoProc /\ cpu.page \in Pages /\ lvl2 \in Seq(Tables2) /\ clock \in Pages /\ ub \in BOOLEAN
  BY DEF PagingInv, FrameFault, CpuThread, RequestsOK, PagingTypeOK, CpuTypeOK, CpuState, MemoryTypeOK
<1>2. CASE ~ShouldReplace(TableOf(cpu.page))
  <2>1. lvl2' = lvl2 /\ clock' = clock /\ ub' = ub
    BY <1>2 DEF FrameFault
  <2>2. QED
    BY <1>1, <2>1 DEF SameFrames
<1>3. CASE ShouldReplace(TableOf(cpu.page))
  <2> DEFINE id == Lvl1Of(TableOf(cpu.page))
             sel == Selected(id)
             f == IF sel.row = NoRow THEN NoFrame ELSE BigTable(id)[sel.row].frame
  <2>1. clock' = sel.clock /\ ub' = (f = NoFrame) /\ lvl2' = Replaced(id, sel.table, f)
    BY <1>3 DEF FrameFault
  <2>2. id = page_table[cur] /\ Exists(lvl1, page_table[cur])
    BY <1>1, Lvl1OfPage, CurTable DEF PagingInv
  <2> HIDE DEF id
  <2>3. Selects(sel, Entries * Entries, FrameIds, BigTable(id)) /\ Exists(lvl1, id)
    BY <2>2, SelectedRows
  <2> HIDE DEF sel, f
  <2>4. /\ sel.table \in BigTables(Entries * Entries, FrameIds) /\ OnlyUse(BigTable(id), sel.table)
        /\ clock' \in Pages
    BY <2>1, <2>3 DEF Selects, Pages
  <2> DEFINE rows == sel.table
  <2> HIDE DEF rows
  <2>5. /\ rows \in BigTables(Entries * Entries, FrameIds) /\ OnlyUse(BigTable(id), rows)
        /\ lvl2' = Replaced(id, rows, f) /\ PagingTypeOK /\ TablesOK /\ Exists(lvl1, id)
    BY <2>1, <2>3, <2>4 DEF rows, PagingInv
  <2>6. /\ lvl2' \in Seq(Tables2)
        /\ \A i \in Nat : Exists(lvl2', i) <=> Exists(lvl2, i)
        /\ \A i \in Nat, j \in Indexes : Exists(lvl2, i) =>
             /\ lvl2'[i][j].frame = lvl2[i][j].frame
             /\ lvl2[i][j].frame = f /\ i = TableOfFrame(f) => lvl2'[i][j].present = FALSE
             /\ ~(lvl2[i][j].frame = f /\ i = TableOfFrame(f)) => lvl2'[i][j].present = lvl2[i][j].present
    <3>1. TakenOut(lvl2', f)
      BY <2>5, ReplacedRows
    <3>2. QED
      BY <3>1 DEF TakenOut
  <2>7. SameFrames(lvl2, lvl2')
    <3>1. \A i \in Nat, j \in Indexes : Exists(lvl2, i) => lvl2'[i][j].frame = lvl2[i][j].frame
      BY <2>6
    <3>2. QED
      BY <2>6, <3>1, SameRows
  <2>8. ub' \in BOOLEAN
    BY <2>1, Zenon
  <2>9. \A i \in Nat, j \in Indexes :
          Exists(lvl2, i) /\ lvl2'[i][j].present => lvl2[i][j].present
    BY <2>6
  <2>10. QED
    BY <2>4, <2>6, <2>7, <2>8, <2>9
<1>4. QED
  BY <1>2, <1>3

\* find_id gives a place that no table has.
LEMMA FindIdFree ==
  ASSUME PagingTypeOK
  PROVE  FindId(lvl1) \in 1 .. Len(lvl1) + 1 /\ ~Exists(lvl1, FindId(lvl1))
<1> DEFINE S == {i \in DOMAIN lvl1 : lvl1[i] = NoTable}
<1>1. Len(lvl1) \in Nat /\ DOMAIN lvl1 = 1 .. Len(lvl1)
  BY DEF PagingTypeOK, MemoryTypeOK
<1>2. CASE S = {}
  <2>1. FindId(lvl1) = Len(lvl1) + 1
    BY <1>2 DEF FindId
  <2>2. QED
    BY <1>1, <2>1 DEF Exists
<1>3. CASE S # {}
  <2>1. FindId(lvl1) = Min(S) /\ S \in SUBSET Nat
    BY <1>1, <1>3 DEF FindId
  <2>2. Min(S) \in S
    <3> HIDE DEF S
    <3>1. QED
      BY <1>3, <2>1, MinIsLeast
  <2>3. QED
    BY <1>1, <2>1, <2>2 DEF Exists
<1>4. QED
  BY <1>2, <1>3

\* create_new_process adds a first level table, and second level tables without
\* frames at the end of the list.
LEMMA InitRows ==
  ASSUME PagingInv, MemoryInit
  PROVE  LET id == FindId(lvl1)
         IN  /\ lvl1' \in Seq(Tables1) /\ lvl2' \in Seq(Tables2)
             /\ id \in Nat /\ ~Exists(lvl1, id) /\ lvl1'[id] = NewIds /\ Exists(lvl1', id)
             /\ id <= Len(lvl1') /\ Len(lvl1) <= Len(lvl1')
             /\ \A i \in Nat : Exists(lvl1', i) <=> i = id \/ Exists(lvl1, i)
             /\ \A i \in DOMAIN lvl1 : i # id => lvl1'[i] = lvl1[i]
             /\ \A i \in Nat : Exists(lvl2, i) => Exists(lvl2', i) /\ lvl2'[i] = lvl2[i]
             /\ \A k \in Indexes : Exists(lvl2', NewIds[k]) /\ lvl2'[NewIds[k]] = NewTable /\ ~Exists(lvl2, NewIds[k])
             /\ \A f \in Frames, i \in Nat, j \in Indexes : Has(lvl2', i, j, f) <=> Has(lvl2, i, j, f)
<1> DEFINE id == FindId(lvl1)
           added == [i \in 1 .. Entries |-> NewTable]
<1>1. lvl1 \in Seq(Tables1) /\ lvl2 \in Seq(Tables2) /\ Len(lvl1) \in Nat /\ Len(lvl2) \in Nat
  BY DEF PagingInv, PagingTypeOK, MemoryTypeOK
<1>2. id \in 1 .. Len(lvl1) + 1 /\ ~Exists(lvl1, id)
  BY FindIdFree DEF PagingInv
<1>3. lvl2' = lvl2 \o added /\ lvl1' = CreateTable(id, NewIds)
  BY DEF MemoryInit
<1>4. NewIds \in [Indexes -> Nat \ {0}] /\ \A k \in Indexes : NewIds[k] = Len(lvl2) + 1 + k
  BY <1>1, IndexFacts DEF NewIds, Indexes
<1>5. NewIds \in Tables1 /\ NewIds # NoTable
  BY <1>4, TableIsTable DEF Tables1
<1>6. /\ NewTable \in [Indexes -> Rows]
      /\ \A j \in Indexes : NewTable[j].frame = NoFrame /\ NewTable[j].present = FALSE
  BY FrameFacts DEF NewTable, Rows
<1>7. NewTable \in Tables2 /\ NewTable # NoTable
  BY <1>6, TableIsTable DEF Tables2
<1>8. added \in Seq(Tables2) /\ Len(added) = Entries
  <2>1. added \in [1 .. Entries -> Tables2] /\ Entries \in Nat
    BY <1>7, IndexFacts
  <2> HIDE DEF added
  <2>2. QED
    BY <2>1, FunctionIsSeq
<1>9. \A i \in 1 .. Entries : added[i] = NewTable
  OBVIOUS
<1> HIDE DEF added, id
<1>10. /\ lvl2' \in Seq(Tables2) /\ Len(lvl2') = Len(lvl2) + Entries
       /\ \A i \in 1 .. Len(lvl2) : lvl2'[i] = lvl2[i]
       /\ \A i \in Len(lvl2) + 1 .. Len(lvl2) + Entries : lvl2'[i] = NewTable
  <2>1. /\ lvl2' \in Seq(Tables2) /\ Len(lvl2') = Len(lvl2) + Len(added)
        /\ \A i \in 1 .. Len(lvl2) + Len(added) :
             lvl2'[i] = IF i <= Len(lvl2) THEN lvl2[i] ELSE added[i - Len(lvl2)]
    BY <1>1, <1>3, <1>8, ConcatProperties, Zenon
  <2>2. ASSUME NEW i \in Len(lvl2) + 1 .. Len(lvl2) + Entries PROVE lvl2'[i] = NewTable
    <3>1. i - Len(lvl2) \in 1 .. Entries /\ i \in 1 .. Len(lvl2) + Len(added) /\ ~(i <= Len(lvl2))
      BY <1>1, <1>8, IndexFacts
    <3>2. QED
      BY <1>9, <2>1, <3>1
  <2>3. \A i \in 1 .. Len(lvl2) : lvl2'[i] = lvl2[i]
    BY <1>1, <1>8, <2>1, IndexFacts
  <2>4. QED
    BY <1>8, <2>1, <2>2, <2>3
<1>11. DOMAIN lvl2 = 1 .. Len(lvl2) /\ DOMAIN lvl2' = 1 .. Len(lvl2) + Entries
  BY <1>1, <1>10
<1>12. \A i \in Nat : Exists(lvl2, i) => Exists(lvl2', i) /\ lvl2'[i] = lvl2[i]
  BY <1>1, <1>10, <1>11, IndexFacts DEF Exists
<1>13. ASSUME NEW k \in Indexes
       PROVE  Exists(lvl2', NewIds[k]) /\ lvl2'[NewIds[k]] = NewTable /\ ~Exists(lvl2, NewIds[k])
  <2>1. NewIds[k] \in Len(lvl2) + 1 .. Len(lvl2) + Entries /\ NewIds[k] \notin DOMAIN lvl2 /\ NewIds[k] \in DOMAIN lvl2'
    BY <1>1, <1>4, <1>11, IndexFacts DEF Indexes
  <2>2. QED
    BY <1>7, <1>10, <2>1 DEF Exists
<1>14. ASSUME NEW f \in Frames, NEW i \in Nat, NEW j \in Indexes
       PROVE  Has(lvl2', i, j, f) <=> Has(lvl2, i, j, f)
  <2>1. CASE i \in 1 .. Len(lvl2)
    BY <1>1, <1>10, <1>11, <2>1, IndexFacts DEF Has, Exists
  <2>2. CASE i \in Len(lvl2) + 1 .. Len(lvl2) + Entries
    <3>1. lvl2'[i][j].frame # f
      BY <1>6, <1>10, <2>2, FrameFacts
    <3>2. i \notin DOMAIN lvl2
      BY <1>1, <1>11, <2>2
    <3>3. QED
      BY <3>1, <3>2 DEF Has, Exists
  <2>3. CASE i \notin 1 .. Len(lvl2) + Entries
    BY <1>1, <1>11, <2>3, IndexFacts DEF Has, Exists
  <2>4. QED
    BY <1>1, <2>1, <2>2, <2>3, IndexFacts
<1>15. /\ lvl1' \in Seq(Tables1) /\ lvl1'[id] = NewIds /\ Len(lvl1) <= Len(lvl1') /\ id <= Len(lvl1')
       /\ \A i \in DOMAIN lvl1 : i # id => lvl1'[i] = lvl1[i]
       /\ \A i \in Nat : i \in DOMAIN lvl1' <=> i = id \/ i \in DOMAIN lvl1
  <2>1. CASE id > Len(lvl1)
    <3>1. lvl1' = Append(lvl1, NewIds) /\ id = Len(lvl1) + 1
      BY <1>1, <1>2, <1>3, <2>1 DEF CreateTable
    <3>2. QED
      BY <1>1, <1>5, <3>1
  <2>2. CASE ~(id > Len(lvl1))
    <3>1. lvl1' = [lvl1 EXCEPT ![id] = NewIds] /\ id \in 1 .. Len(lvl1)
      BY <1>1, <1>2, <1>3, <2>2 DEF CreateTable
    <3>2. lvl1 \in [1 .. Len(lvl1) -> Tables1] /\ DOMAIN lvl1 = 1 .. Len(lvl1)
      BY <1>1
    <3>3. lvl1' \in [1 .. Len(lvl1) -> Tables1]
      BY <1>5, <3>1, <3>2
    <3>4. lvl1' \in Seq(Tables1) /\ Len(lvl1') = Len(lvl1) /\ DOMAIN lvl1' = 1 .. Len(lvl1)
      BY <1>1, <3>3, FunctionIsSeq
    <3>5. QED
      BY <1>1, <3>1, <3>2, <3>4
  <2>3. QED
    BY <2>1, <2>2
<1>16. \A i \in Nat : Exists(lvl1', i) <=> i = id \/ Exists(lvl1, i)
  BY <1>5, <1>15 DEF Exists
<1>17. id \in Nat
  BY <1>1, <1>2
<1>18. QED
  BY <1>2, <1>10, <1>12, <1>13, <1>14, <1>15, <1>16, <1>17 DEF id

\* delete_related_tables deletes the tables of one process.
LEMMA DeletedRows ==
  ASSUME PagingInv, NEW id, Exists(lvl1, id), DeleteTables(id)
  PROVE  /\ lvl1' \in Seq(Tables1) /\ lvl2' \in Seq(Tables2) /\ Len(lvl1') = Len(lvl1)
         /\ \A i \in Nat : Exists(lvl1', i) <=> i # id /\ Exists(lvl1, i)
         /\ \A i \in DOMAIN lvl1 : i # id => lvl1'[i] = lvl1[i]
         /\ \A i \in Nat : Exists(lvl2', i) <=> Exists(lvl2, i) /\ \A k \in Indexes : lvl1[id][k] # i
         /\ \A i \in Nat : Exists(lvl2', i) => lvl2'[i] = lvl2[i]
         /\ \A f \in Frames, i \in Nat, j \in Indexes :
              Has(lvl2', i, j, f) <=> Has(lvl2, i, j, f) /\ \A k \in Indexes : lvl1[id][k] # i
<1>1. /\ lvl1 \in Seq(Tables1) /\ lvl2 \in Seq(Tables2) /\ Len(lvl1) \in Nat /\ Len(lvl2) \in Nat
      /\ DOMAIN lvl1 = 1 .. Len(lvl1) /\ DOMAIN lvl2 = 1 .. Len(lvl2)
  BY DEF PagingInv, PagingTypeOK, MemoryTypeOK
<1>2. id \in DOMAIN lvl1 /\ NoTable \in Tables1 /\ NoTable \in Tables2
  BY DEF Exists, Tables1, Tables2
<1> DEFINE own(i) == \E k \in Indexes : lvl1[id][k] = i
<1>3. /\ lvl2' = [i \in DOMAIN lvl2 |-> IF own(i) THEN NoTable ELSE lvl2[i]]
      /\ lvl1' = [lvl1 EXCEPT ![id] = NoTable]
  BY DEF DeleteTables
<1>4. lvl1' \in Seq(Tables1) /\ Len(lvl1') = Len(lvl1) /\ DOMAIN lvl1' = DOMAIN lvl1
  <2>1. lvl1' \in [1 .. Len(lvl1) -> Tables1] /\ DOMAIN lvl1' = DOMAIN lvl1
    <3>1. lvl1 \in [1 .. Len(lvl1) -> Tables1]
      BY <1>1
    <3>2. QED
      BY <1>1, <1>2, <1>3, <3>1
  <2>2. QED
    BY <1>1, <2>1, FunctionIsSeq
<1>5. lvl1'[id] = NoTable /\ \A i \in DOMAIN lvl1 : i # id => lvl1'[i] = lvl1[i]
  BY <1>1, <1>2, <1>3
<1>6. \A i \in Nat : Exists(lvl1', i) <=> i # id /\ Exists(lvl1, i)
  BY <1>4, <1>5 DEF Exists
<1> HIDE DEF own
<1>7. /\ DOMAIN lvl2' = DOMAIN lvl2
      /\ \A i \in DOMAIN lvl2 : lvl2'[i] = IF own(i) THEN NoTable ELSE lvl2[i]
  BY <1>3
<1>8. lvl2' \in Seq(Tables2)
  <2>1. \A i \in 1 .. Len(lvl2) : lvl2[i] \in Tables2
    BY <1>1
  <2>2. lvl2' \in [1 .. Len(lvl2) -> Tables2]
    BY <1>1, <1>2, <1>3, <2>1
  <2>3. QED
    BY <1>1, <2>2, FunctionIsSeq
<1>9. \A i \in Nat : Exists(lvl2', i) <=> Exists(lvl2, i) /\ ~own(i)
  BY <1>7 DEF Exists
<1>10. \A i \in Nat : Exists(lvl2', i) => lvl2'[i] = lvl2[i]
  BY <1>7 DEF Exists
<1>11. \A f \in Frames, i \in Nat, j \in Indexes : Has(lvl2', i, j, f) <=> Has(lvl2, i, j, f) /\ ~own(i)
  BY <1>9, <1>10 DEF Has
<1>12. QED
  BY <1>4, <1>5, <1>6, <1>8, <1>9, <1>10, <1>11 DEF own
-----------------------------------------------------------------------------
(* The TLB.                                                                *)

\* An entry of the TLB with another age.
LEMMA Aged ==
  ASSUME NEW e \in TlbEntry, NEW a \in Nat
  PROVE  [e EXCEPT !.age = a] \in TlbEntry /\ [e EXCEPT !.age = a].frame = e.frame
BY DEF TlbEntry

\* page_in_TLB keeps the frames of all entries, and gives one of them.
LEMMA LookupFrames ==
  ASSUME CpuTypeOK, NEW n
  PROVE  /\ TlbLookup(n).tlb \in [1 .. TlbSize -> TlbEntry] /\ TlbLookup(n).hit \in BOOLEAN
         /\ \A i \in 1 .. TlbSize : TlbLookup(n).tlb[i].frame = tlb[i].frame
         /\ \/ TlbLookup(n).frame = NoFrame
            \/ \E i \in 1 .. TlbSize : TlbLookup(n).frame = tlb[i].frame
<1> DEFINE hits == {i \in 1 .. TlbSize : tlb[i].page = n}
           older(i) == [tlb[i] EXCEPT !.age = @ + 1]
           aged == [i \in 1 .. TlbSize |-> older(i)]
           kept == [i \in 1 .. TlbSize |->
                      CASE i < Min(hits) -> aged[i]
                        [] i = Min(hits) -> [tlb[i] EXCEPT !.age = 0]
                        [] OTHER         -> tlb[i]]
<1>1. tlb \in [1 .. TlbSize -> TlbEntry] /\ TlbSize \in Nat
  BY PagingAssumption DEF CpuTypeOK
<1>2. ASSUME NEW i \in 1 .. TlbSize
      PROVE  older(i) \in TlbEntry /\ older(i).frame = tlb[i].frame
  <2>1. tlb[i] \in TlbEntry /\ tlb[i].age + 1 \in Nat
    BY <1>1 DEF TlbEntry
  <2>2. QED
    BY <2>1, Aged
<1>3. ASSUME NEW i \in 1 .. TlbSize
      PROVE  [tlb[i] EXCEPT !.age = 0] \in TlbEntry /\ [tlb[i] EXCEPT !.age = 0].frame = tlb[i].frame
  BY <1>1, Aged
<1> HIDE DEF older
<1>4. aged \in [1 .. TlbSize -> TlbEntry] /\ \A i \in 1 .. TlbSize : aged[i].frame = tlb[i].frame
  BY <1>2
<1> HIDE DEF aged
<1>5. CASE hits = {}
  <2>1. TlbLookup(n) = [hit |-> FALSE, frame |-> NoFrame, tlb |-> aged]
    BY <1>5 DEF TlbLookup, aged, older
  <2>2. QED
    BY <1>4, <2>1
<1>6. CASE hits # {}
  <2>1. TlbLookup(n) = [hit |-> TRUE, frame |-> tlb[Min(hits)].frame, tlb |-> kept]
    BY <1>6 DEF TlbLookup, aged, older
  <2>2. hits \in SUBSET Nat
    BY <1>1
  <2>3. hits \subseteq 1 .. TlbSize
    OBVIOUS
  <2> HIDE DEF hits
  <2>4. Min(hits) \in 1 .. TlbSize
    BY <1>6, <2>2, <2>3, MinIsLeast
  <2> DEFINE v == Min(hits)
  <2>5. ASSUME NEW i \in 1 .. TlbSize
        PROVE  kept[i] \in TlbEntry /\ kept[i].frame = tlb[i].frame
    <3>1. v \in Nat /\ i \in Nat
      BY <1>1, <2>4
    <3> HIDE DEF v
    <3>2. CASE i < v
      BY <1>4, <3>1, <3>2 DEF v
    <3>3. CASE i = v
      <4> DEFINE x == [tlb[i] EXCEPT !.age = 0]
      <4>1. x \in TlbEntry /\ x.frame = tlb[i].frame
        BY <1>3
      <4>2. kept[i] = x
        BY <3>1, <3>3 DEF v
      <4> HIDE DEF x, kept
      <4>3. QED
        BY <4>1, <4>2
    <3>4. CASE i > v
      BY <1>1, <3>1, <3>4 DEF v
    <3>5. QED
      BY <3>1, <3>2, <3>3, <3>4
  <2>6. kept = [i \in 1 .. TlbSize |-> kept[i]]
    OBVIOUS
  <2> HIDE DEF kept, v
  <2>7. kept \in [1 .. TlbSize -> TlbEntry] /\ \A i \in 1 .. TlbSize : kept[i].frame = tlb[i].frame
    BY <2>5, <2>6
  <2>8. QED
    BY <2>1, <2>4, <2>7
<1>7. QED
  BY <1>5, <1>6

\* replace_lru writes the frame into one entry and keeps those of the others.
LEMMA LruFrames ==
  ASSUME CpuTypeOK, NEW n \in Pages, NEW f \in FrameIds
  PROVE  /\ ReplaceLru(n, f) \in [1 .. TlbSize -> TlbEntry]
         /\ \A i \in 1 .. TlbSize : ReplaceLru(n, f)[i].frame \in {f, tlb[i].frame}
<1> DEFINE empties == {i \in 1 .. TlbSize : tlb[i].page = -1}
           oldests == {i \in 1 .. TlbSize : \A j \in 1 .. TlbSize : tlb[j].age <= tlb[i].age}
           victim == IF empties # {} THEN Min(empties) ELSE Min(oldests)
           older(i) == [tlb[i] EXCEPT !.age = @ + 1]
           entry == [page |-> n, frame |-> f, age |-> 0]
           e(i) == CASE i = victim -> entry
                     [] i # victim /\ (empties = {} \/ i < victim) -> older(i)
                     [] OTHER -> tlb[i]
<1>1. tlb \in [1 .. TlbSize -> TlbEntry] /\ TlbSize \in Nat
  BY PagingAssumption DEF CpuTypeOK
<1>2. ASSUME NEW i \in 1 .. TlbSize
      PROVE  older(i) \in TlbEntry /\ older(i).frame = tlb[i].frame
  <2>1. tlb[i] \in TlbEntry /\ tlb[i].age + 1 \in Nat
    BY <1>1 DEF TlbEntry
  <2>2. QED
    BY <2>1, Aged
<1>3. entry \in TlbEntry /\ entry.frame = f
  BY DEF TlbEntry
<1>4. ReplaceLru(n, f) = [i \in 1 .. TlbSize |-> e(i)]
  BY DEF ReplaceLru
<1> HIDE DEF older, entry, victim, empties
<1>5. ASSUME NEW i \in 1 .. TlbSize PROVE e(i) \in TlbEntry /\ e(i).frame \in {f, tlb[i].frame}
  <2>1. CASE i = victim
    BY <1>3, <2>1
  <2>2. CASE i # victim /\ (empties = {} \/ i < victim)
    BY <1>2, <2>2
  <2>3. CASE i # victim /\ ~(empties = {} \/ i < victim)
    BY <1>1, <2>3
  <2>4. QED
    BY <2>1, <2>2, <2>3
<1> HIDE DEF e
<1>6. QED
  BY <1>4, <1>5

\* replace_fifo does so too.
LEMMA FifoFrames ==
  ASSUME CpuTypeOK, NEW n \in Pages, NEW f \in FrameIds
  PROVE  /\ ReplaceFifo(n, f) \in [1 .. TlbSize -> TlbEntry]
         /\ \A i \in 1 .. TlbSize : ReplaceFifo(n, f)[i].frame \in {f, tlb[i].frame}
<1>1. tlb \in [1 .. TlbSize -> TlbEntry] /\ oldest \in 1 .. TlbSize
  BY DEF CpuTypeOK
<1> DEFINE e == [[tlb[oldest] EXCEPT !.page = n] EXCEPT !.frame = f]
<1>2. e \in TlbEntry /\ e.frame = f
  <2>1. tlb[oldest] \in TlbEntry
    BY <1>1
  <2> DEFINE d == [tlb[oldest] EXCEPT !.page = n]
  <2>2. d \in TlbEntry
    BY <2>1 DEF TlbEntry
  <2> HIDE DEF d
  <2>3. [d EXCEPT !.frame = f] \in TlbEntry /\ [d EXCEPT !.frame = f].frame = f
    BY <2>2 DEF TlbEntry
  <2>4. QED
    BY <2>3 DEF d
<1>3. ReplaceFifo(n, f) = [tlb EXCEPT ![oldest] = e]
  BY <1>1 DEF ReplaceFifo
<1> HIDE DEF e
<1>4. QED
  BY <1>1, <1>2, <1>3

\* An empty TLB has no frame.
LEMMA ResetFrames == TlbReset \in [1 .. TlbSize -> TlbEntry] /\ \A i \in 1 .. TlbSize : TlbReset[i].frame = NoFrame
BY FrameFacts DEF TlbReset, TlbEntry, Empty

\* TlbReplace writes the answer of memory into one entry.
LEMMA ReplaceFrames ==
  ASSUME CpuTypeOK, TlbReplace
  PROVE  /\ tlb' \in [1 .. TlbSize -> TlbEntry] /\ oldest' \in 1 .. TlbSize
         /\ \A i \in 1 .. TlbSize : tlb'[i].frame \in {cpu.frame, tlb[i].frame}
<1>1. cpu.page \in Pages /\ cpu.frame \in FrameIds
  BY DEF CpuTypeOK, CpuState
<1>2. tlb' = ReplaceLru(cpu.page, cpu.frame) \/ tlb' = ReplaceFifo(cpu.page, cpu.frame)
  BY DEF TlbReplace
<1>3. oldest' \in 1 .. TlbSize
  <2>1. oldest \in 1 .. TlbSize /\ TlbSize \in Nat /\ TlbSize > 0
    BY PagingAssumption DEF CpuTypeOK
  <2>2. oldest' = oldest \/ (oldest < TlbSize /\ oldest' = oldest + 1) \/ oldest' = 1
    BY DEF TlbReplace
  <2>3. QED
    BY <2>1, <2>2
<1>4. CASE tlb' = ReplaceLru(cpu.page, cpu.frame)
  BY <1>1, <1>3, <1>4, LruFrames
<1>5. CASE tlb' = ReplaceFifo(cpu.page, cpu.frame)
  BY <1>1, <1>3, <1>5, FifoFrames
<1>6. QED
  BY <1>2, <1>4, <1>5
-----------------------------------------------------------------------------
(* Types.                                                                  *)

\* The process whose END is handled has its tables.
LEMMA EndProcess ==
  ASSUME PagingInv, DestroyProcess
  PROVE  /\ Head(requests).proc \in Live /\ Head(requests).proc \in Procs
         /\ Exists(lvl1, page_table[Head(requests).proc])
<1>1. /\ requests \in Seq(Requests) /\ 1 \in DOMAIN requests /\ Head(requests) = requests[1]
      /\ requests[1] \in Requests /\ requests[1].op = "END"
  BY DEF DestroyProcess, PagingInv, PagingTypeOK, KernelTypeOK
<1>2. requests[1].proc \in Procs
  BY <1>1 DEF Requests
<1>3. requests[1] = [op |-> "END", proc |-> requests[1].proc]
  BY <1>1 DEF Requests
<1>4. requests[1].proc \in Live
  BY <1>1, <1>2, <1>3 DEF Live
<1>5. QED
  BY <1>1, <1>2, <1>4 DEF PagingInv, OwnTablesOK

\* Every step keeps the types of memory's variables.
LEMMA MemoryTypeStep ==
  ASSUME PagingInv, [Next]_vars
  PROVE  MemoryTypeOK'
<1>1. ASSUME NEW p \in Procs, Admit(p) PROVE MemoryTypeOK'
  BY <1>1 DEF Admit, Leave, memoryVars, vars, PagingInv, PagingTypeOK, MemoryTypeOK
<1>2. ASSUME NEW p \in Procs, Dispatch(p) PROVE MemoryTypeOK'
  BY <1>2 DEF Dispatch, Leave, memoryVars, vars, PagingInv, PagingTypeOK, MemoryTypeOK
<1>3. CASE MemoryInit
  BY <1>3, InitRows DEF MemoryInit, PagingInv, PagingTypeOK, MemoryTypeOK
<1>4. CASE DestroyProcess
  <2> DEFINE id == page_table[Head(requests).proc]
  <2>1. Exists(lvl1, id) /\ DeleteTables(id) /\ frames' = frames \ FreedWith(id)
    BY <1>4, EndProcess DEF DestroyProcess
  <2> HIDE DEF id
  <2>2. lvl1' \in Seq(Tables1) /\ lvl2' \in Seq(Tables2)
    BY <2>1, DeletedRows
  <2>3. QED
    BY <1>4, <2>1, <2>2 DEF DestroyProcess, PagingInv, PagingTypeOK, MemoryTypeOK
<1>5. CASE LeaveForNow
  BY <1>5 DEF LeaveForNow, Leave, memoryVars, vars, PagingInv, PagingTypeOK, MemoryTypeOK
<1>7. CASE LeaveForGood
  BY <1>7 DEF LeaveForGood, Leave, memoryVars, vars, PagingInv, PagingTypeOK, MemoryTypeOK
<1>8. ASSUME NEW n \in Accessed, Translate(n) PROVE MemoryTypeOK'
  BY <1>8 DEF Translate, Leave, memoryVars, vars, PagingInv, PagingTypeOK, MemoryTypeOK
<1>9. CASE TlbReplace
  BY <1>9 DEF TlbReplace, Leave, memoryVars, vars, PagingInv, PagingTypeOK, MemoryTypeOK
<1>10. CASE FramePresent
  BY <1>10 DEF FramePresent, Leave, memoryVars, vars, PagingInv, PagingTypeOK, MemoryTypeOK
<1>11. CASE FrameFault
  <2>1. lvl2' \in Seq(Tables2) /\ clock' \in Pages /\ ub' \in BOOLEAN
    BY <1>11, FaultRows
  <2>2. frames' = frames \union ({FreeFrame} \ {NoFrame}) /\ lvl1' = lvl1
    BY <1>11 DEF FrameFault
  <2>3. frames' \in SUBSET Frames
    BY <2>2, FreeFrameFree DEF PagingInv, PagingTypeOK, MemoryTypeOK
  <2>4. QED
    BY <2>1, <2>2, <2>3 DEF PagingInv, PagingTypeOK, MemoryTypeOK
<1>12. CASE FrameFill
  <2>1. lvl2' \in Seq(Tables2) /\ frames' \in SUBSET frames
    BY <1>12, FillRows
  <2>2. QED
    BY <1>12, <2>1 DEF FrameFill, PagingInv, PagingTypeOK, MemoryTypeOK
<1>13. CASE Read
  <2>1. lvl2' \in Seq(Tables2)
    BY <1>13, SetModifiedRows DEF Read, PagingInv
  <2>2. QED
    BY <1>13, <2>1 DEF Read, PagingInv, PagingTypeOK, MemoryTypeOK
<1>14. CASE SendWrite
  BY <1>14 DEF SendWrite, Leave, memoryVars, vars, PagingInv, PagingTypeOK, MemoryTypeOK
<1>15. CASE Write
  <2>1. lvl2' \in Seq(Tables2)
    BY <1>15, SetModifiedRows DEF Write, PagingInv
  <2>2. QED
    BY <1>15, <2>1 DEF Write, PagingInv, PagingTypeOK, MemoryTypeOK
<1>16. CASE UNCHANGED vars
  BY <1>16 DEF vars, Leave, memoryVars, vars, PagingInv, PagingTypeOK, MemoryTypeOK
<1>17. QED
  BY <1>1, <1>2, <1>3, <1>4, <1>5, <1>7, <1>8, <1>9, <1>10, <1>11, <1>12, <1>13, <1>14, <1>15, <1>16 DEF Next

\* Every step keeps the types of the kernel's variables.
LEMMA KernelTypeStep ==
  ASSUME PagingInv, [Next]_vars
  PROVE  KernelTypeOK'
<1>1. ASSUME NEW p \in Procs, Admit(p) PROVE KernelTypeOK'
  <2>0. requests \in Seq(Requests) /\ stage \in [Procs -> {"new", "asked", "ready", "ended"}] /\ page_table \in [Procs -> Nat]
    BY DEF PagingInv, PagingTypeOK, KernelTypeOK
  <2>1. [op |-> "INIT", proc |-> p] \in Requests
    BY DEF Requests
  <2>2. QED
    BY <1>1, <2>0, <2>1 DEF Admit, KernelTypeOK
<1>2. ASSUME NEW p \in Procs, Dispatch(p) PROVE KernelTypeOK'
  BY <1>2 DEF Dispatch, Leave, CpuThread, kernelVars, vars, PagingInv, PagingTypeOK, KernelTypeOK
<1>3. CASE MemoryInit
  <2>0. requests \in Seq(Requests) /\ stage \in [Procs -> {"new", "asked", "ready", "ended"}] /\ page_table \in [Procs -> Nat]
    BY DEF PagingInv, PagingTypeOK, KernelTypeOK
  <2>1. FindId(lvl1) \in Nat
    BY <1>3, InitRows
  <2> DEFINE p == Head(requests).proc
             id == FindId(lvl1)
  <2>2. /\ requests' = Tail(requests) /\ stage' = [stage EXCEPT ![p] = "ready"]
        /\ page_table' = [page_table EXCEPT ![p] = id] /\ requests # <<>>
    BY <1>3 DEF MemoryInit
  <2> HIDE DEF p, id
  <2>3. stage' \in [Procs -> {"new", "asked", "ready", "ended"}]
    BY <2>0, <2>2
  <2>4. page_table' \in [Procs -> Nat]
    BY <2>0, <2>1, <2>2 DEF id
  <2>5. QED
    BY <2>0, <2>2, <2>3, <2>4 DEF KernelTypeOK
<1>4. CASE DestroyProcess
  <2>0. requests \in Seq(Requests) /\ stage \in [Procs -> {"new", "asked", "ready", "ended"}] /\ page_table \in [Procs -> Nat]
    BY DEF PagingInv, PagingTypeOK, KernelTypeOK
  <2>1. QED
    BY <1>4, <2>0 DEF DestroyProcess, KernelTypeOK
<1>5. CASE LeaveForNow
  BY <1>5 DEF LeaveForNow, Leave, CpuThread, kernelVars, vars, PagingInv, PagingTypeOK, KernelTypeOK
<1>7. CASE LeaveForGood
  <2>0. requests \in Seq(Requests) /\ stage \in [Procs -> {"new", "asked", "ready", "ended"}] /\ page_table \in [Procs -> Nat]
    BY DEF PagingInv, PagingTypeOK, KernelTypeOK
  <2>1. cur \in Procs
    BY <1>7 DEF LeaveForGood, Leave, PagingInv, PagingTypeOK, CpuTypeOK
  <2>2. [op |-> "END", proc |-> cur] \in Requests
    BY <2>1 DEF Requests
  <2>3. /\ stage' = [stage EXCEPT ![cur] = "ended"] /\ page_table' = page_table
        /\ requests' = Append(requests, [op |-> "END", proc |-> cur])
    BY <1>7 DEF LeaveForGood, Leave
  <2>4. requests' \in Seq(Requests)
    BY <2>0, <2>2, <2>3
  <2>5. QED
    BY <2>0, <2>3, <2>4 DEF KernelTypeOK
<1>8. ASSUME NEW n \in Accessed, Translate(n) PROVE KernelTypeOK'
  BY <1>8 DEF Translate, Leave, CpuThread, kernelVars, vars, PagingInv, PagingTypeOK, KernelTypeOK
<1>9. CASE TlbReplace
  BY <1>9 DEF TlbReplace, Leave, CpuThread, kernelVars, vars, PagingInv, PagingTypeOK, KernelTypeOK
<1>10. CASE FramePresent
  BY <1>10 DEF FramePresent, Leave, CpuThread, kernelVars, vars, PagingInv, PagingTypeOK, KernelTypeOK
<1>11. CASE FrameFault
  BY <1>11 DEF FrameFault, Leave, CpuThread, kernelVars, vars, PagingInv, PagingTypeOK, KernelTypeOK
<1>12. CASE FrameFill
  BY <1>12 DEF FrameFill, Leave, CpuThread, kernelVars, vars, PagingInv, PagingTypeOK, KernelTypeOK
<1>13. CASE Read
  BY <1>13 DEF Read, Leave, CpuThread, kernelVars, vars, PagingInv, PagingTypeOK, KernelTypeOK
<1>14. CASE SendWrite
  BY <1>14 DEF SendWrite, Leave, CpuThread, kernelVars, vars, PagingInv, PagingTypeOK, KernelTypeOK
<1>15. CASE Write
  BY <1>15 DEF Write, Leave, CpuThread, kernelVars, vars, PagingInv, PagingTypeOK, KernelTypeOK
<1>16. CASE UNCHANGED vars
  BY <1>16 DEF vars, Leave, CpuThread, kernelVars, vars, PagingInv, PagingTypeOK, KernelTypeOK
<1>17. QED
  BY <1>1, <1>2, <1>3, <1>4, <1>5, <1>7, <1>8, <1>9, <1>10, <1>11, <1>12, <1>13, <1>14, <1>15, <1>16 DEF Next

\* Every step keeps the types of the CPU's variables.
LEMMA CpuTypeStep ==
  ASSUME PagingInv, [Next]_vars
  PROVE  CpuTypeOK'
<1>1. ASSUME NEW p \in Procs, Admit(p) PROVE CpuTypeOK'
  BY <1>1 DEF Admit, Leave, cpuVars, vars, PagingInv, PagingTypeOK, CpuTypeOK
<1>2. ASSUME NEW p \in Procs, Dispatch(p) PROVE CpuTypeOK'
  BY <1>2 DEF Dispatch, Leave, cpuVars, vars, PagingInv, PagingTypeOK, CpuTypeOK
<1>3. CASE MemoryInit
  BY <1>3 DEF MemoryInit, Leave, cpuVars, vars, PagingInv, PagingTypeOK, CpuTypeOK
<1>4. CASE DestroyProcess
  BY <1>4 DEF DestroyProcess, Leave, cpuVars, vars, PagingInv, PagingTypeOK, CpuTypeOK
<1>5. CASE LeaveForNow
  BY <1>5, ResetFrames DEF LeaveForNow, Leave, PagingInv, PagingTypeOK, CpuTypeOK
<1>7. CASE LeaveForGood
  BY <1>7, ResetFrames DEF LeaveForGood, Leave, PagingInv, PagingTypeOK, CpuTypeOK
<1>8. ASSUME NEW n \in Accessed, Translate(n) PROVE CpuTypeOK'
  <2>0. /\ cur \in Procs \union {NoProc} /\ cpu \in CpuState /\ oldest \in 1 .. TlbSize
        /\ tlb \in [1 .. TlbSize -> TlbEntry] /\ write \in WriteState
    BY DEF PagingInv, PagingTypeOK, CpuTypeOK
  <2>1. /\ TlbLookup(n).tlb \in [1 .. TlbSize -> TlbEntry]
        /\ \/ TlbLookup(n).frame = NoFrame
           \/ \E i \in 1 .. TlbSize : TlbLookup(n).frame = tlb[i].frame
    BY LookupFrames DEF PagingInv, PagingTypeOK
  <2>2. TlbLookup(n).frame \in FrameIds /\ n \in Pages
    BY <2>0, <2>1, FrameFacts, PagingAssumption DEF TlbEntry, Pages
  <2>3. cpu' \in CpuState
    BY <1>8, <2>2 DEF Translate, CpuState
  <2>4. QED
    BY <1>8, <2>0, <2>1, <2>3 DEF Translate, CpuTypeOK
<1>9. CASE TlbReplace
  <2>0. /\ cur \in Procs \union {NoProc} /\ cpu \in CpuState /\ oldest \in 1 .. TlbSize
        /\ tlb \in [1 .. TlbSize -> TlbEntry] /\ write \in WriteState
    BY DEF PagingInv, PagingTypeOK, CpuTypeOK
  <2>1. tlb' \in [1 .. TlbSize -> TlbEntry] /\ oldest' \in 1 .. TlbSize
    BY <1>9, ReplaceFrames DEF PagingInv, PagingTypeOK
  <2>2. cpu' \in CpuState
    BY <1>9, <2>0 DEF TlbReplace, CpuState
  <2>3. QED
    BY <1>9, <2>0, <2>1, <2>2 DEF TlbReplace, CpuTypeOK
<1>10. CASE FramePresent
  <2>0. /\ cur \in Procs \union {NoProc} /\ cpu \in CpuState /\ oldest \in 1 .. TlbSize
        /\ tlb \in [1 .. TlbSize -> TlbEntry] /\ write \in WriteState
    BY DEF PagingInv, PagingTypeOK, CpuTypeOK
  <2>1. RowOf(cpu.page).frame \in FrameIds
    BY <1>10, TableOfPage, FreeFrameFree, FrameFacts DEF FramePresent, CpuThread, PagingInv, PagingTypeOK, RequestsOK, CpuTypeOK, CpuState, Rows
  <2>2. cpu' \in CpuState
    BY <1>10, <2>0, <2>1 DEF FramePresent, CpuThread, CpuState
  <2>3. QED
    BY <1>10, <2>0, <2>2 DEF FramePresent, CpuThread, CpuTypeOK
<1>11. CASE FrameFault
  <2>0. /\ cur \in Procs \union {NoProc} /\ cpu \in CpuState /\ oldest \in 1 .. TlbSize
        /\ tlb \in [1 .. TlbSize -> TlbEntry] /\ write \in WriteState
    BY DEF PagingInv, PagingTypeOK, CpuTypeOK
  <2>1. FreeFrame \in FrameIds
    BY <1>11, TableOfPage, FreeFrameFree, FrameFacts DEF FrameFault, CpuThread, PagingInv, PagingTypeOK, RequestsOK, CpuTypeOK, CpuState, Rows
  <2>2. cpu' \in CpuState
    BY <1>11, <2>0, <2>1 DEF FrameFault, CpuThread, CpuState
  <2>3. QED
    BY <1>11, <2>0, <2>2 DEF FrameFault, CpuThread, CpuTypeOK
<1>12. CASE FrameFill
  <2>0. /\ cur \in Procs \union {NoProc} /\ cpu \in CpuState /\ oldest \in 1 .. TlbSize
        /\ tlb \in [1 .. TlbSize -> TlbEntry] /\ write \in WriteState
    BY DEF PagingInv, PagingTypeOK, CpuTypeOK
  <2>1. cpu.frame \in FrameIds
    BY <1>12, TableOfPage, FreeFrameFree, FrameFacts DEF FrameFill, CpuThread, PagingInv, PagingTypeOK, RequestsOK, CpuTypeOK, CpuState, Rows
  <2>2. cpu' \in CpuState
    BY <1>12, <2>0, <2>1 DEF FrameFill, CpuThread, CpuState
  <2>3. QED
    BY <1>12, <2>0, <2>2 DEF FrameFill, CpuThread, CpuTypeOK
<1>13. CASE Read
  <2>0. /\ cur \in Procs \union {NoProc} /\ cpu \in CpuState /\ oldest \in 1 .. TlbSize
        /\ tlb \in [1 .. TlbSize -> TlbEntry] /\ write \in WriteState
    BY DEF PagingInv, PagingTypeOK, CpuTypeOK
  <2>1. Idle \in CpuState
    BY IndexFacts, FrameFacts DEF Idle, CpuState
  <2>2. cpu' \in CpuState
    BY <1>13, <2>1 DEF Read, CpuThread
  <2>3. QED
    BY <1>13, <2>0, <2>2 DEF Read, CpuThread, CpuTypeOK
<1>14. CASE SendWrite
  <2>0. /\ cur \in Procs \union {NoProc} /\ cpu \in CpuState /\ oldest \in 1 .. TlbSize
        /\ tlb \in [1 .. TlbSize -> TlbEntry] /\ write \in WriteState
    BY DEF PagingInv, PagingTypeOK, CpuTypeOK
  <2>1. Idle \in CpuState
    BY IndexFacts, FrameFacts DEF Idle, CpuState
  <2>2. cpu' \in CpuState
    BY <1>14, <2>1 DEF SendWrite, CpuThread
  <2>3. write' \in WriteState
    BY <1>14, <2>0 DEF SendWrite, WriteState, CpuState
  <2>4. QED
    BY <1>14, <2>0, <2>2, <2>3 DEF SendWrite, CpuThread, CpuTypeOK
<1>15. CASE Write
  <2>0. /\ cur \in Procs \union {NoProc} /\ cpu \in CpuState /\ oldest \in 1 .. TlbSize
        /\ tlb \in [1 .. TlbSize -> TlbEntry] /\ write \in WriteState
    BY DEF PagingInv, PagingTypeOK, CpuTypeOK
  <2>1. NoWrite \in WriteState
    BY FrameFacts DEF NoWrite, WriteState
  <2>2. QED
    BY <1>15, <2>0, <2>1 DEF Write, cpuVars, CpuTypeOK
<1>16. CASE UNCHANGED vars
  BY <1>16 DEF vars, Leave, cpuVars, vars, PagingInv, PagingTypeOK, CpuTypeOK
<1>17. QED
  BY <1>1, <1>2, <1>3, <1>4, <1>5, <1>7, <1>8, <1>9, <1>10, <1>11, <1>12, <1>13, <1>14, <1>15, <1>16 DEF Next

-----------------------------------------------------------------------------
(* Requests, and the processes that live.                                  *)

\* A request is added for a process that has none.
LEMMA RequestAdded ==
  ASSUME PagingInv, NEW q \in Procs, NEW o \in {"INIT", "END"},
         requests' = Append(requests, [op |-> o, proc |-> q]),
         stage' = [stage EXCEPT ![q] = IF o = "INIT" THEN "asked" ELSE "ended"],
         stage[q] \in {"new", "ready"}
  PROVE  /\ \A i \in DOMAIN requests' :
              stage'[requests'[i].proc] = IF requests'[i].op = "INIT" THEN "asked" ELSE "ended"
         /\ \A i, j \in DOMAIN requests' : requests'[i].proc = requests'[j].proc => i = j
         /\ \A i \in DOMAIN requests' : (i \in DOMAIN requests /\ requests'[i] = requests[i]) \/ requests'[i] = [op |-> o, proc |-> q]
<1> DEFINE e == [op |-> o, proc |-> q]
           n == Len(requests)
<1>1. /\ requests \in Seq(Requests) /\ n \in Nat /\ stage \in [Procs -> {"new", "asked", "ready", "ended"}]
      /\ DOMAIN requests = 1 .. n
  BY DEF PagingInv, PagingTypeOK, KernelTypeOK
<1>2. e \in Requests /\ e.op = o /\ e.proc = q
  BY DEF Requests
<1>3. requests' = Append(requests, e)
  OBVIOUS
<1> HIDE DEF e
<1>4. /\ DOMAIN requests' = 1 .. n + 1 /\ requests'[n + 1] = e
      /\ \A i \in 1 .. n : requests'[i] = requests[i]
  BY <1>1, <1>2, <1>3
<1>5. \A i \in 1 .. n : /\ requests[i].proc \in Procs
                        /\ stage[requests[i].proc] = IF requests[i].op = "INIT" THEN "asked" ELSE "ended"
  <2>1. \A i \in 1 .. n : requests[i] \in Requests
    BY <1>1
  <2>2. QED
    BY <1>1, <2>1 DEF PagingInv, RequestsOK, Requests
<1>6. \A i \in 1 .. n : requests[i].proc # q
  BY <1>5
<1>7. ASSUME NEW i \in DOMAIN requests'
      PROVE  stage'[requests'[i].proc] = IF requests'[i].op = "INIT" THEN "asked" ELSE "ended"
  <2>1. CASE i \in 1 .. n
    <3>1. requests'[i] = requests[i] /\ requests[i].proc # q /\ stage'[requests[i].proc] = stage[requests[i].proc]
      BY <1>1, <1>4, <1>5, <1>6, <2>1
    <3>2. QED
      BY <1>5, <2>1, <3>1
  <2>2. CASE i = n + 1
    BY <1>1, <1>2, <1>4, <2>2
  <2>3. QED
    BY <1>1, <1>4, <2>1, <2>2
<1>8. ASSUME NEW i \in DOMAIN requests', NEW j \in DOMAIN requests', requests'[i].proc = requests'[j].proc
      PROVE  i = j
  <2>1. \A x, y \in 1 .. n : requests[x].proc = requests[y].proc => x = y
    BY <1>1 DEF PagingInv, RequestsOK
  <2>2. QED
    BY <1>1, <1>2, <1>4, <1>6, <1>8, <2>1
<1>9. \A i \in DOMAIN requests' : (i \in DOMAIN requests /\ requests'[i] = requests[i]) \/ requests'[i] = e
  BY <1>1, <1>4
<1>10. QED
  BY <1>7, <1>8, <1>9 DEF e

\* The first request is handled.
LEMMA RequestHandled ==
  ASSUME PagingInv, requests # <<>>, requests' = Tail(requests),
         \A q \in Procs : q # Head(requests).proc => stage'[q] = stage[q]
  PROVE  /\ Head(requests).proc \in Procs
         /\ stage[Head(requests).proc] = IF Head(requests).op = "INIT" THEN "asked" ELSE "ended"
         /\ \A i \in DOMAIN requests' :
              stage'[requests'[i].proc] = IF requests'[i].op = "INIT" THEN "asked" ELSE "ended"
         /\ \A i, j \in DOMAIN requests' : requests'[i].proc = requests'[j].proc => i = j
         /\ \A i \in DOMAIN requests' : \E j \in DOMAIN requests : requests'[i] = requests[j]
         /\ \A i \in DOMAIN requests' : requests'[i].proc # Head(requests).proc
<1> DEFINE n == Len(requests)
<1>1. /\ requests \in Seq(Requests) /\ n \in Nat /\ n > 0 /\ DOMAIN requests = 1 .. n
      /\ Head(requests) = requests[1]
  BY DEF PagingInv, PagingTypeOK, KernelTypeOK
<1>2. DOMAIN requests' = 1 .. n - 1 /\ \A i \in 1 .. n - 1 : requests'[i] = requests[i + 1]
  BY <1>1
<1>3. \A i \in 1 .. n : /\ requests[i].proc \in Procs
                        /\ stage[requests[i].proc] = IF requests[i].op = "INIT" THEN "asked" ELSE "ended"
  <2>1. \A i \in 1 .. n : requests[i] \in Requests
    BY <1>1
  <2>2. QED
    BY <1>1, <2>1 DEF PagingInv, RequestsOK, Requests
<1>4. \A i, j \in 1 .. n : requests[i].proc = requests[j].proc => i = j
  BY <1>1 DEF PagingInv, RequestsOK
<1>5. ASSUME NEW i \in 1 .. n - 1
      PROVE  /\ i + 1 \in 1 .. n /\ requests[i + 1].proc # requests[1].proc
             /\ stage'[requests[i + 1].proc] = stage[requests[i + 1].proc]
  BY <1>1, <1>3, <1>4
<1>6. QED
  BY <1>1, <1>2, <1>3, <1>4, <1>5

\* Every step keeps the requests of the kernel in order.
LEMMA RequestsStep ==
  ASSUME PagingInv, [Next]_vars
  PROVE  RequestsOK'
<1>1. ASSUME NEW p \in Procs, Admit(p) PROVE RequestsOK'
  <2>1. requests' = Append(requests, [op |-> "INIT", proc |-> p]) /\ stage' = [stage EXCEPT ![p] = "asked"] /\ stage[p] = "new"
    BY <1>1 DEF Admit
  <2>2. /\ \A i \in DOMAIN requests' :
             stage'[requests'[i].proc] = IF requests'[i].op = "INIT" THEN "asked" ELSE "ended"
        /\ \A i, j \in DOMAIN requests' : requests'[i].proc = requests'[j].proc => i = j
    BY <2>1, RequestAdded
  <2>3. stage \in [Procs -> {"new", "asked", "ready", "ended"}] /\ cur \in Procs \union {NoProc}
    BY DEF PagingInv, PagingTypeOK, KernelTypeOK, CpuTypeOK
  <2>4. (cur # NoProc => stage[cur] = "ready") /\ cur' = cur /\ cpu' = cpu
    BY <1>1 DEF Admit, cpuVars, PagingInv, RequestsOK
  <2>5. cur' # NoProc => stage'[cur'] = "ready"
    BY <2>1, <2>3, <2>4
  <2>6. QED
    BY <2>2, <2>4, <2>5 DEF PagingInv, RequestsOK
<1>2. ASSUME NEW p \in Procs, Dispatch(p) PROVE RequestsOK'
  <2>1. p # NoProc
    BY PagingAssumption
  <2>2. QED
    BY <1>2, <2>1 DEF Dispatch, kernelVars, PagingInv, RequestsOK
<1>3. CASE MemoryInit
  <2> DEFINE p == Head(requests).proc
  <2>1. requests # <<>> /\ requests' = Tail(requests) /\ stage' = [stage EXCEPT ![p] = "ready"]
    BY <1>3 DEF MemoryInit
  <2>2. stage \in [Procs -> {"new", "asked", "ready", "ended"}] /\ cur \in Procs \union {NoProc}
    BY DEF PagingInv, PagingTypeOK, KernelTypeOK, CpuTypeOK
  <2>3. \A q \in Procs : q # p => stage'[q] = stage[q]
    BY <2>1, <2>2
  <2>4. /\ \A i \in DOMAIN requests' :
             stage'[requests'[i].proc] = IF requests'[i].op = "INIT" THEN "asked" ELSE "ended"
        /\ \A i, j \in DOMAIN requests' : requests'[i].proc = requests'[j].proc => i = j
    BY <2>1, <2>3, RequestHandled
  <2>5. (cur # NoProc => stage[cur] = "ready") /\ cur' = cur /\ cpu' = cpu
    BY <1>3 DEF MemoryInit, cpuVars, PagingInv, RequestsOK
  <2>6. cur' # NoProc => stage'[cur'] = "ready"
    BY <2>1, <2>2, <2>5
  <2>7. QED
    BY <2>4, <2>5, <2>6 DEF PagingInv, RequestsOK
<1>4. CASE DestroyProcess
  <2>1. requests # <<>> /\ requests' = Tail(requests) /\ stage' = stage /\ cur' = cur /\ cpu' = cpu
    BY <1>4 DEF DestroyProcess, cpuVars
  <2>2. /\ \A i \in DOMAIN requests' :
             stage'[requests'[i].proc] = IF requests'[i].op = "INIT" THEN "asked" ELSE "ended"
        /\ \A i, j \in DOMAIN requests' : requests'[i].proc = requests'[j].proc => i = j
    BY <2>1, RequestHandled
  <2>3. QED
    BY <2>1, <2>2 DEF PagingInv, RequestsOK
<1>5. CASE LeaveForNow
  BY <1>5 DEF LeaveForNow, Leave, CpuThread, Idle, kernelVars, cpuVars, memoryVars, vars, PagingInv, PagingTypeOK, CpuTypeOK, CpuState, RequestsOK
<1>7. CASE LeaveForGood
  <2>1. cur \in Procs /\ stage[cur] = "ready"
    BY <1>7 DEF LeaveForGood, Leave, PagingInv, PagingTypeOK, CpuTypeOK, RequestsOK
  <2>2. requests' = Append(requests, [op |-> "END", proc |-> cur]) /\ stage' = [stage EXCEPT ![cur] = "ended"]
    BY <1>7 DEF LeaveForGood
  <2>3. /\ \A i \in DOMAIN requests' :
             stage'[requests'[i].proc] = IF requests'[i].op = "INIT" THEN "asked" ELSE "ended"
        /\ \A i, j \in DOMAIN requests' : requests'[i].proc = requests'[j].proc => i = j
    BY <2>1, <2>2, RequestAdded
  <2>4. QED
    BY <1>7, <2>3 DEF LeaveForGood, Leave, RequestsOK
<1>8. ASSUME NEW n \in Accessed, Translate(n) PROVE RequestsOK'
  BY <1>8 DEF Translate, Leave, CpuThread, Idle, kernelVars, cpuVars, memoryVars, vars, PagingInv, PagingTypeOK, CpuTypeOK, CpuState, RequestsOK
<1>9. CASE TlbReplace
  BY <1>9 DEF TlbReplace, Leave, CpuThread, Idle, kernelVars, cpuVars, memoryVars, vars, PagingInv, PagingTypeOK, CpuTypeOK, CpuState, RequestsOK
<1>10. CASE FramePresent
  BY <1>10 DEF FramePresent, Leave, CpuThread, Idle, kernelVars, cpuVars, memoryVars, vars, PagingInv, PagingTypeOK, CpuTypeOK, CpuState, RequestsOK
<1>11. CASE FrameFault
  BY <1>11 DEF FrameFault, Leave, CpuThread, Idle, kernelVars, cpuVars, memoryVars, vars, PagingInv, PagingTypeOK, CpuTypeOK, CpuState, RequestsOK
<1>12. CASE FrameFill
  BY <1>12 DEF FrameFill, Leave, CpuThread, Idle, kernelVars, cpuVars, memoryVars, vars, PagingInv, PagingTypeOK, CpuTypeOK, CpuState, RequestsOK
<1>13. CASE Read
  BY <1>13 DEF Read, Leave, CpuThread, Idle, kernelVars, cpuVars, memoryVars, vars, PagingInv, PagingTypeOK, CpuTypeOK, CpuState, RequestsOK
<1>14. CASE SendWrite
  BY <1>14 DEF SendWrite, Leave, CpuThread, Idle, kernelVars, cpuVars, memoryVars, vars, PagingInv, PagingTypeOK, CpuTypeOK, CpuState, RequestsOK
<1>15. CASE Write
  BY <1>15 DEF Write, Leave, CpuThread, Idle, kernelVars, cpuVars, memoryVars, vars, PagingInv, PagingTypeOK, CpuTypeOK, CpuState, RequestsOK
<1>16. CASE UNCHANGED vars
  BY <1>16 DEF vars, Leave, CpuThread, Idle, kernelVars, cpuVars, memoryVars, vars, PagingInv, PagingTypeOK, CpuTypeOK, CpuState, RequestsOK
<1>17. QED
  BY <1>1, <1>2, <1>3, <1>4, <1>5, <1>7, <1>8, <1>9, <1>10, <1>11, <1>12, <1>13, <1>14, <1>15, <1>16 DEF Next

\* The processes that live when a step has been taken: a process is added when
\* memory has made its tables, and goes away when they are deleted.

\* Whether a process lives depends on the requests and on its stage.
LEMMA LiveKept ==
  ASSUME requests' = requests, stage' = stage
  PROVE  Live' = Live
BY DEF Live

\* A process that the kernel admits does not live until memory has answered.
LEMMA LiveAdmit ==
  ASSUME PagingInv, NEW p \in Procs, Admit(p)
  PROVE  Live' \subseteq Live
<1> DEFINE e == [op |-> "INIT", proc |-> p]
<1>1. requests' = Append(requests, e) /\ stage' = [stage EXCEPT ![p] = "asked"] /\ stage[p] = "new"
  BY DEF Admit
<1>2. \A i \in DOMAIN requests' : (i \in DOMAIN requests /\ requests'[i] = requests[i]) \/ requests'[i] = e
  BY <1>1, RequestAdded
<1>3. stage \in [Procs -> {"new", "asked", "ready", "ended"}]
  BY DEF PagingInv, PagingTypeOK, KernelTypeOK
<1>4. \A q : e # [op |-> "END", proc |-> q]
  OBVIOUS
<1>5. ASSUME NEW q \in Live' PROVE q \in Live
  <2>1. q \in Procs /\ (stage'[q] = "ready" \/ \E i \in DOMAIN requests' : requests'[i] = [op |-> "END", proc |-> q])
    BY DEF Live
  <2>2. stage'[q] = "ready" => stage[q] = "ready"
    BY <1>1, <1>3, <2>1
  <2> HIDE DEF e
  <2>3. QED
    BY <1>2, <1>4, <2>1, <2>2 DEF Live
<1>6. QED
  BY <1>5

\* A process that ends makes no other one live.
LEMMA LiveExit ==
  ASSUME PagingInv, LeaveForGood
  PROVE  Live' \subseteq Live
<1> DEFINE e == [op |-> "END", proc |-> cur]
<1>0. cur \in Procs /\ stage[cur] = "ready"
  BY DEF LeaveForGood, Leave, PagingInv, PagingTypeOK, CpuTypeOK, RequestsOK
<1>1. requests' = Append(requests, e) /\ stage' = [stage EXCEPT ![cur] = "ended"]
  BY DEF LeaveForGood
<1>2. \A i \in DOMAIN requests' : (i \in DOMAIN requests /\ requests'[i] = requests[i]) \/ requests'[i] = e
  BY <1>0, <1>1, RequestAdded
<1>3. stage \in [Procs -> {"new", "asked", "ready", "ended"}]
  BY DEF PagingInv, PagingTypeOK, KernelTypeOK
<1>4. \A q : e = [op |-> "END", proc |-> q] => q = cur
  OBVIOUS
<1>5. ASSUME NEW q \in Live' PROVE q \in Live
  <2>1. q \in Procs /\ (stage'[q] = "ready" \/ \E i \in DOMAIN requests' : requests'[i] = [op |-> "END", proc |-> q])
    BY DEF Live
  <2>2. stage'[q] = "ready" => stage[q] = "ready"
    BY <1>1, <1>3, <2>1
  <2> HIDE DEF e
  <2>3. QED
    BY <1>0, <1>2, <1>4, <2>1, <2>2 DEF Live
<1>6. QED
  BY <1>5

\* INIT makes the process that asked live, and no other.
LEMMA LiveInit ==
  ASSUME PagingInv, MemoryInit
  PROVE  Head(requests).proc \in Procs /\ \A q \in Live' : q \in Live \/ q = Head(requests).proc
<1> DEFINE p == Head(requests).proc
<1>1. requests # <<>> /\ requests' = Tail(requests) /\ stage' = [stage EXCEPT ![p] = "ready"]
  BY DEF MemoryInit
<1>2. stage \in [Procs -> {"new", "asked", "ready", "ended"}]
  BY DEF PagingInv, PagingTypeOK, KernelTypeOK
<1>3. \A q \in Procs : q # p => stage'[q] = stage[q]
  BY <1>1, <1>2
<1>4. p \in Procs /\ \A i \in DOMAIN requests' : \E j \in DOMAIN requests : requests'[i] = requests[j]
  BY <1>1, <1>3, RequestHandled
<1> HIDE DEF p
<1>5. QED
  BY <1>3, <1>4 DEF Live, p

\* PROCESS_TERMINATED ends the life of the process of the request.
LEMMA LiveDestroy ==
  ASSUME PagingInv, DestroyProcess
  PROVE  Live' \subseteq Live /\ Head(requests).proc \notin Live'
<1> DEFINE p == Head(requests).proc
<1>1. requests # <<>> /\ requests' = Tail(requests) /\ stage' = stage /\ Head(requests).op = "END"
  BY DEF DestroyProcess
<1>2. /\ p \in Procs /\ stage[p] = "ended"
      /\ \A i \in DOMAIN requests' : \E j \in DOMAIN requests : requests'[i] = requests[j]
      /\ \A i \in DOMAIN requests' : requests'[i].proc # p
  BY <1>1, RequestHandled
<1> HIDE DEF p
<1>3. Live' \subseteq Live
  BY <1>1, <1>2 DEF Live
<1>4. p \notin Live'
  <2>1. \A i \in DOMAIN requests' : requests'[i] # [op |-> "END", proc |-> p]
    BY <1>2
  <2>2. QED
    BY <1>1, <1>2, <2>1 DEF Live
<1>5. QED
  BY <1>3, <1>4 DEF p

-----------------------------------------------------------------------------
(* Tables.                                                                 *)

\* The tables are not touched, or only their rows are.
LEMMA TablesFrame ==
  ASSUME PagingInv, [Next]_vars, ~MemoryInit, ~DestroyProcess
  PROVE  /\ lvl1' = lvl1 /\ page_table' = page_table /\ Live' \subseteq Live
         /\ FrameFill \/ SameFrames(lvl2, lvl2')
         /\ \A i \in Nat : Exists(lvl2', i) <=> Exists(lvl2, i)
<1>1. lvl2' = lvl2 => SameFrames(lvl2, lvl2')
  BY DEF SameFrames
<1>2. ASSUME NEW p \in Procs, Admit(p)
      PROVE  /\ lvl1' = lvl1 /\ page_table' = page_table /\ Live' \subseteq Live
             /\ FrameFill \/ SameFrames(lvl2, lvl2')
             /\ \A i \in Nat : Exists(lvl2', i) <=> Exists(lvl2, i)
  <2>1. lvl1' = lvl1 /\ page_table' = page_table /\ lvl2' = lvl2
    BY <1>2 DEF Admit, memoryVars
  <2>2. QED
    BY <1>2, <1>1, <2>1, LiveAdmit
<1>3. ASSUME NEW p \in Procs, Dispatch(p)
      PROVE  /\ lvl1' = lvl1 /\ page_table' = page_table /\ Live' \subseteq Live
             /\ FrameFill \/ SameFrames(lvl2, lvl2')
             /\ \A i \in Nat : Exists(lvl2', i) <=> Exists(lvl2, i)
  <2>1. lvl1' = lvl1 /\ page_table' = page_table /\ lvl2' = lvl2 /\ requests' = requests /\ stage' = stage
    BY <1>3 DEF Dispatch, Leave, CpuThread, memoryVars, kernelVars, vars
  <2>2. QED
    BY <1>1, <2>1, LiveKept
<1>4. CASE LeaveForNow
  <2>1. lvl1' = lvl1 /\ page_table' = page_table /\ lvl2' = lvl2 /\ requests' = requests /\ stage' = stage
    BY <1>4 DEF LeaveForNow, Leave, CpuThread, memoryVars, kernelVars, vars
  <2>2. QED
    BY <1>1, <2>1, LiveKept
<1>6. CASE LeaveForGood
  <2>1. lvl1' = lvl1 /\ page_table' = page_table /\ lvl2' = lvl2
    BY <1>6 DEF LeaveForGood, Leave, memoryVars
  <2>2. QED
    BY <1>6, <1>1, <2>1, LiveExit
<1>7. ASSUME NEW n \in Accessed, Translate(n)
      PROVE  /\ lvl1' = lvl1 /\ page_table' = page_table /\ Live' \subseteq Live
             /\ FrameFill \/ SameFrames(lvl2, lvl2')
             /\ \A i \in Nat : Exists(lvl2', i) <=> Exists(lvl2, i)
  <2>1. lvl1' = lvl1 /\ page_table' = page_table /\ lvl2' = lvl2 /\ requests' = requests /\ stage' = stage
    BY <1>7 DEF Translate, Leave, CpuThread, memoryVars, kernelVars, vars
  <2>2. QED
    BY <1>1, <2>1, LiveKept
<1>8. CASE TlbReplace
  <2>1. lvl1' = lvl1 /\ page_table' = page_table /\ lvl2' = lvl2 /\ requests' = requests /\ stage' = stage
    BY <1>8 DEF TlbReplace, Leave, CpuThread, memoryVars, kernelVars, vars
  <2>2. QED
    BY <1>1, <2>1, LiveKept
<1>9. CASE FramePresent
  <2>1. lvl1' = lvl1 /\ page_table' = page_table /\ lvl2' = lvl2 /\ requests' = requests /\ stage' = stage
    BY <1>9 DEF FramePresent, Leave, CpuThread, memoryVars, kernelVars, vars
  <2>2. QED
    BY <1>1, <2>1, LiveKept
<1>10. CASE FrameFault
  <2>1. lvl1' = lvl1 /\ page_table' = page_table /\ requests' = requests /\ stage' = stage
    BY <1>10 DEF FrameFault, CpuThread, kernelVars
  <2>2. SameFrames(lvl2, lvl2')
    BY <1>10, FaultRows
  <2>3. QED
    BY <2>1, <2>2, LiveKept DEF SameFrames
<1>11. CASE FrameFill
  <2>1. lvl1' = lvl1 /\ page_table' = page_table /\ requests' = requests /\ stage' = stage
    BY <1>11 DEF FrameFill, CpuThread, kernelVars
  <2>2. \A i \in Nat : Exists(lvl2', i) <=> Exists(lvl2, i)
    BY <1>11, FillRows
  <2>3. QED
    BY <1>11, <2>1, <2>2, LiveKept
<1>12. CASE Read
  <2>1. lvl1' = lvl1 /\ page_table' = page_table /\ requests' = requests /\ stage' = stage /\ PagingTypeOK
    BY <1>12 DEF Read, CpuThread, kernelVars, PagingInv
  <2>2. PICK f \in {cpu.frame, write.frame}, b \in BOOLEAN : SetModified(f, b)
    BY <1>12 DEF Read
  <2>3. /\ \A i \in Nat : Exists(lvl2', i) <=> Exists(lvl2, i)
        /\ \A i \in Nat, j \in Indexes : Exists(lvl2, i) => lvl2'[i][j].frame = lvl2[i][j].frame
    BY <2>1, <2>2, SetModifiedRows
  <2>4. SameFrames(lvl2, lvl2')
    BY <2>3, SameRows
  <2>5. QED
    BY <2>1, <2>3, <2>4, LiveKept
<1>13. CASE SendWrite
  <2>1. lvl1' = lvl1 /\ page_table' = page_table /\ lvl2' = lvl2 /\ requests' = requests /\ stage' = stage
    BY <1>13 DEF SendWrite, Leave, CpuThread, memoryVars, kernelVars, vars
  <2>2. QED
    BY <1>1, <2>1, LiveKept
<1>14. CASE Write
  <2>1. lvl1' = lvl1 /\ page_table' = page_table /\ requests' = requests /\ stage' = stage /\ PagingTypeOK
    BY <1>14 DEF Write, CpuThread, kernelVars, PagingInv
  <2>2. PICK f \in {cpu.frame, write.frame}, b \in BOOLEAN : SetModified(f, b)
    BY <1>14 DEF Write
  <2>3. /\ \A i \in Nat : Exists(lvl2', i) <=> Exists(lvl2, i)
        /\ \A i \in Nat, j \in Indexes : Exists(lvl2, i) => lvl2'[i][j].frame = lvl2[i][j].frame
    BY <2>1, <2>2, SetModifiedRows
  <2>4. SameFrames(lvl2, lvl2')
    BY <2>3, SameRows
  <2>5. QED
    BY <2>1, <2>3, <2>4, LiveKept
<1>15. CASE UNCHANGED vars
  <2>1. lvl1' = lvl1 /\ page_table' = page_table /\ lvl2' = lvl2 /\ requests' = requests /\ stage' = stage
    BY <1>15 DEF vars, Leave, CpuThread, memoryVars, kernelVars, vars
  <2>2. QED
    BY <1>1, <2>1, LiveKept
<1>16. QED
  BY <1>2, <1>3, <1>4, <1>6, <1>7, <1>8, <1>9, <1>10, <1>11, <1>12, <1>13, <1>14, <1>15 DEF Next

\* Ids of tables are numbers.
LEMMA IdsAreNumbers ==
  ASSUME PagingInv, NEW i, Exists(lvl1, i), NEW k \in Indexes
  PROVE  i \in Nat /\ i \in DOMAIN lvl1 /\ lvl1[i][k] \in Nat /\ Exists(lvl2, lvl1[i][k])
<1>1. i \in DOMAIN lvl1 /\ i \in Nat /\ lvl1[i] \in [Indexes -> Nat \ {0}]
  BY TableTypes DEF PagingInv, PagingTypeOK, Exists
<1>2. QED
  BY <1>1 DEF PagingInv, TablesOK

\* A second level table is in one entry of one first level table.
LEMMA IdsDistinct ==
  ASSUME PagingInv, NEW i, Exists(lvl1, i), NEW i2, Exists(lvl1, i2), NEW k \in Indexes, NEW k2 \in Indexes,
         lvl1[i][k] = lvl1[i2][k2]
  PROVE  i = i2 /\ k = k2
<1>1. i \in DOMAIN lvl1 /\ i2 \in DOMAIN lvl1
  BY DEF Exists
<1>2. QED
  BY <1>1 DEF PagingInv, TablesOK

\* Every step keeps second level tables apart.
LEMMA TablesStep ==
  ASSUME PagingInv, [Next]_vars
  PROVE  TablesOK'
<1>1. CASE ~MemoryInit /\ ~DestroyProcess
  <2>1. lvl1' = lvl1 /\ \A i \in Nat : Exists(lvl2', i) <=> Exists(lvl2, i)
    BY <1>1, TablesFrame
  <2>2. ASSUME NEW i \in DOMAIN lvl1, NEW k \in Indexes, Exists(lvl1, i)
        PROVE  Exists(lvl2', lvl1[i][k])
    BY <2>1, <2>2, IdsAreNumbers
  <2>3. QED
    BY <2>1, <2>2 DEF PagingInv, TablesOK
<1>2. CASE MemoryInit
  <2> DEFINE id == FindId(lvl1)
  <2>1. /\ ~Exists(lvl1, id) /\ lvl1'[id] = NewIds /\ lvl1' \in Seq(Tables1)
        /\ \A i \in Nat : Exists(lvl1', i) <=> i = id \/ Exists(lvl1, i)
        /\ \A i \in DOMAIN lvl1 : i # id => lvl1'[i] = lvl1[i]
        /\ \A i \in Nat : Exists(lvl2, i) => Exists(lvl2', i)
        /\ \A k \in Indexes : Exists(lvl2', NewIds[k]) /\ ~Exists(lvl2, NewIds[k])
    BY <1>2, InitRows
  <2> HIDE DEF id
  <2>2. \A k, k2 \in Indexes : NewIds[k] = NewIds[k2] => k = k2
    BY DEF NewIds, Indexes, PagingInv, PagingTypeOK, MemoryTypeOK
  <2>3. ASSUME NEW i \in DOMAIN lvl1', Exists(lvl1', i)
        PROVE  IF i = id THEN lvl1'[i] = NewIds ELSE Exists(lvl1, i) /\ lvl1'[i] = lvl1[i] /\ i \in DOMAIN lvl1
    <3>1. i \in Nat
      BY <2>1
    <3>2. QED
      BY <2>1, <2>3, <3>1 DEF Exists
  <2>4. ASSUME NEW i \in DOMAIN lvl1', NEW k \in Indexes, Exists(lvl1', i)
        PROVE  Exists(lvl2', lvl1'[i][k])
    <3>1. CASE i = id
      BY <2>1, <3>1
    <3>2. CASE i # id
      <4>1. Exists(lvl1, i) /\ lvl1'[i] = lvl1[i]
        BY <2>3, <2>4, <3>2
      <4>2. lvl1[i][k] \in Nat /\ Exists(lvl2, lvl1[i][k])
        BY <4>1, IdsAreNumbers
      <4>3. QED
        BY <2>1, <4>1, <4>2
    <3>3. QED
      BY <3>1, <3>2
  <2>5. ASSUME NEW i \in DOMAIN lvl1', NEW i2 \in DOMAIN lvl1', NEW k \in Indexes, NEW k2 \in Indexes,
               Exists(lvl1', i), Exists(lvl1', i2), lvl1'[i][k] = lvl1'[i2][k2]
        PROVE  i = i2 /\ k = k2
    <3>1. CASE i = id /\ i2 = id
      BY <2>1, <2>2, <2>5, <3>1
    <3>2. CASE i = id /\ i2 # id
      <4>1. Exists(lvl1, i2) /\ lvl1'[i2] = lvl1[i2]
        BY <2>3, <2>5, <3>2
      <4>2. Exists(lvl2, lvl1[i2][k2])
        BY <4>1, IdsAreNumbers
      <4>3. QED
        BY <2>1, <2>5, <3>2, <4>1, <4>2
    <3>3. CASE i # id /\ i2 = id
      <4>1. Exists(lvl1, i) /\ lvl1'[i] = lvl1[i]
        BY <2>3, <2>5, <3>3
      <4>2. Exists(lvl2, lvl1[i][k])
        BY <4>1, IdsAreNumbers
      <4>3. QED
        BY <2>1, <2>5, <3>3, <4>1, <4>2
    <3>4. CASE i # id /\ i2 # id
      <4>1. Exists(lvl1, i) /\ lvl1'[i] = lvl1[i] /\ Exists(lvl1, i2) /\ lvl1'[i2] = lvl1[i2]
        BY <2>3, <2>5, <3>4
      <4>2. QED
        BY <2>5, <4>1, IdsDistinct
    <3>5. QED
      BY <3>1, <3>2, <3>3, <3>4
  <2>6. QED
    BY <2>4, <2>5 DEF TablesOK
<1>3. CASE DestroyProcess
  <2> DEFINE id == page_table[Head(requests).proc]
  <2>1. Exists(lvl1, id) /\ DeleteTables(id)
    BY <1>3, EndProcess DEF DestroyProcess
  <2> HIDE DEF id
  <2>2. /\ lvl1' \in Seq(Tables1)
        /\ \A i \in Nat : Exists(lvl1', i) <=> i # id /\ Exists(lvl1, i)
        /\ \A i \in DOMAIN lvl1 : i # id => lvl1'[i] = lvl1[i]
        /\ \A i \in Nat : Exists(lvl2', i) <=> Exists(lvl2, i) /\ \A k \in Indexes : lvl1[id][k] # i
    BY <2>1, DeletedRows
  <2>3. ASSUME NEW i \in DOMAIN lvl1', Exists(lvl1', i)
        PROVE  i # id /\ Exists(lvl1, i) /\ lvl1'[i] = lvl1[i]
    <3>1. i \in Nat
      BY <2>2
    <3>2. QED
      BY <2>2, <2>3, <3>1 DEF Exists
  <2>4. ASSUME NEW i \in DOMAIN lvl1', NEW k \in Indexes, Exists(lvl1', i)
        PROVE  Exists(lvl2', lvl1'[i][k])
    <3>1. i # id /\ Exists(lvl1, i) /\ lvl1'[i] = lvl1[i]
      BY <2>3, <2>4
    <3>2. lvl1[i][k] \in Nat /\ Exists(lvl2, lvl1[i][k])
      BY <3>1, IdsAreNumbers
    <3>3. \A k2 \in Indexes : lvl1[id][k2] # lvl1[i][k]
      BY <2>1, <3>1, IdsDistinct
    <3>4. QED
      BY <2>2, <3>1, <3>2, <3>3
  <2>5. ASSUME NEW i \in DOMAIN lvl1', NEW i2 \in DOMAIN lvl1', NEW k \in Indexes, NEW k2 \in Indexes,
               Exists(lvl1', i), Exists(lvl1', i2), lvl1'[i][k] = lvl1'[i2][k2]
        PROVE  i = i2 /\ k = k2
    <3>1. Exists(lvl1, i) /\ lvl1'[i] = lvl1[i] /\ Exists(lvl1, i2) /\ lvl1'[i2] = lvl1[i2]
      BY <2>3, <2>5
    <3>2. QED
      BY <2>5, <3>1, IdsDistinct
  <2>6. QED
    BY <2>4, <2>5 DEF TablesOK
<1>4. QED
  BY <1>1, <1>2, <1>3

\* Every step keeps first level tables apart.
LEMMA OwnTablesStep ==
  ASSUME PagingInv, [Next]_vars
  PROVE  OwnTablesOK'
<1>0. page_table \in [Procs -> Nat] /\ Live \subseteq Procs
  BY DEF PagingInv, PagingTypeOK, KernelTypeOK, Live
<1>1. CASE ~MemoryInit /\ ~DestroyProcess
  <2>1. lvl1' = lvl1 /\ page_table' = page_table /\ Live' \subseteq Live
    BY <1>1, TablesFrame
  <2>2. QED
    BY <2>1 DEF PagingInv, OwnTablesOK
<1>2. CASE MemoryInit
  <2> DEFINE id == FindId(lvl1)
             p == Head(requests).proc
  <2>1. /\ ~Exists(lvl1, id) /\ Exists(lvl1', id) /\ id <= Len(lvl1') /\ Len(lvl1) <= Len(lvl1') /\ id \in Nat
        /\ \A i \in Nat : Exists(lvl1', i) <=> i = id \/ Exists(lvl1, i)
        /\ lvl1' \in Seq(Tables1)
    BY <1>2, InitRows
  <2>2. p \in Procs /\ \A q \in Live' : q \in Live \/ q = p
    BY <1>2, LiveInit
  <2>3. page_table' = [page_table EXCEPT ![p] = id]
    BY <1>2 DEF MemoryInit
  <2> HIDE DEF id, p
  <2>4. page_table'[p] = id /\ \A q \in Procs : q # p => page_table'[q] = page_table[q]
    BY <1>0, <2>2, <2>3
  <2>5. \A q \in Procs : page_table'[q] <= Len(lvl1')
    <3>1. Len(lvl1) \in Nat /\ Len(lvl1') \in Nat
      BY <2>1 DEF PagingInv, PagingTypeOK, MemoryTypeOK
    <3>2. \A q \in Procs : page_table[q] \in Nat /\ page_table[q] <= Len(lvl1)
      BY <1>0 DEF PagingInv, OwnTablesOK
    <3>3. QED
      BY <2>1, <2>4, <3>1, <3>2
  <2>6. \A q \in Live' : Exists(lvl1', page_table'[q]) /\ (q # p => q \in Live /\ Exists(lvl1, page_table[q]))
    BY <1>0, <2>1, <2>2, <2>4 DEF PagingInv, OwnTablesOK
  <2>7. ASSUME NEW q \in Live', NEW r \in Live', page_table'[q] = page_table'[r]
        PROVE  q = r
    BY <1>0, <2>1, <2>4, <2>6, <2>7 DEF PagingInv, OwnTablesOK
  <2>8. QED
    BY <2>5, <2>6, <2>7 DEF OwnTablesOK
<1>3. CASE DestroyProcess
  <2> DEFINE p == Head(requests).proc
             id == page_table[p]
  <2>1. Exists(lvl1, id) /\ DeleteTables(id) /\ page_table' = page_table /\ p \in Live
    BY <1>3, EndProcess DEF DestroyProcess
  <2>2. Live' \subseteq Live /\ p \notin Live'
    BY <1>3, LiveDestroy
  <2>3. Len(lvl1') = Len(lvl1) /\ \A i \in Nat : Exists(lvl1', i) <=> i # id /\ Exists(lvl1, i)
    <3> HIDE DEF id
    <3>1. QED
      BY <2>1, DeletedRows
  <2> HIDE DEF p
  <2>4. ASSUME NEW q \in Live' PROVE Exists(lvl1', page_table'[q])
    <3>1. q \in Live /\ q # p /\ page_table[q] \in Nat /\ Exists(lvl1, page_table[q]) /\ page_table[q] # id
      BY <1>0, <2>1, <2>2 DEF PagingInv, OwnTablesOK
    <3>2. QED
      BY <2>1, <2>3, <3>1
  <2>5. QED
    BY <2>1, <2>2, <2>3, <2>4 DEF PagingInv, OwnTablesOK
<1>4. QED
  BY <1>1, <1>2, <1>3

-----------------------------------------------------------------------------
(* Frames.                                                                 *)

\* Rows keep their frames, and no page fault begins or ends.
LEMMA FramesKept ==
  ASSUME PagingInv, frames' = frames,
         \A f \in Frames, i \in Nat, j \in Indexes : Has(lvl2', i, j, f) <=> Has(lvl2, i, j, f),
         cpu'.pc = "fill" <=> cpu.pc = "fill", cpu.pc = "fill" => cpu'.frame = cpu.frame
  PROVE  FramesOK'
<1>0. frames \subseteq Frames /\ cpu.frame \in Frames \union {NoFrame}
  BY DEF PagingInv, PagingTypeOK, MemoryTypeOK, CpuTypeOK, CpuState, FrameIds
<1>1. ExclusiveOK' /\ MarkedOK'
  BY DEF PagingInv, FramesOK, ExclusiveOK, MarkedOK
<1>2. ReservedOK'
  BY <1>0 DEF PagingInv, FramesOK, ReservedOK
<1>3. AccountedOK'
  BY <1>0 DEF PagingInv, FramesOK, AccountedOK
<1>4. QED
  BY <1>1, <1>2, <1>3 DEF FramesOK

\* The frame a page fault reserves was free.
LEMMA FaultFrames ==
  ASSUME PagingInv, FrameFault
  PROVE  FramesOK'
<1>1. /\ frames' = frames \union ({FreeFrame} \ {NoFrame}) /\ cpu'.pc = "fill" /\ cpu'.frame = FreeFrame
      /\ cpu.pc = "frame"
  BY DEF FrameFault, CpuThread, PagingInv, PagingTypeOK, CpuTypeOK, CpuState
<1>2. \A f \in Frames, i \in Nat, j \in Indexes : Has(lvl2', i, j, f) <=> Has(lvl2, i, j, f)
  BY FaultRows DEF SameFrames
<1>3. FreeFrame = NoFrame \/ (FreeFrame \in Frames /\ FreeFrame \notin frames)
  BY FreeFrameFree
<1>4. frames \subseteq Frames
  BY DEF PagingInv, PagingTypeOK, MemoryTypeOK
<1>5. ExclusiveOK' /\ MarkedOK'
  BY <1>1, <1>2 DEF PagingInv, FramesOK, ExclusiveOK, MarkedOK
<1>6. ReservedOK'
  BY <1>1, <1>2, <1>3 DEF PagingInv, FramesOK, MarkedOK, ReservedOK
<1>7. AccountedOK'
  BY <1>1, <1>2, <1>3, <1>4 DEF PagingInv, FramesOK, AccountedOK
<1>8. QED
  BY <1>5, <1>6, <1>7 DEF FramesOK

\* A page fault puts the reserved frame into one row.
LEMMA FillFrames ==
  ASSUME PagingInv, FrameFill
  PROVE  FramesOK'
<1>1. cpu.pc = "fill" /\ cpu'.pc = "answer" /\ cpu.frame \in FrameIds
  BY DEF FrameFill, CpuThread, PagingInv, PagingTypeOK, CpuTypeOK, CpuState
<1>2. PICK k \in Indexes, j \in Indexes :
        LET x == lvl1[page_table[cur]][k]
        IN  /\ Exists(lvl2, x) /\ x \in Nat /\ lvl2[x][j] \in Rows
            /\ frames' = IF lvl2[x][j].frame = NoFrame THEN frames ELSE frames \ {cpu.frame}
            /\ \A i \in Nat, y \in Indexes, f \in FrameIds :
                 Has(lvl2', i, y, f) <=> IF i = x /\ y = j THEN f = Granted(lvl2[x][j]) ELSE Has(lvl2, i, y, f)
  BY FillRows
<1> DEFINE x == lvl1[page_table[cur]][k]
           g == lvl2[x][j].frame
<1>3. Exists(lvl2, x) /\ x \in Nat /\ frames' = IF g = NoFrame THEN frames ELSE frames \ {cpu.frame}
  BY <1>2
<1>4. \A i \in Nat, y \in Indexes, f \in Frames :
        Has(lvl2', i, y, f) <=> IF i = x /\ y = j THEN f = Granted(lvl2[x][j]) ELSE Has(lvl2, i, y, f)
  BY <1>2, FrameFacts
<1>5. Granted(lvl2[x][j]) = IF g = NoFrame THEN cpu.frame ELSE g
  BY DEF Granted
<1>6. \A f \in Frames : Has(lvl2, x, j, f) <=> f = g
  BY <1>3 DEF Has
<1> HIDE DEF x, g
<1>7. frames \subseteq Frames /\ NoFrame \notin Frames
  BY FrameFacts DEF PagingInv, PagingTypeOK, MemoryTypeOK
<1>8. /\ \A f \in Frames, i, i2 \in Nat, y, y2 \in Indexes :
           Has(lvl2, i, y, f) /\ Has(lvl2, i2, y2, f) => i = i2 /\ y = y2
      /\ \A f \in Frames, i \in Nat, y \in Indexes : Has(lvl2, i, y, f) => f \in frames /\ f # cpu.frame
      /\ cpu.frame # NoFrame => cpu.frame \in frames
      /\ MaxFrames >= Entries =>
           \A f \in frames : (\E i \in Nat, y \in Indexes : Has(lvl2, i, y, f)) \/ cpu.frame = f
  BY <1>1, <1>7 DEF PagingInv, FramesOK, ExclusiveOK, MarkedOK, ReservedOK, AccountedOK
<1>9. ReservedOK'
  BY <1>1 DEF ReservedOK
<1>10. CASE g = NoFrame
  <2>1. frames' = frames
    BY <1>3, <1>10
  <2>2. \A i \in Nat, y \in Indexes, f \in Frames :
          Has(lvl2', i, y, f) <=> (i = x /\ y = j /\ f = cpu.frame) \/ Has(lvl2, i, y, f)
    BY <1>4, <1>5, <1>6, <1>7, <1>10
  <2>3. ExclusiveOK'
    BY <1>7, <1>8, <2>2 DEF ExclusiveOK
  <2>4. MarkedOK'
    BY <1>7, <1>8, <2>1, <2>2 DEF MarkedOK
  <2>5. AccountedOK'
    BY <1>3, <1>7, <1>8, <2>1, <2>2 DEF AccountedOK
  <2>6. QED
    BY <1>9, <2>3, <2>4, <2>5 DEF FramesOK
<1>11. CASE g # NoFrame
  <2>1. frames' = frames \ {cpu.frame}
    BY <1>3, <1>11
  <2>2. \A i \in Nat, y \in Indexes, f \in Frames : Has(lvl2', i, y, f) <=> Has(lvl2, i, y, f)
    BY <1>4, <1>5, <1>6, <1>7, <1>11
  <2>3. ExclusiveOK'
    BY <1>8, <2>2 DEF ExclusiveOK
  <2>4. MarkedOK'
    BY <1>8, <2>1, <2>2 DEF MarkedOK
  <2>5. AccountedOK'
    BY <1>7, <1>8, <2>1, <2>2 DEF AccountedOK
  <2>6. QED
    BY <1>9, <2>3, <2>4, <2>5 DEF FramesOK
<1>12. QED
  BY <1>10, <1>11

\* Deleting the tables of a process frees frames of its own only.
LEMMA DestroyFrames ==
  ASSUME PagingInv, DestroyProcess
  PROVE  FramesOK'
<1> DEFINE id == page_table[Head(requests).proc]
<1>1. Exists(lvl1, id) /\ DeleteTables(id) /\ frames' = frames \ FreedWith(id) /\ cpu' = cpu
  BY EndProcess DEF DestroyProcess, cpuVars
<1> HIDE DEF id
<1> DEFINE own(i) == \E k \in Indexes : lvl1[id][k] = i
<1>2. \A f \in Frames, i \in Nat, j \in Indexes : Has(lvl2', i, j, f) <=> Has(lvl2, i, j, f) /\ ~own(i)
  BY <1>1, DeletedRows
<1>3. \A f \in FreedWith(id) : \E k, j \in Indexes : Has(lvl2, lvl1[id][k], j, f) /\ lvl1[id][k] \in Nat
  <2>1. \A k \in Indexes : Exists(lvl2, lvl1[id][k]) /\ lvl1[id][k] \in Nat
    BY <1>1, IdsAreNumbers
  <2>2. QED
    BY <2>1 DEF FreedWith, Has
<1>4. ASSUME MaxFrames >= Entries, NEW f \in Frames, NEW i \in Nat, NEW j \in Indexes, Has(lvl2, i, j, f), own(i)
      PROVE  f \in FreedWith(id)
  <2>1. PICK k \in Indexes : lvl1[id][k] = i
    BY <1>4
  <2>2. j < MaxFrames
    BY <1>4, IndexFacts, PagingAssumption DEF Indexes
  <2>3. f = lvl2[lvl1[id][k]][j].frame
    BY <1>4, <2>1 DEF Has
  <2>4. QED
    BY <2>2, <2>3 DEF FreedWith
<1>5. frames \subseteq Frames /\ NoFrame \notin Frames
  BY FrameFacts DEF PagingInv, PagingTypeOK, MemoryTypeOK
<1>6. /\ \A f \in Frames, i, i2 \in Nat, y, y2 \in Indexes :
           Has(lvl2, i, y, f) /\ Has(lvl2, i2, y2, f) => i = i2 /\ y = y2
      /\ \A f \in Frames, i \in Nat, y \in Indexes : Has(lvl2, i, y, f) => f \in frames
      /\ cpu.pc = "fill" /\ cpu.frame # NoFrame =>
           cpu.frame \in frames /\ \A i \in Nat, y \in Indexes : ~Has(lvl2, i, y, cpu.frame)
      /\ MaxFrames >= Entries =>
           \A f \in frames : \/ \E i \in Nat, y \in Indexes : Has(lvl2, i, y, f)
                             \/ cpu.pc = "fill" /\ cpu.frame = f
  BY DEF PagingInv, FramesOK, ExclusiveOK, MarkedOK, ReservedOK, AccountedOK
<1>7. ExclusiveOK'
  BY <1>2, <1>6 DEF ExclusiveOK
<1>8. MarkedOK'
  <2>1. ASSUME NEW f \in Frames, NEW i \in Nat, NEW j \in Indexes, Has(lvl2', i, j, f)
        PROVE  f \in frames /\ f \notin FreedWith(id)
    <3>1. Has(lvl2, i, j, f) /\ ~own(i)
      BY <1>2, <2>1
    <3>2. ASSUME f \in FreedWith(id) PROVE FALSE
      <4>1. PICK k \in Indexes, y \in Indexes : Has(lvl2, lvl1[id][k], y, f) /\ lvl1[id][k] \in Nat
        BY <1>3, <3>2
      <4>2. lvl1[id][k] = i
        BY <1>6, <3>1, <4>1
      <4>3. QED
        BY <3>1, <4>2
    <3>3. QED
      BY <1>6, <3>1, <3>2
  <2>2. QED
    BY <1>1, <2>1 DEF MarkedOK
<1>9. ReservedOK'
  <2>1. ASSUME cpu.pc = "fill", cpu.frame # NoFrame
        PROVE  cpu.frame \in frames /\ cpu.frame \notin FreedWith(id) /\ cpu.frame \in Frames
    BY <1>3, <1>5, <1>6, <2>1
  <2> HIDE DEF own
  <2>2. QED
    BY <1>1, <1>2, <1>6, <2>1 DEF ReservedOK
<1>10. AccountedOK'
  <2>1. ASSUME MaxFrames >= Entries, NEW f \in frames, f \notin FreedWith(id)
        PROVE  (\E i \in Nat, y \in Indexes : Has(lvl2', i, y, f)) \/ (cpu.pc = "fill" /\ cpu.frame = f)
    <3>1. f \in Frames
      BY <1>5
    <3>2. ASSUME NEW i \in Nat, NEW y \in Indexes, Has(lvl2, i, y, f)
          PROVE  Has(lvl2', i, y, f)
      <4>1. ~own(i)
        BY <1>4, <2>1, <3>1, <3>2
      <4>2. QED
        BY <1>2, <3>1, <3>2, <4>1
    <3>3. QED
      BY <1>6, <2>1, <3>2
  <2>2. QED
    BY <1>1, <2>1 DEF AccountedOK
<1>11. QED
  BY <1>7, <1>8, <1>9, <1>10 DEF FramesOK

\* Every step keeps frames exclusive and accounted for.
LEMMA FramesStep ==
  ASSUME PagingInv, [Next]_vars
  PROVE  FramesOK'
<1>1. ASSUME NEW p \in Procs, Admit(p) PROVE FramesOK'
  <2>1. frames' = frames /\ (cpu'.pc = "fill" <=> cpu.pc = "fill") /\ (cpu.pc = "fill" => cpu'.frame = cpu.frame)
    BY <1>1 DEF Admit, Leave, CpuThread, Idle, memoryVars, cpuVars, vars, PagingInv, PagingTypeOK, CpuTypeOK, CpuState
  <2>2. SameFrames(lvl2, lvl2')
    BY <1>1 DEF Admit, Leave, memoryVars, vars, SameFrames
  <2>3. QED
    BY <2>1, <2>2, FramesKept DEF SameFrames
<1>2. ASSUME NEW p \in Procs, Dispatch(p) PROVE FramesOK'
  <2>1. frames' = frames /\ (cpu'.pc = "fill" <=> cpu.pc = "fill") /\ (cpu.pc = "fill" => cpu'.frame = cpu.frame)
    BY <1>2 DEF Dispatch, Leave, CpuThread, Idle, memoryVars, cpuVars, vars, PagingInv, PagingTypeOK, CpuTypeOK, CpuState
  <2>2. SameFrames(lvl2, lvl2')
    BY <1>2 DEF Dispatch, Leave, memoryVars, vars, SameFrames
  <2>3. QED
    BY <2>1, <2>2, FramesKept DEF SameFrames
<1>3. CASE MemoryInit
  <2>1. frames' = frames /\ cpu' = cpu
    BY <1>3 DEF MemoryInit, cpuVars
  <2>2. \A f \in Frames, i \in Nat, j \in Indexes : Has(lvl2', i, j, f) <=> Has(lvl2, i, j, f)
    BY <1>3, InitRows
  <2>3. QED
    BY <2>1, <2>2, FramesKept
<1>4. CASE DestroyProcess
  BY <1>4, DestroyFrames
<1>5. CASE LeaveForNow
  <2>1. frames' = frames /\ (cpu'.pc = "fill" <=> cpu.pc = "fill") /\ (cpu.pc = "fill" => cpu'.frame = cpu.frame)
    BY <1>5 DEF LeaveForNow, Leave, CpuThread, Idle, memoryVars, cpuVars, vars, PagingInv, PagingTypeOK, CpuTypeOK, CpuState
  <2>2. SameFrames(lvl2, lvl2')
    BY <1>5 DEF LeaveForNow, Leave, memoryVars, vars, SameFrames
  <2>3. QED
    BY <2>1, <2>2, FramesKept DEF SameFrames
<1>7. CASE LeaveForGood
  <2>1. frames' = frames /\ (cpu'.pc = "fill" <=> cpu.pc = "fill") /\ (cpu.pc = "fill" => cpu'.frame = cpu.frame)
    BY <1>7 DEF LeaveForGood, Leave, CpuThread, Idle, memoryVars, cpuVars, vars, PagingInv, PagingTypeOK, CpuTypeOK, CpuState
  <2>2. SameFrames(lvl2, lvl2')
    BY <1>7 DEF LeaveForGood, Leave, memoryVars, vars, SameFrames
  <2>3. QED
    BY <2>1, <2>2, FramesKept DEF SameFrames
<1>8. ASSUME NEW n \in Accessed, Translate(n) PROVE FramesOK'
  <2>1. frames' = frames /\ (cpu'.pc = "fill" <=> cpu.pc = "fill") /\ (cpu.pc = "fill" => cpu'.frame = cpu.frame)
    BY <1>8 DEF Translate, Leave, CpuThread, Idle, memoryVars, cpuVars, vars, PagingInv, PagingTypeOK, CpuTypeOK, CpuState
  <2>2. SameFrames(lvl2, lvl2')
    BY <1>8 DEF Translate, Leave, memoryVars, vars, SameFrames
  <2>3. QED
    BY <2>1, <2>2, FramesKept DEF SameFrames
<1>9. CASE TlbReplace
  <2>1. frames' = frames /\ (cpu'.pc = "fill" <=> cpu.pc = "fill") /\ (cpu.pc = "fill" => cpu'.frame = cpu.frame)
    BY <1>9 DEF TlbReplace, Leave, CpuThread, Idle, memoryVars, cpuVars, vars, PagingInv, PagingTypeOK, CpuTypeOK, CpuState
  <2>2. SameFrames(lvl2, lvl2')
    BY <1>9 DEF TlbReplace, Leave, memoryVars, vars, SameFrames
  <2>3. QED
    BY <2>1, <2>2, FramesKept DEF SameFrames
<1>10. CASE FramePresent
  <2>1. frames' = frames /\ (cpu'.pc = "fill" <=> cpu.pc = "fill") /\ (cpu.pc = "fill" => cpu'.frame = cpu.frame)
    BY <1>10 DEF FramePresent, Leave, CpuThread, Idle, memoryVars, cpuVars, vars, PagingInv, PagingTypeOK, CpuTypeOK, CpuState
  <2>2. SameFrames(lvl2, lvl2')
    BY <1>10 DEF FramePresent, Leave, memoryVars, vars, SameFrames
  <2>3. QED
    BY <2>1, <2>2, FramesKept DEF SameFrames
<1>11. CASE FrameFault
  BY <1>11, FaultFrames
<1>12. CASE FrameFill
  BY <1>12, FillFrames
<1>13. CASE Read
  <2>1. frames' = frames /\ (cpu'.pc = "fill" <=> cpu.pc = "fill") /\ (cpu.pc = "fill" => cpu'.frame = cpu.frame)
    BY <1>13 DEF Read, Leave, CpuThread, Idle, memoryVars, cpuVars, vars, PagingInv, PagingTypeOK, CpuTypeOK, CpuState
  <2>2. SameFrames(lvl2, lvl2')
    <3>1. PICK f \in {cpu.frame, write.frame}, b \in BOOLEAN : SetModified(f, b)
      BY <1>13 DEF Read
    <3>2. PagingTypeOK
      BY DEF PagingInv
    <3>3. /\ \A i \in Nat : Exists(lvl2', i) <=> Exists(lvl2, i)
          /\ \A i \in Nat, j \in Indexes : Exists(lvl2, i) => lvl2'[i][j].frame = lvl2[i][j].frame
      BY <3>1, <3>2, SetModifiedRows
    <3>4. QED
      BY <3>3, SameRows
  <2>3. QED
    BY <2>1, <2>2, FramesKept DEF SameFrames
<1>14. CASE SendWrite
  <2>1. frames' = frames /\ (cpu'.pc = "fill" <=> cpu.pc = "fill") /\ (cpu.pc = "fill" => cpu'.frame = cpu.frame)
    BY <1>14 DEF SendWrite, Leave, CpuThread, Idle, memoryVars, cpuVars, vars, PagingInv, PagingTypeOK, CpuTypeOK, CpuState
  <2>2. SameFrames(lvl2, lvl2')
    BY <1>14 DEF SendWrite, Leave, memoryVars, vars, SameFrames
  <2>3. QED
    BY <2>1, <2>2, FramesKept DEF SameFrames
<1>15. CASE Write
  <2>1. frames' = frames /\ (cpu'.pc = "fill" <=> cpu.pc = "fill") /\ (cpu.pc = "fill" => cpu'.frame = cpu.frame)
    BY <1>15 DEF Write, Leave, CpuThread, Idle, memoryVars, cpuVars, vars, PagingInv, PagingTypeOK, CpuTypeOK, CpuState
  <2>2. SameFrames(lvl2, lvl2')
    <3>1. PICK f \in {cpu.frame, write.frame}, b \in BOOLEAN : SetModified(f, b)
      BY <1>15 DEF Write
    <3>2. PagingTypeOK
      BY DEF PagingInv
    <3>3. /\ \A i \in Nat : Exists(lvl2', i) <=> Exists(lvl2, i)
          /\ \A i \in Nat, j \in Indexes : Exists(lvl2, i) => lvl2'[i][j].frame = lvl2[i][j].frame
      BY <3>1, <3>2, SetModifiedRows
    <3>4. QED
      BY <3>3, SameRows
  <2>3. QED
    BY <2>1, <2>2, FramesKept DEF SameFrames
<1>16. CASE UNCHANGED vars
  <2>1. frames' = frames /\ (cpu'.pc = "fill" <=> cpu.pc = "fill") /\ (cpu.pc = "fill" => cpu'.frame = cpu.frame)
    BY <1>16 DEF vars, Leave, CpuThread, Idle, memoryVars, cpuVars, vars, PagingInv, PagingTypeOK, CpuTypeOK, CpuState
  <2>2. SameFrames(lvl2, lvl2')
    BY <1>16 DEF vars, Leave, memoryVars, vars, SameFrames
  <2>3. QED
    BY <2>1, <2>2, FramesKept DEF SameFrames
<1>17. QED
  BY <1>1, <1>2, <1>3, <1>4, <1>5, <1>7, <1>8, <1>9, <1>10, <1>11, <1>12, <1>13, <1>14, <1>15, <1>16 DEF Next

-----------------------------------------------------------------------------
(* Who has which frame.                                                    *)

\* The tables of the processes that live, as pairs of ids.
LEMMA LiveTables ==
  ASSUME PagingInv, NEW p \in Live, NEW k \in Indexes
  PROVE  /\ p \in Procs /\ Exists(lvl1, page_table[p]) /\ page_table[p] \in DOMAIN lvl1 /\ page_table[p] \in Nat
         /\ lvl1[page_table[p]][k] \in Nat /\ Exists(lvl2, lvl1[page_table[p]][k])
<1>1. p \in Procs /\ Exists(lvl1, page_table[p])
  BY DEF PagingInv, OwnTablesOK, Live
<1>2. QED
  BY <1>1, IdsAreNumbers

\* A second level table belongs to one process.
LEMMA LiveDistinct ==
  ASSUME PagingInv, NEW p \in Live, NEW q \in Live, NEW k \in Indexes, NEW k2 \in Indexes,
         lvl1[page_table[p]][k] = lvl1[page_table[q]][k2]
  PROVE  p = q /\ k = k2
<1>1. Exists(lvl1, page_table[p]) /\ Exists(lvl1, page_table[q])
  BY DEF PagingInv, OwnTablesOK
<1>2. page_table[p] = page_table[q] /\ k = k2
  BY <1>1, IdsDistinct
<1>3. QED
  BY <1>2 DEF PagingInv, OwnTablesOK

\* Except at the end of a page fault no process gets a frame.
LEMMA HeldBefore ==
  ASSUME PagingInv, [Next]_vars, ~FrameFill
  PROVE  \A p \in Live', k, j \in Indexes, f \in Frames :
           Has(lvl2', lvl1'[page_table'[p]][k], j, f) => p \in Live /\ Has(lvl2, lvl1[page_table[p]][k], j, f)
<1>1. CASE ~MemoryInit /\ ~DestroyProcess
  <2>1. lvl1' = lvl1 /\ page_table' = page_table /\ Live' \subseteq Live /\ SameFrames(lvl2, lvl2')
    BY <1>1, TablesFrame
  <2>2. QED
    BY <2>1, LiveTables DEF SameFrames
<1>2. CASE MemoryInit
  <2> DEFINE id == FindId(lvl1)
             q == Head(requests).proc
  <2>1. /\ ~Exists(lvl1, id) /\ lvl1'[id] = NewIds
        /\ \A i \in DOMAIN lvl1 : i # id => lvl1'[i] = lvl1[i]
        /\ \A k \in Indexes : ~Exists(lvl2, NewIds[k])
        /\ \A f \in Frames, i \in Nat, j \in Indexes : Has(lvl2', i, j, f) <=> Has(lvl2, i, j, f)
    BY <1>2, InitRows
  <2>2. q \in Procs /\ \A r \in Live' : r \in Live \/ r = q
    BY <1>2, LiveInit
  <2>3. page_table' = [page_table EXCEPT ![q] = id] /\ page_table \in [Procs -> Nat]
    BY <1>2 DEF MemoryInit, PagingInv, PagingTypeOK, KernelTypeOK
  <2>4. \A k \in Indexes : NewIds[k] \in Nat
    BY DEF NewIds, Indexes, PagingInv, PagingTypeOK, MemoryTypeOK
  <2> HIDE DEF id, q
  <2>5. ASSUME NEW p \in Live', NEW k \in Indexes, NEW j \in Indexes, NEW f \in Frames,
               Has(lvl2', lvl1'[page_table'[p]][k], j, f)
        PROVE  p \in Live /\ Has(lvl2, lvl1[page_table[p]][k], j, f)
    <3>1. CASE p = q
      <4>1. Has(lvl2', NewIds[k], j, f)
        BY <2>1, <2>2, <2>3, <2>5, <3>1
      <4>2. Has(lvl2, NewIds[k], j, f)
        BY <2>1, <2>4, <4>1
      <4>3. QED
        BY <2>1, <4>2 DEF Has
    <3>2. CASE p # q
      <4>1. p \in Live
        BY <2>2, <3>2
      <4>2. Exists(lvl1, page_table[p]) /\ page_table[p] \in DOMAIN lvl1 /\ lvl1[page_table[p]][k] \in Nat /\ p \in Procs
        BY <4>1, LiveTables
      <4>3. page_table'[p] = page_table[p] /\ lvl1'[page_table[p]] = lvl1[page_table[p]]
        BY <2>1, <2>3, <3>2, <4>2
      <4>4. QED
        BY <2>1, <2>5, <4>1, <4>2, <4>3
    <3>3. QED
      BY <3>1, <3>2
  <2>6. QED
    BY <2>5
<1>3. CASE DestroyProcess
  <2> DEFINE q == Head(requests).proc
             id == page_table[q]
  <2>1. Exists(lvl1, id) /\ DeleteTables(id) /\ page_table' = page_table /\ q \in Live
    BY <1>3, EndProcess DEF DestroyProcess
  <2>2. Live' \subseteq Live /\ q \notin Live'
    BY <1>3, LiveDestroy
  <2>3. /\ \A i \in DOMAIN lvl1 : i # id => lvl1'[i] = lvl1[i]
        /\ \A f \in Frames, i \in Nat, j \in Indexes : Has(lvl2', i, j, f) => Has(lvl2, i, j, f)
    <3> HIDE DEF id
    <3>1. QED
      BY <2>1, DeletedRows
  <2> HIDE DEF q
  <2>4. ASSUME NEW p \in Live', NEW k \in Indexes, NEW j \in Indexes, NEW f \in Frames,
               Has(lvl2', lvl1'[page_table'[p]][k], j, f)
        PROVE  p \in Live /\ Has(lvl2, lvl1[page_table[p]][k], j, f)
    <3>1. p \in Live /\ page_table[p] # id
      BY <2>1, <2>2 DEF PagingInv, OwnTablesOK
    <3>2. page_table[p] \in DOMAIN lvl1 /\ lvl1[page_table[p]][k] \in Nat
      BY <3>1, LiveTables
    <3>3. QED
      BY <2>1, <2>3, <2>4, <3>1, <3>2
  <2>5. QED
    BY <2>4
<1>4. QED
  BY <1>1, <1>2, <1>3

AllowedNext(f, q) == AllowedIn(Live', page_table', lvl1', lvl2', f, q)

\* A frame number that a process may hold stays one, but when a page fault ends.
LEMMA AllowedKept ==
  ASSUME PagingInv, [Next]_vars, ~FrameFill, NEW f \in FrameIds, NEW q, Allowed(f, q)
  PROVE  AllowedNext(f, q)
<1>1. CASE f = NoFrame
  BY <1>1 DEF AllowedNext, AllowedIn
<1>2. CASE f # NoFrame
  <2>1. f \in Frames
    BY <1>2 DEF FrameIds
  <2>2. ASSUME NEW p \in Live', NEW k \in Indexes, NEW j \in Indexes, Has(lvl2', lvl1'[page_table'[p]][k], j, f)
        PROVE  p = q
    <3>1. p \in Live /\ Has(lvl2, lvl1[page_table[p]][k], j, f)
      BY <2>1, <2>2, HeldBefore
    <3>2. QED
      BY <1>2, <3>1 DEF Allowed, AllowedIn
  <2>3. QED
    BY <2>2 DEF AllowedNext, AllowedIn
<1>3. QED
  BY <1>1, <1>2

\* The end of a page fault gives a frame to the process in the CPU only.
LEMMA AllowedFill ==
  ASSUME PagingInv, FrameFill, NEW f \in FrameIds, Allowed(f, cur)
  PROVE  AllowedNext(f, cur)
<1>1. PICK k \in Indexes, j \in Indexes :
        LET x == lvl1[page_table[cur]][k]
        IN  /\ Exists(lvl2, x) /\ x \in Nat /\ lvl2[x][j] \in Rows
            /\ \A i \in Nat, y \in Indexes, g \in FrameIds :
                 Has(lvl2', i, y, g) <=> IF i = x /\ y = j THEN g = Granted(lvl2[x][j]) ELSE Has(lvl2, i, y, g)
  BY FillRows
<1>2. lvl1' = lvl1 /\ page_table' = page_table /\ requests' = requests /\ stage' = stage
  BY DEF FrameFill, CpuThread, kernelVars
<1>3. Live' = Live
  BY <1>2, LiveKept
<1>4. cur \in Live
  <2>1. cur # NoProc
    BY DEF FrameFill, CpuThread, PagingInv, RequestsOK
  <2>2. QED
    BY <2>1, CurTable DEF PagingInv
<1> DEFINE x == lvl1[page_table[cur]][k]
<1>5. ASSUME NEW p \in Live, NEW k2 \in Indexes, NEW y \in Indexes, f # NoFrame,
             Has(lvl2', lvl1[page_table[p]][k2], y, f)
      PROVE  p = cur
  <2>1. lvl1[page_table[p]][k2] \in Nat
    BY LiveTables
  <2>2. CASE lvl1[page_table[p]][k2] = x
    BY <1>4, <2>2, LiveDistinct
  <2>3. CASE lvl1[page_table[p]][k2] # x
    <3>1. Has(lvl2, lvl1[page_table[p]][k2], y, f)
      BY <1>1, <1>5, <2>1, <2>3
    <3>2. QED
      BY <1>5, <3>1 DEF Allowed, AllowedIn
  <2>4. QED
    BY <2>2, <2>3
<1>6. QED
  BY <1>2, <1>3, <1>5 DEF AllowedNext, AllowedIn

\* Any process may hold NoFrame.
LEMMA AllowedNothing ==
  ASSUME NEW q
  PROVE  Allowed(NoFrame, q)
BY DEF Allowed, AllowedIn

\* A frame in a table of the process in the CPU is in no other process' tables.
LEMMA AllowedOwn ==
  ASSUME PagingInv, cur \in Live, NEW k \in Indexes, NEW j \in Indexes, NEW f \in FrameIds,
         lvl2[lvl1[page_table[cur]][k]][j].frame = f
  PROVE  Allowed(f, cur)
<1>1. CASE f = NoFrame
  BY <1>1, AllowedNothing
<1>2. CASE f # NoFrame
  <2>1. f \in Frames
    BY <1>2 DEF FrameIds
  <2> DEFINE x == lvl1[page_table[cur]][k]
  <2>2. x \in Nat /\ Has(lvl2, x, j, f)
    BY LiveTables DEF Has
  <2>3. ASSUME NEW p \in Live, NEW k2 \in Indexes, NEW y \in Indexes, Has(lvl2, lvl1[page_table[p]][k2], y, f)
        PROVE  p = cur
    <3>1. lvl1[page_table[p]][k2] \in Nat
      BY LiveTables
    <3>2. lvl1[page_table[p]][k2] = x
      <4> HIDE DEF x
      <4>1. QED
        BY <2>1, <2>2, <2>3, <3>1 DEF PagingInv, FramesOK, ExclusiveOK
    <3>3. QED
      BY <3>2, LiveDistinct
  <2>4. QED
    BY <2>3 DEF Allowed, AllowedIn
<1>3. QED
  BY <1>1, <1>2

\* What HoldersOK says of each place that holds a frame number.
LEMMA HolderTypes ==
  ASSUME PagingInv
  PROVE  /\ \A i \in 1 .. TlbSize : tlb[i].frame \in FrameIds /\ Allowed(tlb[i].frame, cur)
         /\ cpu.frame \in FrameIds /\ write.frame \in FrameIds
         /\ cpu.pc \in {"answer", "access"} => Allowed(cpu.frame, cur)
         /\ write # NoWrite => Allowed(write.frame, write.proc)
         /\ cpu.pc = "fill" => write = NoWrite
<1>1. \A i \in 1 .. TlbSize : tlb[i] \in TlbEntry
  BY DEF PagingInv, PagingTypeOK, CpuTypeOK
<1>2. \A i \in 1 .. TlbSize : tlb[i].frame \in FrameIds
  BY <1>1 DEF TlbEntry
<1>3. cpu.frame \in FrameIds /\ write.frame \in FrameIds
  BY DEF PagingInv, PagingTypeOK, CpuTypeOK, CpuState, WriteState
<1>4. QED
  BY <1>2, <1>3 DEF PagingInv, HoldersOK

\* The three parts of HoldersOK' when what the CPU and memory hold is known.
LEMMA HoldersNext ==
  ASSUME \A i \in 1 .. TlbSize : AllowedNext(tlb'[i].frame, cur'),
         cpu'.pc \in {"answer", "access"} => AllowedNext(cpu'.frame, cur'),
         write' # NoWrite => AllowedNext(write'.frame, write'.proc),
         cpu'.pc = "fill" => write' = NoWrite
  PROVE  HoldersOK'
BY DEF HoldersOK, Allowed, AllowedNext

\* The write that is on its way stays allowed.
LEMMA WriteKept ==
  ASSUME PagingInv, [Next]_vars, write' = write
  PROVE  write' # NoWrite => AllowedNext(write'.frame, write'.proc)
<1>1. SUFFICES ASSUME write # NoWrite PROVE AllowedNext(write.frame, write.proc)
  OBVIOUS
<1>2. ~FrameFill
  BY <1>1, HolderTypes DEF FrameFill, CpuThread
<1>3. Allowed(write.frame, write.proc) /\ write.frame \in FrameIds
  BY <1>1, HolderTypes
<1>4. QED
  BY <1>2, <1>3, AllowedKept

\* A TLB that is left as it is keeps frames its process may hold.
LEMMA TlbKept ==
  ASSUME PagingInv, [Next]_vars, tlb' = tlb, cur' = cur
  PROVE  \A i \in 1 .. TlbSize : AllowedNext(tlb'[i].frame, cur')
<1>1. SUFFICES ASSUME NEW i \in 1 .. TlbSize PROVE AllowedNext(tlb[i].frame, cur)
  OBVIOUS
<1>2. Allowed(tlb[i].frame, cur) /\ tlb[i].frame \in FrameIds
  BY HolderTypes
<1>3. CASE FrameFill
  BY <1>2, <1>3, AllowedFill
<1>4. CASE ~FrameFill
  BY <1>2, <1>4, AllowedKept
<1>5. QED
  BY <1>3, <1>4

\* Every step leaves frame numbers only where they may be held.
LEMMA HoldersStep ==
  ASSUME PagingInv, [Next]_vars
  PROVE  HoldersOK'
<1>1. ASSUME NEW p \in Procs, Admit(p) PROVE HoldersOK'
  <2>1. tlb' = tlb /\ cur' = cur /\ cpu' = cpu /\ write' = write
    BY <1>1 DEF Admit, cpuVars, vars
  <2>2. cpu.pc # "fill" => ~FrameFill
    BY DEF FrameFill, CpuThread
  <2>3. cpu.pc \in {"answer", "access"} => AllowedNext(cpu.frame, cur)
    BY <2>2, HolderTypes, AllowedKept
  <2>4. cpu'.pc = "fill" => write' = NoWrite
    BY <2>1, HolderTypes
  <2>5. QED
    BY <2>1, <2>3, <2>4, TlbKept, WriteKept, HoldersNext
<1>2. ASSUME NEW p \in Procs, Dispatch(p) PROVE HoldersOK'
  <2>1. cur = NoProc /\ cur' = p /\ tlb' = tlb /\ cpu' = cpu /\ write' = write
    BY <1>2 DEF Dispatch
  <2>2. cpu.pc = "run"
    BY <2>1 DEF PagingInv, RequestsOK
  <2>3. ~FrameFill
    BY <2>2 DEF FrameFill, CpuThread
  <2>4. ASSUME NEW i \in 1 .. TlbSize PROVE AllowedNext(tlb[i].frame, p)
    <3>1. NoProc \notin Live
      BY PagingAssumption DEF Live
    <3>2. Allowed(tlb[i].frame, p) /\ tlb[i].frame \in FrameIds
      BY <2>1, <3>1, HolderTypes DEF Allowed, AllowedIn
    <3>3. QED
      BY <2>3, <3>2, AllowedKept
  <2>5. QED
    BY <2>1, <2>2, <2>4, WriteKept, HoldersNext
<1>3. CASE MemoryInit
  <2>1. tlb' = tlb /\ cur' = cur /\ cpu' = cpu /\ write' = write
    BY <1>3 DEF MemoryInit, cpuVars, vars
  <2>2. cpu.pc # "fill" => ~FrameFill
    BY DEF FrameFill, CpuThread
  <2>3. cpu.pc \in {"answer", "access"} => AllowedNext(cpu.frame, cur)
    BY <2>2, HolderTypes, AllowedKept
  <2>4. cpu'.pc = "fill" => write' = NoWrite
    BY <2>1, HolderTypes
  <2>5. QED
    BY <2>1, <2>3, <2>4, TlbKept, WriteKept, HoldersNext
<1>4. CASE DestroyProcess
  <2>1. tlb' = tlb /\ cur' = cur /\ cpu' = cpu /\ write' = write
    BY <1>4 DEF DestroyProcess, cpuVars, vars
  <2>2. cpu.pc # "fill" => ~FrameFill
    BY DEF FrameFill, CpuThread
  <2>3. cpu.pc \in {"answer", "access"} => AllowedNext(cpu.frame, cur)
    BY <2>2, HolderTypes, AllowedKept
  <2>4. cpu'.pc = "fill" => write' = NoWrite
    BY <2>1, HolderTypes
  <2>5. QED
    BY <2>1, <2>3, <2>4, TlbKept, WriteKept, HoldersNext
<1>5. CASE LeaveForNow
  <2>1. cur' = NoProc /\ cpu.pc = "run" /\ cpu' = cpu /\ write' = write /\ tlb' = TlbReset
    BY <1>5 DEF LeaveForNow, Leave
  <2>2. ~FrameFill
    BY <2>1 DEF FrameFill, CpuThread
  <2>3. \A i \in 1 .. TlbSize : AllowedNext(tlb'[i].frame, cur')
    BY <2>1, ResetFrames DEF AllowedNext, AllowedIn
  <2>4. QED
    BY <2>1, <2>3, WriteKept, HoldersNext
<1>7. CASE LeaveForGood
  <2>1. cur' = NoProc /\ cpu.pc = "run" /\ cpu' = cpu /\ write' = write /\ tlb' = TlbReset
    BY <1>7 DEF LeaveForGood, Leave
  <2>2. ~FrameFill
    BY <2>1 DEF FrameFill, CpuThread
  <2>3. \A i \in 1 .. TlbSize : AllowedNext(tlb'[i].frame, cur')
    BY <2>1, ResetFrames DEF AllowedNext, AllowedIn
  <2>4. QED
    BY <2>1, <2>3, WriteKept, HoldersNext
<1>8. ASSUME NEW n \in Accessed, Translate(n) PROVE HoldersOK'
  <2>1. /\ cur' = cur /\ write' = write /\ tlb' = TlbLookup(n).tlb /\ cpu'.frame = TlbLookup(n).frame
        /\ cpu'.pc # "fill" /\ cpu.pc = "run"
    BY <1>8 DEF Translate
  <2>2. ~FrameFill
    BY <2>1 DEF FrameFill, CpuThread
  <2>3. /\ \A i \in 1 .. TlbSize : TlbLookup(n).tlb[i].frame = tlb[i].frame
        /\ \/ TlbLookup(n).frame = NoFrame
           \/ \E i \in 1 .. TlbSize : TlbLookup(n).frame = tlb[i].frame
    BY LookupFrames DEF PagingInv, PagingTypeOK
  <2>4. \A i \in 1 .. TlbSize : AllowedNext(tlb[i].frame, cur)
    BY <2>2, HolderTypes, AllowedKept
  <2>5. AllowedNext(TlbLookup(n).frame, cur)
    BY <2>3, <2>4 DEF AllowedNext, AllowedIn
  <2>6. QED
    BY <2>1, <2>3, <2>4, <2>5, WriteKept, HoldersNext
<1>9. CASE TlbReplace
  <2>1. cur' = cur /\ write' = write /\ cpu'.frame = cpu.frame /\ cpu'.pc = "access" /\ cpu.pc = "answer"
    BY <1>9 DEF TlbReplace, PagingInv, PagingTypeOK, CpuTypeOK, CpuState
  <2>2. ~FrameFill
    BY <2>1 DEF FrameFill, CpuThread
  <2>3. \A i \in 1 .. TlbSize : tlb'[i].frame \in {cpu.frame, tlb[i].frame}
    BY <1>9, ReplaceFrames DEF PagingInv, PagingTypeOK
  <2>4. AllowedNext(cpu.frame, cur) /\ \A i \in 1 .. TlbSize : AllowedNext(tlb[i].frame, cur)
    BY <2>1, <2>2, HolderTypes, AllowedKept
  <2>5. \A i \in 1 .. TlbSize : AllowedNext(tlb'[i].frame, cur')
    BY <2>1, <2>3, <2>4
  <2>6. QED
    BY <2>1, <2>4, <2>5, WriteKept, HoldersNext
<1>10. CASE FramePresent
  <2>1. /\ cur' = cur /\ write' = write /\ tlb' = tlb /\ cpu'.frame = RowOf(cpu.page).frame
        /\ cpu'.pc = "answer" /\ cpu.pc = "frame" /\ cpu.page \in Pages
    BY <1>10 DEF FramePresent, CpuThread, PagingInv, PagingTypeOK, CpuTypeOK, CpuState
  <2>2. ~FrameFill
    BY <2>1 DEF FrameFill, CpuThread
  <2>3. cur # NoProc
    BY <2>1 DEF PagingInv, RequestsOK
  <2>4. /\ cur \in Live /\ cpu.page % Entries \in Indexes /\ RowOf(cpu.page) \in Rows
        /\ \E k \in Indexes : TableOf(cpu.page) = lvl1[page_table[cur]][k]
    BY <2>1, <2>3, TableOfPage, CurTable DEF PagingInv
  <2>5. RowOf(cpu.page).frame \in FrameIds
    BY <2>4 DEF Rows
  <2>6. Allowed(RowOf(cpu.page).frame, cur)
    <3> DEFINE j == cpu.page % Entries
               f == RowOf(cpu.page).frame
    <3>1. PICK k \in Indexes : lvl2[lvl1[page_table[cur]][k]][j].frame = f
      BY <2>4 DEF RowOf
    <3>2. j \in Indexes /\ f \in FrameIds
      BY <2>4, <2>5
    <3> HIDE DEF j, f
    <3>3. Allowed(f, cur)
      BY <2>4, <3>1, <3>2, AllowedOwn
    <3>4. QED
      BY <3>3 DEF f
  <2>7. AllowedNext(RowOf(cpu.page).frame, cur)
    BY <2>2, <2>5, <2>6, AllowedKept
  <2>8. QED
    BY <2>1, <2>7, TlbKept, WriteKept, HoldersNext
<1>11. CASE FrameFault
  <2>1. cur' = cur /\ write' = write /\ tlb' = tlb /\ cpu'.pc = "fill" /\ write = NoWrite
    BY <1>11 DEF FrameFault, CpuThread, PagingInv, PagingTypeOK, CpuTypeOK, CpuState
  <2>2. QED
    BY <2>1, TlbKept, WriteKept, HoldersNext
<1>12. CASE FrameFill
  <2>1. cur' = cur /\ write' = write /\ tlb' = tlb /\ cpu'.pc = "answer" /\ cpu'.frame = cpu.frame /\ cpu.pc = "fill"
    BY <1>12 DEF FrameFill, CpuThread, PagingInv, PagingTypeOK, CpuTypeOK, CpuState
  <2>2. Allowed(cpu.frame, cur)
    <3>1. ASSUME cpu.frame # NoFrame, NEW p \in Live, NEW k \in Indexes, NEW j \in Indexes
          PROVE  ~Has(lvl2, lvl1[page_table[p]][k], j, cpu.frame)
      <4>1. lvl1[page_table[p]][k] \in Nat
        BY LiveTables
      <4>2. QED
        BY <2>1, <3>1, <4>1 DEF PagingInv, FramesOK, ReservedOK
    <3>2. QED
      BY <3>1 DEF Allowed, AllowedIn
  <2>3. AllowedNext(cpu.frame, cur)
    BY <1>12, <2>2, HolderTypes, AllowedFill
  <2>4. QED
    BY <2>1, <2>3, TlbKept, WriteKept, HoldersNext
<1>13. CASE Read
  <2>1. cur' = cur /\ write' = write /\ tlb' = tlb /\ cpu'.pc = "run"
    BY <1>13 DEF Read, CpuThread, Idle
  <2>2. QED
    BY <2>1, TlbKept, WriteKept, HoldersNext
<1>14. CASE SendWrite
  <2>1. cur' = cur /\ write' = [proc |-> cur, frame |-> cpu.frame] /\ tlb' = tlb /\ cpu'.pc = "run" /\ cpu.pc = "access"
    BY <1>14 DEF SendWrite, CpuThread, Idle
  <2>2. ~FrameFill
    BY <2>1 DEF FrameFill, CpuThread
  <2>3. AllowedNext(cpu.frame, cur)
    BY <2>1, <2>2, HolderTypes, AllowedKept
  <2>4. write'.frame = cpu.frame /\ write'.proc = cur
    BY <2>1
  <2>5. QED
    BY <2>1, <2>3, <2>4, TlbKept, HoldersNext
<1>15. CASE Write
  <2>1. cur' = cur /\ write' = NoWrite /\ tlb' = tlb /\ cpu' = cpu
    BY <1>15 DEF Write, cpuVars
  <2>2. cpu.pc # "fill" => ~FrameFill
    BY DEF FrameFill, CpuThread
  <2>3. cpu.pc \in {"answer", "access"} => AllowedNext(cpu.frame, cur)
    BY <2>2, HolderTypes, AllowedKept
  <2>4. QED
    BY <2>1, <2>3, TlbKept, HoldersNext
<1>16. CASE UNCHANGED vars
  <2>1. tlb' = tlb /\ cur' = cur /\ cpu' = cpu /\ write' = write
    BY <1>16 DEF vars, cpuVars, vars
  <2>2. cpu.pc # "fill" => ~FrameFill
    BY DEF FrameFill, CpuThread
  <2>3. cpu.pc \in {"answer", "access"} => AllowedNext(cpu.frame, cur)
    BY <2>2, HolderTypes, AllowedKept
  <2>4. cpu'.pc = "fill" => write' = NoWrite
    BY <2>1, HolderTypes
  <2>5. QED
    BY <2>1, <2>3, <2>4, TlbKept, WriteKept, HoldersNext
<1>17. QED
  BY <1>1, <1>2, <1>3, <1>4, <1>5, <1>7, <1>8, <1>9, <1>10, <1>11, <1>12, <1>13, <1>14, <1>15, <1>16 DEF Next

-----------------------------------------------------------------------------
(* The invariant, and what it says.                                        *)

\* Memory starts without tables and with an empty TLB.
LEMMA InitInv == ASSUME Init PROVE PagingInv
<1>1. frames = {} /\ lvl1 = <<>> /\ lvl2 = <<>> /\ clock = 0 /\ ub = FALSE /\ requests = <<>>
  BY DEF Init
<1>2. stage = [p \in Procs |-> "new"] /\ page_table = [p \in Procs |-> 0] /\ cur = NoProc /\ cpu = Idle
  BY DEF Init
<1>3. tlb = TlbReset /\ oldest = 1 /\ write = NoWrite
  BY DEF Init, TlbReset
<1>4. MemoryTypeOK
  <2>1. lvl1 \in Seq(Tables1) /\ lvl2 \in Seq(Tables2) /\ frames \in SUBSET Frames
    BY <1>1
  <2>2. clock \in Pages /\ ub \in BOOLEAN
    BY <1>1, IndexFacts
  <2>3. QED
    BY <2>1, <2>2 DEF MemoryTypeOK
<1>5. KernelTypeOK
  BY <1>1, <1>2 DEF KernelTypeOK
<1>6. CpuTypeOK
  <2>1. Idle \in CpuState /\ NoWrite \in WriteState
    BY IndexFacts, FrameFacts DEF Idle, CpuState, NoWrite, WriteState
  <2>2. 1 \in 1 .. TlbSize
    BY PagingAssumption
  <2>3. QED
    BY <1>2, <1>3, <2>1, <2>2, ResetFrames DEF CpuTypeOK
<1>7. Live = {} /\ DOMAIN lvl1 = {} /\ DOMAIN lvl2 = {} /\ DOMAIN requests = {} /\ cpu.pc = "run"
  BY <1>1, <1>2 DEF Live, Idle
<1>8. RequestsOK /\ TablesOK
  BY <1>2, <1>7 DEF RequestsOK, TablesOK
<1>9. OwnTablesOK
  BY <1>1, <1>2, <1>7 DEF OwnTablesOK
<1>10. FramesOK
  BY <1>1, <1>7 DEF FramesOK, ExclusiveOK, MarkedOK, ReservedOK, AccountedOK, Has, Exists
<1>11. HoldersOK
  BY <1>3, <1>7 DEF HoldersOK, Allowed, AllowedIn
<1>12. QED
  BY <1>4, <1>5, <1>6, <1>8, <1>9, <1>10, <1>11 DEF PagingInv, PagingTypeOK

\* The invariant: the types, the requests and the stages of the processes, tables of
\* their own for the processes that live, frames in one row each, and no frame of
\* another process in the TLB, in the CPU's hands or on the way.
THEOREM PagingInvariant == Spec => []PagingInv
<1>1. Init => PagingInv
  BY InitInv
<1>2. PagingInv /\ [Next]_vars => PagingInv'
  BY MemoryTypeStep, KernelTypeStep, CpuTypeStep, RequestsStep, TablesStep, OwnTablesStep, FramesStep, HoldersStep
     DEF PagingInv, PagingTypeOK
<1>3. QED
  BY <1>1, <1>2, PTL DEF Spec

\* The state of memory, of the kernel and of the MMU stays well formed: the clock hand
\* of algorithms.c and the index of replace_fifo stay inside their tables, and the
\* entries of a first level table are second level tables.
THEOREM TypeOKAlways == Spec => []TypeOK
<1>1. ASSUME PagingInv PROVE TypeOK
  <2>1. MemoryTypeOK /\ KernelTypeOK /\ CpuTypeOK
    BY <1>1 DEF PagingInv, PagingTypeOK
  <2>2. \A i \in DOMAIN lvl1 : lvl1[i] = NoTable \/ lvl1[i] \in [Indexes -> DOMAIN lvl2]
    <3>1. ASSUME NEW i \in DOMAIN lvl1, lvl1[i] # NoTable PROVE lvl1[i] \in [Indexes -> DOMAIN lvl2]
      <4>1. Exists(lvl1, i)
        BY <3>1 DEF Exists
      <4>2. lvl1[i] \in [Indexes -> Nat \ {0}] /\ \A k \in Indexes : Exists(lvl2, lvl1[i][k])
        BY <1>1, <2>1, <4>1, TableTypes, IdsAreNumbers
      <4>3. \A k \in Indexes : lvl1[i][k] \in DOMAIN lvl2
        BY <4>2 DEF Exists
      <4>4. QED
        BY <4>2, <4>3
    <3>2. QED
      BY <3>1
  <2>3. \A i \in DOMAIN lvl2 : lvl2[i] = NoTable \/ lvl2[i] \in [Indexes -> Rows]
    BY <2>1, TableTypes DEF Exists
  <2>4. page_table \in [Procs -> 0 .. Len(lvl1)]
    <3>1. Len(lvl1) \in Nat /\ page_table \in [Procs -> Nat] /\ \A p \in Procs : page_table[p] <= Len(lvl1)
      BY <1>1, <2>1 DEF MemoryTypeOK, KernelTypeOK, PagingInv, OwnTablesOK
    <3>2. QED
      BY <3>1
  <2>5. cpu.pc # "run" => cur # NoProc
    BY <1>1 DEF PagingInv, RequestsOK
  <2>6. /\ frames \subseteq Frames /\ clock \in Pages /\ oldest \in 1 .. TlbSize /\ ub \in BOOLEAN
        /\ stage \in [Procs -> {"new", "asked", "ready", "ended"}] /\ cur \in Procs \union {NoProc}
        /\ cpu \in CpuState /\ tlb \in [1 .. TlbSize -> TlbEntry] /\ write \in WriteState
    BY <2>1 DEF MemoryTypeOK, KernelTypeOK, CpuTypeOK
  <2>7. QED
    BY <2>2, <2>3, <2>4, <2>5, <2>6, Zenon DEF TypeOK, CpuState, TlbEntry, WriteState, Rows, FrameIds
<1>2. QED
  BY <1>1, PagingInvariant, PTL

\* The processes that live have tables of their own (os_memory.c find_id,
\* create_lvl2_tables and delete_related_tables), for every history of processes that
\* begin and end.
THEOREM TablesDisjointAlways == Spec => []TablesDisjoint
<1>1. ASSUME PagingInv PROVE TablesDisjoint
  <2>1. ASSUME NEW p \in Live
        PROVE  /\ lvl1[page_table[p]] # NoTable
               /\ \A k \in Indexes : lvl2[lvl1[page_table[p]][k]] # NoTable
               /\ \A p2 \in Live \ {p}, k, k2 \in Indexes : lvl1[page_table[p]][k] # lvl1[page_table[p2]][k2]
    <3>1. Exists(lvl1, page_table[p])
      BY <1>1 DEF PagingInv, OwnTablesOK
    <3>2. \A k \in Indexes : Exists(lvl2, lvl1[page_table[p]][k])
      BY <1>1, LiveTables
    <3>3. \A p2 \in Live \ {p}, k, k2 \in Indexes : lvl1[page_table[p]][k] # lvl1[page_table[p2]][k2]
      BY <1>1, LiveDistinct
    <3>4. QED
      BY <3>1, <3>2, <3>3 DEF Exists
  <2>2. QED
    BY <2>1 DEF TablesDisjoint
<1>2. QED
  BY <1>1, PagingInvariant, PTL

\* The frames of the rows, as Has gives them.
LEMMA AssignedRows ==
  ASSUME PagingInv, NEW r \in Assigned
  PROVE  /\ r = <<r[1], r[2]>> /\ r[1] \in Nat /\ r[2] \in Indexes
         /\ lvl2[r[1]][r[2]].frame \in Frames /\ Has(lvl2, r[1], r[2], lvl2[r[1]][r[2]].frame)
<1>1. r \in (DOMAIN lvl2) \X Indexes /\ lvl2[r[1]] # NoTable /\ lvl2[r[1]][r[2]].frame # NoFrame
  BY DEF Assigned, TableRows
<1>2. r = <<r[1], r[2]>> /\ r[1] \in DOMAIN lvl2 /\ r[2] \in Indexes
  BY <1>1
<1>3. Exists(lvl2, r[1])
  BY <1>1, <1>2 DEF Exists
<1>4. r[1] \in Nat /\ lvl2[r[1]] \in [Indexes -> Rows]
  BY <1>3, TableTypes DEF PagingInv, PagingTypeOK
<1>5. lvl2[r[1]][r[2]] \in Rows
  BY <1>2, <1>4
<1>6. lvl2[r[1]][r[2]].frame \in Frames
  BY <1>1, <1>5 DEF Rows, FrameIds
<1>7. QED
  BY <1>2, <1>3, <1>4, <1>6 DEF Has

\* A row that has a frame is one of the assigned rows.
LEMMA RowsAssigned ==
  ASSUME PagingInv, NEW i \in Nat, NEW j \in Indexes, NEW f \in Frames, Has(lvl2, i, j, f)
  PROVE  <<i, j>> \in Assigned /\ lvl2[i][j].frame = f
<1>1. i \in DOMAIN lvl2 /\ lvl2[i] # NoTable /\ lvl2[i][j].frame = f /\ f # NoFrame
  BY FrameFacts DEF Has, Exists
<1> DEFINE r == <<i, j>>
<1>2. r \in (DOMAIN lvl2) \X Indexes /\ r[1] = i /\ r[2] = j
  BY <1>1
<1> HIDE DEF r
<1>3. r \in TableRows
  BY <1>1, <1>2 DEF TableRows
<1>4. r \in Assigned
  BY <1>1, <1>2, <1>3 DEF Assigned
<1>5. QED
  BY <1>1, <1>4 DEF r

\* No frame is given to two pages (os_memory.c create_frame_for_table), whatever was
\* swapped, freed or deleted before, and the frames in use are marked.
THEOREM FramesExclusiveAlways == Spec => []FramesExclusive
<1>1. ASSUME PagingInv PROVE FramesExclusive
  <2>1. ASSUME NEW r \in Assigned, NEW s \in Assigned, lvl2[r[1]][r[2]].frame = lvl2[s[1]][s[2]].frame
        PROVE  r = s
    <3> DEFINE f == lvl2[r[1]][r[2]].frame
    <3>1. /\ r = <<r[1], r[2]>> /\ r[1] \in Nat /\ r[2] \in Indexes /\ f \in Frames
          /\ Has(lvl2, r[1], r[2], f)
      BY <1>1, AssignedRows
    <3>2. /\ s = <<s[1], s[2]>> /\ s[1] \in Nat /\ s[2] \in Indexes
          /\ Has(lvl2, s[1], s[2], f)
      BY <1>1, <2>1, AssignedRows
    <3> HIDE DEF f
    <3>3. r[1] = s[1] /\ r[2] = s[2]
      BY <1>1, <3>1, <3>2 DEF PagingInv, FramesOK, ExclusiveOK
    <3>4. QED
      BY <3>1, <3>2, <3>3
  <2>2. ASSUME NEW r \in Assigned PROVE lvl2[r[1]][r[2]].frame \in frames
    BY <1>1, AssignedRows DEF PagingInv, FramesOK, MarkedOK
  <2>3. QED
    BY <2>1, <2>2 DEF FramesExclusive
<1>2. QED
  BY <1>1, PagingInvariant, PTL

\* No frame is lost where a process may have as many frames as a table has rows
\* (os_memory.c delete_level_2_table): a marked frame is in a row or reserved.
THEOREM FramesAccountedAlways == Spec => []FramesAccounted
<1>1. ASSUME PagingInv PROVE FramesAccounted
  <2> DEFINE U == {lvl2[r[1]][r[2]].frame : r \in Assigned}
             V == IF cpu.pc = "fill" THEN {cpu.frame} \ {NoFrame} ELSE {}
  <2>1. ASSUME NEW f \in U \union V PROVE f \in frames
    <3>1. CASE f \in U
      BY <1>1, <3>1, AssignedRows DEF PagingInv, FramesOK, MarkedOK
    <3>2. CASE f \in V
      BY <1>1, <3>2 DEF PagingInv, FramesOK, ReservedOK
    <3>3. QED
      BY <3>1, <3>2
  <2>2. ASSUME MaxFrames >= Entries, NEW f \in frames PROVE f \in U \union V
    <3>1. f \in Frames /\ f # NoFrame
      BY <1>1, FrameFacts DEF PagingInv, PagingTypeOK, MemoryTypeOK
    <3>2. ASSUME NEW i \in Nat, NEW j \in Indexes, Has(lvl2, i, j, f) PROVE f \in U
      <4> DEFINE r == <<i, j>>
      <4>1. r \in Assigned /\ lvl2[i][j].frame = f /\ r[1] = i /\ r[2] = j
        BY <1>1, <3>1, <3>2, RowsAssigned
      <4> HIDE DEF r
      <4>2. QED
        BY <4>1
    <3>3. (\E i \in Nat, j \in Indexes : Has(lvl2, i, j, f)) \/ (cpu.pc = "fill" /\ cpu.frame = f)
      BY <1>1, <2>2 DEF PagingInv, FramesOK, AccountedOK
    <3>4. QED
      BY <3>1, <3>2, <3>3
  <2>3. MaxFrames >= Entries => frames = U \union V
    BY <2>1, <2>2
  <2>4. QED
    BY <2>3 DEF FramesAccounted
<1>2. QED
  BY <1>1, PagingInvariant, PTL

\* No process reads or writes a frame that another process has: the TLB is reset before
\* the CPU is free for the next process (pcb_controller.c:80), memory answers the CPU
\* in order, and a frame goes to the process in the CPU only.
THEOREM OwnFramesAlways == Spec => []OwnFrames
<1>1. ASSUME PagingInv PROVE OwnFrames
  <2>1. ASSUME NEW f, NEW q, Allowed(f, q), NEW p \in Owners(f) PROVE p = q
    <3>1. p \in Live /\ f # NoFrame /\ \E k \in Pages : BigTable(page_table[p])[k].frame = f
      BY DEF Owners
    <3>2. PICK k \in Pages : BigTable(page_table[p])[k].frame = f
      BY <3>1
    <3>3. Exists(lvl1, page_table[p]) /\ PagingTypeOK /\ TablesOK
      BY <1>1, <3>1 DEF PagingInv, OwnTablesOK
    <3>4. lvl2[lvl1[page_table[p]][k \div Entries]][k % Entries].frame = f
      BY <3>2, <3>3, BigTableRows
    <3> DEFINE a == k \div Entries
               j == k % Entries
    <3>5. a \in Indexes /\ j \in Indexes
      BY PageSplits
    <3> HIDE DEF a, j
    <3>6. Has(lvl2, lvl1[page_table[p]][a], j, f)
      BY <1>1, <3>1, <3>4, <3>5, LiveTables DEF Has, a, j
    <3>7. QED
      BY <2>1, <3>1, <3>5, <3>6 DEF Allowed, AllowedIn
  <2>2. cpu.pc = "access" => Owners(cpu.frame) \ {cur} = {}
    <3>1. cpu.pc = "access" => Allowed(cpu.frame, cur)
      BY <1>1 DEF PagingInv, HoldersOK
    <3>2. QED
      BY <2>1, <3>1
  <2>3. write # NoWrite => Owners(write.frame) \ {write.proc} = {}
    <3>1. write # NoWrite => Allowed(write.frame, write.proc)
      BY <1>1 DEF PagingInv, HoldersOK
    <3>2. QED
      BY <2>1, <3>1
  <2>4. QED
    BY <2>2, <2>3 DEF OwnFrames, Foreign
<1>2. QED
  BY <1>1, PagingInvariant, PTL
-----------------------------------------------------------------------------
(* The pages of a process that are present, with the improved clock.       *)

\* The rows that are present in the tables of a process.
ResidentIn(l1, l2, id) == {k \in Pages : l2[l1[id][k \div Entries]][k % Entries].present}

\* A process has room for the page that is being brought in, unless a frame that does
\* not exist was swapped.
ResidentOK ==
  /\ \A p \in Live : Cardinality(ResidentIn(lvl1, lvl2, page_table[p])) <= MaxFrames
  /\ cpu.pc = "fill" /\ ~ub => Cardinality(ResidentIn(lvl1, lvl2, page_table[cur])) < MaxFrames

\* A process has finitely many pages.
LEMMA ResidentFinite ==
  ASSUME NEW l1, NEW l2, NEW id
  PROVE  IsFiniteSet(ResidentIn(l1, l2, id)) /\ Cardinality(ResidentIn(l1, l2, id)) \in Nat
<1>1. Entries * Entries - 1 \in Int /\ 0 \in Int
  BY IndexFacts
<1>2. IsFiniteSet(Pages)
  BY <1>1, FS_Interval DEF Pages
<1>3. ResidentIn(l1, l2, id) \subseteq Pages
  BY DEF ResidentIn
<1>4. QED
  BY <1>2, <1>3, FS_Subset, FS_CardinalityType

\* The tables of process p hold what they held.
SamePresent(p) ==
  \A k, j \in Indexes :
    lvl2'[lvl1'[page_table'[p]][k]][j].present = lvl2[lvl1[page_table[p]][k]][j].present

\* The same bits make the same pages present.
LEMMA ResidentSame ==
  ASSUME NEW p, SamePresent(p)
  PROVE  ResidentIn(lvl1', lvl2', page_table'[p]) = ResidentIn(lvl1, lvl2, page_table[p])
<1>1. \A k \in Pages : k \div Entries \in Indexes /\ k % Entries \in Indexes
  BY PageSplits
<1>2. QED
  BY <1>1 DEF SamePresent, ResidentIn

\* A step that changes no present bit of a process that lives keeps the bound.
LEMMA ResidentKept ==
  ASSUME PagingInv, ResidentOK,
         \A p \in Live' : p \in Live /\ SamePresent(p),
         cpu'.pc = "fill" => cpu' = cpu /\ cur' = cur /\ ub' = ub /\ cur \in Live'
  PROVE  ResidentOK'
<1>1. \A p \in Live' : Cardinality(ResidentIn(lvl1', lvl2', page_table'[p])) <= MaxFrames
  BY ResidentSame DEF ResidentOK
<1>2. ASSUME cpu'.pc = "fill", ~ub' PROVE Cardinality(ResidentIn(lvl1', lvl2', page_table'[cur'])) < MaxFrames
  BY <1>2, ResidentSame DEF ResidentOK
<1>3. QED
  BY <1>1, <1>2 DEF ResidentOK

\* The process that waits for a page lives on.
LEMMA WaitingLives ==
  ASSUME PagingInv, cpu'.pc = "fill", cpu' = cpu, cur' = cur, RequestsOK', KernelTypeOK'
  PROVE  cur \in Live'
<1>1. cur \in Procs /\ stage'[cur] = "ready"
  BY DEF PagingInv, PagingTypeOK, CpuTypeOK, RequestsOK
<1>2. QED
  BY <1>1 DEF Live

\* A set that loses an element, and one that gains one at most.
LEMMA Shrinks ==
  ASSUME NEW S, NEW T, IsFiniteSet(S), T \subseteq S, NEW x \in S, x \notin T
  PROVE  Cardinality(T) < Cardinality(S)
BY FS_Subset, FS_CardinalityType

\* One more element adds one at most to the size.
LEMMA GrowsByOne ==
  ASSUME NEW S, NEW T, IsFiniteSet(S), NEW x, T \subseteq S \union {x}
  PROVE  Cardinality(T) <= Cardinality(S) + 1
<1>1. IsFiniteSet(S \union {x}) /\ Cardinality(S \union {x}) <= Cardinality(S) + 1
  <2>1. Cardinality(S) \in Nat
    BY FS_CardinalityType
  <2>2. /\ IsFiniteSet(S \union {x})
        /\ Cardinality(S \union {x}) = IF x \in S THEN Cardinality(S) ELSE Cardinality(S) + 1
    BY FS_AddElement
  <2>3. QED
    BY <2>1, <2>2
<1>2. Cardinality(T) <= Cardinality(S \union {x}) /\ IsFiniteSet(T)
  BY <1>1, FS_Subset
<1>3. Cardinality(T) \in Nat /\ Cardinality(S) \in Nat /\ Cardinality(S \union {x}) \in Nat
  BY <1>1, <1>2, FS_CardinalityType
<1>4. QED
  BY <1>1, <1>2, <1>3

\* The page that the improved clock swaps out was present: one page less is.
LEMMA FaultResident ==
  ASSUME PagingInv, ResidentOK, Improved, FrameFault, RequestsOK', KernelTypeOK'
  PROVE  ResidentOK'
<1>1. /\ cur # NoProc /\ cpu.page \in Pages /\ cur' = cur /\ lvl1' = lvl1 /\ page_table' = page_table
      /\ requests' = requests /\ stage' = stage /\ MaxFrames \in Nat
  BY PagingAssumption DEF PagingInv, FrameFault, CpuThread, RequestsOK, PagingTypeOK, CpuTypeOK, CpuState, kernelVars
<1>2. Live' = Live /\ cur \in Live /\ Exists(lvl1, page_table[cur]) /\ Lvl1Of(TableOf(cpu.page)) = page_table[cur]
  BY <1>1, LiveKept, CurTable, Lvl1OfPage DEF PagingInv
<1> DEFINE id == page_table[cur]
           old(p) == ResidentIn(lvl1, lvl2, page_table[p])
           new(p) == ResidentIn(lvl1, lvl2', page_table[p])
<1>3. \A p \in Live : Cardinality(old(p)) <= MaxFrames /\ Cardinality(old(p)) \in Nat /\ IsFiniteSet(old(p))
  BY ResidentFinite DEF ResidentOK
<1>4. ASSUME NEW p \in Live PROVE new(p) \subseteq old(p)
  <2>1. \A a, j \in Indexes : lvl2'[lvl1[page_table[p]][a]][j].present => lvl2[lvl1[page_table[p]][a]][j].present
    BY FaultRows, LiveTables
  <2>2. \A k \in Pages : k \div Entries \in Indexes /\ k % Entries \in Indexes
    BY PageSplits
  <2>3. QED
    BY <2>1, <2>2 DEF ResidentIn
<1>5. ASSUME NEW p \in Live PROVE Cardinality(new(p)) <= MaxFrames /\ Cardinality(new(p)) \in Nat
  <2>1. Cardinality(new(p)) <= Cardinality(old(p)) /\ Cardinality(new(p)) \in Nat
    <3>1. IsFiniteSet(old(p)) /\ new(p) \subseteq old(p)
      BY <1>3, <1>4
    <3> HIDE DEF old, new
    <3>2. QED
      BY <3>1, FS_Subset, FS_CardinalityType
  <2>2. QED
    BY <1>1, <1>3, <2>1
<1>6. Resident(id) = old(cur)
  BY DEF Resident, BigTable, ResidentIn
<1>7. ASSUME ~ub' PROVE Cardinality(new(cur)) < MaxFrames
  <2>1. CASE ~ShouldReplace(TableOf(cpu.page))
    <3>1. lvl2' = lvl2
      BY <2>1 DEF FrameFault
    <3>2. ~(Cardinality(old(cur)) >= MaxFrames)
      BY <1>2, <1>6, <2>1 DEF ShouldReplace
    <3>3. QED
      BY <1>1, <1>2, <1>3, <3>1, <3>2
  <2>2. CASE ShouldReplace(TableOf(cpu.page))
    <3> DEFINE sel == Selected(id)
               f == IF sel.row = NoRow THEN NoFrame ELSE BigTable(id)[sel.row].frame
    <3>1. ub' = (f = NoFrame) /\ lvl2' = Replaced(id, sel.table, f)
      BY <1>2, <2>2 DEF FrameFault
    <3>2. f # NoFrame
      BY <1>7, <3>1, Zenon
    <3>3. sel.row # NoRow
      BY <3>2
    <3>4. f = BigTable(id)[sel.row].frame
      BY <3>3
    <3>5. /\ Selects(sel, Entries * Entries, FrameIds, BigTable(id))
          /\ BigTable(id)[sel.row].present
      <4> DEFINE n == Entries * Entries
                 t == BigTable(id)
      <4>1. n \in Nat /\ clock \in 0 .. n - 1 /\ t \in BigTables(n, FrameIds)
        BY <1>2, IndexFacts, BigTableRows DEF PagingInv, PagingTypeOK, MemoryTypeOK, Pages
      <4>2. sel = ImprovedClockSelector(t, clock)
        BY DEF Selected
      <4> HIDE DEF n, t, sel
      <4>3. Selects(sel, n, FrameIds, t) /\ (sel.row # NoRow => t[sel.row].present)
        BY <4>1, <4>2, ImprovedSelects
      <4>4. QED
        BY <3>3, <4>3 DEF n, t
    <3> HIDE DEF sel, f
    <3> DEFINE n == sel.row
               a == n \div Entries
               j == n % Entries
               x == lvl1[id][a]
    <3>6. n \in Pages
      BY <3>3, <3>5 DEF Selects, Pages
    <3>7. a \in Indexes /\ j \in Indexes
      BY <3>6, PageSplits
    <3>8. lvl2[x][j].frame = f /\ lvl2[x][j].present
      BY <1>2, <3>4, <3>5, <3>6, BigTableRows DEF PagingInv
    <3>9. x \in Nat /\ Exists(lvl2, x)
      BY <1>2, <3>7, LiveTables
    <3>10. TakenOut(lvl2', f)
      <4> DEFINE rows == sel.table
      <4> HIDE DEF rows
      <4>1. /\ rows \in BigTables(Entries * Entries, FrameIds) /\ OnlyUse(BigTable(id), rows)
            /\ lvl2' = Replaced(id, rows, f) /\ PagingTypeOK /\ TablesOK /\ Exists(lvl1, id)
        BY <1>2, <3>1, <3>5 DEF rows, PagingInv, Selects
      <4>2. QED
        BY <4>1, ReplacedRows
    <3>11. f \in Frames
      <4>1. lvl2[x] \in [Indexes -> Rows]
        BY <3>9, TableTypes DEF PagingInv, PagingTypeOK
      <4> HIDE DEF x, j
      <4>2. lvl2[x][j] \in Rows
        BY <3>7, <4>1
      <4>3. QED
        BY <3>2, <3>8, <4>2 DEF Rows, FrameIds
    <3> HIDE DEF x, j
    <3>12. x = TableOfFrame(f)
      <4>1. Mapped(f)
        <5> DEFINE tables == {i \in DOMAIN lvl2 : lvl2[i] # NoTable /\ \E y \in Indexes : lvl2[i][y].frame = f}
        <5>1. x \in tables /\ tables # {}
          BY <3>7, <3>8, <3>9 DEF Exists
        <5>2. tables \in SUBSET Nat /\ 0 \notin tables
          BY DEF PagingInv, PagingTypeOK, MemoryTypeOK
        <5>3. TableOfFrame(f) = Min(tables)
          BY <5>1 DEF TableOfFrame
        <5> HIDE DEF tables
        <5>4. TableOfFrame(f) # 0
          BY <5>1, <5>2, <5>3, MinIsLeast
        <5>5. QED
          BY <3>2, <5>4 DEF Mapped
      <4> DEFINE y == TableOfFrame(f)
                 r == RowOfFrame(f)
      <4>2. Exists(lvl2, y) /\ r \in Indexes /\ lvl2[y][r].frame = f
        BY <4>1, MappedRow DEF PagingInv
      <4>3. y \in Nat
        BY <4>2, TableTypes DEF PagingInv, PagingTypeOK
      <4>4. Has(lvl2, y, r, f) /\ Has(lvl2, x, j, f)
        BY <3>7, <3>8, <3>9, <4>2 DEF Has
      <4> HIDE DEF y, r
      <4>5. y = x
        BY <3>7, <3>9, <3>11, <4>2, <4>3, <4>4 DEF PagingInv, FramesOK, ExclusiveOK
      <4>6. QED
        BY <4>5 DEF y
    <3>13. ~lvl2'[x][j].present
      BY <3>7, <3>8, <3>9, <3>10, <3>12 DEF TakenOut
    <3>14. n \in old(cur) /\ n \notin new(cur)
      BY <3>6, <3>8, <3>13 DEF ResidentIn, x, j
    <3>15. Cardinality(new(cur)) < Cardinality(old(cur))
      <4>1. IsFiniteSet(old(cur)) /\ new(cur) \subseteq old(cur)
        BY <1>2, <1>3, <1>4
      <4> HIDE DEF old, new, n
      <4>2. QED
        BY <3>14, <4>1, Shrinks
    <3>16. QED
      BY <1>1, <1>2, <1>3, <1>5, <3>15
  <2>3. QED
    BY <2>1, <2>2
<1>8. QED
  BY <1>1, <1>2, <1>5, <1>7 DEF ResidentOK

\* A page is brought in where there is room for it.
LEMMA FillResident ==
  ASSUME PagingInv, ResidentOK, FrameFill
  PROVE  ResidentOK'
<1>1. /\ cur # NoProc /\ cur' = cur /\ lvl1' = lvl1 /\ page_table' = page_table /\ ~ub /\ cpu.pc = "fill"
      /\ requests' = requests /\ stage' = stage /\ MaxFrames \in Nat /\ cpu'.pc = "answer"
  BY PagingAssumption DEF PagingInv, FrameFill, CpuThread, RequestsOK, PagingTypeOK, CpuTypeOK, CpuState, kernelVars
<1>2. Live' = Live /\ cur \in Live
  BY <1>1, LiveKept, CurTable DEF PagingInv
<1>3. PICK k \in Indexes, j \in Indexes :
        LET x == lvl1[page_table[cur]][k]
        IN  /\ Exists(lvl2, x) /\ x \in Nat /\ lvl2[x][j] \in Rows
            /\ \A i \in Nat, y \in Indexes : Exists(lvl2, i) /\ ~(i = x /\ y = j) => lvl2'[i][y] = lvl2[i][y]
  BY FillRows
<1>4. ASSUME NEW p \in Live, NEW a \in Indexes, NEW y \in Indexes, ~(p = cur /\ a = k /\ y = j)
      PROVE  lvl2'[lvl1[page_table[p]][a]][y] = lvl2[lvl1[page_table[p]][a]][y]
  <2> DEFINE z == lvl1[page_table[p]][a]
             x == lvl1[page_table[cur]][k]
  <2>1. z \in Nat /\ Exists(lvl2, z)
    BY LiveTables
  <2>2. z = x => p = cur /\ a = k
    BY <1>2, LiveDistinct
  <2>3. ~(z = x /\ y = j)
    BY <1>4, <2>2
  <2>4. \A i \in Nat : Exists(lvl2, i) /\ ~(i = x /\ y = j) => lvl2'[i][y] = lvl2[i][y]
    BY <1>3
  <2> HIDE DEF z, x
  <2>5. lvl2'[z][y] = lvl2[z][y]
    BY <2>1, <2>3, <2>4
  <2>6. QED
    BY <2>5 DEF z
<1> DEFINE old(p) == ResidentIn(lvl1, lvl2, page_table[p])
           new(p) == ResidentIn(lvl1, lvl2', page_table[p])
<1>5. \A n \in Pages : n \div Entries \in Indexes /\ n % Entries \in Indexes
  BY PageSplits
<1>6. ASSUME NEW p \in Live, p # cur PROVE new(p) = old(p)
  BY <1>4, <1>5, <1>6 DEF ResidentIn
<1>7. new(cur) \subseteq old(cur) \union {k * Entries + j}
  <2>1. ASSUME NEW n \in Pages, n # k * Entries + j, n \in new(cur) PROVE n \in old(cur)
    <3> DEFINE a == n \div Entries
               y == n % Entries
    <3>1. a \in Indexes /\ y \in Indexes /\ a * Entries + y = n
      BY PageSplits
    <3> HIDE DEF a, y
    <3>2. ~(a = k /\ y = j)
      BY <2>1, <3>1
    <3>3. lvl2'[lvl1[page_table[cur]][a]][y] = lvl2[lvl1[page_table[cur]][a]][y]
      BY <1>2, <1>4, <3>1, <3>2
    <3>4. QED
      BY <2>1, <3>3 DEF ResidentIn, a, y
  <2>2. QED
    BY <2>1 DEF ResidentIn
<1>8. Cardinality(new(cur)) <= MaxFrames
  <2>1. IsFiniteSet(old(cur)) /\ Cardinality(old(cur)) \in Nat /\ Cardinality(new(cur)) \in Nat
    BY ResidentFinite
  <2>2. Cardinality(old(cur)) < MaxFrames
    BY <1>1 DEF ResidentOK
  <2> DEFINE x == k * Entries + j
  <2> HIDE DEF old, new, x
  <2>3. Cardinality(new(cur)) <= Cardinality(old(cur)) + 1
    BY <1>7, <2>1, GrowsByOne DEF x
  <2>4. QED
    BY <1>1, <2>1, <2>2, <2>3
<1>9. \A p \in Live : Cardinality(new(p)) <= MaxFrames
  BY <1>6, <1>8 DEF ResidentOK
<1>10. QED
  BY <1>1, <1>2, <1>9 DEF ResidentOK

\* At the start no page is present.
LEMMA InitResident ==
  ASSUME PagingInv, ResidentOK, MemoryInit, RequestsOK', KernelTypeOK'
  PROVE  ResidentOK'
<1> DEFINE id == FindId(lvl1)
           q == Head(requests).proc
<1>1. /\ ~Exists(lvl1, id) /\ lvl1'[id] = NewIds
      /\ \A i \in DOMAIN lvl1 : i # id => lvl1'[i] = lvl1[i]
      /\ \A i \in Nat : Exists(lvl2, i) => Exists(lvl2', i) /\ lvl2'[i] = lvl2[i]
      /\ \A k \in Indexes : lvl2'[NewIds[k]] = NewTable
  BY InitRows
<1>2. q \in Procs /\ \A r \in Live' : r \in Live \/ r = q
  BY LiveInit
<1>3. /\ page_table' = [page_table EXCEPT ![q] = id] /\ page_table \in [Procs -> Nat] /\ MaxFrames \in Nat
      /\ stage' = [stage EXCEPT ![q] = "ready"] /\ cpu' = cpu /\ cur' = cur /\ ub' = ub
  BY PagingAssumption DEF MemoryInit, cpuVars, PagingInv, PagingTypeOK, KernelTypeOK
<1>4. stage[q] # "ready"
  <2>1. requests # <<>> /\ requests' = Tail(requests)
    BY DEF MemoryInit
  <2>2. \A r \in Procs : r # q => stage'[r] = stage[r]
    BY <1>3 DEF PagingInv, PagingTypeOK, KernelTypeOK
  <2>3. stage[q] = IF Head(requests).op = "INIT" THEN "asked" ELSE "ended"
    BY <2>1, <2>2, RequestHandled
  <2>4. QED
    BY <2>3
<1> HIDE DEF id, q
<1>5. ASSUME NEW p \in Live, p # q PROVE SamePresent(p)
  <2>1. page_table'[p] = page_table[p]
    BY <1>2, <1>3, <1>5 DEF Live
  <2>2. ASSUME NEW k \in Indexes
        PROVE  lvl2'[lvl1'[page_table[p]][k]] = lvl2[lvl1[page_table[p]][k]]
    <3>1. /\ Exists(lvl1, page_table[p]) /\ page_table[p] \in DOMAIN lvl1
          /\ lvl1[page_table[p]][k] \in Nat /\ Exists(lvl2, lvl1[page_table[p]][k])
      BY LiveTables
    <3>2. lvl1'[page_table[p]] = lvl1[page_table[p]]
      BY <1>1, <3>1
    <3>3. QED
      BY <1>1, <3>1, <3>2
  <2>3. QED
    BY <2>1, <2>2 DEF SamePresent
<1>6. Cardinality(ResidentIn(lvl1', lvl2', page_table'[q])) = 0
  <2>1. page_table'[q] = id
    BY <1>2, <1>3
  <2>2. \A k, j \in Indexes : lvl2'[lvl1'[page_table'[q]][k]][j].present = FALSE
    BY <1>1, <2>1 DEF NewTable
  <2>3. \A n \in Pages : n \div Entries \in Indexes /\ n % Entries \in Indexes
    BY PageSplits
  <2>4. ResidentIn(lvl1', lvl2', page_table'[q]) = {}
    BY <2>2, <2>3 DEF ResidentIn
  <2>5. QED
    BY <2>4, FS_EmptySet
<1>7. \A p \in Live' : Cardinality(ResidentIn(lvl1', lvl2', page_table'[p])) <= MaxFrames
  BY <1>2, <1>3, <1>5, <1>6, ResidentSame DEF ResidentOK
<1>8. ASSUME cpu'.pc = "fill", ~ub' PROVE Cardinality(ResidentIn(lvl1', lvl2', page_table'[cur'])) < MaxFrames
  <2>1. cur # NoProc /\ stage[cur] = "ready"
    BY <1>3, <1>8 DEF PagingInv, RequestsOK
  <2>2. cur \in Live /\ cur # q
    BY <1>4, <2>1, CurTable DEF PagingInv
  <2>3. QED
    BY <1>3, <1>5, <1>8, <2>2, ResidentSame DEF ResidentOK
<1>9. QED
  BY <1>7, <1>8 DEF ResidentOK

\* Deleting the tables of a process leaves the pages of the others present.
LEMMA DestroyPresent ==
  ASSUME PagingInv, DestroyProcess, TablesOK', OwnTablesOK', MemoryTypeOK', NEW p \in Live'
  PROVE  p \in Live /\ SamePresent(p)
<1> DEFINE q == Head(requests).proc
           id == page_table[q]
<1>1. Exists(lvl1, id) /\ DeleteTables(id) /\ page_table' = page_table /\ q \in Live
  BY EndProcess DEF DestroyProcess
<1>2. Live' \subseteq Live /\ q \notin Live'
  BY LiveDestroy
<1>3. /\ \A i \in DOMAIN lvl1 : i # id => lvl1'[i] = lvl1[i]
      /\ \A i \in Nat : Exists(lvl2', i) <=> Exists(lvl2, i) /\ \A k \in Indexes : lvl1[id][k] # i
      /\ \A i \in Nat : Exists(lvl2', i) => lvl2'[i] = lvl2[i]
  <2> HIDE DEF id
  <2>1. QED
    BY <1>1, DeletedRows
<1> HIDE DEF q
<1>4. p \in Live /\ p # q /\ page_table[p] # id /\ Exists(lvl1, page_table[p])
  BY <1>1, <1>2 DEF PagingInv, OwnTablesOK
<1>5. ASSUME NEW k \in Indexes
      PROVE  lvl2'[lvl1'[page_table[p]][k]] = lvl2[lvl1[page_table[p]][k]]
  <2>1. page_table[p] \in DOMAIN lvl1 /\ lvl1[page_table[p]][k] \in Nat /\ Exists(lvl2, lvl1[page_table[p]][k])
    BY <1>4, LiveTables
  <2>2. lvl1'[page_table[p]] = lvl1[page_table[p]]
    BY <1>3, <1>4, <2>1
  <2>3. \A k2 \in Indexes : lvl1[id][k2] # lvl1[page_table[p]][k]
    BY <1>1, <1>4, IdsDistinct
  <2>4. QED
    BY <1>3, <2>1, <2>2, <2>3
<1>6. QED
  BY <1>1, <1>4, <1>5 DEF SamePresent

\* Every step keeps the bound on present pages.
LEMMA ResidentStep ==
  ASSUME PagingInv, ResidentOK, Improved, [Next]_vars
  PROVE  ResidentOK'
<1>0. RequestsOK' /\ KernelTypeOK' /\ TablesOK' /\ OwnTablesOK' /\ MemoryTypeOK'
  BY RequestsStep, KernelTypeStep, TablesStep, OwnTablesStep, MemoryTypeStep
<1>1. ASSUME NEW p \in Procs, Admit(p) PROVE ResidentOK'
  <2>1. cpu'.pc = "fill" => cpu' = cpu /\ cur' = cur /\ ub' = ub
    BY <1>1 DEF Admit, Leave, CpuThread, Idle, memoryVars, cpuVars, vars, PagingInv, PagingTypeOK, CpuTypeOK, CpuState, RequestsOK
  <2>2. \A r \in Live' : r \in Live /\ SamePresent(r)
    <3>1. lvl1' = lvl1 /\ lvl2' = lvl2 /\ page_table' = page_table
      BY <1>1 DEF Admit, Leave, memoryVars
    <3>2. QED
      BY <1>1, <3>1, LiveAdmit DEF SamePresent
  <2>3. QED
    BY <1>0, <2>1, <2>2, WaitingLives, ResidentKept
<1>2. ASSUME NEW p \in Procs, Dispatch(p) PROVE ResidentOK'
  <2>1. cpu'.pc = "fill" => cpu' = cpu /\ cur' = cur /\ ub' = ub
    BY <1>2 DEF Dispatch, Leave, CpuThread, Idle, memoryVars, cpuVars, vars, PagingInv, PagingTypeOK, CpuTypeOK, CpuState, RequestsOK
  <2>2. \A r \in Live' : r \in Live /\ SamePresent(r)
    <3>1. lvl1' = lvl1 /\ lvl2' = lvl2 /\ page_table' = page_table /\ requests' = requests /\ stage' = stage
      BY <1>2 DEF Dispatch, Leave, CpuThread, memoryVars, kernelVars, vars
    <3>2. QED
      BY <3>1, LiveKept DEF SamePresent
  <2>3. QED
    BY <1>0, <2>1, <2>2, WaitingLives, ResidentKept
<1>3. CASE MemoryInit
  BY <1>3, <1>0, InitResident
<1>4. CASE DestroyProcess
  <2>1. cpu' = cpu /\ cur' = cur /\ ub' = ub
    BY <1>4 DEF DestroyProcess, cpuVars
  <2>2. \A p \in Live' : p \in Live /\ SamePresent(p)
    BY <1>4, <1>0, DestroyPresent
  <2>3. QED
    BY <1>0, <2>1, <2>2, WaitingLives, ResidentKept
<1>5. CASE LeaveForNow
  <2>1. cpu'.pc = "fill" => cpu' = cpu /\ cur' = cur /\ ub' = ub
    BY <1>5 DEF LeaveForNow, Leave, CpuThread, Idle, memoryVars, cpuVars, vars, PagingInv, PagingTypeOK, CpuTypeOK, CpuState, RequestsOK
  <2>2. \A r \in Live' : r \in Live /\ SamePresent(r)
    <3>1. lvl1' = lvl1 /\ lvl2' = lvl2 /\ page_table' = page_table /\ requests' = requests /\ stage' = stage
      BY <1>5 DEF LeaveForNow, Leave, CpuThread, memoryVars, kernelVars, vars
    <3>2. QED
      BY <3>1, LiveKept DEF SamePresent
  <2>3. QED
    BY <1>0, <2>1, <2>2, WaitingLives, ResidentKept
<1>7. CASE LeaveForGood
  <2>1. cpu'.pc = "fill" => cpu' = cpu /\ cur' = cur /\ ub' = ub
    BY <1>7 DEF LeaveForGood, Leave, CpuThread, Idle, memoryVars, cpuVars, vars, PagingInv, PagingTypeOK, CpuTypeOK, CpuState, RequestsOK
  <2>2. \A r \in Live' : r \in Live /\ SamePresent(r)
    <3>1. lvl1' = lvl1 /\ lvl2' = lvl2 /\ page_table' = page_table
      BY <1>7 DEF LeaveForGood, Leave, memoryVars
    <3>2. QED
      BY <1>7, <3>1, LiveExit DEF SamePresent
  <2>3. QED
    BY <1>0, <2>1, <2>2, WaitingLives, ResidentKept
<1>8. ASSUME NEW n \in Accessed, Translate(n) PROVE ResidentOK'
  <2>1. cpu'.pc = "fill" => cpu' = cpu /\ cur' = cur /\ ub' = ub
    BY <1>8 DEF Translate, Leave, CpuThread, Idle, memoryVars, cpuVars, vars, PagingInv, PagingTypeOK, CpuTypeOK, CpuState, RequestsOK
  <2>2. \A r \in Live' : r \in Live /\ SamePresent(r)
    <3>1. lvl1' = lvl1 /\ lvl2' = lvl2 /\ page_table' = page_table /\ requests' = requests /\ stage' = stage
      BY <1>8 DEF Translate, Leave, CpuThread, memoryVars, kernelVars, vars
    <3>2. QED
      BY <3>1, LiveKept DEF SamePresent
  <2>3. QED
    BY <1>0, <2>1, <2>2, WaitingLives, ResidentKept
<1>9. CASE TlbReplace
  <2>1. cpu'.pc = "fill" => cpu' = cpu /\ cur' = cur /\ ub' = ub
    BY <1>9 DEF TlbReplace, Leave, CpuThread, Idle, memoryVars, cpuVars, vars, PagingInv, PagingTypeOK, CpuTypeOK, CpuState, RequestsOK
  <2>2. \A r \in Live' : r \in Live /\ SamePresent(r)
    <3>1. lvl1' = lvl1 /\ lvl2' = lvl2 /\ page_table' = page_table /\ requests' = requests /\ stage' = stage
      BY <1>9 DEF TlbReplace, Leave, CpuThread, memoryVars, kernelVars, vars
    <3>2. QED
      BY <3>1, LiveKept DEF SamePresent
  <2>3. QED
    BY <1>0, <2>1, <2>2, WaitingLives, ResidentKept
<1>10. CASE FramePresent
  <2>1. cpu'.pc = "fill" => cpu' = cpu /\ cur' = cur /\ ub' = ub
    BY <1>10 DEF FramePresent, Leave, CpuThread, Idle, memoryVars, cpuVars, vars, PagingInv, PagingTypeOK, CpuTypeOK, CpuState, RequestsOK
  <2>2. \A r \in Live' : r \in Live /\ SamePresent(r)
    <3>1. lvl1' = lvl1 /\ lvl2' = lvl2 /\ page_table' = page_table /\ requests' = requests /\ stage' = stage
      BY <1>10 DEF FramePresent, Leave, CpuThread, memoryVars, kernelVars, vars
    <3>2. QED
      BY <3>1, LiveKept DEF SamePresent
  <2>3. QED
    BY <1>0, <2>1, <2>2, WaitingLives, ResidentKept
<1>11. CASE FrameFault
  BY <1>11, <1>0, FaultResident
<1>12. CASE FrameFill
  BY <1>12, FillResident
<1>13. CASE Read
  <2>1. cpu'.pc = "fill" => cpu' = cpu /\ cur' = cur /\ ub' = ub
    BY <1>13 DEF Read, Leave, CpuThread, Idle, memoryVars, cpuVars, vars, PagingInv, PagingTypeOK, CpuTypeOK, CpuState, RequestsOK
  <2>2. \A p \in Live' : p \in Live /\ SamePresent(p)
    <3>1. lvl1' = lvl1 /\ page_table' = page_table /\ requests' = requests /\ stage' = stage /\ PagingTypeOK
      BY <1>13 DEF Read, CpuThread, kernelVars, PagingInv
    <3>2. PICK f \in {cpu.frame, write.frame}, b \in BOOLEAN : SetModified(f, b)
      BY <1>13 DEF Read
    <3>3. \A i \in Nat, j \in Indexes : Exists(lvl2, i) => lvl2'[i][j].present = lvl2[i][j].present
      BY <3>1, <3>2, SetModifiedRows
    <3>4. QED
      BY <3>1, <3>3, LiveKept, LiveTables DEF SamePresent
  <2>3. QED
    BY <1>0, <2>1, <2>2, WaitingLives, ResidentKept
<1>14. CASE SendWrite
  <2>1. cpu'.pc = "fill" => cpu' = cpu /\ cur' = cur /\ ub' = ub
    BY <1>14 DEF SendWrite, Leave, CpuThread, Idle, memoryVars, cpuVars, vars, PagingInv, PagingTypeOK, CpuTypeOK, CpuState, RequestsOK
  <2>2. \A r \in Live' : r \in Live /\ SamePresent(r)
    <3>1. lvl1' = lvl1 /\ lvl2' = lvl2 /\ page_table' = page_table /\ requests' = requests /\ stage' = stage
      BY <1>14 DEF SendWrite, Leave, CpuThread, memoryVars, kernelVars, vars
    <3>2. QED
      BY <3>1, LiveKept DEF SamePresent
  <2>3. QED
    BY <1>0, <2>1, <2>2, WaitingLives, ResidentKept
<1>15. CASE Write
  <2>1. cpu'.pc = "fill" => cpu' = cpu /\ cur' = cur /\ ub' = ub
    BY <1>15 DEF Write, Leave, CpuThread, Idle, memoryVars, cpuVars, vars, PagingInv, PagingTypeOK, CpuTypeOK, CpuState, RequestsOK
  <2>2. \A p \in Live' : p \in Live /\ SamePresent(p)
    <3>1. lvl1' = lvl1 /\ page_table' = page_table /\ requests' = requests /\ stage' = stage /\ PagingTypeOK
      BY <1>15 DEF Write, CpuThread, kernelVars, PagingInv
    <3>2. PICK f \in {cpu.frame, write.frame}, b \in BOOLEAN : SetModified(f, b)
      BY <1>15 DEF Write
    <3>3. \A i \in Nat, j \in Indexes : Exists(lvl2, i) => lvl2'[i][j].present = lvl2[i][j].present
      BY <3>1, <3>2, SetModifiedRows
    <3>4. QED
      BY <3>1, <3>3, LiveKept, LiveTables DEF SamePresent
  <2>3. QED
    BY <1>0, <2>1, <2>2, WaitingLives, ResidentKept
<1>16. CASE UNCHANGED vars
  <2>1. cpu'.pc = "fill" => cpu' = cpu /\ cur' = cur /\ ub' = ub
    BY <1>16 DEF vars, Leave, CpuThread, Idle, memoryVars, cpuVars, vars, PagingInv, PagingTypeOK, CpuTypeOK, CpuState, RequestsOK
  <2>2. \A r \in Live' : r \in Live /\ SamePresent(r)
    <3>1. lvl1' = lvl1 /\ lvl2' = lvl2 /\ page_table' = page_table /\ requests' = requests /\ stage' = stage
      BY <1>16 DEF vars, Leave, CpuThread, memoryVars, kernelVars, vars
    <3>2. QED
      BY <3>1, LiveKept DEF SamePresent
  <2>3. QED
    BY <1>0, <2>1, <2>2, WaitingLives, ResidentKept
<1>17. QED
  BY <1>1, <1>2, <1>3, <1>4, <1>5, <1>7, <1>8, <1>9, <1>10, <1>11, <1>12, <1>13, <1>14, <1>15, <1>16 DEF Next

\* memory_module.h: "Max Frames per Process".  With the improved clock a process never
\* has more pages present than that: a page is only brought in when another one, that
\* was present, has been taken out, or when there was room for it before.
THEOREM ResidentBoundAlways == ASSUME Improved PROVE Spec => []ResidentBound
<1>1. Init => ResidentOK
  <2>1. ASSUME Init PROVE ResidentOK
    <3>1. Live = {} /\ cpu.pc = "run"
      BY <2>1 DEF Init, Live, Idle
    <3>2. QED
      BY <3>1 DEF ResidentOK
  <2>2. QED
    BY <2>1
<1>2. PagingInv /\ ResidentOK /\ [Next]_vars => ResidentOK'
  BY ResidentStep
<1>3. ResidentOK => ResidentBound
  BY DEF ResidentOK, ResidentBound, Resident, BigTable, ResidentIn
<1>4. QED
  BY <1>1, <1>2, <1>3, PagingInvariant, PTL DEF Spec
=============================================================================
