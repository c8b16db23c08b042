--------------------------- MODULE SwapFile_proofs ---------------------------
(***************************************************************************)
(* Proofs about SwapFile, for every set of frames, every page size, every  *)
(* size of the file, every serialised PCB and every number of suspensions. *)
(***************************************************************************)
EXTENDS SwapFile, CommonLemmas

Words == [val : Int, tag : {"zero", "pcb", "head", "data"}]
Contents == [Frames -> [Offsets -> Int]]

Causes == {"short", "alias", "cut", "late", "twice", "astray"}

SwapTypeOK ==
  /\ stage \in {"new", "live", "ended"} /\ size \in Nat /\ offset \in Nat
  /\ file \in Seq(Words)
  /\ assigned \in SUBSET Frames /\ present \in SUBSET assigned
  /\ mem \in Contents /\ written \in Contents
  /\ cpu \in [pc : {"idle", "truncate", "copy", "fill"}, page : Nat, victim : Nat,
             again : BOOLEAN]
  /\ kernel \in [pc : {"idle", "copy"}, stream : Seq(Nat)]
  /\ why \in [Frames -> SUBSET Causes]
  /\ answer \in [Frames -> Frames \union {NoFrame}] /\ repeats \in Nat

\* What the two threads know of each other while they handle a request: the page
\* asked for is not present, and neither is the victim that is not copied yet.
ThreadsOK ==
  /\ cpu.pc # "idle" => stage = "live" /\ cpu.page \in Frames \ present
  /\ cpu.pc \in {"truncate", "copy"} => cpu.victim \in assigned \ present
  /\ cpu.pc = "copy" => size > 0
  /\ kernel.pc = "copy" => stage = "live"
  /\ stage = "new" => size = 0 /\ assigned = {} /\ file = <<>> /\ repeats = 0
  /\ size = 0 => offset = 0

\* A page is only out of main memory when all the frames of the process are in
\* use, but for the one that is being freed for the page asked for.  With CLOCK
\* none may be freed, and then more than MaxFrames come into use.
FullWhenSwapped ==
  /\ size > 0 /\ assigned # present =>
       Cardinality(present) >= (IF cpu.pc = "idle" THEN MaxFrames ELSE MaxFrames - 1)
  /\ repeats > 0 \/ cpu.again => Cardinality(Frames) >= MaxFrames

\* The positions in the file, before its end, where a frame number was written.
Heads(f) == {p \in 1 .. Len(file) : p <= offset /\ file[p].tag = "head" /\ file[p].val = f}

\* Frame numbers stay where entries begin, whatever is written between them.
HeadsAligned ==
  \A p \in 1 .. Len(file) : file[p].tag = "head" => \E k \in Nat : p = Entry * k + 1

Lost(f) == why[f] \intersect {"alias", "cut", "late", "twice", "astray"} # {}

\* While nothing was lost of a page, the file holds at most one entry of it, and
\* none while it is in main memory; the words of the entry that the frame will
\* get back are still those of the frame.
EntryOK(f) ==
  /\ \A p, q \in Heads(f) : p = q
  /\ Heads(f) # {} =>
       /\ f \in assigned \ present
       /\ ~(cpu.pc \in {"truncate", "copy"} /\ cpu.victim = f /\ ~cpu.again)
  /\ \A p \in Heads(f), w \in 1 .. Copied :
       p + w <= Len(file) /\ file[p + w].tag = "data" => file[p + w].val = mem[f][w]

\* Then the frame has what the process wrote, but for the words that
\* unswap_frame_for_pcb does not fill.
KeptOK(f) == \A w \in Offsets : mem[f][w] = written[f][w] \/ (w > Copied /\ "short" \in why[f])

EntriesOK == \A f \in Frames : ~Lost(f) => EntryOK(f) /\ KeptOK(f)

SwapInv ==
  /\ SwapTypeOK /\ ThreadsOK /\ OffsetCounts /\ FullWhenSwapped
  /\ HeadsAligned /\ EntriesOK
-----------------------------------------------------------------------------
(* What the operations on the file do to its words.                        *)

\* ftruncate gives the file its new length and keeps the words below it.
LEMMA TruncatedWords ==
  ASSUME NEW f \in Seq(Words), NEW n \in Nat
  PROVE  /\ Truncated(f, n) \in Seq(Words) /\ Len(Truncated(f, n)) = n
         /\ \A i \in 1 .. n : Truncated(f, n)[i] = IF i <= Len(f) THEN f[i] ELSE ZeroWord
<1>1. ZeroWord \in Words
  BY DEF ZeroWord, Words
<1>2. Truncated(f, n) \in [1 .. n -> Words]
  BY <1>1 DEF Truncated
<1>3. QED
  BY <1>2, FunctionIsSeq DEF Truncated

\* memcpy into the mapping does not change the length of the file.
LEMMA OverwrittenWords ==
  ASSUME NEW f \in Seq(Words), NEW at \in Nat, NEW words \in Seq(Words)
  PROVE  /\ Overwritten(f, at, words) \in Seq(Words)
         /\ Len(Overwritten(f, at, words)) = Len(f)
         /\ \A i \in 1 .. Len(f) :
              Overwritten(f, at, words)[i] =
                IF i \in at + 1 .. at + Len(words) THEN words[i - at] ELSE f[i]
<1>1. ASSUME NEW i \in 1 .. Len(f), i \in at + 1 .. at + Len(words)
      PROVE  words[i - at] \in Words
  BY <1>1
<1>2. Overwritten(f, at, words) \in [1 .. Len(f) -> Words]
  BY <1>1 DEF Overwritten
<1>3. QED
  BY <1>2, FunctionIsSeq DEF Overwritten

\* The mapping shows words of the file, and zeros behind its end.
LEMMA ShownWords ==
  ASSUME NEW f \in Seq(Words), NEW at \in Nat, NEW n \in Nat
  PROVE  /\ Shown(f, at, n) \in Seq(Words) /\ Len(Shown(f, at, n)) = n
         /\ \A i \in 1 .. n :
              Shown(f, at, n)[i] = IF at + i <= Len(f) THEN f[at + i] ELSE ZeroWord
<1>1. ZeroWord \in Words
  BY DEF ZeroWord, Words
<1>2. Shown(f, at, n) \in [1 .. n -> Words]
  BY <1>1 DEF Shown
<1>3. QED
  BY <1>2, FunctionIsSeq DEF Shown

\* The stream of swap_frame is the frame number and then the words of the frame.
LEMMA EntryWords ==
  ASSUME SwapTypeOK, NEW f \in Frames
  PROVE  /\ EntryOf(f) \in Seq(Words) /\ Len(EntryOf(f)) = Entry
         /\ EntryOf(f)[1] = [val |-> f, tag |-> "head"]
         /\ \A w \in Offsets : EntryOf(f)[w + 1] = [val |-> mem[f][w], tag |-> "data"]
<1> DEFINE h == <<[val |-> f, tag |-> "head"]>>
           d == [w \in Offsets |-> [val |-> mem[f][w], tag |-> "data"]]
<1>1. f \in Int /\ PageWords \in Nat
  BY SwapAssumption
<1>2. h \in Seq(Words) /\ Len(h) = 1 /\ h[1] = [val |-> f, tag |-> "head"]
  BY <1>1 DEF Words
<1>3. \A w \in Offsets : mem[f][w] \in Int
  BY DEF SwapTypeOK, Contents
<1>4. d \in [1 .. PageWords -> Words]
  BY <1>3 DEF Offsets, Words
<1>5. d \in Seq(Words) /\ Len(d) = PageWords
  BY <1>1, <1>4, FunctionIsSeq
<1>6. \A w \in 1 .. PageWords : d[w] = [val |-> mem[f][w], tag |-> "data"]
  BY DEF Offsets
<1> HIDE DEF h, d
<1>7. EntryOf(f) = h \o d
  BY DEF EntryOf, h, d
<1>8. /\ h \o d \in Seq(Words) /\ Len(h \o d) = Len(h) + Len(d)
      /\ \A i \in 1 .. Len(h) + Len(d) :
           (h \o d)[i] = IF i <= Len(h) THEN h[i] ELSE d[i - Len(h)]
  BY <1>2, <1>5, ConcatProperties
<1> DEFINE e == EntryOf(f)
<1>9. /\ e \in Seq(Words) /\ Len(e) = PageWords + 1
      /\ \A i \in 1 .. PageWords + 1 : e[i] = IF i <= 1 THEN h[i] ELSE d[i - 1]
  BY <1>1, <1>2, <1>5, <1>7, <1>8
<1> HIDE DEF e
<1>10. e[1] = h[1] /\ \A w \in 1 .. PageWords : e[w + 1] = d[w + 1 - 1] /\ w + 1 - 1 = w
  BY <1>1, <1>9
<1>11. QED
  BY <1>2, <1>6, <1>9, <1>10 DEF Offsets, Entry, e

\* unswap_frame_for_pcb finds entries inside the file, where they begin.
LEMMA ReplaceIndexType ==
  ASSUME SwapInv
  PROVE  ReplaceIndex(cpu.page) \in Nat
<1>1. Matches(cpu.page) \in SUBSET Nat
  BY DEF Matches, SwapInv, SwapTypeOK
<1>2. QED
  BY <1>1, MinIsLeast DEF ReplaceIndex
-----------------------------------------------------------------------------
(* Types and what the threads know.                                        *)

\* Initially nothing is assigned and the file is empty.
LEMMA InitInv == ASSUME Init PROVE SwapInv
<1> USE SwapAssumption DEF Init
<1>1. Entry \in Nat /\ Cardinality({}) = 0
  BY FS_EmptySet DEF Entry
<1>2. SwapTypeOK
  BY DEF SwapTypeOK, Contents, IdleCpu, IdleKernel, Zeros, Causes
<1>3. ThreadsOK
  BY DEF ThreadsOK, IdleCpu, IdleKernel
<1>4. OffsetCounts /\ FullWhenSwapped
  BY DEF OffsetCounts, FullWhenSwapped, IdleCpu
<1>5. HeadsAligned
  BY DEF HeadsAligned
<1>6. EntriesOK
  BY DEF EntriesOK, EntryOK, KeptOK, Heads, Zeros
<1>7. QED
  BY <1>2, <1>3, <1>4, <1>5, <1>6 DEF SwapInv

\* What a write does to the frames, to what the process wrote and to the reasons:
\* a page whose words change is lost, or it is in main memory and gets the word
\* that the process wrote.
LEMMA WrittenPages ==
  ASSUME SwapInv, Write \/ WriteOther
  PROVE  /\ mem' \in Contents /\ written' \in Contents /\ why' \in [Frames -> SUBSET Causes]
         /\ \A f \in Frames : why[f] \subseteq why'[f]
         /\ \A f \in Frames : ~Lost(f)' =>
              \/ mem'[f] = mem[f] /\ written'[f] = written[f]
              \/ /\ f \in present
                 /\ \E x \in Offsets, v \in Int :
                      \A w \in Offsets : /\ mem'[f][w] = IF w = x THEN v ELSE mem[f][w]
                                         /\ written'[f][w] = IF w = x THEN v ELSE written[f][w]
<1> USE SwapAssumption
<1>0. /\ mem \in Contents /\ written \in Contents /\ why \in [Frames -> SUBSET Causes]
      /\ assigned \subseteq Frames /\ Values \subseteq Int
      /\ answer \in [Frames -> Frames \union {NoFrame}]
  BY DEF SwapInv, SwapTypeOK
<1>1. CASE Write
  <2>1. PICK f \in assigned, x \in Offsets, v \in Values :
          LET d == answer[f]
          IN  /\ mem' = IF d \in assigned THEN [mem EXCEPT ![d][x] = v] ELSE mem
              /\ written' = [written EXCEPT ![f][x] = v]
              /\ why' = [g \in Frames |-> why[g] \union
                           (IF d # f /\ g \in {d, f} THEN {"astray"} ELSE {}) \union
                           (IF d = f /\ g = f /\ f \notin present THEN {"late"} ELSE {})]
    BY <1>1 DEF Write
  <2> DEFINE d == answer[f]
  <2>2. f \in Frames /\ v \in Int /\ (d \in assigned => d \in Frames)
    BY <1>0, <2>1
  <2>3. mem' \in Contents /\ written' \in Contents
    <3>1. [written EXCEPT ![f][x] = v] \in Contents
      BY <1>0, <2>2 DEF Contents
    <3>2. d \in assigned => [mem EXCEPT ![d][x] = v] \in Contents
      BY <1>0, <2>2 DEF Contents
    <3>3. QED
      BY <1>0, <2>1, <3>1, <3>2
  <2>4. why' \in [Frames -> SUBSET Causes]
    BY <1>0, <2>1 DEF Causes
  <2>5. ASSUME NEW g \in Frames PROVE why[g] \subseteq why'[g]
    BY <2>1
  <2>6. ASSUME NEW g \in Frames, ~Lost(g)', g # f PROVE mem'[g] = mem[g] /\ written'[g] = written[g]
    <3>1. g # d
      BY <2>1, <2>6 DEF Lost
    <3>2. QED
      BY <1>0, <2>1, <2>2, <2>6, <3>1 DEF Contents
  <2>7. ASSUME ~Lost(f)'
        PROVE  /\ f \in present
               /\ \A w \in Offsets : /\ mem'[f][w] = IF w = x THEN v ELSE mem[f][w]
                                     /\ written'[f][w] = IF w = x THEN v ELSE written[f][w]
    <3>1. d = f /\ f \in present
      BY <2>1, <2>2, <2>7 DEF Lost
    <3>2. mem' = [mem EXCEPT ![f][x] = v] /\ written' = [written EXCEPT ![f][x] = v]
      BY <2>1, <3>1
    <3>3. /\ mem'[f] = [mem[f] EXCEPT ![x] = v]
          /\ written'[f] = [written[f] EXCEPT ![x] = v]
          /\ mem[f] \in [Offsets -> Int] /\ written[f] \in [Offsets -> Int]
      BY <1>0, <2>2, <3>2 DEF Contents
    <3>4. QED
      BY <3>1, <3>3
  <2>8. ASSUME NEW g \in Frames, ~Lost(g)'
        PROVE  \/ mem'[g] = mem[g] /\ written'[g] = written[g]
               \/ /\ g \in present
                  /\ \E y \in Offsets, u \in Int :
                       \A w \in Offsets : /\ mem'[g][w] = IF w = y THEN u ELSE mem[g][w]
                                          /\ written'[g][w] = IF w = y THEN u ELSE written[g][w]
    <3>1. CASE g = f
      <4>1. /\ f \in present
            /\ \A w \in Offsets : /\ mem'[f][w] = IF w = x THEN v ELSE mem[f][w]
                                  /\ written'[f][w] = IF w = x THEN v ELSE written[f][w]
        BY <2>7, <2>8, <3>1
      <4>2. QED
        BY <2>2, <3>1, <4>1
    <3>2. CASE g # f
      BY <2>6, <2>8, <3>2
    <3>3. QED
      BY <3>1, <3>2
  <2>9. QED
    BY <2>3, <2>4, <2>5, <2>8
<1>2. CASE WriteOther
  <2>1. PICK d \in assigned, x \in Offsets, v \in Values :
          /\ mem' = [mem EXCEPT ![d][x] = v]
          /\ why' = [why EXCEPT ![d] = @ \union {"astray"}] /\ written' = written
    BY <1>2 DEF WriteOther
  <2>2. mem' \in Contents /\ why' \in [Frames -> SUBSET Causes] /\ d \in Frames
    BY <1>0, <2>1 DEF Contents, Causes
  <2>3. \A g \in Frames : why[g] \subseteq why'[g]
    BY <1>0, <2>1
  <2>4. ASSUME NEW g \in Frames, ~Lost(g)' PROVE mem'[g] = mem[g]
    <3>1. g # d
      BY <1>0, <2>1, <2>4 DEF Lost
    <3>2. QED
      BY <1>0, <2>1, <3>1 DEF Contents
  <2>5. QED
    BY <1>0, <2>1, <2>2, <2>3, <2>4
<1>3. QED
  BY <1>1, <1>2

\* Every step keeps the state well formed, whichever thread takes it.
LEMMA TypeStep == ASSUME SwapInv, [Next]_vars PROVE SwapTypeOK'
<1> USE SwapAssumption DEF SwapInv, SwapTypeOK, ThreadsOK, pages
<1>1. CASE MemoryInit
  <2>1. PICK n \in Sizes, s \in PcbStreams :
          /\ size' = n
          /\ file' = Overwritten(Truncated(<<>>, n), 0, <<[val |-> Head(s), tag |-> "pcb"]>>)
    BY <1>1 DEF MemoryInit
  <2>2. n \in Nat /\ <<>> \in Seq(Words) /\ Head(s) \in Int
    OBVIOUS
  <2>3. <<[val |-> Head(s), tag |-> "pcb"]>> \in Seq(Words)
    BY <2>2 DEF Words
  <2>4. file' \in Seq(Words)
    BY <2>1, <2>2, <2>3, TruncatedWords, OverwrittenWords
  <2>5. QED
    BY <1>1, <2>1, <2>2, <2>4 DEF MemoryInit
<1>2. CASE SwapPcbTruncate
  <2>1. PICK s \in PcbStreams :
          kernel' = [pc |-> "copy", stream |-> s] /\ file' = Truncated(file, Len(s))
    BY <1>2 DEF SwapPcbTruncate
  <2>2. file' \in Seq(Words)
    BY <2>1, TruncatedWords
  <2>3. QED
    BY <1>2, <2>1, <2>2 DEF SwapPcbTruncate
<1>3. CASE SwapPcbCopy
  <2> DEFINE ws == [i \in 1 .. Len(kernel.stream) |-> [val |-> kernel.stream[i], tag |-> "pcb"]]
  <2>1. ws \in [1 .. Len(kernel.stream) -> Words] /\ Len(kernel.stream) \in Nat
    BY DEF Words
  <2>2. ws \in Seq(Words)
    BY <2>1, FunctionIsSeq
  <2>3. file' = Overwritten(file, 0, ws)
    BY <1>3 DEF SwapPcbCopy
  <2> HIDE DEF ws
  <2>4. file' \in Seq(Words)
    BY <2>2, <2>3, OverwrittenWords
  <2>5. QED
    BY <1>3, <2>4 DEF SwapPcbCopy, IdleKernel
<1>4. CASE DestroyProcessFile
  BY <1>4 DEF DestroyProcessFile
<1>5. CASE Write \/ WriteOther
  <2>1. mem' \in Contents /\ written' \in Contents /\ why' \in [Frames -> SUBSET Causes]
    BY <1>5, WrittenPages
  <2>2. QED
    BY <1>5, <2>1 DEF Write, WriteOther
<1>6. ASSUME NEW f \in Frames, Frame(f) PROVE SwapTypeOK'
  <2>1. f \in Nat /\ assigned \subseteq Nat
    OBVIOUS
  <2>2. PICK v \in Nat, pc \in {"truncate", "fill"}, b \in BOOLEAN :
          cpu' = [pc |-> pc, page |-> f, victim |-> v, again |-> b] /\ present' \subseteq present
    BY <1>6, <2>1 DEF Frame, Victims
  <2>3. QED
    BY <1>6, <2>1, <2>2 DEF Frame
<1>14. ASSUME NEW f \in Frames, Ask(f) PROVE SwapTypeOK'
  BY <1>14 DEF Ask
<1>7. CASE SwapTruncate
  <2>1. file' \in Seq(Words)
    BY <1>7, TruncatedWords DEF SwapTruncate
  <2>2. QED
    BY <1>7, <2>1 DEF SwapTruncate
<1>8. CASE SwapFrame
  <2>1. cpu.victim \in Frames
    BY <1>8 DEF SwapFrame
  <2>2. file' \in Seq(Words)
    BY <1>8, <2>1, EntryWords, OverwrittenWords DEF SwapFrame
  <2>3. offset' \in Nat
    BY <1>8 DEF SwapFrame, Entry
  <2>4. why' \in [Frames -> SUBSET Causes] /\ repeats' \in Nat
    BY <1>8, <2>1 DEF SwapFrame, Causes
  <2>5. QED
    BY <1>8, <2>2, <2>3, <2>4 DEF SwapFrame
<1>9. CASE Assign
  BY <1>9 DEF Assign, IdleCpu
<1>10. CASE Unswap
  <2> DEFINE i == ReplaceIndex(cpu.page)
             ws == Shown(file, offset - PageWords, PageWords)
  <2>1. i \in Nat
    BY ReplaceIndexType
  <2> HIDE DEF i
  <2>2. Restored(i) \in [Offsets -> Int]
    <3> file \in Seq(Words) /\ i + 1 \in Nat /\ PageWords \in Nat
      BY <2>1
    <3>1. Shown(file, i + 1, PageWords) \in Seq(Words) /\ Len(Shown(file, i + 1, PageWords)) = PageWords
      BY ShownWords, ZenonT(40)
    <3>2. \A w \in Offsets : Shown(file, i + 1, PageWords)[w] \in Words
      BY <3>1, ElementOfSeq DEF Offsets
    <3>3. QED
      BY <3>2 DEF Restored, Garbage, Words
  <2>3. mem' \in Contents
    BY <1>10, <2>2 DEF Unswap, Contents, i
  <2>4. why' \in [Frames -> SUBSET Causes]
    BY <1>10 DEF Unswap, Losses, Causes
  <2>5. file' \in Seq(Words)
    <3>1. CASE offset > PageWords
      <4>1. ws \in Seq(Words)
        BY <3>1, ShownWords
      <4>2. file' = Overwritten(file, i, ws)
        BY <1>10, <3>1 DEF Unswap, i
      <4>3. QED
        BY <2>1, <4>1, <4>2, OverwrittenWords
    <3>2. CASE ~(offset > PageWords)
      BY <1>10, <3>2 DEF Unswap
    <3>3. QED
      BY <3>1, <3>2
  <2>6. offset' \in Nat
    BY <1>10 DEF Unswap, Entry
  <2>7. answer' \in [Frames -> Frames \union {NoFrame}]
    BY <1>10 DEF Unswap, AnswerNewFrame
  <2>8. QED
    BY <1>10, <2>3, <2>4, <2>5, <2>6, <2>7 DEF Unswap, IdleCpu
<1>11. CASE UnswapUnmapped
  BY <1>11 DEF UnswapUnmapped, AnswerNewFrame, IdleCpu
<1>12. CASE UNCHANGED vars
  BY <1>12 DEF vars
<1>13. QED
  BY <1>1, <1>2, <1>3, <1>4, <1>5, <1>6, <1>7, <1>8, <1>9, <1>10, <1>11, <1>12, <1>14 DEF Next

\* What the threads know stays true, whichever of them goes on.
LEMMA ThreadsStep == ASSUME SwapInv, [Next]_vars PROVE ThreadsOK'
<1> USE SwapAssumption DEF SwapInv, SwapTypeOK, ThreadsOK, pages
<1>1. CASE MemoryInit
  BY <1>1 DEF MemoryInit
<1>2. CASE SwapPcbTruncate
  BY <1>2 DEF SwapPcbTruncate
<1>3. CASE SwapPcbCopy
  BY <1>3 DEF SwapPcbCopy, IdleKernel
<1>4. CASE DestroyProcessFile
  BY <1>4 DEF DestroyProcessFile
<1>5. CASE Write \/ WriteOther
  BY <1>5 DEF Write, WriteOther
<1>6. ASSUME NEW f \in Frames, Frame(f) PROVE ThreadsOK'
  BY <1>6 DEF Frame, Victims
<1>14. ASSUME NEW f \in Frames, Ask(f) PROVE ThreadsOK'
  BY <1>14 DEF Ask
<1>7. CASE SwapTruncate
  BY <1>7 DEF SwapTruncate
<1>8. CASE SwapFrame
  BY <1>8 DEF SwapFrame
<1>9. CASE Assign
  BY <1>9 DEF Assign, IdleCpu
<1>10. CASE Unswap
  BY <1>10 DEF Unswap, IdleCpu
<1>11. CASE UnswapUnmapped
  BY <1>11 DEF UnswapUnmapped, IdleCpu
<1>12. CASE UNCHANGED vars
  BY <1>12 DEF vars
<1>13. QED
  BY <1>1, <1>2, <1>3, <1>4, <1>5, <1>6, <1>7, <1>8, <1>9, <1>10, <1>11, <1>12, <1>14 DEF Next
-----------------------------------------------------------------------------
(* The end of the entries.                                                 *)

\* The sets of pages are finite, so they can be counted.
LEMMA PagesFinite ==
  ASSUME SwapTypeOK
  PROVE  /\ \A S \in SUBSET Frames : IsFiniteSet(S) /\ Cardinality(S) \in Nat
         /\ present \in SUBSET Frames /\ SwappedOut \in SUBSET Frames
<1>1. \A S \in SUBSET Frames : IsFiniteSet(S) /\ Cardinality(S) \in Nat
  BY SwapAssumption, FS_Subset, FS_CardinalityType
<1>2. QED
  BY <1>1 DEF SwapTypeOK, SwappedOut

\* A product is at least its first factor when the second has a part that is not 0.
LEMMA AtLeastOne ==
  ASSUME NEW e \in Nat, NEW a \in Nat, a >= 1, NEW b \in Nat PROVE e * (a + b) >= e
<1> DEFINE c == a + b
<1>1. c \in Nat /\ c >= 1
  OBVIOUS
<1> HIDE DEF c
<1>2. e * c >= e
  BY <1>1
<1>3. QED
  BY <1>2 DEF c

\* The offset moves with the pages that are swapped out and with the repeats: by
\* one entry when the victim is copied and when a page comes back, and not at all
\* otherwise.
LEMMA OffsetStep == ASSUME SwapInv, [Next]_vars PROVE OffsetCounts'
<1> USE SwapAssumption DEF SwapInv, ThreadsOK, pages
<1>0. SwapTypeOK /\ Entry \in Nat /\ Entry > PageWords /\ PageWords \in Nat /\ repeats \in Nat
  BY DEF Entry, SwapTypeOK
<1>1. ASSUME SwappedOut' = SwappedOut, offset' = offset, size' = size, repeats' = repeats
      PROVE  OffsetCounts'
  BY <1>1 DEF OffsetCounts
<1>2. CASE MemoryInit
  <2>1. SwappedOut' = {} /\ offset' = 0 /\ repeats' = 0
    BY <1>0, <1>2 DEF MemoryInit, SwappedOut, SwapTypeOK
  <2>2. QED
    BY <1>0, <2>1, FS_EmptySet DEF OffsetCounts
<1>3. CASE SwapPcbTruncate
  BY <1>1, <1>3 DEF SwapPcbTruncate, SwappedOut
<1>4. CASE SwapPcbCopy
  BY <1>1, <1>4 DEF SwapPcbCopy, SwappedOut
<1>5. CASE DestroyProcessFile
  BY <1>5 DEF DestroyProcessFile, OffsetCounts
<1>6. CASE Write \/ WriteOther
  BY <1>1, <1>6 DEF Write, WriteOther, SwappedOut
<1>15. ASSUME NEW f \in Frames, Ask(f) PROVE OffsetCounts'
  BY <1>1, <1>15 DEF Ask, SwappedOut
<1>7. ASSUME NEW f \in Frames, Frame(f) PROVE OffsetCounts'
  <2>1. cpu.pc = "idle" /\ assigned' = assigned /\ present \subseteq assigned
    BY <1>0, <1>7 DEF Frame, SwapTypeOK
  <2>2. CASE Cardinality(present) >= MaxFrames
    <3>1. PICK v \in Victims :
            /\ cpu' = [pc |-> "truncate", page |-> f, victim |-> v, again |-> v \notin present]
            /\ present' = present \ {v}
      BY <1>7, <2>2 DEF Frame
    <3>2. SwappedOut' = assigned \ present /\ SwappedOut = assigned \ present
      BY <2>1, <3>1 DEF SwappedOut, Victims
    <3>3. QED
      BY <1>1, <1>7, <3>2 DEF Frame
  <2>3. CASE ~(Cardinality(present) >= MaxFrames)
    BY <1>1, <1>7, <2>1, <2>3 DEF Frame, SwappedOut
  <2>4. QED
    BY <2>2, <2>3
<1>8. CASE SwapTruncate
  <2>1. cpu.pc = "truncate" /\ cpu' = [cpu EXCEPT !.pc = IF size = 0 THEN "fill" ELSE "copy"]
    BY <1>8 DEF SwapTruncate
  <2>2. CASE size = 0
    BY <1>8, <2>2 DEF SwapTruncate, OffsetCounts
  <2>3. CASE size # 0
    <3>1. cpu'.pc = "copy" /\ cpu'.victim = cpu.victim /\ cpu'.again = cpu.again
      BY <1>0, <2>1, <2>3 DEF SwapTypeOK
    <3>2. SwappedOut' = SwappedOut
      BY <1>8, <2>1, <3>1 DEF SwapTruncate, SwappedOut
    <3>3. QED
      BY <1>1, <1>8, <3>2 DEF SwapTruncate
  <2>4. QED
    BY <2>2, <2>3
<1>9. CASE SwapFrame
  <2>1. cpu.pc = "copy" /\ cpu'.pc = "fill" /\ cpu.victim \in assigned \ present
    BY <1>0, <1>9 DEF SwapFrame, SwapTypeOK
  <2>2. IsFiniteSet(SwappedOut) /\ Cardinality(SwappedOut) \in Nat
    BY <1>0, PagesFinite
  <2>3. size' > 0 => /\ offset = Entry * (Cardinality(SwappedOut) + repeats)
                     /\ offset' = offset + Entry
    BY <1>9 DEF SwapFrame, OffsetCounts
  <2>4. CASE cpu.again
    <3>1. SwappedOut' = SwappedOut /\ repeats' = repeats + 1
      BY <1>9, <2>1, <2>4 DEF SwapFrame, SwappedOut
    <3>2. QED
      BY <1>0, <2>2, <2>3, <3>1 DEF OffsetCounts
  <2>5. CASE ~cpu.again
    <3>1. /\ SwappedOut' = SwappedOut \union {cpu.victim} /\ cpu.victim \notin SwappedOut
          /\ repeats' = repeats
      BY <1>0, <1>9, <2>1, <2>5 DEF SwapFrame, SwappedOut
    <3>2. Cardinality(SwappedOut') = Cardinality(SwappedOut) + 1
      BY <2>2, <3>1, FS_AddElement
    <3>3. QED
      BY <1>0, <2>2, <2>3, <3>1, <3>2 DEF OffsetCounts
  <2>6. QED
    BY <2>4, <2>5
<1>10. CASE Assign
  <2>1. SwappedOut' = SwappedOut
    BY <1>0, <1>10 DEF Assign, SwappedOut, IdleCpu, SwapTypeOK
  <2>2. QED
    BY <1>1, <1>10, <2>1 DEF Assign
<1>11. CASE Unswap
  <2>1. cpu.pc = "fill" /\ cpu.page \in assigned \ present /\ cpu'.pc = "idle" /\ size > 0
    BY <1>0, <1>11 DEF Unswap, SwapTypeOK, IdleCpu
  <2>2. SwappedOut' = SwappedOut \ {cpu.page} /\ cpu.page \in SwappedOut
    BY <1>11, <2>1 DEF Unswap, SwappedOut
  <2>3. IsFiniteSet(SwappedOut) /\ Cardinality(SwappedOut) \in Nat
    BY <1>0, PagesFinite
  <2>4. Cardinality(SwappedOut') = Cardinality(SwappedOut) - 1
    BY <2>2, <2>3, FS_RemoveElement
  <2>5. Cardinality(SwappedOut) >= 1
    BY <2>2, <2>3, FS_EmptySet
  <2>6. offset = Entry * (Cardinality(SwappedOut) + repeats)
    BY <2>1 DEF OffsetCounts
  <2>7. offset >= Entry
    BY <1>0, <2>3, <2>5, <2>6, AtLeastOne
  <2>8. offset' = offset - Entry /\ repeats' = repeats
    BY <1>0, <1>11, <2>7 DEF Unswap, SwapTypeOK
  <2>9. QED
    BY <1>0, <2>3, <2>4, <2>6, <2>8 DEF OffsetCounts
<1>12. CASE UnswapUnmapped
  BY <1>12 DEF UnswapUnmapped, OffsetCounts
<1>13. CASE UNCHANGED vars
  BY <1>1, <1>13 DEF vars, SwappedOut
<1>14. QED
  BY <1>2, <1>3, <1>4, <1>5, <1>6, <1>7, <1>8, <1>9, <1>10, <1>11, <1>12, <1>13, <1>15 DEF Next

\* A page leaves main memory only for another one, so the frames of the process
\* stay in use.
LEMMA FullStep == ASSUME SwapInv, [Next]_vars PROVE FullWhenSwapped'
<1> USE SwapAssumption DEF SwapInv, ThreadsOK, pages
<1>0. /\ SwapTypeOK /\ MaxFrames \in Nat \ {0} /\ IsFiniteSet(present) /\ Cardinality(present) \in Nat
      /\ repeats \in Nat
  BY PagesFinite DEF SwapTypeOK
<1>1. ASSUME assigned' = assigned, present' = present, cpu' = cpu, size' = size, repeats' = repeats
      PROVE  FullWhenSwapped'
  BY <1>1 DEF FullWhenSwapped
<1>2. CASE MemoryInit
  <2>1. present' = {} /\ assigned' = {}
    BY <1>0, <1>2 DEF MemoryInit, SwapTypeOK
  <2>2. QED
    BY <1>2, <2>1 DEF MemoryInit, FullWhenSwapped
<1>3. CASE SwapPcbTruncate
  BY <1>1, <1>3 DEF SwapPcbTruncate
<1>4. CASE SwapPcbCopy
  BY <1>1, <1>4 DEF SwapPcbCopy
<1>5. CASE DestroyProcessFile
  BY <1>5 DEF DestroyProcessFile, FullWhenSwapped
<1>6. CASE Write \/ WriteOther
  BY <1>1, <1>6 DEF Write, WriteOther
<1>15. ASSUME NEW f \in Frames, Ask(f) PROVE FullWhenSwapped'
  BY <1>1, <1>15 DEF Ask
<1>7. ASSUME NEW f \in Frames, Frame(f) PROVE FullWhenSwapped'
  <2>1. cpu.pc = "idle" /\ assigned' = assigned /\ size' = size /\ repeats' = repeats
    BY <1>7 DEF Frame
  <2>2. CASE Cardinality(present) >= MaxFrames
    <3>1. PICK v \in Victims :
            /\ cpu' = [pc |-> "truncate", page |-> f, victim |-> v, again |-> v \notin present]
            /\ present' = present \ {v}
      BY <1>7, <2>2 DEF Frame
    <3>2. Cardinality(present') >= MaxFrames - 1
      <4>1. CASE v \in present
        <5>1. Cardinality(present \ {v}) = Cardinality(present) - 1
          BY <1>0, <4>1, FS_RemoveElement
        <5>2. QED
          BY <1>0, <2>2, <3>1, <5>1
      <4>2. CASE v \notin present
        <5>1. present' = present
          BY <3>1, <4>2
        <5>2. QED
          BY <1>0, <2>2, <5>1
      <4>3. QED
        BY <4>1, <4>2
    <3>3. Cardinality(Frames) >= MaxFrames
      BY <1>0, <2>2, PagesFinite, SwapAssumption, FS_Subset, FS_CardinalityType
    <3>4. QED
      BY <1>0, <2>1, <3>1, <3>2, <3>3 DEF FullWhenSwapped
  <2>3. CASE ~(Cardinality(present) >= MaxFrames)
    <3>1. cpu'.pc = "fill" /\ ~cpu'.again /\ present' = present
      BY <1>7, <2>3 DEF Frame
    <3>2. QED
      BY <1>0, <2>1, <2>3, <3>1 DEF FullWhenSwapped
  <2>4. QED
    BY <2>2, <2>3
<1>8. CASE SwapTruncate
  <2>1. cpu.pc # "idle" /\ cpu'.pc # "idle" /\ cpu'.again = cpu.again
    BY <1>0, <1>8 DEF SwapTruncate, SwapTypeOK
  <2>2. QED
    BY <1>8, <2>1 DEF SwapTruncate, FullWhenSwapped
<1>9. CASE SwapFrame
  <2>1. /\ cpu.pc # "idle" /\ cpu'.pc # "idle" /\ cpu'.again = cpu.again
        /\ repeats' > 0 => repeats > 0 \/ cpu.again
    BY <1>0, <1>9 DEF SwapFrame, SwapTypeOK
  <2>2. QED
    BY <1>9, <2>1 DEF SwapFrame, FullWhenSwapped
<1>10. CASE Assign
  <2>1. /\ cpu.pc # "idle" /\ cpu'.pc = "idle" /\ ~cpu'.again
        /\ size' = size /\ repeats' = repeats /\ cpu.page \notin present
    BY <1>10 DEF Assign, IdleCpu
  <2>2. /\ present' = present \union {cpu.page} /\ assigned' = assigned \union {cpu.page}
        /\ assigned = present => assigned' = present'
    BY <1>10 DEF Assign
  <2>3. Cardinality(present') = Cardinality(present) + 1
    BY <1>0, <2>1, <2>2, FS_AddElement
  <2>4. QED
    BY <1>0, <2>1, <2>2, <2>3 DEF FullWhenSwapped
<1>11. CASE Unswap
  <2>1. /\ cpu.pc # "idle" /\ cpu'.pc = "idle" /\ ~cpu'.again /\ size' = size /\ repeats' = repeats
        /\ cpu.page \notin present /\ assigned # present
    BY <1>11 DEF Unswap, IdleCpu
  <2>2. present' = present \union {cpu.page}
    BY <1>11 DEF Unswap
  <2>3. Cardinality(present') = Cardinality(present) + 1
    BY <1>0, <2>1, <2>2, FS_AddElement
  <2>4. QED
    BY <1>0, <2>1, <2>3 DEF FullWhenSwapped
<1>12. CASE UnswapUnmapped
  BY <1>12 DEF UnswapUnmapped, FullWhenSwapped, IdleCpu
<1>13. CASE UNCHANGED vars
  BY <1>1, <1>13 DEF vars
<1>14. QED
  BY <1>2, <1>3, <1>4, <1>5, <1>6, <1>7, <1>8, <1>9, <1>10, <1>11, <1>12, <1>13, <1>15 DEF Next

\* One page is swapped out for each page asked for, so the entries fit in a file
\* that has room for the pages that cannot be present, one more and the repeats.
LEMMA OffsetFits == ASSUME SwapInv PROVE OffsetInside
<1> USE SwapAssumption DEF SwapInv
<1> DEFINE n == Cardinality(Frames)
           p == Cardinality(present)
           c == Cardinality(SwappedOut)
<1>1. SwapTypeOK /\ Entry \in Nat /\ size \in Nat /\ offset \in Nat
  BY DEF Entry, SwapTypeOK
<1>2. n \in Nat /\ p \in Nat /\ c \in Nat /\ MaxFrames \in Nat /\ repeats \in Nat
  BY <1>1, PagesFinite, FS_CardinalityType DEF SwapTypeOK
<1>3. CASE size = 0
  BY <1>3 DEF ThreadsOK, OffsetInside
<1>4. CASE size > 0 /\ SwappedOut = {} /\ repeats = 0
  <2>1. c = 0
    BY <1>4, FS_EmptySet
  <2>2. offset = 0
    BY <1>1, <1>4, <2>1 DEF OffsetCounts
  <2>3. QED
    BY <1>1, <2>2 DEF OffsetInside
<1>5. CASE size > 0 /\ ~(SwappedOut = {} /\ repeats = 0)
  <2>1. c <= n - MaxFrames + 1 /\ n - MaxFrames + 1 \in Nat
    <3>1. CASE SwappedOut = {}
      <4>1. c = 0 /\ n >= MaxFrames
        BY <1>2, <1>5, <3>1, FS_EmptySet DEF FullWhenSwapped
      <4> HIDE DEF n, c
      <4>2. QED
        BY <1>2, <4>1
    <3>2. CASE SwappedOut # {}
      <4>1. SwappedOut \in SUBSET (Frames \ present) /\ assigned # present
        BY <1>1, <3>2 DEF SwapTypeOK, SwappedOut
      <4>2. p >= MaxFrames - 1
        BY <1>2, <1>5, <4>1 DEF FullWhenSwapped
      <4>3. Frames \intersect present = present
        BY <1>1, PagesFinite
      <4>4. IsFiniteSet(Frames \ present) /\ Cardinality(Frames \ present) = n - p
        BY <4>3, FS_Difference
      <4>5. c <= n - p
        BY <4>1, <4>4, FS_Subset
      <4> HIDE DEF n, p, c
      <4>6. QED
        BY <1>2, <4>2, <4>5
    <3>3. QED
      BY <3>1, <3>2
  <2>2. offset = Entry * (c + repeats)
    BY <1>5 DEF OffsetCounts
  <2> DEFINE a == c + repeats
             d == n - MaxFrames + 1 + repeats
  <2>3. a \in Nat /\ d \in Nat /\ a <= d
    <3> HIDE DEF n, p, c
    <3>1. QED
      BY <1>2, <2>1
  <2>4. offset = Entry * a /\ (OffsetInside <=> (size >= Entry * d => offset <= size))
    BY <2>2 DEF OffsetInside
  <2> HIDE DEF a, d
  <2>5. Entry * a <= Entry * d /\ Entry * a \in Nat /\ Entry * d \in Nat
    BY <1>1, <2>3
  <2>6. QED
    BY <1>1, <2>4, <2>5
<1>6. QED
  BY <1>1, <1>3, <1>4, <1>5
-----------------------------------------------------------------------------
(* The contents of the pages.                                              *)

\* Two multiples of e that differ do so by e at least.
LEMMA Multiples ==
  ASSUME NEW e \in Nat, NEW a \in Nat, NEW b \in Nat, a < b
  PROVE  e * a + e <= e * b
<1>1. e * (b - a) >= e
  <2> DEFINE d == b - a
  <2>1. d \in Nat /\ d >= 1
    OBVIOUS
  <2> HIDE DEF d
  <2>2. e * d >= e
    BY <2>1
  <2>3. QED
    BY <2>2 DEF d
<1>2. e * b = e * a + e * (b - a)
  OBVIOUS
<1>3. QED
  BY <1>1, <1>2

\* A number that is divided without a rest is a multiple.
LEMMA DivisionExact ==
  ASSUME NEW e \in Nat, e > 0, NEW i \in Nat, i % e = 0
  PROVE  \E k \in Nat : i = e * k
<1>1. i = e * (i \div e) /\ i \div e \in Nat
  OBVIOUS
<1>2. QED
  BY <1>1

\* The file has no frame number and no data that it did not have before.
NothingNew ==
  \A p \in 1 .. Len(file') :
    file'[p].tag \in {"head", "data"} => p \in 1 .. Len(file) /\ file'[p] = file[p]

\* Truncating the file brings nothing new into it.
LEMMA TruncatingAddsNothing ==
  ASSUME SwapTypeOK, NEW n \in Nat, file' = Truncated(file, n)
  PROVE  NothingNew
<1> SUFFICES ASSUME NEW p \in 1 .. Len(file'), file'[p].tag \in {"head", "data"}
             PROVE  p \in 1 .. Len(file) /\ file'[p] = file[p]
  BY DEF NothingNew
<1>1. file \in Seq(Words)
  BY DEF SwapTypeOK
<1>2. p \in 1 .. n /\ file'[p] = IF p <= Len(file) THEN file[p] ELSE ZeroWord
  BY <1>1, TruncatedWords
<1>3. ZeroWord.tag = "zero"
  BY DEF ZeroWord
<1>4. QED
  BY <1>1, <1>2, <1>3

\* Storing words of a PCB brings neither frame numbers nor data into the file.
LEMMA PcbAddsNothing ==
  ASSUME SwapTypeOK, NEW ws \in Seq(Words), \A i \in 1 .. Len(ws) : ws[i].tag = "pcb",
         file' = Overwritten(file, 0, ws)
  PROVE  NothingNew
<1>1. file \in Seq(Words)
  BY DEF SwapTypeOK
<1>2. QED
  BY <1>1, OverwrittenWords DEF NothingNew

\* The positions that begin an entry: none is inside another entry.
LEMMA Aligned ==
  ASSUME NEW p \in Nat, NEW q \in Nat, NEW w \in 1 .. PageWords,
         \E k \in Nat : p = Entry * k + 1, \E k \in Nat : q = Entry * k + 1
  PROVE  p + w # q /\ (p < q => p + w < q) /\ (q < p => q + PageWords < p)
<1>1. Entry \in Nat /\ Entry = PageWords + 1 /\ PageWords \in Nat
  BY SwapAssumption DEF Entry
<1>2. PICK a \in Nat, b \in Nat : p = Entry * a + 1 /\ q = Entry * b + 1
  OBVIOUS
<1>3. Entry * a \in Nat /\ Entry * b \in Nat
  BY <1>1
<1>4. CASE a < b
  BY <1>1, <1>2, <1>3, <1>4, Multiples
<1>5. CASE b < a
  BY <1>1, <1>2, <1>3, <1>5, Multiples
<1>6. CASE a = b
  BY <1>1, <1>2, <1>3, <1>6
<1>7. QED
  BY <1>4, <1>5, <1>6

\* The end of the entries is where the next one begins.
LEMMA OffsetAligned ==
  ASSUME SwapInv PROVE \E k \in Nat : offset = Entry * k
<1>1. Entry \in Nat /\ SwapTypeOK /\ ThreadsOK /\ OffsetCounts /\ size \in Nat
  BY SwapAssumption DEF Entry, SwapInv, SwapTypeOK
<1>2. Cardinality(SwappedOut) + repeats \in Nat
  BY <1>1, PagesFinite DEF SwapTypeOK
<1>3. CASE size = 0
  <2>1. offset = Entry * 0
    BY <1>1, <1>3 DEF ThreadsOK
  <2>2. QED
    BY <2>1
<1>4. CASE size > 0
  BY <1>1, <1>2, <1>4 DEF OffsetCounts
<1>5. QED
  BY <1>1, <1>3, <1>4

\* What unswap_frame_for_pcb does: it finds where an entry begins, inside of the
\* entries, and copies PageWords words that begin no entry over it.
LEMMA UnswapFile ==
  ASSUME SwapInv, Unswap
  PROVE  LET i == ReplaceIndex(cpu.page)
         IN  /\ i \in Nat /\ i < offset /\ \E k \in Nat : i + 1 = Entry * k + 1
             /\ Matches(cpu.page) # {} => i \in Matches(cpu.page)
             /\ \A j \in Matches(cpu.page) : i <= j
             /\ offset' = offset - Entry /\ offset' \in Nat
             /\ Len(file') = Len(file)
             /\ \A p \in 1 .. Len(file) :
                  file'[p] = IF p \in i + 1 .. i + PageWords
                             THEN Shown(file, offset - PageWords, PageWords)[p - i]
                             ELSE file[p]
             /\ \A k \in 1 .. PageWords :
                  Shown(file, offset - PageWords, PageWords)[k].tag # "head"
<1> DEFINE i == ReplaceIndex(cpu.page)
           ws == Shown(file, offset - PageWords, PageWords)
           m == Matches(cpu.page)
<1> USE SwapAssumption DEF SwapInv
<1>0. Entry \in Nat /\ Entry = PageWords + 1 /\ PageWords \in Nat /\ SwapTypeOK
  BY DEF Entry
<1>1. file \in Seq(Words) /\ offset \in Nat
  BY <1>0 DEF SwapTypeOK
<1>2. cpu.page \in SwappedOut
  BY DEF Unswap, ThreadsOK, SwappedOut
<1>3. IsFiniteSet(SwappedOut) /\ Cardinality(SwappedOut) \in Nat
  BY <1>0, PagesFinite
<1>4. Cardinality(SwappedOut) >= 1
  BY <1>2, <1>3, FS_EmptySet
<1>5. offset = Entry * (Cardinality(SwappedOut) + repeats) /\ repeats \in Nat
  BY <1>0 DEF Unswap, OffsetCounts, SwapTypeOK
<1>6. offset >= Entry
  BY <1>0, <1>3, <1>4, <1>5, AtLeastOne
<1>7. m \in SUBSET Nat /\ \A j \in m : j < offset /\ j % Entry = 0
  BY <1>1 DEF Matches
<1>8. /\ i \in Nat /\ i < offset /\ (m # {} => i \in m) /\ \A j \in m : i <= j
      /\ \E k \in Nat : i = Entry * k
  <2>1. CASE m = {}
    <3>1. i = 0
      BY <2>1 DEF ReplaceIndex
    <3> HIDE DEF i, m
    <3>2. i = Entry * 0
      BY <1>0, <3>1
    <3>3. QED
      BY <1>0, <1>1, <1>6, <2>1, <3>1, <3>2
  <2>2. CASE m # {}
    <3>1. i = Min(m)
      BY <2>2 DEF ReplaceIndex
    <3> HIDE DEF i, m
    <3>2. i \in m /\ \A j \in m : i <= j
      BY <1>7, <2>2, <3>1, MinIsLeast
    <3>3. i \in Nat /\ Entry > 0 /\ i % Entry = 0
      BY <1>0, <1>7, <3>2
    <3>4. \E k \in Nat : i = Entry * k
      BY <1>0, <3>3, DivisionExact
    <3>5. QED
      BY <1>7, <3>2, <3>4
  <2>3. QED
    BY <2>1, <2>2
<1>9. offset' = offset - Entry /\ file' = Overwritten(file, i, ws)
  BY <1>0, <1>1, <1>6 DEF Unswap
<1>10. offset - PageWords \in Nat
  BY <1>0, <1>1, <1>6
<1>11. /\ ws \in Seq(Words) /\ Len(ws) = PageWords
       /\ \A k \in 1 .. PageWords :
            ws[k] = IF offset - PageWords + k <= Len(file) THEN file[offset - PageWords + k] ELSE ZeroWord
  BY <1>0, <1>1, <1>10, ShownWords
<1>12. ASSUME NEW k \in 1 .. PageWords, ws[k].tag = "head" PROVE FALSE
  <2> DEFINE q == offset - PageWords + k
  <2>1. ZeroWord.tag = "zero"
    BY DEF ZeroWord
  <2>2. q \in 1 .. Len(file) /\ file[q].tag = "head"
    BY <1>1, <1>10, <1>11, <1>12, <2>1
  <2>3. \E a \in Nat : q = Entry * a + 1
    BY <2>2 DEF HeadsAligned
  <2>4. PICK c \in Nat : offset = Entry * c
    BY OffsetAligned
  <2> DEFINE h == offset - PageWords
  <2>5. h \in Nat /\ c >= 1
    BY <1>0, <1>1, <1>6, <2>4
  <2>6. h = Entry * (c - 1) + 1 /\ c - 1 \in Nat
    BY <1>0, <2>4, <2>5
  <2>7. \E a \in Nat : h = Entry * a + 1
    BY <2>6
  <2>8. q = h + k /\ q \in Nat /\ k \in 1 .. PageWords
    BY <2>5
  <2> HIDE DEF h, q
  <2>9. QED
    BY <2>3, <2>5, <2>7, <2>8, Aligned
<1> HIDE DEF i, ws, m
<1>13. /\ Len(file') = Len(file)
       /\ \A p \in 1 .. Len(file) :
            file'[p] = IF p \in i + 1 .. i + Len(ws) THEN ws[p - i] ELSE file[p]
  <2>1. i \in Nat /\ ws \in Seq(Words) /\ file \in Seq(Words)
    BY <1>1, <1>8, <1>11
  <2>2. /\ Len(Overwritten(file, i, ws)) = Len(file)
        /\ \A p \in 1 .. Len(file) :
             Overwritten(file, i, ws)[p] = IF p \in i + 1 .. i + Len(ws) THEN ws[p - i] ELSE file[p]
    BY <2>1, OverwrittenWords
  <2>3. QED
    BY <1>9, <2>2
<1>14. \E k \in Nat : i + 1 = Entry * k + 1
  <2>1. PICK k \in Nat : i = Entry * k
    BY <1>8
  <2>2. QED
    BY <2>1
<1>15. offset' \in Nat
  BY <1>0, <1>1, <1>6, <1>9
<1>16. \A k \in 1 .. PageWords : ws[k].tag # "head"
  BY <1>12
<1>17. \A p \in 1 .. Len(file) :
         file'[p] = IF p \in i + 1 .. i + PageWords THEN ws[p - i] ELSE file[p]
  BY <1>11, <1>13
<1>18. QED
  BY <1>8, <1>9, <1>13, <1>14, <1>15, <1>16, <1>17 DEF i, ws, m

\* What swap_frame does: the entry of the victim stands behind the other ones, as
\* far as the file reaches.
LEMMA SwapFrameFile ==
  ASSUME SwapInv, SwapFrame
  PROVE  /\ Len(file') = Len(file)
         /\ \A p \in 1 .. Len(file) :
              file'[p] = IF p \in offset + 1 .. offset + Entry
                         THEN (IF p = offset + 1 THEN [val |-> cpu.victim, tag |-> "head"]
                               ELSE [val |-> mem[cpu.victim][p - offset - 1], tag |-> "data"])
                         ELSE file[p]
<1> DEFINE e == EntryOf(cpu.victim)
           v == cpu.victim
<1>0. Entry = PageWords + 1 /\ PageWords \in Nat
  BY SwapAssumption DEF Entry
<1>1. file \in Seq(Words) /\ offset \in Nat /\ v \in Frames /\ SwapTypeOK
  BY DEF SwapInv, SwapTypeOK, ThreadsOK, SwapFrame
<1>2. /\ e \in Seq(Words) /\ Len(e) = Entry /\ e[1] = [val |-> v, tag |-> "head"]
      /\ \A w \in 1 .. PageWords : e[w + 1] = [val |-> mem[v][w], tag |-> "data"]
  BY <1>1, EntryWords DEF Offsets
<1>3. file' = Overwritten(file, offset, e)
  BY DEF SwapFrame
<1> HIDE DEF e, v
<1>4. /\ Len(file') = Len(file)
      /\ \A p \in 1 .. Len(file) :
           file'[p] = IF p \in offset + 1 .. offset + Entry THEN e[p - offset] ELSE file[p]
  BY <1>1, <1>2, <1>3, OverwrittenWords
<1>5. ASSUME NEW p \in offset + 1 .. offset + Entry
      PROVE  e[p - offset] = IF p = offset + 1 THEN [val |-> v, tag |-> "head"]
                             ELSE [val |-> mem[v][p - offset - 1], tag |-> "data"]
  <2>1. CASE p = offset + 1
    <3>1. p - offset = 1
      BY <1>1, <2>1
    <3>2. QED
      BY <1>2, <2>1, <3>1
  <2>2. CASE p # offset + 1
    <3>1. p - offset - 1 \in 1 .. PageWords /\ (p - offset - 1) + 1 = p - offset
      BY <1>0, <1>1, <2>2
    <3>2. QED
      BY <1>2, <2>2, <3>1
  <2>3. QED
    BY <2>1, <2>2
<1>6. QED
  BY <1>4, <1>5 DEF v

\* The words before the entry, its frame number and its data.
LEMMA SwapFrameWords ==
  ASSUME SwapInv, SwapFrame
  PROVE  /\ \A p \in 1 .. Len(file) : p <= offset => file'[p] = file[p]
         /\ offset + 1 <= Len(file) => file'[offset + 1] = [val |-> cpu.victim, tag |-> "head"]
         /\ \A w \in 1 .. PageWords :
              offset + 1 + w <= Len(file) =>
                file'[offset + 1 + w] = [val |-> mem[cpu.victim][w], tag |-> "data"]
<1>0. Entry = PageWords + 1 /\ PageWords \in Nat /\ Len(file) \in Nat /\ offset \in Nat
  BY SwapAssumption DEF Entry, SwapInv, SwapTypeOK
<1>1. ASSUME NEW p \in 1 .. Len(file), p <= offset PROVE file'[p] = file[p]
  <2>1. p \notin offset + 1 .. offset + Entry
    BY <1>0, <1>1
  <2>2. QED
    BY <2>1, SwapFrameFile
<1>2. ASSUME offset + 1 <= Len(file) PROVE file'[offset + 1] = [val |-> cpu.victim, tag |-> "head"]
  <2>1. offset + 1 \in 1 .. Len(file) /\ offset + 1 \in offset + 1 .. offset + Entry
    BY <1>0, <1>2
  <2>2. QED
    BY <2>1, SwapFrameFile
<1>3. ASSUME NEW w \in 1 .. PageWords, offset + 1 + w <= Len(file)
      PROVE  file'[offset + 1 + w] = [val |-> mem[cpu.victim][w], tag |-> "data"]
  <2> DEFINE p == offset + 1 + w
  <2>1. /\ p \in 1 .. Len(file) /\ p \in offset + 1 .. offset + Entry
        /\ p # offset + 1 /\ p - offset - 1 = w
    BY <1>0, <1>3
  <2> HIDE DEF p
  <2>2. file'[p] = [val |-> mem[cpu.victim][p - offset - 1], tag |-> "data"]
    BY <2>1, SwapFrameFile
  <2>3. QED
    BY <2>1, <2>2 DEF p
<1>4. QED
  BY <1>1, <1>2, <1>3

\* Nothing new comes into the file while the process is suspended, while the file
\* gets its length back, and when it is created or deleted.
LEMMA QuietSteps ==
  ASSUME SwapInv, [Next]_vars, ~SwapFrame, ~Unswap PROVE NothingNew
<1> USE SwapAssumption DEF SwapInv, pages
<1>0. SwapTypeOK /\ file \in Seq(Words)
  BY DEF SwapTypeOK
<1>1. ASSUME file' = file PROVE NothingNew
  BY <1>0, <1>1 DEF NothingNew
<1>2. CASE MemoryInit
  <2>1. PICK n \in Sizes, s \in PcbStreams :
          file' = Overwritten(Truncated(<<>>, n), 0, <<[val |-> Head(s), tag |-> "pcb"]>>)
    BY <1>2 DEF MemoryInit
  <2> DEFINE ws == <<[val |-> Head(s), tag |-> "pcb"]>>
             z == Truncated(<<>>, n)
  <2>2. n \in Nat /\ <<>> \in Seq(Words) /\ Head(s) \in Int
    OBVIOUS
  <2>3. ws \in Seq(Words) /\ Len(ws) = 1 /\ ws[1].tag = "pcb"
    BY <2>2 DEF Words
  <2>4. z \in Seq(Words) /\ Len(z) = n /\ \A p \in 1 .. n : z[p] = ZeroWord
    <3> DEFINE nil == <<>>
    <3>1. nil \in Seq(Words) /\ Len(nil) = 0 /\ z = Truncated(nil, n)
      OBVIOUS
    <3> HIDE DEF nil, z
    <3>2. /\ z \in Seq(Words) /\ Len(z) = n
          /\ \A p \in 1 .. n : z[p] = IF p <= Len(nil) THEN nil[p] ELSE ZeroWord
      BY <2>2, <3>1, TruncatedWords
    <3>3. QED
      BY <3>1, <3>2
  <2> HIDE DEF ws, z
  <2>5. /\ Len(file') = n
        /\ \A p \in 1 .. n : file'[p] = IF p = 1 THEN ws[1] ELSE z[p]
    <3> DEFINE o == 0
    <3>1. file' = Overwritten(z, o, ws) /\ o \in Nat
      BY <2>1 DEF ws, z
    <3> HIDE DEF o
    <3>2. /\ Len(Overwritten(z, o, ws)) = Len(z)
          /\ \A p \in 1 .. Len(z) :
               Overwritten(z, o, ws)[p] = IF p \in o + 1 .. o + Len(ws) THEN ws[p - o] ELSE z[p]
      <4>1. z \in Seq(Words) /\ ws \in Seq(Words) /\ o \in Nat
        BY <2>3, <2>4, <3>1
      <4>2. QED
        BY <4>1, OverwrittenWords
    <3>3. \A p \in 1 .. n : (p \in o + 1 .. o + Len(ws) <=> p = 1) /\ p - o = p
      BY <2>2, <2>3 DEF o
    <3>4. QED
      BY <2>4, <3>1, <3>2, <3>3
  <2>6. \A p \in 1 .. n : file'[p].tag \in {"pcb", "zero"}
    <3>1. ZeroWord.tag = "zero"
      BY DEF ZeroWord
    <3>2. ASSUME NEW p \in 1 .. n PROVE file'[p].tag \in {"pcb", "zero"}
      <4>1. CASE p = 1
        BY <2>2, <2>3, <2>5, <4>1
      <4>2. CASE p # 1
        BY <2>2, <2>4, <2>5, <3>1, <4>2
      <4>3. QED
        BY <4>1, <4>2
    <3>3. QED
      BY <3>2
  <2>7. QED
    BY <2>5, <2>6 DEF NothingNew
<1>3. CASE SwapPcbTruncate
  <2>1. PICK s \in PcbStreams : file' = Truncated(file, Len(s))
    BY <1>3 DEF SwapPcbTruncate
  <2>2. Len(s) \in Nat
    OBVIOUS
  <2>3. QED
    BY <1>0, <2>1, <2>2, TruncatingAddsNothing
<1>4. CASE SwapPcbCopy
  <2> DEFINE st == kernel.stream
             ws == [i \in 1 .. Len(st) |-> [val |-> st[i], tag |-> "pcb"]]
  <2>1. st \in Seq(Nat) /\ Len(st) \in Nat
    BY <1>0 DEF SwapTypeOK
  <2> HIDE DEF st
  <2>2. ws \in [1 .. Len(st) -> Words]
    BY <2>1 DEF Words
  <2>3. ws \in Seq(Words) /\ Len(ws) = Len(st)
    BY <2>1, <2>2, FunctionIsSeq
  <2>4. \A i \in 1 .. Len(ws) : ws[i].tag = "pcb"
    BY <2>3
  <2>5. file' = Overwritten(file, 0, ws)
    BY <1>4 DEF SwapPcbCopy, st
  <2> HIDE DEF ws
  <2>6. QED
    BY <1>0, <2>3, <2>4, <2>5, PcbAddsNothing
<1>5. CASE DestroyProcessFile
  BY <1>5 DEF DestroyProcessFile, NothingNew
<1>6. CASE Write \/ WriteOther
  BY <1>1, <1>6 DEF Write, WriteOther
<1>13. ASSUME NEW f \in Frames, Ask(f) PROVE NothingNew
  BY <1>1, <1>13 DEF Ask
<1>7. ASSUME NEW f \in Frames, Frame(f) PROVE NothingNew
  BY <1>1, <1>7 DEF Frame
<1>8. CASE SwapTruncate
  BY <1>0, <1>8, TruncatingAddsNothing DEF SwapTruncate, SwapTypeOK
<1>9. CASE Assign
  BY <1>1, <1>9 DEF Assign
<1>10. CASE UnswapUnmapped
  BY <1>1, <1>10 DEF UnswapUnmapped
<1>11. CASE UNCHANGED vars
  BY <1>1, <1>11 DEF vars
<1>12. QED
  BY <1>2, <1>3, <1>4, <1>5, <1>6, <1>7, <1>8, <1>9, <1>10, <1>11, <1>13 DEF Next

\* Frame numbers stay where entries begin.
LEMMA AlignedStep == ASSUME SwapInv, [Next]_vars PROVE HeadsAligned'
<1> SUFFICES ASSUME NEW p \in 1 .. Len(file'), file'[p].tag = "head"
             PROVE  \E k \in Nat : p = Entry * k + 1
  BY DEF HeadsAligned
<1>0. HeadsAligned /\ file \in Seq(Words) /\ offset \in Nat
  BY DEF SwapInv, SwapTypeOK
<1>1. CASE SwapFrame
  <2>0. p \in 1 .. Len(file) /\ Entry \in Nat
    BY <1>1, SwapFrameFile, SwapAssumption DEF Entry
  <2>1. CASE p = offset + 1
    <3>1. PICK k \in Nat : offset = Entry * k
      BY OffsetAligned
    <3>2. QED
      BY <2>1, <3>1
  <2>2. CASE p # offset + 1
    <3>1. file[p].tag = "head"
      <4>1. CASE p \in offset + 1 .. offset + Entry
        <5>1. file'[p] = [val |-> mem[cpu.victim][p - offset - 1], tag |-> "data"]
          BY <1>1, <2>0, <2>2, <4>1, SwapFrameFile
        <5>2. QED
          BY <5>1
      <4>2. CASE p \notin offset + 1 .. offset + Entry
        BY <1>1, <2>0, <4>2, SwapFrameFile
      <4>3. QED
        BY <4>1, <4>2
    <3>2. QED
      BY <1>0, <2>0, <3>1 DEF HeadsAligned
  <2>3. QED
    BY <2>1, <2>2
<1>2. CASE Unswap
  <2> DEFINE i == ReplaceIndex(cpu.page)
             ws == Shown(file, offset - PageWords, PageWords)
  <2>1. /\ i \in Nat /\ Len(file') = Len(file)
        /\ \A q \in 1 .. Len(file) :
             file'[q] = IF q \in i + 1 .. i + PageWords THEN ws[q - i] ELSE file[q]
        /\ \A k \in 1 .. PageWords : ws[k].tag # "head"
    BY <1>2, UnswapFile
  <2> HIDE DEF i, ws
  <2>2. PageWords \in Nat
    BY SwapAssumption
  <2>3. p \in 1 .. Len(file) /\ file[p].tag = "head"
    <3>1. ASSUME p \in i + 1 .. i + PageWords PROVE FALSE
      <4>1. p - i \in 1 .. PageWords
        BY <2>1, <2>2, <3>1
      <4>2. QED
        BY <2>1, <3>1, <4>1
    <3>2. QED
      BY <2>1, <3>1
  <2>4. QED
    BY <1>0, <2>3 DEF HeadsAligned
<1>3. CASE ~SwapFrame /\ ~Unswap
  <2>1. p \in 1 .. Len(file) /\ file[p].tag = "head"
    BY <1>3, QuietSteps DEF NothingNew
  <2>2. QED
    BY <1>0, <2>1 DEF HeadsAligned
<1>4. QED
  BY <1>1, <1>2, <1>3

\* A page keeps its entry, if it has one, in every step that brings nothing new
\* into the file and leaves the page where it is.
LEMMA EntryStays ==
  ASSUME SwapInv, NothingNew, NEW f \in Frames, EntryOK(f),
         Len(file') \in Nat, offset' = offset, mem' = mem,
         Heads(f) # {} => f \in assigned' \ present',
         Heads(f) # {} => ~(cpu'.pc \in {"truncate", "copy"} /\ cpu'.victim = f /\ ~cpu'.again)
  PROVE  EntryOK(f)'
<1>0. file \in Seq(Words) /\ Len(file) \in Nat
  BY DEF SwapInv, SwapTypeOK
<1>1. Heads(f)' \subseteq Heads(f)
  <2> SUFFICES ASSUME NEW p \in Heads(f)' PROVE p \in Heads(f)
    OBVIOUS
  <2>1. p \in 1 .. Len(file') /\ p <= offset /\ file'[p].tag = "head" /\ file'[p].val = f
    BY DEF Heads
  <2>2. p \in 1 .. Len(file) /\ file'[p] = file[p]
    BY <2>1 DEF NothingNew
  <2>3. QED
    BY <2>1, <2>2 DEF Heads
<1>2. \A p, q \in Heads(f)' : p = q
  BY <1>1 DEF EntryOK
<1>3. ASSUME NEW p \in Heads(f)', NEW w \in 1 .. Copied, p + w <= Len(file'), file'[p + w].tag = "data"
      PROVE  file'[p + w].val = mem'[f][w]
  <2>1. p \in Heads(f) /\ p \in Nat /\ w \in Nat
    BY <1>1 DEF Heads, Copied
  <2>2. p + w \in 1 .. Len(file')
    BY <1>3, <2>1 DEF Heads, Copied
  <2>3. p + w \in 1 .. Len(file) /\ file'[p + w] = file[p + w]
    BY <1>3, <2>2 DEF NothingNew
  <2>4. QED
    BY <1>3, <2>1, <2>3 DEF EntryOK
<1>4. QED
  BY <1>1, <1>2, <1>3 DEF EntryOK

\* A page that is written is in main memory and has no entry, or it is lost.
LEMMA EntriesWrite == ASSUME SwapInv, Write \/ WriteOther PROVE EntriesOK'
<1>1. UNCHANGED <<file, offset, assigned, present, cpu>> /\ cpu.pc = "idle"
  BY DEF Write, WriteOther
<1> SUFFICES ASSUME NEW f \in Frames, ~Lost(f)' PROVE EntryOK(f)' /\ KeptOK(f)'
  BY DEF EntriesOK
<1>2. Heads(f)' = Heads(f)
  BY <1>1 DEF Heads
<1>3. why[f] \subseteq why'[f]
  BY WrittenPages
<1>4. EntryOK(f) /\ KeptOK(f)
  BY <1>3 DEF SwapInv, EntriesOK, Lost
<1>5. CASE mem'[f] = mem[f] /\ written'[f] = written[f]
  BY <1>1, <1>2, <1>3, <1>4, <1>5 DEF EntryOK, KeptOK
<1>6. CASE /\ f \in present
           /\ \E x \in Offsets, v \in Int :
                \A w \in Offsets : /\ mem'[f][w] = IF w = x THEN v ELSE mem[f][w]
                                   /\ written'[f][w] = IF w = x THEN v ELSE written[f][w]
  <2>1. Heads(f) = {}
    BY <1>4, <1>6 DEF EntryOK
  <2>2. KeptOK(f)'
    BY <1>3, <1>4, <1>6 DEF KeptOK
  <2>3. QED
    BY <1>2, <2>1, <2>2 DEF EntryOK
<1>7. QED
  BY <1>5, <1>6, WrittenPages

\* swap_frame gives a victim that was present the only entry it has, with the
\* words of its frame, and touches no other.
LEMMA EntriesSwapFrame == ASSUME SwapInv, SwapFrame PROVE EntriesOK'
<1>0. /\ Entry = PageWords + 1 /\ PageWords \in Nat /\ PageWords >= 2
      /\ file \in Seq(Words) /\ Len(file) \in Nat /\ offset \in Nat /\ HeadsAligned
  BY SwapAssumption DEF Entry, SwapInv, SwapTypeOK
<1>1. /\ UNCHANGED <<assigned, present, mem, written>> /\ offset' = offset + Entry
      /\ cpu.pc = "copy" /\ cpu'.pc = "fill" /\ cpu.victim \in assigned \ present
      /\ why' = IF cpu.again THEN [why EXCEPT ![cpu.victim] = @ \union {"twice"}] ELSE why
      /\ why \in [Frames -> SUBSET Causes]
  BY DEF SwapFrame, SwapInv, SwapTypeOK, ThreadsOK
<1> DEFINE v == cpu.victim
<1> SUFFICES ASSUME NEW f \in Frames, ~Lost(f)' PROVE EntryOK(f)' /\ KeptOK(f)'
  BY DEF EntriesOK
<1>11. why'[f] = why[f] /\ (f = v => ~cpu.again)
  BY <1>1 DEF Lost
<1>2. EntryOK(f) /\ KeptOK(f)
  BY <1>11 DEF SwapInv, EntriesOK, Lost
<1>3. KeptOK(f)'
  BY <1>1, <1>2, <1>11 DEF KeptOK
<1>4. /\ Len(file') = Len(file)
      /\ \A p \in 1 .. Len(file) : p <= offset => file'[p] = file[p]
      /\ offset + 1 <= Len(file) => file'[offset + 1] = [val |-> v, tag |-> "head"]
      /\ \A w \in 1 .. PageWords :
           offset + 1 + w <= Len(file) =>
             file'[offset + 1 + w] = [val |-> mem[v][w], tag |-> "data"]
  BY SwapFrameFile, SwapFrameWords
<1> HIDE DEF v
<1>5. ASSUME NEW p \in Heads(f)'
      PROVE  p \in Heads(f) \/ (p = offset + 1 /\ f = v)
  <2>1. /\ p \in 1 .. Len(file) /\ p <= offset + Entry
        /\ file'[p].tag = "head" /\ file'[p].val = f
    BY <1>1, <1>4 DEF Heads
  <2>2. CASE p = offset + 1
    <3>1. file'[p] = [val |-> v, tag |-> "head"]
      BY <1>0, <1>4, <2>1, <2>2
    <3>2. QED
      BY <2>1, <2>2, <3>1
  <2>3. CASE p > offset + 1
    <3> DEFINE w == p - offset - 1
    <3>0. w \in 1 .. PageWords /\ offset + 1 + w = p
      <4>1. p \in Nat /\ p <= offset + PageWords + 1
        BY <1>0, <2>1
      <4>2. QED
        BY <1>0, <2>3, <4>1
    <3> HIDE DEF w
    <3>1. file'[p] = [val |-> mem[v][w], tag |-> "data"]
      BY <1>0, <1>4, <2>1, <3>0
    <3>2. QED
      BY <2>1, <3>1
  <2>4. CASE p < offset + 1
    <3>1. file'[p] = file[p] /\ p <= offset
      BY <1>0, <1>4, <2>1, <2>4
    <3>2. QED
      BY <2>1, <3>1 DEF Heads
  <2>5. QED
    BY <1>0, <2>1, <2>2, <2>3, <2>4
<1>6. f = v => Heads(f) = {}
  BY <1>1, <1>2, <1>11 DEF EntryOK, v
<1>7. \A p, q \in Heads(f)' : p = q
  BY <1>2, <1>5, <1>6 DEF EntryOK
<1>8. Heads(f)' # {} => f \in (assigned \ present)'
  BY <1>1, <1>2, <1>5 DEF EntryOK, v
<1>9. ASSUME NEW p \in Heads(f)', NEW w \in 1 .. Copied, p + w <= Len(file'), file'[p + w].tag = "data"
      PROVE  file'[p + w].val = mem'[f][w]
  <2>0. w \in 1 .. PageWords /\ w \in Nat
    BY <1>0 DEF Copied
  <2>1. CASE p \in Heads(f)
    <3>1. p \in 1 .. Len(file) /\ p <= offset /\ file[p].tag = "head"
      BY <2>1 DEF Heads
    <3>2. \E k \in Nat : p = Entry * k + 1
      BY <1>0, <3>1 DEF HeadsAligned
    <3>3. \E k \in Nat : offset + 1 = Entry * k + 1
      <4>1. PICK k \in Nat : offset = Entry * k
        BY OffsetAligned
      <4>2. QED
        BY <4>1
    <3>4. p + w < offset + 1
      <4> DEFINE q == offset + 1
      <4>1. q \in Nat /\ p \in Nat /\ p < q /\ \E k \in Nat : q = Entry * k + 1
        BY <1>0, <3>1, <3>3
      <4> HIDE DEF q
      <4>2. p + w < q
        BY <2>0, <3>2, <4>1, Aligned
      <4>3. QED
        BY <4>2 DEF q
    <3>5. p + w \in 1 .. Len(file) /\ file'[p + w] = file[p + w]
      BY <1>0, <1>4, <1>9, <2>0, <3>1, <3>4
    <3>6. QED
      BY <1>1, <1>2, <1>9, <2>1, <3>5 DEF EntryOK
  <2>2. CASE p = offset + 1 /\ f = v
    <3>1. p + w = offset + 1 + w /\ offset + 1 + w <= Len(file)
      BY <1>4, <1>9, <2>2
    <3>2. file'[p + w] = [val |-> mem[v][w], tag |-> "data"]
      BY <1>4, <2>0, <3>1
    <3>3. QED
      BY <1>1, <2>2, <3>2
  <2>3. QED
    BY <1>5, <2>1, <2>2
<1>10. QED
  BY <1>1, <1>3, <1>7, <1>8, <1>9 DEF EntryOK

\* unswap_frame_for_pcb finds every frame number of the page it looks for.
LEMMA HeadsMatch ==
  ASSUME SwapInv, NEW f \in Frames, NEW p \in Heads(f) PROVE p - 1 \in Matches(f)
<1>0. /\ Entry \in Nat /\ Entry > 0 /\ file \in Seq(Words) /\ Len(file) \in Nat /\ offset \in Nat
      /\ HeadsAligned
  BY SwapAssumption DEF Entry, SwapInv, SwapTypeOK
<1>1. p \in 1 .. Len(file) /\ p <= offset /\ file[p].tag = "head" /\ file[p].val = f
  BY DEF Heads
<1>2. p - 1 \in 0 .. offset - 1 /\ p - 1 \in Nat
  BY <1>0, <1>1
<1>3. (p - 1) % Entry = 0
  <2>1. PICK k \in Nat : p = Entry * k + 1
    BY <1>0, <1>1 DEF HeadsAligned
  <2>2. p - 1 = Entry * k
    BY <1>0, <2>1
  <2>3. (Entry * k) % Entry = 0
    BY <1>0
  <2>4. QED
    BY <2>2, <2>3
<1>4. Shown(file, p - 1, 1)[1] = file[p]
  <2> DEFINE at == p - 1
             one == 1
  <2>1. at \in Nat /\ one \in Nat /\ one \in 1 .. one /\ at + one = p /\ p <= Len(file)
    BY <1>0, <1>1, <1>2
  <2> HIDE DEF at, one
  <2>2. Shown(file, at, one)[one] = IF at + one <= Len(file) THEN file[at + one] ELSE ZeroWord
    BY <1>0, <2>1, ShownWords
  <2>3. QED
    BY <2>1, <2>2 DEF at, one
<1>5. QED
  BY <1>1, <1>2, <1>3, <1>4 DEF Matches

\* unswap_frame_for_pcb takes the entry of the page out of the file, and leaves
\* the entries of the other pages whole or without their frame number.
LEMMA EntriesUnswap == ASSUME SwapInv, Unswap PROVE EntriesOK'
<1> DEFINE g == cpu.page
           i == ReplaceIndex(cpu.page)
           ws == Shown(file, offset - PageWords, PageWords)
           m == Matches(cpu.page)
<1>0. /\ Entry = PageWords + 1 /\ PageWords \in Nat /\ PageWords >= 2
      /\ file \in Seq(Words) /\ Len(file) \in Nat /\ offset \in Nat /\ HeadsAligned
      /\ mem \in Contents /\ why \in [Frames -> SUBSET Causes]
  BY SwapAssumption DEF Entry, SwapInv, SwapTypeOK
<1>1. /\ assigned' = assigned /\ present' = present \union {g} /\ written' = written
      /\ cpu'.pc = "idle" /\ g \in Frames \ present
  BY DEF Unswap, IdleCpu, SwapInv, ThreadsOK
<1>2. /\ m = {} => mem' = mem /\ why' = why
      /\ m # {} => /\ mem' = [mem EXCEPT ![g] = Restored(i)]
                   /\ why' = [why EXCEPT ![g] = @ \union Losses(i)]
  BY DEF Unswap
<1>3. /\ i \in Nat /\ i < offset /\ \E k \in Nat : i + 1 = Entry * k + 1
      /\ m # {} => i \in m
      /\ offset' = offset - Entry /\ offset' \in Nat
      /\ Len(file') = Len(file)
      /\ \A p \in 1 .. Len(file) :
           file'[p] = IF p \in i + 1 .. i + PageWords THEN ws[p - i] ELSE file[p]
      /\ \A k \in 1 .. PageWords : ws[k].tag # "head"
  BY UnswapFile
<1> HIDE DEF g, i, ws, m
<1>4. ASSUME NEW f \in Frames, NEW p \in Heads(f)'
      PROVE  p \in Heads(f) /\ p \in 1 .. Len(file) /\ p \notin i + 1 .. i + PageWords
  <2>1. p \in 1 .. Len(file) /\ p <= offset - Entry /\ file'[p].tag = "head" /\ file'[p].val = f
    BY <1>3 DEF Heads
  <2>2. ASSUME p \in i + 1 .. i + PageWords PROVE FALSE
    <3>1. p - i \in 1 .. PageWords
      BY <1>0, <1>3, <2>2
    <3>2. file'[p] = ws[p - i]
      BY <1>3, <2>1, <2>2
    <3>3. QED
      BY <1>3, <2>1, <3>1, <3>2
  <2>3. file'[p] = file[p]
    BY <1>3, <2>1, <2>2
  <2>4. QED
    BY <1>0, <2>1, <2>2, <2>3 DEF Heads
<1> SUFFICES ASSUME NEW f \in Frames, ~Lost(f)' PROVE EntryOK(f)' /\ KeptOK(f)'
  BY DEF EntriesOK
<1>5. CASE f # g
  <2>1. mem'[f] = mem[f] /\ why'[f] = why[f]
    BY <1>0, <1>2, <1>5 DEF Contents
  <2>2. EntryOK(f) /\ KeptOK(f)
    BY <2>1 DEF SwapInv, EntriesOK, Lost
  <2>3. KeptOK(f)'
    BY <1>1, <2>1, <2>2 DEF KeptOK
  <2>4. \A p, q \in Heads(f)' : p = q
    BY <1>4, <2>2 DEF EntryOK
  <2>5. Heads(f)' # {} => f \in (assigned \ present)'
    BY <1>1, <1>4, <1>5, <2>2 DEF EntryOK
  <2>6. ASSUME NEW p \in Heads(f)', NEW w \in 1 .. Copied,
               p + w <= Len(file'), file'[p + w].tag = "data"
        PROVE  file'[p + w].val = mem'[f][w]
    <3>0. w \in 1 .. PageWords /\ w \in Nat
      BY <1>0 DEF Copied
    <3>1. p \in Heads(f) /\ p \in 1 .. Len(file) /\ p \notin i + 1 .. i + PageWords
      BY <1>4
    <3>2. file[p].tag = "head"
      BY <3>1 DEF Heads
    <3>3. \E k \in Nat : p = Entry * k + 1
      BY <1>0, <3>1, <3>2 DEF HeadsAligned
    <3>4. p + w \notin i + 1 .. i + PageWords
      <4> DEFINE q == i + 1
      <4>0. \E k \in Nat : q = Entry * k + 1
        BY <1>3
      <4>1. q \in Nat /\ p \in Nat /\ \E k \in Nat : q = Entry * k + 1
        BY <1>3, <3>1, <4>0
      <4> HIDE DEF q
      <4>2. (p < q => p + w < q) /\ (q < p => q + PageWords < p)
        BY <3>0, <3>3, <4>1, Aligned
      <4>3. p # q
        BY <1>0, <1>3, <3>1 DEF q
      <4>4. CASE p < q
        BY <1>0, <1>3, <3>0, <4>1, <4>2, <4>4 DEF q
      <4>5. CASE q < p
        <5>1. q + PageWords < p /\ p <= p + w /\ q = i + 1 /\ i \in Nat
          BY <1>3, <3>0, <4>1, <4>2, <4>5 DEF q
        <5>2. p + w \in Nat /\ i + PageWords < p + w
          BY <1>0, <3>0, <4>1, <5>1
        <5>3. QED
          BY <1>0, <5>1, <5>2
      <4>6. QED
        BY <4>1, <4>3, <4>4, <4>5
    <3>5. p + w \in 1 .. Len(file) /\ file'[p + w] = file[p + w]
      <4>1. p + w \in 1 .. Len(file)
        BY <1>0, <1>3, <2>6, <3>0, <3>1
      <4>2. QED
        BY <1>3, <3>4, <4>1
    <3>6. QED
      BY <2>1, <2>2, <2>6, <3>1, <3>5 DEF EntryOK
  <2>7. QED
    BY <1>1, <2>3, <2>4, <2>5, <2>6 DEF EntryOK
<1>6. CASE f = g /\ m = {}
  <2>1. EntryOK(f) /\ KeptOK(f)
    BY <1>2, <1>6 DEF SwapInv, EntriesOK, Lost
  <2>2. Heads(f)' = {}
    BY <1>4, <1>6, HeadsMatch DEF m, g
  <2>3. QED
    BY <1>1, <1>2, <1>6, <2>1, <2>2 DEF EntryOK, KeptOK
<1>7. CASE f = g /\ m # {}
  <2>1. why'[f] = why[f] \union Losses(i) /\ mem'[f] = Restored(i)
    BY <1>0, <1>1, <1>2, <1>7 DEF Contents
  <2>2. EntryOK(f) /\ KeptOK(f)
    BY <2>1 DEF SwapInv, EntriesOK, Lost
  <2>3. "alias" \notin Losses(i) /\ "cut" \notin Losses(i) /\ "short" \in Losses(i)
    BY <2>1 DEF Lost, Losses
  <2>4. /\ Shown(file, i, 1)[1].tag = "head"
        /\ \A w \in 1 .. Copied : Shown(file, i + 1, PageWords)[w].tag = "data"
    BY <2>3 DEF Losses
  <2>5. ZeroWord.tag = "zero"
    BY DEF ZeroWord
  <2>6. i + 1 \in Heads(f)
    <3> DEFINE one == 1
    <3>1. one \in Nat /\ one \in 1 .. one /\ one = 1
      OBVIOUS
    <3> HIDE DEF one
    <3>2. Shown(file, i, one)[one] = IF i + one <= Len(file) THEN file[i + one] ELSE ZeroWord
      <4>1. file \in Seq(Words) /\ i \in Nat
        BY <1>0, <1>3
      <4>2. QED
        BY <3>1, <4>1, ShownWords
    <3>3. i + 1 <= Len(file) /\ file[i + 1].tag = "head" /\ Shown(file, i, 1)[1] = file[i + 1]
      BY <2>4, <2>5, <3>1, <3>2
    <3>4. Shown(file, i, 1)[1].val = f
      BY <1>3, <1>7 DEF m, g, Matches
    <3>5. i + 1 \in 1 .. Len(file) /\ i + 1 <= offset
      BY <1>0, <1>3, <3>3
    <3>6. QED
      BY <3>3, <3>4, <3>5 DEF Heads
  <2>7. Heads(f)' = {}
    <3> SUFFICES ASSUME NEW p \in Heads(f)' PROVE FALSE
      OBVIOUS
    <3>1. p \in Heads(f) /\ p \notin i + 1 .. i + PageWords
      BY <1>4
    <3>2. p = i + 1
      BY <2>2, <2>6, <3>1 DEF EntryOK
    <3>3. QED
      BY <1>0, <1>3, <3>1, <3>2
  <2>8. ASSUME NEW w \in Offsets, w <= Copied PROVE mem'[f][w] = written'[f][w]
    <3>0. w \in 1 .. PageWords /\ w \in 1 .. Copied /\ i + 1 \in Nat
      BY <1>0, <1>3, <2>8 DEF Offsets, Copied
    <3>1. Shown(file, i + 1, PageWords)[w] =
            IF (i + 1) + w <= Len(file) THEN file[(i + 1) + w] ELSE ZeroWord
      BY <1>0, <3>0, ShownWords
    <3>2. Shown(file, i + 1, PageWords)[w].tag = "data"
      BY <2>4, <3>0
    <3>3. (i + 1) + w <= Len(file) /\ file[(i + 1) + w].tag = "data"
      BY <2>5, <3>1, <3>2
    <3>4. file[(i + 1) + w].val = mem[f][w]
      BY <2>2, <2>6, <3>0, <3>3 DEF EntryOK
    <3>5. mem'[f][w] = mem[f][w]
      BY <2>1, <2>8, <3>1, <3>3, <3>4 DEF Restored
    <3>6. mem[f][w] = written[f][w]
      BY <2>2, <2>8 DEF KeptOK, Offsets, Copied
    <3>7. QED
      BY <1>1, <3>5, <3>6
  <2>9. KeptOK(f)'
    BY <1>0, <2>1, <2>3, <2>8 DEF KeptOK, Offsets, Copied
  <2>10. QED
    BY <2>7, <2>9 DEF EntryOK
<1>8. QED
  BY <1>5, <1>6, <1>7

\* Every step keeps the entries of the pages that have lost nothing.
LEMMA EntriesStep == ASSUME SwapInv, [Next]_vars PROVE EntriesOK'
<1>0. /\ SwapTypeOK /\ ThreadsOK /\ file \in Seq(Words) /\ Len(file') \in Nat
      /\ present \subseteq assigned /\ size \in Nat
  <2>1. SwapTypeOK'
    BY TypeStep
  <2>2. file' \in Seq(Words)
    BY <2>1 DEF SwapTypeOK
  <2>3. QED
    BY <2>2 DEF SwapInv, SwapTypeOK
<1>1. ASSUME ~SwapFrame, ~Unswap, offset' = offset, UNCHANGED <<mem, written, why>>,
             \A f \in Frames : Heads(f) # {} /\ EntryOK(f) =>
               /\ f \in assigned' \ present'
               /\ ~(cpu'.pc \in {"truncate", "copy"} /\ cpu'.victim = f /\ ~cpu'.again)
      PROVE  EntriesOK'
  <2> SUFFICES ASSUME NEW f \in Frames, ~Lost(f)' PROVE EntryOK(f)' /\ KeptOK(f)'
    BY DEF EntriesOK
  <2>1. EntryOK(f) /\ KeptOK(f)
    BY <1>1 DEF SwapInv, EntriesOK, Lost
  <2>2. NothingNew
    BY <1>1, QuietSteps
  <2>3. EntryOK(f)'
    BY <1>0, <1>1, <2>1, <2>2, EntryStays
  <2>4. KeptOK(f)'
    BY <1>1, <2>1 DEF KeptOK
  <2>5. QED
    BY <2>3, <2>4
<1>2. CASE SwapFrame
  BY <1>2, EntriesSwapFrame
<1>3. CASE Unswap
  BY <1>3, EntriesUnswap
<1>4. CASE Write \/ WriteOther
  BY <1>4, EntriesWrite
<1> USE DEF pages
<1>5. CASE MemoryInit
  <2>1. ~SwapFrame /\ ~Unswap
    BY <1>0, <1>5 DEF MemoryInit, SwapFrame, Unswap, ThreadsOK
  <2>2. offset' = offset /\ file = <<>>
    BY <1>0, <1>5 DEF MemoryInit, ThreadsOK
  <2>3. \A f \in Frames : Heads(f) = {}
    BY <2>2 DEF Heads
  <2>4. QED
    BY <1>1, <1>5, <2>1, <2>2, <2>3 DEF MemoryInit
<1>6. CASE (SwapPcbTruncate \/ SwapPcbCopy) /\ ~SwapFrame /\ ~Unswap
  BY <1>1, <1>6 DEF SwapPcbTruncate, SwapPcbCopy, EntryOK
<1>7. CASE DestroyProcessFile
  <2> SUFFICES ASSUME NEW f \in Frames, ~Lost(f)' PROVE EntryOK(f)' /\ KeptOK(f)'
    BY DEF EntriesOK
  <2>1. KeptOK(f)
    BY <1>7 DEF DestroyProcessFile, SwapInv, EntriesOK, Lost
  <2>2. Heads(f)' = {}
    BY <1>7 DEF DestroyProcessFile, Heads
  <2>3. QED
    BY <1>7, <2>1, <2>2 DEF DestroyProcessFile, EntryOK, KeptOK
<1>8. ASSUME NEW g \in Frames, Frame(g) PROVE EntriesOK'
  <2>1. cpu.pc = "idle" /\ assigned' = assigned /\ offset' = offset /\ UNCHANGED <<mem, written, why>>
    BY <1>8 DEF Frame
  <2>2. ~SwapFrame /\ ~Unswap
    BY <2>1 DEF SwapFrame, Unswap
  <2>3. CASE Cardinality(present) >= MaxFrames
    <3>1. PICK v \in Victims :
            /\ cpu' = [pc |-> "truncate", page |-> g, victim |-> v, again |-> v \notin present]
            /\ present' = present \ {v}
      BY <1>8, <2>3 DEF Frame
    <3>2. QED
      BY <1>1, <2>1, <2>2, <3>1 DEF EntryOK
  <2>4. CASE ~(Cardinality(present) >= MaxFrames)
    BY <1>1, <1>8, <2>1, <2>2, <2>4 DEF Frame, EntryOK
  <2>5. QED
    BY <2>3, <2>4
<1>9. CASE SwapTruncate
  <2>1. ~SwapFrame /\ ~Unswap /\ cpu.pc = "truncate"
    BY <1>9 DEF SwapTruncate, SwapFrame, Unswap
  <2>2. cpu'.victim = cpu.victim /\ cpu'.again = cpu.again
    BY <1>0, <1>9 DEF SwapTruncate, SwapTypeOK
  <2>3. QED
    BY <1>1, <1>9, <2>1, <2>2 DEF SwapTruncate, EntryOK
<1>10. CASE Assign
  <2>1. ~SwapFrame /\ ~Unswap
    BY <1>10 DEF Assign, SwapFrame, Unswap
  <2>2. cpu'.pc = "idle" /\ offset' = offset /\ UNCHANGED <<mem, written, why>>
    BY <1>10 DEF Assign, IdleCpu
  <2>3. QED
    BY <1>1, <1>10, <2>1, <2>2 DEF Assign, EntryOK
<1>14. ASSUME NEW g \in Frames, Ask(g) PROVE EntriesOK'
  <2>1. ~SwapFrame /\ ~Unswap
    BY <1>14 DEF Ask, SwapFrame, Unswap
  <2>2. QED
    BY <1>1, <1>14, <2>1 DEF Ask, EntryOK
<1>11. CASE UnswapUnmapped
  <2>1. ~SwapFrame /\ ~Unswap
    BY <1>11 DEF UnswapUnmapped, SwapFrame, Unswap
  <2>2. QED
    BY <1>1, <1>11, <2>1 DEF UnswapUnmapped, EntryOK, IdleCpu
<1>12. CASE UNCHANGED vars /\ ~SwapFrame /\ ~Unswap
  BY <1>1, <1>12 DEF vars, EntryOK
<1>13. QED
  BY <1>2, <1>3, <1>4, <1>5, <1>6, <1>7, <1>8, <1>9, <1>10, <1>11, <1>12, <1>14 DEF Next
-----------------------------------------------------------------------------
(* Theorems.                                                               *)

\* The inductive invariant holds in every state.
THEOREM SwapInvariant == Spec => []SwapInv
<1>1. Init => SwapInv
  BY InitInv
<1>2. SwapInv /\ [Next]_vars => SwapInv'
  BY TypeStep, ThreadsStep, OffsetStep, FullStep, AlignedStep, EntriesStep DEF SwapInv
<1>3. QED
  BY <1>1, <1>2, PTL DEF Spec

\* swap_data->offset always counts the pages that the page tables have out of main
\* memory, and the entries that CLOCK made of a page that was out already, with any
\* number of pages, of frames and of suspensions (swap.c:157, algorithms.c:90).
THEOREM OffsetCountsAlways == Spec => []OffsetCounts
<1>1. SwapInv => OffsetCounts
  BY DEF SwapInv
<1>2. QED
  BY <1>1, SwapInvariant, PTL

\* swap_frame never stores beyond the file when the size given by the console has
\* room for the pages that cannot be present, one more, and one for each time that
\* CLOCK names a page that is out already (swap.c:157).
THEOREM OffsetInsideAlways == Spec => []OffsetInside
<1>1. SwapInv => OffsetInside
  BY OffsetFits
<1>2. QED
  BY <1>1, SwapInvariant, PTL

\* A page in main memory has what the process wrote in it, unless it was lost in
\* one of the six ways that ContentsKept names: there is no seventh (swap.c:194).
THEOREM ContentsKeptAlways == Spec => []ContentsKept
<1>1. SwapInv => ContentsKept
  <2> SUFFICES ASSUME SwapInv, NEW f \in present, NEW w \in Offsets
               PROVE  \/ mem[f][w] = written[f][w]
                      \/ w > Copied /\ "short" \in why[f]
                      \/ why[f] \intersect {"alias", "cut", "late", "twice", "astray"} # {}
    BY DEF ContentsKept
  <2>1. f \in Frames
    BY DEF SwapInv, SwapTypeOK
  <2>2. QED
    BY <2>1 DEF SwapInv, EntriesOK, KeptOK, Lost
<1>2. QED
  BY <1>1, SwapInvariant, PTL
=============================================================================
