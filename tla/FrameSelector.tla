---------------------------- MODULE FrameSelector ----------------------------
(***************************************************************************)
(* The page replacement algorithms of the memory module                    *)
(* (memory/src/module/algorithms.c).                                       *)
(*                                                                         *)
(* Both work on the big table of a process (create_big_table): its second  *)
(* level tables one after another, a function from 0 .. n - 1 to rows with *)
(* a frame and the bits present, use and modified.  The clock hand is a static         *)
(* variable, shared by all processes.  A selector returns the row that it  *)
(* takes the frame from (NoRow for INVALID_FRAME), the table with the bits *)
(* it has changed, and the next place of the hand.                         *)
(***************************************************************************)
EXTENDS Integers, FiniteSetsExt

NoRow == -1

\* The big tables of n rows with frames in F.
BigTables(n, F) == [0 .. n - 1 -> [frame : F, present : BOOLEAN, use : BOOLEAN, modified : BOOLEAN]]

\* The rows of table t that are present and have the given bits.
Unused(t) == {i \in DOMAIN t : t[i].present /\ ~t[i].use}
Clean(t) == {i \in Unused(t) : ~t[i].modified}
Dirty(t) == {i \in Unused(t) : t[i].modified}

\* The use bit goes down in the rows of S that are present.
Forget(t, S) == [i \in DOMAIN t |-> IF i \in S /\ t[i].present THEN [t[i] EXCEPT !.use = FALSE] ELSE t[i]]

\* Fault: the hand may end up behind the last row.
TakePast(t, i) ==
  [row |-> i, table |-> [t EXCEPT ![i].use = TRUE],
   clock |-> IF i + 1 > Cardinality(DOMAIN t) THEN 0 ELSE i + 1]

\* The row is taken: its use bit goes up and the hand moves past it.
Take(t, i) ==
  [row |-> i, table |-> [t EXCEPT ![i].use = TRUE],
   clock |-> IF i + 1 >= Cardinality(DOMAIN t) THEN 0 ELSE i + 1]

\* Fault: the search always starts at row 0.
SweepFromStart(S, clock) == S

\* The rows of S that a selector finds: the ones from the hand on, and when
\* there are none the ones up to the hand.
Sweep(S, clock) ==
  IF \E i \in S : i >= clock THEN {i \in S : i >= clock} ELSE {i \in S : i <= clock}

\* clock_selector: the first row that is not in use, from the hand on and then
\* from the start up to the hand; the row under the hand loses its use bit as
\* the hand leaves it.  When there is none all the use bits go down and the row
\* under the hand is taken, present or not, and the hand goes back to 0.
ClockSelector(t, clock) ==
  LET left == Forget(t, {clock})
      found == IF \E i \in Unused(t) : i >= clock THEN Sweep(Unused(t), clock)
               ELSE {i \in Unused(left) : i <= clock}
  IN  IF found # {} THEN Take(left, Min(found))
      ELSE [row |-> clock, clock |-> 0,
            table |-> [i \in DOMAIN t |-> [t[i] EXCEPT !.use = (i = clock)]]]

\* The second step of improved_clock_selector: the first row that is modified
\* and not in use; the rows it passes lose their use bit.
SecondStep(t, clock) ==
  LET ahead  == {i \in Dirty(t) : i >= clock}
      left   == Forget(t, {i \in DOMAIN t : i >= clock})
      behind == {i \in Dirty(left) : i <= clock}
      rest   == IF behind = {} THEN {i \in DOMAIN t : i <= clock} ELSE {i \in DOMAIN t : i < Min(behind)}
  IN  IF ahead # {}
      THEN [found |-> TRUE, row |-> Min(ahead), table |-> Forget(t, clock .. Min(ahead) - 1)]
      ELSE [found |-> behind # {}, row |-> IF behind = {} THEN NoRow ELSE Min(behind),
            table |-> Forget(left, rest)]

\* improved_clock_selector: a row neither in use nor modified, else the second
\* step, else again a row neither in use nor modified, else no frame at all.
ImprovedClockSelector(t, clock) ==
  LET second == SecondStep(t, clock)
      again  == Clean(second.table)
  IN  CASE Clean(t) # {}  -> Take(t, Min(Sweep(Clean(t), clock)))
        [] Clean(t) = {} /\ second.found -> Take(second.table, second.row)
        [] Clean(t) = {} /\ ~second.found /\ again # {} ->
             Take(second.table, Min(Sweep(again, clock)))
        [] OTHER -> [row |-> NoRow, table |-> second.table, clock |-> clock]
=============================================================================
