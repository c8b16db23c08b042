---------------------------- MODULE SelectorCalls ----------------------------
(***************************************************************************)
(* The selectors against the textbook algorithms: calls of either selector *)
(* one after another, from every table of a size and every place of the    *)
(* hand.  In the textbook the hand goes round and round over the rows, and *)
(* the victim is the row under it when it stops.                           *)
(***************************************************************************)
EXTENDS FrameSelector

CONSTANT NoOfRows  \* the rows of the big table

ASSUME RowsAssumption == NoOfRows \in Nat \ {0}

VARIABLES bigTable, hand

\* The selectors do not look at the frames: they are all 0 here.
CallsInit == bigTable \in BigTables(NoOfRows, {0}) /\ hand \in 0 .. NoOfRows - 1

Call(r) == bigTable' = r.table /\ hand' = r.clock

CallClock == Call(ClockSelector(bigTable, hand))

CallImproved == Call(ImprovedClockSelector(bigTable, hand))

CallsSpec == CallsInit /\ [][CallClock \/ CallImproved]_<<bigTable, hand>>

\* The row that the hand is over at its k-th step, and the rows it is over at
\* the steps in K.
Under(k) == (hand + k) % NoOfRows
PassedAt(K) == {Under(k) : k \in K}

\* Second chance: the hand stops at the first row that is present and not in
\* use; each row it passes loses its use bit.
SecondChance ==
  LET bits(k) == Forget(bigTable, PassedAt(0 .. k - 1))
  IN  Under(Min({k \in 0 .. 2 * NoOfRows - 1 : Under(k) \in Unused(bits(k))}))

\* Enhanced second chance: a round for a row neither in use nor modified, then a
\* round for a modified row not in use that clears the use bits, and so on.
Cleaning(k) == (k \div NoOfRows) % 2 = 1

Enhanced ==
  LET bits(k) == Forget(bigTable, PassedAt({j \in 0 .. k - 1 : Cleaning(j)}))
      sought(k) == IF Cleaning(k) THEN Dirty(bits(k)) ELSE Clean(bits(k))
  IN  Under(Min({k \in 0 .. 4 * NoOfRows - 1 : Under(k) \in sought(k)}))

\* clock_selector takes the victim of second chance, whenever the row under the
\* hand is present or some row that is present is not in use.
ClockIsSecondChance ==
  bigTable[hand].present \/ Unused(bigTable) # {} =>
    ClockSelector(bigTable, hand).row = SecondChance

\* improved_clock_selector, when it finds a victim at all, takes the one of
\* enhanced second chance, unless the row under the hand is in use and modified.
ImprovedIsEnhanced ==
  ImprovedClockSelector(bigTable, hand).row # NoRow
    /\ ~(bigTable[hand].present /\ bigTable[hand].use /\ bigTable[hand].modified) =>
    ImprovedClockSelector(bigTable, hand).row = Enhanced

\* improved_clock_selector finds no victim exactly when every row that is present
\* is modified, in use, and not the one under the hand.  Its comment says that
\* there always is one: Paging reaches a state where there is none.
ImprovedFails ==
  ImprovedClockSelector(bigTable, hand).row = NoRow <=>
    \A i \in DOMAIN bigTable :
      bigTable[i].present => bigTable[i].modified /\ bigTable[i].use /\ i # hand
=============================================================================
