------------------------- MODULE FrameSelector_proofs -------------------------
(***************************************************************************)
(* What the page replacement algorithms promise to the memory module, for  *)
(* every table of a process and every place of the clock hand.             *)
(***************************************************************************)
EXTENDS SelectorCalls, CommonLemmas

\* Only the use bits of t are changed in u.
OnlyUse(t, u) ==
  \A k \in DOMAIN t : u[k].frame = t[k].frame /\ u[k].present = t[k].present /\ u[k].modified = t[k].modified

\* What a selector returns for table t: a row of it or NoRow, the hand on a row.
Selects(s, n, F, t) ==
  /\ s.table \in BigTables(n, F) /\ OnlyUse(t, s.table)
  /\ s.clock \in 0 .. n - 1 /\ s.row \in (0 .. n - 1) \union {NoRow}

\* Forget changes use bits only.
LEMMA ForgetKeeps ==
  ASSUME NEW n \in Nat, NEW F, NEW t \in BigTables(n, F), NEW S
  PROVE  Forget(t, S) \in BigTables(n, F) /\ OnlyUse(t, Forget(t, S))
<1>1. ASSUME NEW k \in 0 .. n - 1
      PROVE  /\ [t[k] EXCEPT !.use = FALSE] \in [frame : F, present : BOOLEAN, use : BOOLEAN, modified : BOOLEAN]
             /\ [t[k] EXCEPT !.use = FALSE].frame = t[k].frame
             /\ [t[k] EXCEPT !.use = FALSE].present = t[k].present
             /\ [t[k] EXCEPT !.use = FALSE].modified = t[k].modified
  BY DEF BigTables
<1>2. DOMAIN t = 0 .. n - 1
  BY DEF BigTables
<1>3. Forget(t, S) \in BigTables(n, F)
  BY <1>1, <1>2 DEF Forget, BigTables
<1>4. OnlyUse(t, Forget(t, S))
  BY <1>1, <1>2 DEF Forget, OnlyUse
<1>5. QED
  BY <1>3, <1>4

\* Taking a row changes use bits only, and the hand stays on a row.
LEMMA TakeKeeps ==
  ASSUME NEW n \in Nat, NEW F, NEW t \in BigTables(n, F), NEW i \in 0 .. n - 1
  PROVE  Selects(Take(t, i), n, F, t) /\ Take(t, i).row = i
<1>1. DOMAIN t = 0 .. n - 1 /\ t[i] \in [frame : F, present : BOOLEAN, use : BOOLEAN, modified : BOOLEAN]
  BY DEF BigTables
<1>2. /\ [t[i] EXCEPT !.use = TRUE] \in [frame : F, present : BOOLEAN, use : BOOLEAN, modified : BOOLEAN]
      /\ [t[i] EXCEPT !.use = TRUE].frame = t[i].frame
      /\ [t[i] EXCEPT !.use = TRUE].present = t[i].present
      /\ [t[i] EXCEPT !.use = TRUE].modified = t[i].modified
  BY <1>1
<1>3. Take(t, i).table = [t EXCEPT ![i] = [t[i] EXCEPT !.use = TRUE]] /\ Take(t, i).row = i
  BY <1>1 DEF Take, BigTables
<1>4. Take(t, i).table \in BigTables(n, F) /\ OnlyUse(t, Take(t, i).table)
  BY <1>1, <1>2, <1>3 DEF BigTables, OnlyUse
<1>5. Cardinality(DOMAIN t) = n
  <2>1. n - 1 \in Int /\ 0 \in Int
    OBVIOUS
  <2>2. Cardinality(0 .. n - 1) = IF 0 > n - 1 THEN 0 ELSE (n - 1) - 0 + 1
    BY <2>1, FS_Interval
  <2>3. QED
    BY <1>1, <2>2
<1>6. Take(t, i).clock \in 0 .. n - 1
  BY <1>5 DEF Take
<1>7. QED
  BY <1>3, <1>4, <1>6 DEF Selects

\* A table that came from one that came from t came from t.
LEMMA OnlyUseTwice ==
  ASSUME NEW n \in Nat, NEW F, NEW t \in BigTables(n, F), NEW u \in BigTables(n, F), OnlyUse(t, u),
         NEW v, OnlyUse(u, v)
  PROVE  OnlyUse(t, v)
BY DEF OnlyUse, BigTables

\* The search of a selector ends at one of the rows it looks for.
LEMMA SweepFinds ==
  ASSUME NEW n \in Nat, NEW S \in SUBSET (0 .. n - 1), S # {}, NEW c \in 0 .. n - 1
  PROVE  Min(Sweep(S, c)) \in S
<1>0. S \in SUBSET Nat
  OBVIOUS
<1>1. Sweep(S, c) # {} /\ Sweep(S, c) \subseteq S
  <2>1. CASE \E i \in S : i >= c
    <3>1. Sweep(S, c) = {i \in S : i >= c}
      BY <2>1 DEF Sweep
    <3>2. QED
      BY <2>1, <3>1
  <2>2. CASE ~ \E i \in S : i >= c
    <3>1. Sweep(S, c) = {i \in S : i <= c}
      BY <2>2 DEF Sweep
    <3>2. PICK x \in S : TRUE
      OBVIOUS
    <3>3. x <= c
      BY <2>2
    <3>4. QED
      BY <3>1, <3>3
  <2>3. QED
    BY <2>1, <2>2
<1>2. Sweep(S, c) \in SUBSET Nat
  BY <1>0, <1>1
<1>3. QED
  BY <1>1, <1>2, MinIsLeast

\* clock_selector changes only use bits, and takes a row of the table; the hand
\* stays inside (algorithms.c).
THEOREM ClockSelects ==
  ASSUME NEW n \in Nat, NEW F, NEW t \in BigTables(n, F), NEW c \in 0 .. n - 1
  PROVE  Selects(ClockSelector(t, c), n, F, t) /\ ClockSelector(t, c).row # NoRow
<1> DEFINE left == Forget(t, {c})
           found == IF \E i \in Unused(t) : i >= c THEN Sweep(Unused(t), c)
                    ELSE {i \in Unused(left) : i <= c}
           cleared == [i \in DOMAIN t |-> [t[i] EXCEPT !.use = (i = c)]]
<1>1. left \in BigTables(n, F) /\ OnlyUse(t, left) /\ DOMAIN left = 0 .. n - 1 /\ DOMAIN t = 0 .. n - 1
  <2>1. left \in BigTables(n, F) /\ OnlyUse(t, left)
    BY ForgetKeeps
  <2> HIDE DEF left
  <2>2. QED
    BY <2>1 DEF BigTables
<1>2. CASE found # {}
  <2>1. found \in SUBSET (0 .. n - 1)
    BY <1>1 DEF Sweep, Unused
  <2>2. ClockSelector(t, c) = Take(left, Min(found))
    BY <1>2 DEF ClockSelector
  <2> HIDE DEF found, left
  <2>3. Min(found) \in 0 .. n - 1
    <3>1. found \in SUBSET Nat
      BY <2>1
    <3>2. QED
      BY <1>2, <2>1, <3>1, MinIsLeast
  <2>4. Selects(Take(left, Min(found)), n, F, left) /\ Take(left, Min(found)).row = Min(found)
    BY <1>1, <2>3, TakeKeeps
  <2>5. QED
    BY <1>1, <2>2, <2>3, <2>4, OnlyUseTwice DEF Selects, NoRow
<1>3. CASE found = {}
  <2>1. ClockSelector(t, c) = [row |-> c, clock |-> 0, table |-> cleared]
    BY <1>3 DEF ClockSelector
  <2>2. ASSUME NEW k \in 0 .. n - 1
        PROVE  /\ cleared[k] \in [frame : F, present : BOOLEAN, use : BOOLEAN, modified : BOOLEAN]
               /\ cleared[k].frame = t[k].frame /\ cleared[k].present = t[k].present
               /\ cleared[k].modified = t[k].modified
    <3>1. (k = c) \in BOOLEAN
      BY Zenon
    <3>2. t[k] \in [frame : F, present : BOOLEAN, use : BOOLEAN, modified : BOOLEAN]
      BY DEF BigTables
    <3>3. \A b \in BOOLEAN : [t[k] EXCEPT !.use = b] \in [frame : F, present : BOOLEAN, use : BOOLEAN, modified : BOOLEAN]
      BY <3>2
    <3>4. cleared[k] = [t[k] EXCEPT !.use = (k = c)]
      BY <1>1
    <3>5. cleared[k] \in [frame : F, present : BOOLEAN, use : BOOLEAN, modified : BOOLEAN]
      BY <3>1, <3>3, <3>4, Zenon
    <3>6. QED
      BY <3>2, <3>4, <3>5
  <2>3. DOMAIN cleared = 0 .. n - 1 /\ cleared = [k \in 0 .. n - 1 |-> cleared[k]]
    BY <1>1
  <2> HIDE DEF cleared
  <2>4. cleared \in BigTables(n, F) /\ OnlyUse(t, cleared)
    BY <1>1, <2>2, <2>3 DEF BigTables, OnlyUse
  <2>5. QED
    BY <2>1, <2>4 DEF Selects, NoRow
<1>4. QED
  BY <1>2, <1>3

\* The second step takes a row that is present, if it takes one.
LEMMA SecondStepKeeps ==
  ASSUME NEW n \in Nat, NEW F, NEW t \in BigTables(n, F), NEW c \in 0 .. n - 1
  PROVE  LET s == SecondStep(t, c)
         IN  /\ s.table \in BigTables(n, F) /\ OnlyUse(t, s.table)
             /\ s.found => s.row \in 0 .. n - 1 /\ t[s.row].present
<1> DEFINE ahead == {i \in Dirty(t) : i >= c}
           left == Forget(t, {i \in DOMAIN t : i >= c})
           behind == {i \in Dirty(left) : i <= c}
           rest == IF behind = {} THEN {i \in DOMAIN t : i <= c} ELSE {i \in DOMAIN t : i < Min(behind)}
<1>1. left \in BigTables(n, F) /\ OnlyUse(t, left) /\ DOMAIN left = 0 .. n - 1 /\ DOMAIN t = 0 .. n - 1
  <2>1. left \in BigTables(n, F) /\ OnlyUse(t, left)
    BY ForgetKeeps
  <2> HIDE DEF left
  <2>2. QED
    BY <2>1 DEF BigTables
<1>2. /\ ahead \in SUBSET Nat /\ behind \in SUBSET Nat
      /\ \A i \in ahead \union behind : i \in 0 .. n - 1 /\ t[i].present
  <2>1. \A i \in ahead : i \in 0 .. n - 1 /\ t[i].present
    BY <1>1 DEF Dirty, Unused
  <2>2. \A i \in Dirty(left) : i \in DOMAIN left /\ left[i].present
    <3> HIDE DEF left
    <3>1. QED
      BY DEF Dirty, Unused
  <2>3. \A i \in behind : i \in 0 .. n - 1 /\ t[i].present
    <3>1. behind \subseteq Dirty(left)
      OBVIOUS
    <3> HIDE DEF left, behind
    <3>2. QED
      BY <1>1, <2>2, <3>1 DEF OnlyUse
  <2> HIDE DEF ahead, behind
  <2>4. QED
    BY <2>1, <2>3
<1>3. CASE ahead # {}
  <2>1. SecondStep(t, c) = [found |-> TRUE, row |-> Min(ahead), table |-> Forget(t, c .. Min(ahead) - 1)]
    BY <1>3 DEF SecondStep
  <2> HIDE DEF ahead, behind
  <2>2. Min(ahead) \in ahead
    BY <1>2, <1>3, MinIsLeast
  <2>3. /\ Forget(t, c .. Min(ahead) - 1) \in BigTables(n, F)
        /\ OnlyUse(t, Forget(t, c .. Min(ahead) - 1))
    BY ForgetKeeps
  <2>4. QED
    <3> DEFINE m == Min(ahead)
               u == Forget(t, c .. m - 1)
    <3>0. SecondStep(t, c) = [found |-> TRUE, row |-> m, table |-> u]
      BY <2>1, Zenon
    <3>2. m \in 0 .. n - 1 /\ t[m].present
      BY <1>2, <2>2
    <3>3. u \in BigTables(n, F) /\ OnlyUse(t, u)
      BY <2>3, Zenon
    <3> HIDE DEF u, m
    <3>1. SecondStep(t, c).table = u /\ SecondStep(t, c).row = m
      BY <3>0
    <3>4. QED
      BY <3>1, <3>2, <3>3
<1>4. CASE ahead = {}
  <2>1. SecondStep(t, c) = [found |-> behind # {}, row |-> IF behind = {} THEN NoRow ELSE Min(behind),
                            table |-> Forget(left, rest)]
    BY <1>4 DEF SecondStep
  <2>2. behind # {} => Min(behind) \in behind
    <3> HIDE DEF behind
    <3>1. QED
      BY <1>2, MinIsLeast
  <2>3. Forget(left, rest) \in BigTables(n, F) /\ OnlyUse(left, Forget(left, rest))
    BY <1>1, ForgetKeeps
  <2> HIDE DEF behind, rest, left
  <2>4. OnlyUse(t, Forget(left, rest))
    BY <1>1, <2>3, OnlyUseTwice
  <2>5. SecondStep(t, c).found => behind # {}
    <3> DEFINE b == behind # {}
               m == IF behind = {} THEN NoRow ELSE Min(behind)
               u == Forget(left, rest)
    <3>1. SecondStep(t, c) = [found |-> b, row |-> m, table |-> u]
      BY <2>1, Zenon
    <3> HIDE DEF b, m, u
    <3>2. SecondStep(t, c).found = b
      BY <3>1
    <3>3. QED
      BY <3>2, Zenon DEF b
  <2>6. QED
    BY <1>2, <2>1, <2>2, <2>3, <2>4, <2>5
<1>5. QED
  BY <1>3, <1>4

\* improved_clock_selector changes only use bits, and takes a row that is present
\* or none at all; the hand stays inside (algorithms.c).
THEOREM ImprovedSelects ==
  ASSUME NEW n \in Nat, NEW F, NEW t \in BigTables(n, F), NEW c \in 0 .. n - 1
  PROVE  LET s == ImprovedClockSelector(t, c)
         IN  Selects(s, n, F, t) /\ (s.row # NoRow => t[s.row].present)
<1> DEFINE second == SecondStep(t, c)
           again == Clean(second.table)
           s == ImprovedClockSelector(t, c)
<1>1. DOMAIN t = 0 .. n - 1
  BY DEF BigTables
<1>2. /\ second.table \in BigTables(n, F) /\ OnlyUse(t, second.table)
      /\ second.found => second.row \in 0 .. n - 1 /\ t[second.row].present
  BY SecondStepKeeps
<1>3. DOMAIN second.table = 0 .. n - 1
  BY <1>2 DEF BigTables
<1>4. Clean(t) \in SUBSET (0 .. n - 1) /\ \A i \in Clean(t) : t[i].present
  BY <1>1 DEF Clean, Unused
<1>5. again \in SUBSET (0 .. n - 1) /\ \A i \in again : t[i].present
  BY <1>1, <1>2, <1>3 DEF Clean, Unused, OnlyUse
<1>6. CASE Clean(t) # {}
  <2>1. Min(Sweep(Clean(t), c)) \in Clean(t)
    BY <1>4, <1>6, SweepFinds
  <2>2. s = Take(t, Min(Sweep(Clean(t), c)))
    BY <1>6 DEF ImprovedClockSelector
  <2>3. QED
    BY <1>4, <2>1, <2>2, TakeKeeps
<1>7. CASE Clean(t) = {} /\ second.found
  <2>1. s = Take(second.table, second.row)
    BY <1>7 DEF ImprovedClockSelector
  <2> HIDE DEF second
  <2>2. Selects(s, n, F, second.table) /\ s.row = second.row
    BY <1>2, <1>7, <2>1, TakeKeeps
  <2>3. QED
    BY <1>2, <1>7, <2>2, OnlyUseTwice DEF Selects
<1>8. CASE Clean(t) = {} /\ ~second.found /\ again # {}
  <2>1. s = Take(second.table, Min(Sweep(again, c)))
    BY <1>8 DEF ImprovedClockSelector
  <2> HIDE DEF second, again
  <2>2. Min(Sweep(again, c)) \in again
    BY <1>5, <1>8, SweepFinds
  <2>3. Selects(s, n, F, second.table) /\ s.row = Min(Sweep(again, c))
    <3> DEFINE u == second.table
               m == Min(Sweep(again, c))
    <3>1. u \in BigTables(n, F) /\ m \in 0 .. n - 1 /\ s = Take(u, m)
      BY <1>2, <1>5, <2>1, <2>2
    <3> HIDE DEF u, m
    <3>2. Selects(Take(u, m), n, F, u) /\ Take(u, m).row = m
      BY <3>1, TakeKeeps
    <3>3. QED
      BY <3>1, <3>2 DEF u, m
  <2>4. QED
    BY <1>2, <1>5, <2>2, <2>3, OnlyUseTwice DEF Selects
<1>9. CASE Clean(t) = {} /\ ~second.found /\ again = {}
  <2>1. s = [row |-> NoRow, table |-> second.table, clock |-> c]
    BY <1>9 DEF ImprovedClockSelector
  <2> HIDE DEF second
  <2>2. QED
    BY <1>2, <2>1 DEF Selects
<1>10. QED
  BY <1>6, <1>7, <1>8, <1>9

\* Forget clears the use bit of the rows of S that are present, and no other.
LEMMA ForgetBits ==
  ASSUME NEW n \in Nat, NEW F, NEW t \in BigTables(n, F), NEW S, NEW k \in 0 .. n - 1
  PROVE  /\ k \in S /\ t[k].present => ~Forget(t, S)[k].use
         /\ ~(k \in S /\ t[k].present) => Forget(t, S)[k] = t[k]
<1>1. DOMAIN t = 0 .. n - 1
  BY DEF BigTables
<1>2. Forget(t, S)[k] = IF k \in S /\ t[k].present THEN [t[k] EXCEPT !.use = FALSE] ELSE t[k]
  BY <1>1 DEF Forget
<1>3. [t[k] EXCEPT !.use = FALSE].use = FALSE
  BY DEF BigTables
<1>4. QED
  BY <1>2, <1>3

\* A second step that finds nothing has met no modified row that is not in use,
\* the row under the hand included once its use bit is cleared, and has cleared
\* the use bits of all the rows that are present.
LEMMA SecondStepFails ==
  ASSUME NEW n \in Nat, NEW F, NEW t \in BigTables(n, F), NEW c \in 0 .. n - 1
  PROVE  LET s == SecondStep(t, c)
         IN  /\ ~s.found <=> Dirty(t) = {} /\ ~(t[c].present /\ t[c].modified)
             /\ ~s.found => \A k \in 0 .. n - 1 : s.table[k].present => ~s.table[k].use
<1> DEFINE ahead == {i \in Dirty(t) : i >= c}
           on == {i \in DOMAIN t : i >= c}
           left == Forget(t, on)
           behind == {i \in Dirty(left) : i <= c}
           upto == {i \in DOMAIN t : i <= c}
           rest == IF behind = {} THEN upto ELSE {i \in DOMAIN t : i < Min(behind)}
<1>1. left \in BigTables(n, F) /\ OnlyUse(t, left) /\ DOMAIN left = 0 .. n - 1 /\ DOMAIN t = 0 .. n - 1
  <2>1. left \in BigTables(n, F) /\ OnlyUse(t, left)
    BY ForgetKeeps
  <2> HIDE DEF left
  <2>2. QED
    BY <2>1 DEF BigTables
<1>2. ASSUME NEW k \in 0 .. n - 1
      PROVE  /\ k >= c /\ t[k].present => ~left[k].use
             /\ k < c => left[k] = t[k]
             /\ left[k].present <=> t[k].present
             /\ left[k].modified <=> t[k].modified
  <2>1. k \in on <=> k >= c
    BY <1>1
  <2>2. /\ k \in on /\ t[k].present => ~left[k].use
        /\ ~(k \in on /\ t[k].present) => left[k] = t[k]
    BY ForgetBits
  <2>3. k < c => ~(k >= c)
    OBVIOUS
  <2> HIDE DEF on, left
  <2>4. left[k].present = t[k].present /\ left[k].modified = t[k].modified
    BY <1>1 DEF OnlyUse
  <2>5. QED
    BY <2>1, <2>2, <2>3, <2>4
<1> HIDE DEF left
<1>3. ASSUME NEW k
      PROVE  k \in behind <=> /\ k \in 0 .. n - 1 /\ k <= c /\ t[k].present /\ t[k].modified
                              /\ k < c => ~t[k].use
  <2>1. k \in behind <=> k \in 0 .. n - 1 /\ k <= c /\ left[k].present /\ ~left[k].use /\ left[k].modified
    BY <1>1 DEF Dirty, Unused
  <2>2. k \in 0 .. n - 1 /\ k <= c => k < c \/ k >= c
    OBVIOUS
  <2>3. QED
    BY <1>2, <2>1, <2>2
<1>4. Dirty(t) = {} /\ ~(t[c].present /\ t[c].modified) <=> ahead = {} /\ behind = {}
  <2>1. \A k : k \in Dirty(t) <=> k \in 0 .. n - 1 /\ t[k].present /\ ~t[k].use /\ t[k].modified
    BY <1>1 DEF Dirty, Unused
  <2>2. \A k \in 0 .. n - 1 : k >= c \/ k < c
    OBVIOUS
  <2>3. \A k \in 0 .. n - 1 : k < c => k <= c
    OBVIOUS
  <2>4. c <= c /\ ~(c < c)
    OBVIOUS
  <2>5. QED
    BY <1>3, <2>1, <2>2, <2>3, <2>4
<1>5. CASE ahead # {}
  <2>1. SecondStep(t, c) = [found |-> TRUE, row |-> Min(ahead), table |-> Forget(t, c .. Min(ahead) - 1)]
    BY <1>5 DEF SecondStep
  <2>2. SecondStep(t, c).found
    BY <2>1
  <2>3. QED
    BY <1>4, <1>5, <2>2
<1>6. CASE ahead = {}
  <2> DEFINE b == behind # {}
             m == IF behind = {} THEN NoRow ELSE Min(behind)
             u == Forget(left, rest)
  <2>1. SecondStep(t, c) = [found |-> b, row |-> m, table |-> u]
    BY <1>6 DEF SecondStep, left
  <2>2. behind = {} => rest = upto
    OBVIOUS
  <2>3. ASSUME behind = {}, NEW k \in 0 .. n - 1, u[k].present PROVE ~u[k].use
    <3>1. u = Forget(left, upto)
      BY <2>2, <2>3
    <3>2. /\ k \in upto /\ left[k].present => ~u[k].use
          /\ ~(k \in upto /\ left[k].present) => u[k] = left[k]
      BY <1>1, <3>1, ForgetBits
    <3>3. OnlyUse(left, u)
      BY <1>1, ForgetKeeps
    <3>4. k \in upto <=> k <= c
      BY <1>1
    <3>5. k <= c \/ k >= c
      OBVIOUS
    <3> HIDE DEF u, upto, behind
    <3>6. left[k].present
      BY <1>1, <2>3, <3>3 DEF OnlyUse
    <3>7. QED
      BY <1>2, <3>2, <3>4, <3>5, <3>6
  <2> HIDE DEF b, m, u, behind
  <2>4. SecondStep(t, c).found = b /\ SecondStep(t, c).table = u
    BY <2>1
  <2>5. b <=> behind # {}
    BY Zenon DEF b
  <2>6. QED
    BY <1>4, <1>6, <2>3, <2>4, <2>5
<1>7. QED
  BY <1>5, <1>6

\* improved_clock_selector gives up, and answers INVALID_FRAME, exactly when every
\* row that is present is in use and modified and the row under the hand is not
\* present: it makes one round less than the algorithm needs (algorithms.c).
THEOREM ImprovedGivesUp ==
  ASSUME NEW n \in Nat, NEW F, NEW t \in BigTables(n, F), NEW c \in 0 .. n - 1
  PROVE  ImprovedClockSelector(t, c).row = NoRow <=>
           \A i \in 0 .. n - 1 : t[i].present => t[i].modified /\ t[i].use /\ i # c
<1> DEFINE second == SecondStep(t, c)
           again == Clean(second.table)
           s == ImprovedClockSelector(t, c)
           stuck == \A i \in 0 .. n - 1 : t[i].present => t[i].modified /\ t[i].use /\ i # c
<1>1. DOMAIN t = 0 .. n - 1 /\ NoRow \notin 0 .. n - 1
  BY DEF BigTables, NoRow
<1>2. /\ second.table \in BigTables(n, F) /\ OnlyUse(t, second.table)
      /\ second.found => second.row \in 0 .. n - 1 /\ t[second.row].present
  BY SecondStepKeeps
<1>3. /\ ~second.found <=> Dirty(t) = {} /\ ~(t[c].present /\ t[c].modified)
      /\ ~second.found => \A k \in 0 .. n - 1 : second.table[k].present => ~second.table[k].use
  BY SecondStepFails
<1>4. DOMAIN second.table = 0 .. n - 1
  BY <1>2 DEF BigTables
<1>5. /\ \A i : i \in Clean(t) <=> i \in 0 .. n - 1 /\ t[i].present /\ ~t[i].use /\ ~t[i].modified
      /\ \A i : i \in Dirty(t) <=> i \in 0 .. n - 1 /\ t[i].present /\ ~t[i].use /\ t[i].modified
  BY <1>1 DEF Clean, Dirty, Unused
<1>6. ~second.found => \A i : i \in again <=> i \in 0 .. n - 1 /\ t[i].present /\ ~t[i].modified
  <2> HIDE DEF second
  <2>1. \A i : i \in again <=> /\ i \in 0 .. n - 1 /\ second.table[i].present
                               /\ ~second.table[i].use /\ ~second.table[i].modified
    BY <1>4 DEF Clean, Unused
  <2>2. \A i \in 0 .. n - 1 : /\ second.table[i].present = t[i].present
                              /\ second.table[i].modified = t[i].modified
    BY <1>1, <1>2 DEF OnlyUse
  <2> HIDE DEF again
  <2>3. QED
    BY <1>3, <2>1, <2>2
<1>7. Clean(t) = {} /\ ~second.found /\ again = {} <=> stuck
  <2> HIDE DEF second, again
  <2>1. ASSUME Clean(t) = {}, ~second.found, again = {}, NEW i \in 0 .. n - 1, t[i].present
        PROVE  t[i].modified /\ t[i].use /\ i # c
    BY <1>3, <1>5, <1>6, <2>1
  <2>2. ASSUME stuck PROVE Clean(t) = {} /\ ~second.found /\ again = {}
    <3>1. Clean(t) = {} /\ Dirty(t) = {}
      BY <1>5, <2>2
    <3>2. ~second.found
      BY <1>3, <2>2, <3>1
    <3>3. QED
      BY <1>6, <2>2, <3>1, <3>2
  <2>3. QED
    BY <2>1, <2>2
<1>8. CASE Clean(t) # {}
  <2>1. Clean(t) \in SUBSET (0 .. n - 1)
    BY <1>5
  <2>2. Min(Sweep(Clean(t), c)) \in Clean(t)
    BY <1>8, <2>1, SweepFinds
  <2>3. s = Take(t, Min(Sweep(Clean(t), c)))
    BY <1>8 DEF ImprovedClockSelector
  <2>4. s.row \in 0 .. n - 1
    BY <2>1, <2>2, <2>3, TakeKeeps
  <2> HIDE DEF s, stuck
  <2>5. QED
    BY <1>1, <1>7, <1>8, <2>4 DEF s, stuck
<1>9. CASE Clean(t) = {} /\ second.found
  <2>1. s = Take(second.table, second.row)
    BY <1>9 DEF ImprovedClockSelector
  <2>2. s.row = second.row
    BY <2>1 DEF Take
  <2> HIDE DEF second, s, stuck
  <2>3. QED
    BY <1>1, <1>2, <1>7, <1>9, <2>2 DEF s, stuck
<1>10. CASE Clean(t) = {} /\ ~second.found /\ again # {}
  <2>1. s = Take(second.table, Min(Sweep(again, c)))
    BY <1>10 DEF ImprovedClockSelector
  <2>2. s.row = Min(Sweep(again, c))
    BY <2>1 DEF Take
  <2> HIDE DEF second, again
  <2>3. again \in SUBSET (0 .. n - 1)
    BY <1>6, <1>10
  <2>4. Min(Sweep(again, c)) \in again
    BY <1>10, <2>3, SweepFinds
  <2> HIDE DEF s, stuck
  <2>5. QED
    BY <1>1, <1>7, <1>10, <2>2, <2>3, <2>4 DEF s, stuck
<1>11. CASE Clean(t) = {} /\ ~second.found /\ again = {}
  <2>1. s = [row |-> NoRow, table |-> second.table, clock |-> c]
    BY <1>11 DEF ImprovedClockSelector
  <2>2. s.row = NoRow
    BY <2>1
  <2> HIDE DEF s, stuck
  <2>3. QED
    BY <1>7, <1>11, <2>2 DEF s, stuck
<1>12. QED
  BY <1>8, <1>9, <1>10, <1>11
-----------------------------------------------------------------------------
(* The selectors and the textbook.                                         *)

\* The calls leave the table a table and the hand on a row.
CallsInv == bigTable \in BigTables(NoOfRows, {0}) /\ hand \in 0 .. NoOfRows - 1

\* A selector changes use bits only and leaves the hand on a row.
LEMMA CallsInvHolds == CallsSpec => []CallsInv
<1> DEFINE V == <<bigTable, hand>>
<1>1. CallsInit => CallsInv
  BY DEF CallsInit, CallsInv
<1>2. CallsInv /\ [CallClock \/ CallImproved]_V => CallsInv'
  <2> SUFFICES ASSUME CallsInv, [CallClock \/ CallImproved]_V PROVE CallsInv'
    OBVIOUS
  <2>0. NoOfRows \in Nat
    BY RowsAssumption
  <2>1. CASE CallClock
    <3>1. Selects(ClockSelector(bigTable, hand), NoOfRows, {0}, bigTable)
      BY <2>0, ClockSelects DEF CallsInv
    <3>2. QED
      BY <2>1, <3>1 DEF CallClock, Call, CallsInv, Selects
  <2>2. CASE CallImproved
    <3>1. Selects(ImprovedClockSelector(bigTable, hand), NoOfRows, {0}, bigTable)
      BY <2>0, ImprovedSelects DEF CallsInv
    <3>2. QED
      BY <2>2, <3>1 DEF CallImproved, Call, CallsInv, Selects
  <2>3. CASE UNCHANGED V
    BY <2>3 DEF CallsInv
  <2>4. QED
    BY <2>1, <2>2, <2>3
<1>3. QED
  BY <1>1, <1>2, PTL DEF CallsSpec

\* The step of the first round at which the hand is over row i.
Distance(i) == IF i >= hand THEN i - hand ELSE i - hand + NoOfRows

\* In each round the hand is over every row once, in the order of the distances.
LEMMA HandGoesRound ==
  ASSUME CallsInv
  PROVE  /\ \A k \in 0 .. NoOfRows - 1 : /\ Under(k) \in 0 .. NoOfRows - 1 /\ Distance(Under(k)) = k
                                     /\ Under(NoOfRows + k) = Under(k) /\ Under(2 * NoOfRows + k) = Under(k)
         /\ \A i \in 0 .. NoOfRows - 1 : Distance(i) \in 0 .. NoOfRows - 1 /\ Under(Distance(i)) = i
<1> DEFINE n == NoOfRows
<1>0. n \in Nat \ {0} /\ hand \in 0 .. n - 1
  BY RowsAssumption DEF CallsInv
<1> HIDE DEF n
<1>1. \A a \in 0 .. n - 1 : a % n = a /\ (n + a) % n = a /\ (2 * n + a) % n = a /\ (3 * n + a) % n = a
  BY <1>0
<1>2. ASSUME NEW k \in 0 .. n - 1
      PROVE  \E a \in 0 .. n - 1 : /\ a = (IF hand + k < n THEN hand + k ELSE hand + k - n)
                                   /\ (hand + k) % n = a /\ (hand + (n + k)) % n = a
                                   /\ (hand + (2 * n + k)) % n = a
  <2>1. CASE hand + k < n
    <3> DEFINE a == hand + k
    <3>1. a \in 0 .. n - 1 /\ hand + (n + k) = n + a /\ hand + (2 * n + k) = 2 * n + a
      BY <1>0, <2>1
    <3>2. QED
      BY <1>1, <2>1, <3>1
  <2>2. CASE ~(hand + k < n)
    <3> DEFINE a == hand + k - n
    <3>1. /\ a \in 0 .. n - 1 /\ hand + k = n + a /\ hand + (n + k) = 2 * n + a
          /\ hand + (2 * n + k) = 3 * n + a
      BY <1>0, <2>2
    <3>2. QED
      BY <1>1, <2>2, <3>1
  <2>3. QED
    BY <2>1, <2>2
<1>3. ASSUME NEW k \in 0 .. n - 1
      PROVE  /\ Under(k) \in 0 .. n - 1 /\ Distance(Under(k)) = k
             /\ Under(n + k) = Under(k) /\ Under(2 * n + k) = Under(k)
  <2>1. PICK a \in 0 .. n - 1 : /\ a = (IF hand + k < n THEN hand + k ELSE hand + k - n)
                                /\ (hand + k) % n = a /\ (hand + (n + k)) % n = a
                                /\ (hand + (2 * n + k)) % n = a
    BY <1>2
  <2>2. Under(k) = a /\ Under(n + k) = a /\ Under(2 * n + k) = a
    BY <2>1 DEF Under, n
  <2>3. Distance(a) = k
    BY <1>0, <2>1 DEF Distance, n
  <2>4. QED
    BY <2>2, <2>3
<1>4. ASSUME NEW i \in 0 .. n - 1 PROVE Distance(i) \in 0 .. n - 1 /\ Under(Distance(i)) = i
  <2>1. Distance(i) \in 0 .. n - 1
    BY <1>0 DEF Distance, n
  <2> DEFINE k == Distance(i)
  <2>2. k = (IF i >= hand THEN i - hand ELSE i - hand + n)
    BY DEF Distance, n
  <2> HIDE DEF k
  <2>3. PICK a \in 0 .. n - 1 : a = (IF hand + k < n THEN hand + k ELSE hand + k - n) /\ (hand + k) % n = a
    BY <1>2, <2>1 DEF k
  <2>4. a = i
    BY <1>0, <2>2, <2>3
  <2>5. QED
    BY <2>1, <2>3, <2>4 DEF Under, n, k
<1>5. QED
  BY <1>3, <1>4 DEF n

\* The least element of a set is the one that no other is below.
LEMMA LeastIsMin ==
  ASSUME NEW S \in SUBSET Nat, NEW m \in S, \A y \in S : m <= y
  PROVE  Min(S) = m
<1>1. Min(S) \in S /\ Min(S) <= m
  BY MinIsLeast
<1> DEFINE x == Min(S)
<1> HIDE DEF x
<1>2. x \in Nat /\ m \in Nat /\ x <= m /\ m <= x
  BY <1>1 DEF x
<1>3. x = m
  BY <1>2
<1>4. QED
  BY <1>3 DEF x

\* The search from the hand on and then from the start finds the nearest row.
LEMMA SweepIsNearest ==
  ASSUME CallsInv, NEW S \in SUBSET (0 .. NoOfRows - 1), S # {}
  PROVE  Min(Sweep(S, hand)) \in S /\ \A j \in S : Distance(Min(Sweep(S, hand))) <= Distance(j)
<1> DEFINE n == NoOfRows
           m == Min(Sweep(S, hand))
<1>0. n \in Nat /\ hand \in 0 .. n - 1 /\ S \in SUBSET (0 .. n - 1)
  BY RowsAssumption DEF CallsInv
<1>1. m \in S
  BY <1>0, SweepFinds
<1> HIDE DEF n, m
<1>a. \A j \in S : j \in Nat /\ j < n /\ Distance(j) = IF j >= hand THEN j - hand ELSE j - hand + n
  BY <1>0 DEF Distance, n
<1>b. hand \in Nat /\ hand < n
  BY <1>0
<1>c. S \in SUBSET Nat
  BY <1>a
<1>2. CASE \E i \in S : i >= hand
  <2> DEFINE T == {i \in S : i >= hand}
  <2>1. Sweep(S, hand) = T
    BY <1>2 DEF Sweep
  <2>2. T \in SUBSET Nat /\ T # {}
    BY <1>2, <1>c
  <2>3. m \in T /\ \A y \in T : m <= y
    BY <2>1, <2>2, MinIsLeast DEF m
  <2>4. m >= hand /\ \A j \in S : j >= hand => m <= j
    BY <2>3
  <2>5. ASSUME NEW j \in S PROVE Distance(m) <= Distance(j)
    <3>1. /\ Distance(m) = m - hand /\ m \in Nat /\ j \in Nat /\ m < n
          /\ Distance(j) = IF j >= hand THEN j - hand ELSE j - hand + n
      BY <1>1, <1>a, <2>4
    <3>2. j >= hand => m <= j
      BY <2>4
    <3>3. QED
      BY <1>0, <1>b, <3>1, <3>2
  <2>6. QED
    BY <1>1, <2>5 DEF m
<1>3. CASE ~ \E i \in S : i >= hand
  <2>1. Sweep(S, hand) = {i \in S : i <= hand}
    BY <1>3 DEF Sweep
  <2>a. \A i \in S : i < hand
    BY <1>3, <1>a, <1>b
  <2>b. \A i \in S : i <= hand
    BY <1>a, <1>b, <2>a
  <2>2. {i \in S : i <= hand} = S
    BY <2>b
  <2>3. \A y \in S : m <= y
    BY <1>c, <2>1, <2>2, MinIsLeast DEF m
  <2>4. ASSUME NEW j \in S PROVE Distance(m) <= Distance(j)
    <3>1. m < hand /\ j < hand /\ m <= j /\ m \in Nat /\ j \in Nat
      BY <1>1, <1>a, <2>3, <2>a
    <3>2. Distance(m) = m - hand + n /\ Distance(j) = j - hand + n
      BY <1>1, <1>a, <1>b, <3>1
    <3>3. QED
      BY <1>0, <1>b, <3>1, <3>2
  <2>5. QED
    BY <1>1, <2>4 DEF m
<1>4. QED
  BY <1>2, <1>3

\* A hand that stops at the steps in K, none of them in the first r rounds, and in
\* the next round over the rows of S, stops where the search for S ends.
LEMMA StopsAtSweep ==
  ASSUME CallsInv, NEW S \in SUBSET (0 .. NoOfRows - 1), S # {}, NEW K \in SUBSET Nat, NEW r \in {0, 1, 2},
         \A k \in K : k >= r * NoOfRows,
         \A d \in 0 .. NoOfRows - 1 : r * NoOfRows + d \in K <=> Under(d) \in S
  PROVE  Under(Min(K)) = Min(Sweep(S, hand))
<1> DEFINE n == NoOfRows
           m == Min(Sweep(S, hand))
           k0 == r * n + Distance(m)
<1>0. n \in Nat \ {0} /\ r * n \in Nat
  BY RowsAssumption
<1>1. m \in S /\ \A j \in S : Distance(m) <= Distance(j)
  BY SweepIsNearest
<1> HIDE DEF m
<1>2. Distance(m) \in 0 .. n - 1 /\ Under(Distance(m)) = m
  BY <1>1, HandGoesRound
<1>3. k0 \in K
  BY <1>1, <1>2
<1>4. ASSUME NEW k \in K PROVE k0 <= k
  <2> DEFINE d == k - r * n
  <2>1. d \in Nat /\ k = r * n + d
    BY <1>0
  <2>2. CASE d >= n
    BY <1>0, <1>2, <2>1, <2>2
  <2>3. CASE d < n
    <3>1. d \in 0 .. n - 1
      BY <1>0, <2>1, <2>3
    <3>2. Under(d) \in S /\ Distance(Under(d)) = d
      BY <2>1, <3>1, HandGoesRound
    <3>3. Distance(m) <= d
      BY <1>1, <3>2
    <3>4. QED
      BY <1>0, <1>2, <2>1, <3>1, <3>3
  <2>4. QED
    BY <1>0, <2>1, <2>2, <2>3
<1>5. Min(K) = k0
  BY <1>3, <1>4, LeastIsMin
<1>6. Under(k0) = Under(Distance(m))
  <2> DEFINE d == Distance(m)
  <2>1. d \in 0 .. n - 1 /\ k0 = r * n + d
    BY <1>2
  <2> HIDE DEF d, k0
  <2>2. Under(d) = Under(n + d) /\ Under(d) = Under(2 * n + d)
    BY <2>1, HandGoesRound
  <2>3. k0 = d \/ k0 = n + d \/ k0 = 2 * n + d
    BY <1>0, <2>1
  <2>4. QED
    BY <2>2, <2>3 DEF d
<1>7. QED
  BY <1>2, <1>5, <1>6 DEF m

\* The rows not in use once the rows of P have lost their use bits.
LEMMA ForgetSets ==
  ASSUME CallsInv, NEW P, NEW i
  PROVE  /\ i \in Unused(Forget(bigTable, P)) <=>
              i \in 0 .. NoOfRows - 1 /\ bigTable[i].present /\ (i \in P \/ ~bigTable[i].use)
         /\ i \in Clean(Forget(bigTable, P)) <=>
              i \in Unused(Forget(bigTable, P)) /\ ~bigTable[i].modified
         /\ i \in Dirty(Forget(bigTable, P)) <=>
              i \in Unused(Forget(bigTable, P)) /\ bigTable[i].modified
<1> DEFINE t == bigTable
           u == Forget(t, P)
<1>0. NoOfRows \in Nat /\ t \in BigTables(NoOfRows, {0})
  BY RowsAssumption DEF CallsInv
<1>1. u \in BigTables(NoOfRows, {0}) /\ OnlyUse(t, u) /\ DOMAIN t = 0 .. NoOfRows - 1
  BY <1>0, ForgetKeeps DEF BigTables
<1>2. ASSUME NEW k \in 0 .. NoOfRows - 1
      PROVE  /\ k \in P /\ t[k].present => ~u[k].use
             /\ ~(k \in P /\ t[k].present) => u[k] = t[k]
  BY <1>0, ForgetBits
<1> HIDE DEF u
<1>3. DOMAIN u = 0 .. NoOfRows - 1
  BY <1>1 DEF BigTables
<1>4. ASSUME NEW k \in 0 .. NoOfRows - 1
      PROVE  u[k].present = t[k].present /\ u[k].modified = t[k].modified
  BY <1>1 DEF OnlyUse
<1>5. i \in Unused(u) <=> i \in 0 .. NoOfRows - 1 /\ u[i].present /\ ~u[i].use
  BY <1>3 DEF Unused
<1>6. i \in Unused(u) <=> i \in 0 .. NoOfRows - 1 /\ t[i].present /\ (i \in P \/ ~t[i].use)
  BY <1>2, <1>4, <1>5
<1>7. /\ i \in Clean(u) <=> i \in Unused(u) /\ ~u[i].modified
      /\ i \in Dirty(u) <=> i \in Unused(u) /\ u[i].modified
  BY DEF Clean, Dirty
<1>8. QED
  BY <1>4, <1>5, <1>6, <1>7 DEF u

\* A row is passed once in a round: the hand is over no row again before the
\* round is over.
LEMMA PassedOnce ==
  ASSUME CallsInv, NEW d \in 0 .. NoOfRows - 1
  PROVE  /\ \A K : (\A k \in K : k \in 0 .. d - 1) => Under(d) \notin PassedAt(K)
         /\ \A K : (\A k \in K : k \in NoOfRows .. NoOfRows + d - 1) => Under(d) \notin PassedAt(K)
<1> DEFINE n == NoOfRows
<1>0. n \in Nat \ {0}
  BY RowsAssumption
<1>1. ASSUME NEW K, \A k \in K : k \in 0 .. d - 1, Under(d) \in PassedAt(K) PROVE FALSE
  <2>1. PICK k \in K : Under(d) = Under(k)
    BY <1>1 DEF PassedAt
  <2>2. k \in 0 .. n - 1 /\ k # d
    BY <1>0, <1>1
  <2>3. QED
    BY <2>1, <2>2, HandGoesRound
<1>2. ASSUME NEW K, \A k \in K : k \in n .. n + d - 1, Under(d) \in PassedAt(K) PROVE FALSE
  <2>1. PICK k \in K : Under(d) = Under(k)
    BY <1>2 DEF PassedAt
  <2> DEFINE e == k - n
  <2>2. e \in 0 .. n - 1 /\ e # d /\ k = n + e
    BY <1>0, <1>2
  <2>3. Under(k) = Under(e)
    BY <2>2, HandGoesRound
  <2>4. QED
    BY <2>1, <2>2, <2>3, HandGoesRound
<1>3. QED
  BY <1>1, <1>2

\* clock_selector takes the victim of second chance, on a table of any size.
LEMMA ClockTakesSecondChance ==
  ASSUME CallsInv, bigTable[hand].present \/ Unused(bigTable) # {}
  PROVE  ClockSelector(bigTable, hand).row = SecondChance
<1> DEFINE t == bigTable
           c == hand
           n == NoOfRows
           left == Forget(t, {c})
           ahead == \E i \in Unused(t) : i >= c
           found == IF ahead THEN Sweep(Unused(t), c) ELSE {i \in Unused(left) : i <= c}
           K == {k \in 0 .. 2 * n - 1 : Under(k) \in Unused(Forget(t, PassedAt(0 .. k - 1)))}
<1>0. n \in Nat \ {0} /\ c \in 0 .. n - 1 /\ DOMAIN t = 0 .. n - 1
  BY RowsAssumption DEF CallsInv, BigTables
<1>1. \A i : i \in Unused(t) <=> i \in 0 .. n - 1 /\ t[i].present /\ ~t[i].use
  BY <1>0 DEF Unused
<1>2. \A i : i \in Unused(left) <=> i \in Unused(t) \/ (i = c /\ t[c].present)
  <2>1. ASSUME NEW i
        PROVE  i \in Unused(left) <=> i \in 0 .. n - 1 /\ t[i].present /\ (i \in {c} \/ ~t[i].use)
    BY ForgetSets
  <2>2. QED
    BY <1>0, <1>1, <2>1
<1>3. ASSUME NEW d \in 0 .. n - 1 PROVE d \in K <=> Under(d) \in Unused(t)
  <2> DEFINE P == PassedAt(0 .. d - 1)
  <2>1. Under(d) \notin P
    BY PassedOnce
  <2>2. d \in 0 .. 2 * n - 1
    BY <1>0
  <2>3. Under(d) \in Unused(Forget(t, P)) <=>
          Under(d) \in 0 .. n - 1 /\ t[Under(d)].present /\ (Under(d) \in P \/ ~t[Under(d)].use)
    BY ForgetSets
  <2>4. QED
    BY <1>1, <2>1, <2>2, <2>3
<1>4. SecondChance = Under(Min(K))
  BY DEF SecondChance
<1>5. CASE Unused(t) # {}
  <2> DEFINE S == Unused(t)
             m == Min(Sweep(S, c))
  <2>1. S \in SUBSET (0 .. n - 1) /\ S \in SUBSET Nat
    BY <1>1
  <2>2. Under(Min(K)) = m
    <3>1. /\ K \in SUBSET Nat /\ \A k \in K : k >= 0 * NoOfRows
          /\ \A d \in 0 .. NoOfRows - 1 : 0 * NoOfRows + d \in K <=> Under(d) \in S
      <4>1. \A d \in 0 .. NoOfRows - 1 : 0 * NoOfRows + d = d
        BY <1>0
      <4>2. K \in SUBSET Nat /\ \A k \in K : k >= 0 * NoOfRows
        BY <1>0
      <4>3. QED
        BY <1>3, <4>1, <4>2
    <3> HIDE DEF K, S
    <3>2. S # {}
      BY <1>5 DEF S
    <3>3. QED
      BY <2>1, <3>1, <3>2, StopsAtSweep
  <2>3. found # {} /\ Min(found) = m
    <3>1. CASE ahead
      <4>1. found = Sweep(S, c)
        BY <3>1
      <4>2. Sweep(S, c) # {}
        BY <3>1 DEF Sweep
      <4>3. QED
        BY <4>1, <4>2
    <3>2. CASE ~ahead
      <4>1. found = {i \in Unused(left) : i <= c}
        BY <3>2
      <4>2. ASSUME NEW i \in S PROVE i < c /\ i \in found
        <5> HIDE DEF left, found
        <5>1. i \in Nat /\ c \in Nat /\ ~(i >= c) /\ i \in Unused(left)
          BY <1>0, <1>2, <2>1, <3>2
        <5>2. i < c /\ i <= c
          BY <5>1
        <5>3. QED
          BY <4>1, <5>1, <5>2
      <4>3. Sweep(S, c) = S
        <5>1. Sweep(S, c) = {i \in S : i <= c}
          BY <3>2 DEF Sweep
        <5>2. QED
          BY <1>0, <2>1, <4>2, <5>1
      <4>4. m \in S /\ \A y \in S : m <= y
        BY <1>5, <2>1, <4>3, MinIsLeast
      <4>5. m \in Nat /\ m < c /\ m \in found
        BY <2>1, <4>2, <4>4
      <4>6. found \in SUBSET Nat /\ \A y \in found : m <= y
        <5> HIDE DEF left, m
        <5>1. \A y \in found : y \in S \/ y = c
          BY <1>2, <4>1
        <5> HIDE DEF found, S
        <5>2. c \in Nat /\ m <= c /\ \A y \in S : y \in Nat /\ m <= y
          BY <1>0, <2>1, <4>4, <4>5
        <5>3. QED
          BY <5>1, <5>2
      <4> HIDE DEF found, m
      <4>7. QED
        BY <4>5, <4>6, LeastIsMin DEF m
    <3>3. QED
      BY <3>1, <3>2
  <2>4. ClockSelector(t, c).row = Min(found)
    <3>1. ClockSelector(t, c) = Take(left, Min(found))
      BY <2>3 DEF ClockSelector
    <3>2. QED
      BY <3>1 DEF Take
  <2>5. QED
    BY <1>4, <2>2, <2>3, <2>4
<1>6. CASE Unused(t) = {}
  <2>1. t[c].present
    BY <1>6
  <2>2. ~ahead /\ found = {c}
    <3>1. ~ahead
      BY <1>6
    <3>2. found = {i \in Unused(left) : i <= c}
      BY <3>1
    <3> HIDE DEF left
    <3>3. QED
      BY <1>0, <1>2, <1>6, <2>1, <3>1, <3>2
  <2>3. Min(found) = c
    <3>1. {c} \in SUBSET Nat /\ c \in {c} /\ \A y \in {c} : c <= y
      BY <1>0
    <3>2. Min({c}) = c
      BY <3>1, LeastIsMin
    <3>3. QED
      BY <2>2, <3>2
  <2>4. ClockSelector(t, c).row = c
    <3>1. ClockSelector(t, c) = Take(left, Min(found))
      BY <2>2 DEF ClockSelector
    <3>2. QED
      BY <2>3, <3>1 DEF Take
  <2>5. \A d \in 0 .. n - 1 : d \notin K
    BY <1>3, <1>6
  <2>6. Under(0) = c /\ Under(n) = c
    <3>1. 0 \in 0 .. n - 1 /\ n + 0 = n /\ c \in 0 .. n - 1 /\ Distance(c) = 0
      BY <1>0 DEF Distance
    <3>2. Under(Distance(c)) = c
      BY <3>1, HandGoesRound
    <3>3. Under(n + 0) = Under(0)
      BY <3>1, HandGoesRound
    <3>4. QED
      BY <3>1, <3>2, <3>3
  <2>7. n \in K
    <3> DEFINE P == PassedAt(0 .. n - 1)
    <3>1. 0 \in 0 .. n - 1 /\ n \in 0 .. 2 * n - 1
      BY <1>0
    <3>2. c \in P
      BY <2>6, <3>1 DEF PassedAt
    <3>3. c \in Unused(Forget(t, P)) <=> c \in 0 .. n - 1 /\ t[c].present /\ (c \in P \/ ~t[c].use)
      BY ForgetSets
    <3>4. QED
      BY <1>0, <2>1, <2>6, <3>1, <3>2, <3>3
  <2>8. K \in SUBSET Nat /\ \A k \in K : n <= k
    <3>1. \A k \in K : k \in Nat
      OBVIOUS
    <3> HIDE DEF K
    <3>2. QED
      BY <1>0, <2>5, <3>1
  <2> HIDE DEF K
  <2>9. Min(K) = n
    BY <2>7, <2>8, LeastIsMin
  <2>10. QED
    BY <1>4, <2>4, <2>6, <2>9
<1>7. QED
  BY <1>5, <1>6

\* For tables of any size and from any place of the hand, clock_selector takes
\* the victim of second chance (algorithms.c).
THEOREM ClockIsSecondChanceAlways == CallsSpec => []ClockIsSecondChance
<1>1. CallsInv => ClockIsSecondChance
  BY ClockTakesSecondChance DEF ClockIsSecondChance
<1>2. QED
  BY <1>1, CallsInvHolds, PTL

\* The rounds of enhanced second chance: the hand clears use bits in the second
\* one only, as far as the third.
LEMMA CleaningRounds ==
  ASSUME NEW d \in 0 .. NoOfRows - 1
  PROVE  ~Cleaning(d) /\ Cleaning(NoOfRows + d) /\ ~Cleaning(2 * NoOfRows + d)
<1> DEFINE n == NoOfRows
<1>0. n \in Nat \ {0} /\ d \in 0 .. n - 1
  BY RowsAssumption
<1> HIDE DEF n
<1>1. d \div n = 0 /\ (n + d) \div n = 1 /\ (2 * n + d) \div n = 2
  BY <1>0
<1>2. 0 % 2 = 0 /\ 1 % 2 = 1 /\ 2 % 2 = 0
  OBVIOUS
<1>3. QED
  BY <1>1, <1>2 DEF Cleaning, n

\* The second step of improved_clock_selector finds the nearest row that is
\* modified and not in use, if the row under the hand is not in use and modified.
LEMMA SecondStepRow ==
  ASSUME CallsInv, ~(bigTable[hand].present /\ bigTable[hand].use /\ bigTable[hand].modified),
         Dirty(bigTable) # {}
  PROVE  SecondStep(bigTable, hand).row = Min(Sweep(Dirty(bigTable), hand))
<1> DEFINE t == bigTable
           c == hand
           n == NoOfRows
           S == Dirty(t)
           ahead == {i \in S : i >= c}
           P == {i \in DOMAIN t : i >= c}
           left == Forget(t, P)
           behind == {i \in Dirty(left) : i <= c}
           rest == IF behind = {} THEN {i \in DOMAIN t : i <= c} ELSE {i \in DOMAIN t : i < Min(behind)}
<1>0. n \in Nat \ {0} /\ c \in 0 .. n - 1 /\ DOMAIN t = 0 .. n - 1
  BY RowsAssumption DEF CallsInv, BigTables
<1>1. \A i : i \in S <=> i \in 0 .. n - 1 /\ t[i].present /\ ~t[i].use /\ t[i].modified
  BY <1>0 DEF Dirty, Unused
<1>2. CASE ahead # {}
  <2>1. SecondStep(t, c) = [found |-> TRUE, row |-> Min(ahead), table |-> Forget(t, c .. Min(ahead) - 1)]
    BY <1>2 DEF SecondStep
  <2>2. Sweep(S, c) = ahead
    BY <1>2 DEF Sweep
  <2> HIDE DEF S, ahead
  <2>3. QED
    BY <2>1, <2>2 DEF S
<1>3. CASE ahead = {}
  <2>1. SecondStep(t, c) = [found |-> behind # {}, row |-> IF behind = {} THEN NoRow ELSE Min(behind),
                            table |-> Forget(left, rest)]
    BY <1>3 DEF SecondStep
  <2>2. \A i \in S : i \in Nat /\ i < c
    <3>1. ASSUME NEW i \in S PROVE i \in Nat /\ i < c
      <4>1. i \in Nat /\ c \in Nat /\ i \notin ahead
        BY <1>0, <1>1, <1>3
      <4>2. QED
        BY <4>1
    <3>2. QED
      BY <3>1
  <2>3. ASSUME NEW i PROVE i \in behind <=> i \in S
    <3>1. i \in Dirty(left) <=> i \in 0 .. n - 1 /\ t[i].present /\ (i \in P \/ ~t[i].use) /\ t[i].modified
      BY ForgetSets
    <3>2. i \in P <=> i \in 0 .. n - 1 /\ i >= c
      BY <1>0
    <3> HIDE DEF P, left
    <3>3. i \in behind <=> i \in Dirty(left) /\ i <= c
      OBVIOUS
    <3> HIDE DEF behind
    <3>4. ASSUME i \in behind PROVE i \in S
      <4>1. i \in 0 .. n - 1 /\ i <= c
        BY <3>1, <3>3, <3>4
      <4>2. CASE i = c
        BY <1>1, <3>1, <3>3, <3>4, <4>2
      <4>3. CASE i # c
        <5>1. i \notin P
          BY <1>0, <3>2, <4>1, <4>3
        <5>2. QED
          BY <1>1, <3>1, <3>3, <3>4, <5>1
      <4>4. QED
        BY <4>2, <4>3
    <3>5. ASSUME i \in S PROVE i \in behind
      <4>1. i <= c
        BY <1>0, <2>2, <3>5
      <4>2. QED
        BY <1>1, <3>1, <3>3, <3>5, <4>1
    <3>6. QED
      BY <3>4, <3>5
  <2>4. behind = S
    <3> HIDE DEF behind, S
    <3>1. QED
      BY <2>3
  <2>5. Sweep(S, c) = S
    <3>1. Sweep(S, c) = {i \in S : i <= c}
      BY <1>3 DEF Sweep
    <3> HIDE DEF S
    <3>2. \A i \in S : i <= c
      BY <1>0, <2>2
    <3>3. QED
      BY <3>1, <3>2
  <2>6. SecondStep(t, c).row = Min(behind)
    <3> DEFINE b == behind # {}
               m == Min(behind)
               u == Forget(left, rest)
    <3>1. SecondStep(t, c) = [found |-> b, row |-> IF behind = {} THEN NoRow ELSE m, table |-> u]
      BY <2>1, Zenon
    <3>2. behind # {}
      BY <2>4
    <3> HIDE DEF b, m, u, behind
    <3>3. SecondStep(t, c).row = m
      BY <3>1, <3>2
    <3>4. QED
      BY <3>3 DEF m
  <2>7. QED
    BY <2>4, <2>5, <2>6
<1>4. QED
  BY <1>2, <1>3

\* improved_clock_selector takes the victim of enhanced second chance, on a table
\* of any size.
LEMMA ImprovedTakesEnhanced ==
  ASSUME CallsInv, ImprovedClockSelector(bigTable, hand).row # NoRow,
         ~(bigTable[hand].present /\ bigTable[hand].use /\ bigTable[hand].modified)
  PROVE  ImprovedClockSelector(bigTable, hand).row = Enhanced
<1> DEFINE t == bigTable
           c == hand
           n == NoOfRows
           second == SecondStep(t, c)
           again == Clean(second.table)
           victim == ImprovedClockSelector(t, c)
           P(k) == PassedAt({j \in 0 .. k - 1 : Cleaning(j)})
           bits(k) == Forget(t, P(k))
           K == {k \in 0 .. 4 * n - 1 : Under(k) \in IF Cleaning(k) THEN Dirty(bits(k)) ELSE Clean(bits(k))}
<1>0. n \in Nat \ {0} /\ c \in 0 .. n - 1 /\ DOMAIN t = 0 .. n - 1 /\ t \in BigTables(n, {0})
  BY RowsAssumption DEF CallsInv, BigTables
<1>1. /\ \A i : i \in Clean(t) <=> i \in 0 .. n - 1 /\ t[i].present /\ ~t[i].use /\ ~t[i].modified
      /\ \A i : i \in Dirty(t) <=> i \in 0 .. n - 1 /\ t[i].present /\ ~t[i].use /\ t[i].modified
  BY <1>0 DEF Clean, Dirty, Unused
<1>2. Enhanced = Under(Min(K))
  BY DEF Enhanced
<1>3. K \in SUBSET Nat
  BY <1>0
<1>4. ASSUME NEW k \in 0 .. 4 * n - 1, NEW i \in 0 .. n - 1, Under(k) = i
      PROVE  k \in K <=> /\ t[i].present /\ (i \in P(k) \/ ~t[i].use)
                         /\ IF Cleaning(k) THEN t[i].modified ELSE ~t[i].modified
  <2> DEFINE Q == P(k)
  <2>1. k \in K <=> IF Cleaning(k) THEN i \in Dirty(Forget(t, Q)) ELSE i \in Clean(Forget(t, Q))
    BY <1>4
  <2> HIDE DEF K, Q
  <2>2. /\ i \in Clean(Forget(t, Q)) <=> t[i].present /\ (i \in Q \/ ~t[i].use) /\ ~t[i].modified
        /\ i \in Dirty(Forget(t, Q)) <=> t[i].present /\ (i \in Q \/ ~t[i].use) /\ t[i].modified
    BY ForgetSets
  <2>3. QED
    BY <2>1, <2>2 DEF Q
\* The first round.
<1>5. ASSUME NEW d \in 0 .. n - 1 PROVE d \in K <=> Under(d) \in Clean(t)
  <2>1. Under(d) \notin P(d)
    <3>1. \A k \in {j \in 0 .. d - 1 : Cleaning(j)} : k \in 0 .. d - 1
      OBVIOUS
    <3>2. QED
      BY <3>1, PassedOnce
  <2>a. d \in 0 .. 4 * n - 1
    BY <1>0
  <2>b. ~Cleaning(d)
    BY CleaningRounds
  <2>c. Under(d) \in 0 .. n - 1
    BY HandGoesRound
  <2>2. ~Cleaning(d) /\ d \in 0 .. 4 * n - 1 /\ Under(d) \in 0 .. n - 1
    BY <2>a, <2>b, <2>c
  <2>3. d \in K <=> /\ t[Under(d)].present /\ (Under(d) \in P(d) \/ ~t[Under(d)].use)
                    /\ IF Cleaning(d) THEN t[Under(d)].modified ELSE ~t[Under(d)].modified
    BY <1>4, <2>2
  <2> HIDE DEF K, P
  <2>4. QED
    BY <1>1, <2>1, <2>2, <2>3
\* The second round.
<1>6. ASSUME NEW d \in 0 .. n - 1 PROVE 1 * n + d \in K <=> Under(d) \in Dirty(t)
  <2> DEFINE k == n + d
  <2>0. k = 1 * n + d /\ k \in 0 .. 4 * n - 1 /\ k \in Nat
    BY <1>0
  <2>1. Under(d) \notin P(k)
    <3>1. ASSUME NEW j \in 0 .. k - 1, Cleaning(j) PROVE j \in n .. n + d - 1
      <4>1. j \notin 0 .. n - 1
        BY <3>1, CleaningRounds
      <4>2. QED
        BY <1>0, <4>1
    <3>2. \A j \in {i \in 0 .. k - 1 : Cleaning(i)} : j \in n .. n + d - 1
      BY <3>1
    <3>3. QED
      BY <3>2, PassedOnce
  <2>2. Cleaning(k) /\ Under(k) = Under(d) /\ Under(d) \in 0 .. n - 1
    BY <1>0, CleaningRounds, HandGoesRound
  <2>3. k \in K <=> /\ t[Under(d)].present /\ (Under(d) \in P(k) \/ ~t[Under(d)].use)
                    /\ IF Cleaning(k) THEN t[Under(d)].modified ELSE ~t[Under(d)].modified
    BY <1>4, <2>0, <2>2
  <2> HIDE DEF K, P, k
  <2>4. QED
    BY <1>1, <2>0, <2>1, <2>2, <2>3
\* The third round: all the use bits are cleared.
<1>7. ASSUME NEW d \in 0 .. n - 1
      PROVE  2 * n + d \in K <=> t[Under(d)].present /\ ~t[Under(d)].modified
  <2> DEFINE k == 2 * n + d
             i == Under(d)
  <2>0. k \in 0 .. 4 * n - 1 /\ k \in Nat
    BY <1>0
  <2>1. i \in P(k)
    <3> DEFINE j == n + d
    <3>1. Cleaning(j) /\ Under(j) = i
      BY CleaningRounds, HandGoesRound
    <3>2. j \in 0 .. k - 1
      BY <1>0
    <3>3. QED
      BY <3>1, <3>2 DEF PassedAt
  <2>2. ~Cleaning(k) /\ Under(k) = i /\ i \in 0 .. n - 1
    BY <1>0, CleaningRounds, HandGoesRound
  <2>3. k \in K <=> /\ t[i].present /\ (i \in P(k) \/ ~t[i].use)
                    /\ IF Cleaning(k) THEN t[i].modified ELSE ~t[i].modified
    BY <1>4, <2>0, <2>2
  <2> HIDE DEF K, P
  <2>4. QED
    BY <2>1, <2>2, <2>3
<1> HIDE DEF K
<1>8. CASE Clean(t) # {}
  <2> DEFINE S == Clean(t)
  <2>1. victim = Take(t, Min(Sweep(S, c)))
    BY <1>8 DEF ImprovedClockSelector
  <2>2. victim.row = Min(Sweep(S, c))
    BY <2>1 DEF Take
  <2>3. S \in SUBSET (0 .. NoOfRows - 1) /\ S # {}
    BY <1>1, <1>8
  <2>4. /\ \A k \in K : k >= 0 * NoOfRows
        /\ \A d \in 0 .. NoOfRows - 1 : 0 * NoOfRows + d \in K <=> Under(d) \in S
    <3>1. \A d \in 0 .. NoOfRows - 1 : 0 * NoOfRows + d = d
      BY <1>0
    <3>2. \A k \in K : k >= 0 * NoOfRows
      BY <1>0, <1>3
    <3>3. QED
      BY <1>5, <3>1, <3>2
  <2> HIDE DEF S
  <2>5. Under(Min(K)) = Min(Sweep(S, hand))
    BY <1>3, <2>3, <2>4, StopsAtSweep
  <2>6. QED
    BY <1>2, <2>2, <2>5
<1>9. ASSUME Clean(t) = {} PROVE \A k \in K : k >= n
  <2>1. \A d \in 0 .. n - 1 : d \notin K
    BY <1>5, <1>9
  <2>2. QED
    BY <1>0, <1>3, <2>1
<1>10. CASE Clean(t) = {} /\ Dirty(t) # {}
  <2> DEFINE S == Dirty(t)
  <2>1. second.found
    <3>1. ~second.found <=> Dirty(t) = {} /\ ~(t[c].present /\ t[c].modified)
      BY <1>0, SecondStepFails
    <3>2. QED
      BY <1>10, <3>1
  <2>2. victim = Take(second.table, second.row)
    BY <1>10, <2>1 DEF ImprovedClockSelector
  <2>3. victim.row = second.row
    BY <2>2 DEF Take
  <2>4. second.row = Min(Sweep(S, c))
    BY <1>10, SecondStepRow
  <2>5. S \in SUBSET (0 .. NoOfRows - 1) /\ S # {}
    BY <1>1, <1>10
  <2>6. \A k \in K : k >= 1 * NoOfRows
    BY <1>0, <1>9, <1>10
  <2>7. \A d \in 0 .. NoOfRows - 1 : 1 * NoOfRows + d \in K <=> Under(d) \in S
    BY <1>6
  <2> HIDE DEF S, second
  <2>8. Under(Min(K)) = Min(Sweep(S, hand))
    BY <1>3, <2>5, <2>6, <2>7, StopsAtSweep
  <2>9. QED
    BY <1>2, <2>3, <2>4, <2>8
<1>11. CASE Clean(t) = {} /\ Dirty(t) = {}
  <2>0. ~(t[c].present /\ t[c].modified)
    <3>1. ~(t[c].present /\ ~t[c].use /\ t[c].modified)
      BY <1>0, <1>1, <1>11
    <3>2. QED
      BY <3>1
  <2>1. ~second.found /\ \A k \in 0 .. n - 1 : second.table[k].present => ~second.table[k].use
    <3>1. /\ ~second.found <=> Dirty(t) = {} /\ ~(t[c].present /\ t[c].modified)
          /\ ~second.found => \A k \in 0 .. n - 1 : second.table[k].present => ~second.table[k].use
      BY <1>0, SecondStepFails
    <3>2. QED
      BY <1>11, <2>0, <3>1
  <2>2. second.table \in BigTables(n, {0}) /\ OnlyUse(t, second.table)
    BY <1>0, SecondStepKeeps
  <2>3. ASSUME NEW i PROVE i \in again <=> i \in 0 .. n - 1 /\ t[i].present /\ ~t[i].modified
    <3> DEFINE u == second.table
    <3> HIDE DEF u, second
    <3>1. DOMAIN u = 0 .. n - 1
      BY <2>2 DEF u, BigTables
    <3>2. i \in Clean(u) <=> i \in 0 .. n - 1 /\ u[i].present /\ ~u[i].use /\ ~u[i].modified
      BY <3>1 DEF Clean, Unused
    <3>3. \A k \in 0 .. n - 1 : u[k].present = t[k].present /\ u[k].modified = t[k].modified
      BY <1>0, <2>2 DEF u, OnlyUse
    <3>4. \A k \in 0 .. n - 1 : u[k].present => ~u[k].use
      BY <2>1 DEF u
    <3>5. QED
      BY <3>2, <3>3, <3>4 DEF u
  <2> HIDE DEF again, second
  <2>4. again # {}
    <3>1. SUFFICES ASSUME again = {} PROVE FALSE
      OBVIOUS
    <3>2. victim = [row |-> NoRow, table |-> second.table, clock |-> c]
      BY <1>11, <2>1, <3>1 DEF ImprovedClockSelector, again, second
    <3>3. QED
      BY <3>2
  <2>5. victim = Take(second.table, Min(Sweep(again, c)))
    BY <1>11, <2>1, <2>4 DEF ImprovedClockSelector, again, second
  <2>6. victim.row = Min(Sweep(again, c))
    BY <2>5 DEF Take
  <2>7. again \in SUBSET (0 .. NoOfRows - 1)
    BY <2>3
  <2>8. \A k \in K : k >= 2 * NoOfRows
    <3>1. ASSUME NEW k \in K, k < 2 * n PROVE FALSE
      <4> DEFINE d == k - n
      <4>1. k \in Nat /\ k >= n
        BY <1>3, <1>9, <1>11
      <4>2. d \in 0 .. n - 1 /\ 1 * n + d = k
        BY <1>0, <3>1, <4>1
      <4> HIDE DEF d
      <4>3. Under(d) \in Dirty(t)
        BY <1>6, <4>2
      <4>4. QED
        BY <1>11, <4>3
    <3>2. QED
      BY <1>0, <1>3, <3>1
  <2>9. ASSUME NEW d \in 0 .. NoOfRows - 1 PROVE 2 * NoOfRows + d \in K <=> Under(d) \in again
    <3>1. Under(d) \in 0 .. n - 1
      BY HandGoesRound
    <3>2. QED
      BY <1>7, <2>3, <3>1
  <2>10. Under(Min(K)) = Min(Sweep(again, hand))
    BY <1>3, <2>4, <2>7, <2>8, <2>9, StopsAtSweep
  <2>11. QED
    BY <1>2, <2>6, <2>10
<1>12. QED
  BY <1>8, <1>10, <1>11

\* For tables of any size, improved_clock_selector takes the victim of enhanced
\* second chance when it finds one and the row under the hand is not in use and
\* modified (algorithms.c).
THEOREM ImprovedIsEnhancedAlways == CallsSpec => []ImprovedIsEnhanced
<1>1. CallsInv => ImprovedIsEnhanced
  BY ImprovedTakesEnhanced DEF ImprovedIsEnhanced
<1>2. QED
  BY <1>1, CallsInvHolds, PTL

\* For tables of any size, improved_clock_selector finds no victim exactly when
\* all rows that are present are in use and modified, and the hand is on none of
\* them (algorithms.c).
THEOREM ImprovedFailsAlways == CallsSpec => []ImprovedFails
<1>1. CallsInv => ImprovedFails
  <2> SUFFICES ASSUME CallsInv PROVE ImprovedFails
    OBVIOUS
  <2>1. NoOfRows \in Nat /\ bigTable \in BigTables(NoOfRows, {0}) /\ hand \in 0 .. NoOfRows - 1
    BY RowsAssumption DEF CallsInv
  <2>2. DOMAIN bigTable = 0 .. NoOfRows - 1
    BY <2>1 DEF BigTables
  <2>3. ImprovedClockSelector(bigTable, hand).row = NoRow <=>
          \A i \in 0 .. NoOfRows - 1 :
            bigTable[i].present => bigTable[i].modified /\ bigTable[i].use /\ i # hand
    BY <2>1, ImprovedGivesUp
  <2>4. QED
    BY <2>2, <2>3 DEF ImprovedFails
<1>2. QED
  BY <1>1, CallsInvHolds, PTL
=============================================================================
