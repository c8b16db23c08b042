---------------------------- MODULE Program_proofs ----------------------------
(***************************************************************************)
(* A program on its way from the file to memory, for every file and every  *)
(* size of the buffer: yylex finds the lexemes of console.l (Lexemes),     *)
(* yyparse the instructions of parser.y's grammar, and console, kernel and *)
(* CPU deliver and execute them (ProgramMeaning).                          *)
(*                                                                         *)
(* The invariants build on one another.  ScannerInv: what is unread is an  *)
(* end of the file, and a text that was found is the longest that the      *)
(* automaton accepts.  ParserInv: the stack holds what the tokens taken so *)
(* far say.  ExactInv: the tokens and errors so far are those of the first *)
(* lexemes of the file.  DeliverInv: the program is in one place, and the  *)
(* process that executes it has made the progress its counter says.        *)
(***************************************************************************)
EXTENDS ProgramMeaning, CommonLemmas
-----------------------------------------------------------------------------
(* The automaton of yylex: its packed tables, row by row.                  *)

\* The rows of state 37 in the packed tables of scanner.c are complete.
LEMMA LastRow == \A c \in 0 .. 34 : yy_chk[84 + c + 1] = 37 /\ yy_nxt[84 + c + 1] = IF c = 0 THEN 3 ELSE 37
BY DEF yy_chk, yy_nxt

\* State 37 has an entry for every class.
LEMMA LastState == ASSUME NEW c \in 0 .. 34 PROVE Fallback(<<37, c>>) = <<37, c>> /\ yy_base[37 + 1] = 84
BY LastRow DEF Fallback, yy_base

\* The next state, from the state and class where the defaults end.
LEMMA NextIs ==
  ASSUME NEW s, NEW c, NEW q, NEW d, Fallback(Fallback(<<s, c>>)) = <<q, d>>
  PROVE  NextState(s, c) = yy_nxt[yy_base[q + 1] + d + 1]
<1> DEFINE p == Fallback(Fallback(<<s, c>>))
<1>1. p[1] = q /\ p[2] = d
  OBVIOUS
<1>2. NextState(s, c) = yy_nxt[yy_base[p[1] + 1] + p[2] + 1]
  BY DEF NextState
<1> HIDE DEF p
<1>3. QED
  BY <1>1, <1>2

\* A state that defaults to 37.
LEMMA DefaultRow ==
  ASSUME NEW s \in 0 .. 37, NEW c \in 0 .. 34, yy_def[s + 1] = 37
  PROVE  NextState(s, c) = IF yy_chk[yy_base[s + 1] + c + 1] = s THEN yy_nxt[yy_base[s + 1] + c + 1]
                           ELSE IF c = 0 THEN 3 ELSE 37
<1>1. CASE yy_chk[yy_base[s + 1] + c + 1] = s
  <2>1. Fallback(<<s, c>>) = <<s, c>>
    BY <1>1 DEF Fallback
  <2>2. QED
    BY <1>1, <2>1 DEF NextState
<1>2. CASE yy_chk[yy_base[s + 1] + c + 1] # s
  <2>1. Fallback(<<s, c>>) = <<37, c>>
    BY <1>2 DEF Fallback
  <2>2. Fallback(Fallback(<<s, c>>)) = <<37, c>>
    BY <2>1, LastState
  <2>3. NextState(s, c) = yy_nxt[yy_base[37 + 1] + c + 1]
    BY <2>2, NextIs
  <2>4. NextState(s, c) = yy_nxt[84 + c + 1]
    BY <2>3, LastState
  <2>5. QED
    BY <1>2, <2>4, LastRow
<1>3. QED
  BY <1>1, <1>2

\* After blanks, only blanks follow.
LEMMA BlankRows ==
  \A s \in {5, 6, 14}, c \in 0 .. 34 : NextState(s, c) = IF c = 0 THEN 3 ELSE IF c \in {2, 3} THEN 14 ELSE 37
BY DefaultRow, SMTT(90) DEF yy_base, yy_def, yy_chk, yy_nxt

\* The states without transitions.
LEMMA StopRows ==
  \A s \in {4, 26, 30, 31, 33, 35, 36, 37}, c \in 0 .. 34 : NextState(s, c) = IF c = 0 THEN 3 ELSE 37
<1>1. \A s \in {4, 26, 30, 31, 33, 35, 36} : yy_base[s + 1] = 84 /\ yy_def[s + 1] = 37
  BY SMTT(30) DEF yy_base, yy_def
<1>2. ASSUME NEW s \in {4, 26, 30, 31, 33, 35, 36}, NEW c \in 0 .. 34
      PROVE  NextState(s, c) = IF c = 0 THEN 3 ELSE 37
  <2>1. s \in 0 .. 37 /\ s # 37
    OBVIOUS
  <2>2. yy_chk[yy_base[s + 1] + c + 1] = 37
    BY <1>1, LastRow
  <2>3. QED
    BY <1>1, <2>1, <2>2, DefaultRow
<1>3. ASSUME NEW c \in 0 .. 34 PROVE NextState(37, c) = IF c = 0 THEN 3 ELSE 37
  <2>1. Fallback(Fallback(<<37, c>>)) = <<37, c>>
    BY LastState
  <2>2. NextState(37, c) = yy_nxt[84 + c + 1]
    BY <2>1, LastState, NextIs
  <2>3. QED
    BY <2>2, LastRow
<1>4. QED
  BY <1>2, <1>3

\* The states that default to a template, where a class has no entry of their own.
LEMMA TemplateRow ==
  ASSUME NEW s \in {7, 15, 16, 23}, NEW c \in 0 .. 34, yy_chk[yy_base[s + 1] + c + 1] # s
  PROVE  NextState(s, c) = IF c = 0 THEN 3 ELSE IF c \in {4, 6} \cup 7 .. 20 \cup 22 .. 34
                           THEN (IF s \in {7, 16} THEN 15 ELSE 23) ELSE 37
<1> DEFINE t == IF s \in {7, 16} THEN 38 ELSE 39
           m == yy_meta[c + 1]
<1>1. yy_def[s + 1] = t
  BY DEF yy_def
<1>2. m = IF c = 0 THEN 0 ELSE IF c \in {4, 6} \cup 7 .. 20 \cup 22 .. 34 THEN 2 ELSE 1
  BY DEF yy_meta
<1>3. t \in {38, 39} /\ yy_def[t + 1] = 37 /\ yy_base[t + 1] = IF t = 38 THEN 68 ELSE 48
  BY DEF yy_def, yy_base
<1> HIDE DEF t, m
<1>4. Fallback(<<s, c>>) = <<t, m>>
  BY <1>1, <1>3 DEF Fallback, m
<1>5. \A b \in 0 .. 2 : /\ yy_chk[68 + b + 1] = 38 <=> b = 2
                        /\ yy_chk[48 + b + 1] = 39 <=> b = 2
  BY DEF yy_chk
<1>6. Fallback(<<t, m>>) = IF m = 2 THEN <<t, m>> ELSE <<37, m>>
  BY <1>2, <1>3, <1>5 DEF Fallback
<1>7. yy_nxt[68 + 2 + 1] = 15 /\ yy_nxt[48 + 2 + 1] = 23
  BY DEF yy_nxt
<1>8. CASE m = 2
  <2>1. NextState(s, c) = yy_nxt[yy_base[t + 1] + m + 1]
    BY <1>4, <1>6, <1>8, NextIs
  <2>2. QED
    BY <1>2, <1>3, <1>7, <1>8, <2>1 DEF t
<1>9. CASE m # 2
  <2>0. NextState(s, c) = yy_nxt[yy_base[37 + 1] + m + 1]
    BY <1>4, <1>6, <1>9, NextIs
  <2>1. NextState(s, c) = yy_nxt[84 + m + 1]
    BY <2>0, LastState
  <2>2. m \in 0 .. 34 /\ (m = 0 <=> c = 0)
    BY <1>2
  <2>3. NextState(s, c) = IF c = 0 THEN 3 ELSE 37
    BY <2>1, <2>2, LastRow, SMTT(30)
  <2>4. QED
    BY <1>2, <1>9, <2>3
<1>10. QED
  BY <1>8, <1>9

\* After the NUL that ends the buffer nothing follows.
LEMMA NulRow == \A c \in 0 .. 34 : NextState(3, c) = 37
BY DefaultRow, SMTT(90) DEF yy_base, yy_def, yy_chk, yy_nxt

\* The first character of a text.
LEMMA FirstRow ==
  \A c \in 0 .. 34 : NextState(1, c) =
     CASE c = 0 -> 3 [] c = 2 -> 5 [] c = 3 -> 6 [] c = 6 -> 7 [] Lower(c) = 23 -> 8 [] Lower(c) = 25 -> 9
       [] Lower(c) = 26 -> 10 [] Lower(c) = 27 -> 11 [] Lower(c) = 30 -> 12 [] Lower(c) = 32 -> 13 [] OTHER -> 4
BY DefaultRow, SMTT(90) DEF yy_base, yy_def, yy_chk, yy_nxt, Lower

\* The letter that a state waits for, and the state after it, within a keyword.
Expects == [s \in 8 .. 13 \cup 17 .. 22 \cup {24, 25, 27, 28, 29, 32, 34} |->
  CASE s = 8 -> <<28, 17>>
    [] s = 9 -> <<33, 18>>
    [] s = 10 -> <<5, 19>>
    [] s = 11 -> <<28, 20>>
    [] s = 12 -> <<25, 21>>
    [] s = 13 -> <<30, 22>>
    [] s = 17 -> <<29, 24>>
    [] s = 18 -> <<26, 25>>
    [] s = 19 -> <<28, 26>>
    [] s = 20 -> <<21, 27>>
    [] s = 21 -> <<22, 28>>
    [] s = 22 -> <<26, 29>>
    [] s = 24 -> <<34, 30>>
    [] s = 25 -> <<31, 31>>
    [] s = 27 -> <<28, 32>>
    [] s = 28 -> <<24, 33>>
    [] s = 29 -> <<31, 34>>
    [] s = 32 -> <<29, 35>>
    [] s = 34 -> <<25, 36>>]

\* Within a keyword only its next letter leads on.
LEMMA KeywordRows ==
  ASSUME NEW s \in DOMAIN Expects, NEW c \in 0 .. 34
  PROVE  NextState(s, c) = IF c = 0 THEN 3 ELSE IF Lower(c) = Expects[s][1] THEN Expects[s][2] ELSE 37
<1> USE DefaultRow
<1>1. NextState(8, c) = IF c = 0 THEN 3 ELSE IF Lower(c) = 28 THEN 17 ELSE 37
  BY SMTT(90) DEF yy_base, yy_def, yy_chk, yy_nxt, Lower
<1>2. NextState(9, c) = IF c = 0 THEN 3 ELSE IF Lower(c) = 33 THEN 18 ELSE 37
  BY SMTT(90) DEF yy_base, yy_def, yy_chk, yy_nxt, Lower
<1>3. NextState(10, c) = IF c = 0 THEN 3 ELSE IF Lower(c) = 5 THEN 19 ELSE 37
  BY SMTT(90) DEF yy_base, yy_def, yy_chk, yy_nxt, Lower
<1>4. NextState(11, c) = IF c = 0 THEN 3 ELSE IF Lower(c) = 28 THEN 20 ELSE 37
  BY SMTT(90) DEF yy_base, yy_def, yy_chk, yy_nxt, Lower
<1>5. NextState(12, c) = IF c = 0 THEN 3 ELSE IF Lower(c) = 25 THEN 21 ELSE 37
  BY SMTT(90) DEF yy_base, yy_def, yy_chk, yy_nxt, Lower
<1>6. NextState(13, c) = IF c = 0 THEN 3 ELSE IF Lower(c) = 30 THEN 22 ELSE 37
  BY SMTT(90) DEF yy_base, yy_def, yy_chk, yy_nxt, Lower
<1>7. NextState(17, c) = IF c = 0 THEN 3 ELSE IF Lower(c) = 29 THEN 24 ELSE 37
  BY SMTT(90) DEF yy_base, yy_def, yy_chk, yy_nxt, Lower
<1>8. NextState(18, c) = IF c = 0 THEN 3 ELSE IF Lower(c) = 26 THEN 25 ELSE 37
  BY SMTT(90) DEF yy_base, yy_def, yy_chk, yy_nxt, Lower
<1>9. NextState(19, c) = IF c = 0 THEN 3 ELSE IF Lower(c) = 28 THEN 26 ELSE 37
  BY SMTT(90) DEF yy_base, yy_def, yy_chk, yy_nxt, Lower
<1>10. NextState(20, c) = IF c = 0 THEN 3 ELSE IF Lower(c) = 21 THEN 27 ELSE 37
  BY SMTT(90) DEF yy_base, yy_def, yy_chk, yy_nxt, Lower
<1>11. NextState(21, c) = IF c = 0 THEN 3 ELSE IF Lower(c) = 22 THEN 28 ELSE 37
  BY SMTT(90) DEF yy_base, yy_def, yy_chk, yy_nxt, Lower
<1>12. NextState(22, c) = IF c = 0 THEN 3 ELSE IF Lower(c) = 26 THEN 29 ELSE 37
  BY SMTT(90) DEF yy_base, yy_def, yy_chk, yy_nxt, Lower
<1>13. NextState(24, c) = IF c = 0 THEN 3 ELSE IF Lower(c) = 34 THEN 30 ELSE 37
  BY SMTT(90) DEF yy_base, yy_def, yy_chk, yy_nxt, Lower
<1>14. NextState(25, c) = IF c = 0 THEN 3 ELSE IF Lower(c) = 31 THEN 31 ELSE 37
  BY SMTT(90) DEF yy_base, yy_def, yy_chk, yy_nxt, Lower
<1>15. NextState(27, c) = IF c = 0 THEN 3 ELSE IF Lower(c) = 28 THEN 32 ELSE 37
  BY SMTT(90) DEF yy_base, yy_def, yy_chk, yy_nxt, Lower
<1>16. NextState(28, c) = IF c = 0 THEN 3 ELSE IF Lower(c) = 24 THEN 33 ELSE 37
  BY SMTT(90) DEF yy_base, yy_def, yy_chk, yy_nxt, Lower
<1>17. NextState(29, c) = IF c = 0 THEN 3 ELSE IF Lower(c) = 31 THEN 34 ELSE 37
  BY SMTT(90) DEF yy_base, yy_def, yy_chk, yy_nxt, Lower
<1>18. NextState(32, c) = IF c = 0 THEN 3 ELSE IF Lower(c) = 29 THEN 35 ELSE 37
  BY SMTT(90) DEF yy_base, yy_def, yy_chk, yy_nxt, Lower
<1>19. NextState(34, c) = IF c = 0 THEN 3 ELSE IF Lower(c) = 25 THEN 36 ELSE 37
  BY SMTT(90) DEF yy_base, yy_def, yy_chk, yy_nxt, Lower
<1> HIDE DefaultRow
<1>20. CASE s = 8
  <2>1. Expects[s] = <<28, 17>>
    BY <1>20 DEF Expects
  <2>2. QED
    BY <1>1, <1>20, <2>1
<1>21. CASE s = 9
  <2>1. Expects[s] = <<33, 18>>
    BY <1>21 DEF Expects
  <2>2. QED
    BY <1>2, <1>21, <2>1
<1>22. CASE s = 10
  <2>1. Expects[s] = <<5, 19>>
    BY <1>22 DEF Expects
  <2>2. QED
    BY <1>3, <1>22, <2>1
<1>23. CASE s = 11
  <2>1. Expects[s] = <<28, 20>>
    BY <1>23 DEF Expects
  <2>2. QED
    BY <1>4, <1>23, <2>1
<1>24. CASE s = 12
  <2>1. Expects[s] = <<25, 21>>
    BY <1>24 DEF Expects
  <2>2. QED
    BY <1>5, <1>24, <2>1
<1>25. CASE s = 13
  <2>1. Expects[s] = <<30, 22>>
    BY <1>25 DEF Expects
  <2>2. QED
    BY <1>6, <1>25, <2>1
<1>26. CASE s = 17
  <2>1. Expects[s] = <<29, 24>>
    BY <1>26 DEF Expects
  <2>2. QED
    BY <1>7, <1>26, <2>1
<1>27. CASE s = 18
  <2>1. Expects[s] = <<26, 25>>
    BY <1>27 DEF Expects
  <2>2. QED
    BY <1>8, <1>27, <2>1
<1>28. CASE s = 19
  <2>1. Expects[s] = <<28, 26>>
    BY <1>28 DEF Expects
  <2>2. QED
    BY <1>9, <1>28, <2>1
<1>29. CASE s = 20
  <2>1. Expects[s] = <<21, 27>>
    BY <1>29 DEF Expects
  <2>2. QED
    BY <1>10, <1>29, <2>1
<1>30. CASE s = 21
  <2>1. Expects[s] = <<22, 28>>
    BY <1>30 DEF Expects
  <2>2. QED
    BY <1>11, <1>30, <2>1
<1>31. CASE s = 22
  <2>1. Expects[s] = <<26, 29>>
    BY <1>31 DEF Expects
  <2>2. QED
    BY <1>12, <1>31, <2>1
<1>32. CASE s = 24
  <2>1. Expects[s] = <<34, 30>>
    BY <1>32 DEF Expects
  <2>2. QED
    BY <1>13, <1>32, <2>1
<1>33. CASE s = 25
  <2>1. Expects[s] = <<31, 31>>
    BY <1>33 DEF Expects
  <2>2. QED
    BY <1>14, <1>33, <2>1
<1>34. CASE s = 27
  <2>1. Expects[s] = <<28, 32>>
    BY <1>34 DEF Expects
  <2>2. QED
    BY <1>15, <1>34, <2>1
<1>35. CASE s = 28
  <2>1. Expects[s] = <<24, 33>>
    BY <1>35 DEF Expects
  <2>2. QED
    BY <1>16, <1>35, <2>1
<1>36. CASE s = 29
  <2>1. Expects[s] = <<31, 34>>
    BY <1>36 DEF Expects
  <2>2. QED
    BY <1>17, <1>36, <2>1
<1>37. CASE s = 32
  <2>1. Expects[s] = <<29, 35>>
    BY <1>37 DEF Expects
  <2>2. QED
    BY <1>18, <1>37, <2>1
<1>38. CASE s = 34
  <2>1. Expects[s] = <<25, 36>>
    BY <1>38 DEF Expects
  <2>2. QED
    BY <1>19, <1>38, <2>1
<1>39. s \in {8, 9, 10, 11, 12, 13, 17, 18, 19, 20, 21, 22, 24, 25, 27, 28, 29, 32, 34}
  BY DEF Expects
<1>40. QED
  BY <1>39, <1>20, <1>21, <1>22, <1>23, <1>24, <1>25, <1>26, <1>27, <1>28, <1>29, <1>30, <1>31, <1>32, <1>33, <1>34,
     <1>35, <1>36, <1>37, <1>38

\* Digits, letters and the invalid character: what a constant must not run into.
Wordy == {4, 6} \cup 7 .. 20 \cup 22 .. 34

\* After digits: another digit, or a character that spoils the constant.
LEMMA DigitRows ==
  ASSUME NEW s \in {7, 16}, NEW c \in 0 .. 34
  PROVE  NextState(s, c) = IF c = 0 THEN 3 ELSE IF c = 6 THEN 16 ELSE IF c \in Wordy THEN 15 ELSE 37
<1>1. yy_chk[yy_base[s + 1] + c + 1] = s <=> c = 6
  BY DEF yy_chk, yy_base
<1>2. yy_base[7 + 1] = 70 /\ yy_base[16 + 1] = 68 /\ yy_nxt[70 + 6 + 1] = 16 /\ yy_nxt[68 + 6 + 1] = 16
  BY DEF yy_base, yy_nxt
<1>3. CASE c = 6
  <2>1. Fallback(<<s, c>>) = <<s, c>>
    BY <1>1, <1>3 DEF Fallback
  <2>2. NextState(s, c) = yy_nxt[yy_base[s + 1] + c + 1]
    BY <2>1, NextIs
  <2>3. QED
    BY <1>2, <1>3, <2>2
<1>4. CASE c # 6
  BY <1>1, <1>4, TemplateRow DEF Wordy
<1>5. QED
  BY <1>3, <1>4

\* After a spoilt constant.
LEMMA BadRows ==
  ASSUME NEW s \in {15, 23}, NEW c \in 0 .. 34
  PROVE  NextState(s, c) = IF c = 0 THEN 3 ELSE IF c \in Wordy THEN 23 ELSE 37
<1>1. yy_chk[yy_base[s + 1] + c + 1] # s
  BY DEF yy_chk, yy_base
<1>2. QED
  BY <1>1, TemplateRow DEF Wordy

\* The states that yylex can reach, and those that have no transitions.
States == {1} \cup 3 .. 37
Stops == {4, 26, 30, 31, 33, 35, 36, 37}

\* The states by what their rows look like.
LEMMA StatePartition ==
  ASSUME NEW s \in States
  PROVE  \/ s \in {1, 3} \/ s \in Stops \/ s \in {5, 6, 14} \/ s \in {7, 16} \/ s \in {15, 23}
         \/ s \in DOMAIN Expects
BY SMTT(30) DEF States, Stops, Expects

\* A letter of a keyword leads to a state within one.
LEMMA ExpectsTypes == ASSUME NEW s \in DOMAIN Expects PROVE Expects[s][2] \in 17 .. 36
BY SMTT(40) DEF Expects

\* The automaton stays in its states; a NUL leads to state 3, and no other
\* character does.
LEMMA NextStates ==
  ASSUME NEW s \in States, NEW c \in 0 .. 34
  PROVE  /\ NextState(s, c) \in 3 .. 37
         /\ c = 0 => NextState(s, c) = IF s = 3 THEN 37 ELSE 3
         /\ c # 0 => NextState(s, c) # 3
         /\ c # 0 /\ s \in Stops \cup {3} => NextState(s, c) = 37
<1>1. CASE s = 1
  <2>1. c # 0 => NextState(1, c) \in 4 .. 13
    BY FirstRow
  <2>2. NextState(1, 0) = 3
    BY FirstRow DEF Lower
  <2>3. QED
    BY <1>1, <2>1, <2>2 DEF Stops
<1>2. CASE s = 3
  BY <1>2, NulRow
<1>3. CASE s \in Stops
  BY <1>3, StopRows DEF Stops
<1>4. CASE s \in {5, 6, 14}
  BY <1>4, BlankRows DEF Stops
<1>5. CASE s \in {7, 16}
  BY <1>5, DigitRows DEF Stops
<1>6. CASE s \in {15, 23}
  BY <1>6, BadRows DEF Stops
<1>7. CASE s \in DOMAIN Expects
  <2>1. s \notin Stops /\ s # 3
    BY <1>7 DEF Stops, Expects
  <2>2. QED
    BY <1>7, <2>1, KeywordRows, ExpectsTypes
<1>8. QED
  BY <1>1, <1>2, <1>3, <1>4, <1>5, <1>6, <1>7, StatePartition

\* Which states stop, and which action each of them accepts.
LEMMA Accepting ==
  /\ \A s \in States : yy_base[s + 1] = 84 <=> s \in Stops
  /\ \A s \in States : yy_accept[s + 1] \in 0 .. 10 \cup {12} /\ (yy_accept[s + 1] = 12 <=> s = 3)
  /\ \A s \in States : yy_accept[s + 1] = 0 <=> s \in {1, 17, 18, 19, 20, 21, 22, 24, 25, 27, 28, 29, 32, 34, 37}
  /\ \A s \in States : yy_accept[s + 1] = 7 <=> s \in {5, 6, 14}
  /\ \A s \in States : yy_accept[s + 1] = 8 <=> s \in {7, 16}
  /\ \A s \in States : yy_accept[s + 1] = 9 <=> s \in {15, 23}
  /\ \A s \in States : yy_accept[s + 1] = 10 <=> s \in {4} \cup 8 .. 13
<1>1. \A s \in States : yy_base[s + 1] = 84 <=> s \in Stops
  BY DEF yy_base, States, Stops
<1>2. \A s \in States : yy_accept[s + 1] \in 0 .. 10 \cup {12} /\ (yy_accept[s + 1] = 12 <=> s = 3)
  BY DEF yy_accept, States
<1>3. \A s \in States : yy_accept[s + 1] = 0 <=> s \in {1, 17, 18, 19, 20, 21, 22, 24, 25, 27, 28, 29, 32, 34, 37}
  BY DEF yy_accept, States
<1>4. \A s \in States : yy_accept[s + 1] = 7 <=> s \in {5, 6, 14}
  BY DEF yy_accept, States
<1>5. \A s \in States : yy_accept[s + 1] = 8 <=> s \in {7, 16}
  BY DEF yy_accept, States
<1>6. \A s \in States : yy_accept[s + 1] = 9 <=> s \in {15, 23}
  BY DEF yy_accept, States
<1>7. \A s \in States : yy_accept[s + 1] = 10 <=> s \in {4} \cup 8 .. 13
  BY DEF yy_accept, States
<1>8. QED
  BY <1>1, <1>2, <1>3, <1>4, <1>5, <1>6, <1>7

\* One character is always accepted.
LEMMA FirstAccepts == ASSUME NEW c \in 1 .. 34 PROVE yy_accept[NextState(1, c) + 1] # 0
<1>1. NextState(1, c) \in 4 .. 13
  BY FirstRow
<1>2. QED
  BY <1>1, Accepting DEF States

-----------------------------------------------------------------------------
(* Walks of the automaton over text.                                       *)

\* The class of a character of the file, and the states of the automaton over a
\* text, where a NUL counts as any other character.
ClassOf(c) == IF c = 0 THEN 1 ELSE Class(c)
Walk(u) ==
  LET d[i \in 0 .. Len(u)] == IF i = 0 THEN 1 ELSE NextState(d[i - 1], ClassOf(u[i])) IN d

\* The classes of the characters.
LEMMA Classes ==
  ASSUME NEW c \in Chars
  PROVE  ClassOf(c) \in 1 .. 34 /\ Class(c) \in 0 .. 34 /\ (Class(c) = 0 <=> c = 0) /\ c \in Nat
BY DEF Chars, ClassOf, Class

\* A step over a character of the text.
LEMMA NextOnChar ==
  ASSUME NEW s \in States, NEW c \in Chars
  PROVE  /\ NextState(s, ClassOf(c)) \in 4 .. 37
         /\ s \in Stops \cup {3} => NextState(s, ClassOf(c)) = 37
<1>1. ClassOf(c) \in 0 .. 34 /\ ClassOf(c) # 0
  BY Classes
<1> DEFINE k == ClassOf(c)
<1> HIDE DEF k
<1>2. k \in 0 .. 34 /\ k # 0
  BY <1>1 DEF k
<1>3. /\ NextState(s, k) \in 4 .. 37
      /\ s \in Stops \cup {3} => NextState(s, k) = 37
  BY <1>2, NextStates
<1>4. QED
  BY <1>3 DEF k

\* The walk is a function over the positions of the text.
LEMMA WalkFacts ==
  ASSUME NEW u \in Seq(Chars)
  PROVE  /\ Walk(u) \in [0 .. Len(u) -> States] /\ Walk(u)[0] = 1
         /\ \A i \in 1 .. Len(u) : Walk(u)[i] = NextState(Walk(u)[i - 1], ClassOf(u[i]))
<1> DEFINE n == Len(u)
           E(d) == [i \in 0 .. n |-> IF i = 0 THEN 1 ELSE NextState(d[i - 1], ClassOf(u[i]))]
           g == [i \in 1 .. n |-> [s \in States |-> NextState(s, ClassOf(u[i]))]]
           F == Walk(u)
<1>1. n \in Nat /\ 1 \in States
  BY DEF States
<1>2. ASSUME NEW s \in States, NEW i \in 1 .. n PROVE NextState(s, ClassOf(u[i])) \in States
  <2>1. u[i] \in Chars
    BY <1>2
  <2>2. NextState(s, ClassOf(u[i])) \in 4 .. 37
    BY <2>1, NextOnChar
  <2>3. QED
    BY <2>2 DEF States
<1>3. g \in [1 .. n -> [States -> States]]
  BY <1>2
<1> HIDE DEF n
<1>4. PICK f \in [0 .. n -> States] : f[0] = 1 /\ \A i \in 1 .. n : f[i] = g[i][f[i - 1]]
  <2> HIDE DEF g
  <2>1. QED
    BY <1>1, <1>3, RecursionUpTo
<1>5. ASSUME NEW i \in 1 .. n PROVE f[i] = NextState(f[i - 1], ClassOf(u[i]))
  <2>1. i - 1 \in 0 .. n
    BY <1>1
  <2>2. f[i - 1] \in States
    BY <2>1
  <2>3. QED
    BY <1>4, <2>2
<1>6. f = E(f)
  BY <1>4, <1>5
<1>7. F = CHOOSE d : d = E(d)
  BY DEF Walk, n
<1> HIDE DEF E, F
<1>8. F = E(F)
  BY <1>6, <1>7
<1>9. F = [i \in 0 .. n |-> IF i = 0 THEN 1 ELSE NextState(F[i - 1], ClassOf(u[i]))]
  BY <1>8 DEF E
<1>10. F[0] = 1 /\ \A i \in 1 .. n : F[i] = NextState(F[i - 1], ClassOf(u[i]))
  BY <1>1, <1>9
<1>11. \A i \in 0 .. n : F[i] \in States
  <2> DEFINE T == {i \in 0 .. n : F[i] \in States}
  <2>1. 0 \in T
    BY <1>1, <1>10
  <2>2. \A i \in 1 .. n : i - 1 \in T => i \in T
    BY <1>2, <1>10
  <2> HIDE DEF T
  <2>3. \A i \in 0 .. n : i \in T
    BY <1>1, <2>1, <2>2, UpToInduction
  <2>4. QED
    BY <2>3 DEF T
<1>12. F \in [0 .. n -> States]
  BY <1>9, <1>11
<1>13. QED
  BY <1>10, <1>12 DEF n, F

\* The characters of the buffer, and the NUL behind it.
LEMMA CharAtFacts ==
  ASSUME NEW l, l.buf \in Seq(Chars), NEW i \in Nat
  PROVE  /\ CharAt(l, i) \in Chars
         /\ i < Len(l.buf) => CharAt(l, i) = l.buf[i + 1]
         /\ i >= Len(l.buf) => CharAt(l, i) = 0
<1>1. CASE i < Len(l.buf)
  <2>1. i + 1 \in 1 .. Len(l.buf)
    BY <1>1
  <2>2. l.buf[i + 1] \in Chars
    BY <2>1
  <2>3. QED
    BY <1>1, <2>2 DEF CharAt
<1>2. CASE ~(i < Len(l.buf))
  BY <1>2 DEF CharAt, Chars
<1>3. QED
  BY <1>1, <1>2

\* The class of a character of the buffer in either reading of NUL.
LEMMA ClassAtFacts ==
  ASSUME NEW l, l.buf \in Seq(Chars), NEW i \in Nat
  PROVE  /\ ClassAt(l, i, 1) = ClassOf(CharAt(l, i)) /\ ClassAt(l, i, 0) = Class(CharAt(l, i))
         /\ ClassAt(l, i, 1) \in 0 .. 34 /\ ClassAt(l, i, 0) \in 0 .. 34
         /\ CharAt(l, i) # 0 => ClassAt(l, i, 0) = ClassOf(CharAt(l, i))
<1> DEFINE c == CharAt(l, i)
<1>1. c \in Chars
  BY CharAtFacts
<1>2. ClassOf(c) \in 1 .. 34 /\ Class(c) \in 0 .. 34
  BY <1>1, Classes
<1> HIDE DEF c
<1>3. ClassAt(l, i, 1) = ClassOf(c) /\ ClassAt(l, i, 0) = Class(c)
  BY DEF ClassAt, ClassOf, Class, c
<1>4. c # 0 => Class(c) = ClassOf(c)
  BY DEF ClassOf
<1>5. QED
  BY <1>2, <1>3, <1>4 DEF c

\* A scanner whose automaton can go on.
Ready(l) == l.buf \in Seq(Chars) /\ l.cp \in 0 .. Len(l.buf) + 2 /\ l.state \in States

\* The states of a run are a function over the positions from yy_cp on.
LEMMA StatesFromFacts ==
  ASSUME NEW l, NEW nul \in {0, 1}, Ready(l)
  PROVE  /\ StatesFrom(l, nul) \in [l.cp .. Len(l.buf) + 2 -> States]
         /\ StatesFrom(l, nul)[l.cp] = l.state
         /\ \A i \in l.cp + 1 .. Len(l.buf) + 2 :
              StatesFrom(l, nul)[i] = NextState(StatesFrom(l, nul)[i - 1], ClassAt(l, i - 1, nul))
<1> DEFINE a == l.cp
           b == Len(l.buf) + 2
           n == b - a
           E(d) == [i \in a .. b |-> IF i = a THEN l.state ELSE NextState(d[i - 1], ClassAt(l, i - 1, nul))]
           F == StatesFrom(l, nul)
<1>7. F = CHOOSE d : d = E(d)
  BY DEF StatesFrom
<1>1. a \in Nat /\ b \in Nat /\ n \in Nat /\ a + n = b /\ l.state \in States
  BY DEF Ready
<1> HIDE DEF a, b, n, F
<1>2. ASSUME NEW s \in States, NEW i \in Nat PROVE NextState(s, ClassAt(l, i, nul)) \in States
  <2>1. ClassAt(l, i, nul) \in 0 .. 34
    <3>1. CASE nul = 0
      BY <3>1, ClassAtFacts DEF Ready
    <3>2. CASE nul = 1
      BY <3>2, ClassAtFacts DEF Ready
    <3>3. QED
      BY <3>1, <3>2
  <2> DEFINE k == ClassAt(l, i, nul)
  <2> HIDE DEF k
  <2>2. NextState(s, k) \in 3 .. 37
    BY <2>1, NextStates DEF k
  <2>3. QED
    BY <2>2 DEF States, k
<1> DEFINE g == [j \in 1 .. n |-> [s \in States |-> NextState(s, ClassAt(l, a + j - 1, nul))]]
<1>3. g \in [1 .. n -> [States -> States]]
  <2>1. \A j \in 1 .. n : a + j - 1 \in Nat
    BY <1>1
  <2>2. QED
    BY <1>2, <2>1
<1> DEFINE v == l.state
<1> HIDE DEF g, v
<1>40. \E f \in [0 .. n -> States] : f[0] = v /\ \A i \in 1 .. n : f[i] = g[i][f[i - 1]]
  <2>1. v \in States
    BY <1>1 DEF v
  <2>2. n \in Nat
    BY <1>1
  <2>3. QED
    BY <1>3, <2>1, <2>2, RecursionUpTo
<1>4. PICK f \in [0 .. n -> States] : f[0] = v /\ \A i \in 1 .. n : f[i] = g[i][f[i - 1]]
  BY <1>40
<1> DEFINE h == [i \in a .. b |-> f[i - a]]
<1>5. ASSUME NEW i \in a .. b, i # a PROVE h[i] = NextState(h[i - 1], ClassAt(l, i - 1, nul))
  <2>1. i - a \in 1 .. n /\ (i - a) - 1 \in 0 .. n /\ i - 1 \in a .. b /\ a + (i - a) - 1 = i - 1
        /\ (i - 1) - a = (i - a) - 1
    BY <1>1, <1>5
  <2>2. h[i] = f[i - a] /\ h[i - 1] = f[(i - a) - 1]
    BY <2>1
  <2>3. f[i - a] = g[i - a][f[(i - a) - 1]] /\ f[(i - a) - 1] \in States
    BY <1>4, <2>1
  <2> HIDE DEF h
  <2>4. g[i - a][f[(i - a) - 1]] = NextState(f[(i - a) - 1], ClassAt(l, a + (i - a) - 1, nul))
    BY <2>1, <2>3 DEF g
  <2>5. QED
    BY <2>1, <2>2, <2>3, <2>4
<1>6. h = E(h)
  <2>1. h[a] = l.state
    BY <1>1, <1>4 DEF v
  <2>2. QED
    BY <1>5, <2>1
<1> HIDE DEF E, h
<1>8. F = E(F)
  BY <1>6, <1>7
<1>9. F = [i \in a .. b |-> IF i = a THEN l.state ELSE NextState(F[i - 1], ClassAt(l, i - 1, nul))]
  BY <1>8 DEF E
<1>10. F[a] = l.state /\ \A i \in a + 1 .. b : F[i] = NextState(F[i - 1], ClassAt(l, i - 1, nul))
  BY <1>1, <1>9
<1>11. \A i \in a .. b : F[i] \in States
  <2> DEFINE T == {j \in 0 .. n : F[a + j] \in States}
  <2>1. 0 \in T
    BY <1>1, <1>10
  <2>2. ASSUME NEW j \in 1 .. n, j - 1 \in T PROVE j \in T
    <3>1. a + j \in a + 1 .. b /\ (a + j) - 1 = a + (j - 1) /\ (a + j) - 1 \in Nat
      BY <1>1
    <3>2. F[a + (j - 1)] \in States
      BY <2>2
    <3>3. F[a + j] = NextState(F[(a + j) - 1], ClassAt(l, (a + j) - 1, nul))
      BY <1>10, <3>1
    <3>4. F[a + j] \in States
      BY <1>2, <3>1, <3>2, <3>3
    <3>5. QED
      BY <3>4
  <2> HIDE DEF T
  <2>3. \A j \in 0 .. n : j \in T
    BY <1>1, <2>1, <2>2, UpToInduction
  <2>4. ASSUME NEW i \in a .. b PROVE F[i] \in States
    <3>1. i - a \in 0 .. n /\ a + (i - a) = i
      BY <1>1
    <3>2. QED
      BY <2>3, <3>1 DEF T
  <2>5. QED
    BY <2>4
<1>12. F \in [a .. b -> States]
  BY <1>9, <1>11
<1>13. QED
  BY <1>10, <1>12 DEF a, b, F

\* The first k characters of a text are accepted.
Accepts(u, k) == yy_accept[Walk(u)[k] + 1] # 0

\* A walk over text never is in state 3.
LEMMA WalkStates ==
  ASSUME NEW u \in Seq(Chars)
  PROVE  /\ \A k \in 1 .. Len(u) : Walk(u)[k] \in 4 .. 37
         /\ \A k \in 0 .. Len(u) : Walk(u)[k] \in States \ {3}
<1>1. ASSUME NEW k \in 1 .. Len(u) PROVE Walk(u)[k] \in 4 .. 37
  <2>1. u[k] \in Chars /\ k - 1 \in 0 .. Len(u)
    OBVIOUS
  <2>2. Walk(u)[k - 1] \in States
    BY <2>1, WalkFacts
  <2>3. QED
    BY <2>1, <2>2, WalkFacts, NextOnChar
<1>2. ASSUME NEW k \in 0 .. Len(u) PROVE Walk(u)[k] \in States \ {3}
  <2>1. CASE k = 0
    BY <2>1, WalkFacts DEF States
  <2>2. CASE k # 0
    <3>1. k \in 1 .. Len(u)
      BY <2>2
    <3>2. Walk(u)[k] \in 4 .. 37
      BY <1>1, <3>1
    <3>3. \A x \in 4 .. 37 : x \in States \ {3}
      BY DEF States
    <3>4. QED
      BY <3>2, <3>3
  <2>3. QED
    BY <2>1, <2>2
<1>3. QED
  BY <1>1, <1>2

\* The empty text is not accepted, one character is.
LEMMA WalkStarts ==
  ASSUME NEW u \in Seq(Chars)
  PROVE  ~Accepts(u, 0) /\ (Len(u) > 0 => Accepts(u, 1))
<1>1. ~Accepts(u, 0)
  <2>1. Walk(u)[0] = 1
    BY WalkFacts
  <2>2. QED
    BY <2>1, Accepting DEF Accepts, States
<1>2. ASSUME Len(u) > 0 PROVE Accepts(u, 1)
  <2>1. 1 \in 1 .. Len(u) /\ u[1] \in Chars
    BY <1>2
  <2>2. ClassOf(u[1]) \in 1 .. 34
    BY <2>1, Classes
  <2>3. Walk(u)[1] = NextState(1, ClassOf(u[1]))
    BY <2>1, WalkFacts
  <2> DEFINE c == ClassOf(u[1])
  <2> HIDE DEF c
  <2>4. yy_accept[NextState(1, c) + 1] # 0
    BY <2>2, FirstAccepts DEF c
  <2>5. QED
    BY <2>3, <2>4 DEF Accepts, c
<1>3. QED
  BY <1>1, <1>2

\* Behind a state without transitions nothing is accepted.
LEMMA WalkDies ==
  ASSUME NEW u \in Seq(Chars), NEW k \in 0 .. Len(u), Walk(u)[k] \in Stops
  PROVE  \A j \in k + 1 .. Len(u) : Walk(u)[j] = 37 /\ ~Accepts(u, j)
<1> DEFINE n == Len(u) - k
           T == {i \in 0 .. n : i > 0 => Walk(u)[k + i] = 37}
<1>1. n \in Nat /\ 0 \in T
  OBVIOUS
<1>2. ASSUME NEW i \in 1 .. n, i - 1 \in T PROVE i \in T
  <2>1. Walk(u)[k + (i - 1)] \in Stops
    <3>1. CASE i - 1 > 0
      BY <1>2, <3>1 DEF Stops
    <3>2. CASE ~(i - 1 > 0)
      <4>1. i = 1 /\ k + (i - 1) = k
        BY <3>2
      <4>2. QED
        BY <4>1
    <3>3. QED
      BY <3>1, <3>2
  <2>2. k + i \in 1 .. Len(u) /\ (k + i) - 1 = k + (i - 1) /\ k + (i - 1) \in 0 .. Len(u)
    OBVIOUS
  <2>3. u[k + i] \in Chars
    BY <2>2
  <2>4. Walk(u)[k + i] = NextState(Walk(u)[k + (i - 1)], ClassOf(u[k + i]))
    BY <2>2, WalkFacts
  <2>5. Walk(u)[k + (i - 1)] \in States
    BY <2>2, WalkFacts
  <2>6. Walk(u)[k + i] = 37
    BY <2>1, <2>3, <2>4, <2>5, NextOnChar
  <2>7. QED
    BY <2>6
<1> HIDE DEF T
<1>3. \A i \in 0 .. n : i \in T
  <2> HIDE DEF n
  <2>1. QED
    BY <1>1, <1>2, UpToInduction
<1>4. ASSUME NEW j \in k + 1 .. Len(u) PROVE Walk(u)[j] = 37 /\ ~Accepts(u, j)
  <2>1. j - k \in 0 .. n /\ k + (j - k) = j /\ j - k > 0
    OBVIOUS
  <2>2. Walk(u)[j] = 37
    BY <1>3, <2>1 DEF T
  <2>3. QED
    BY <2>2, Accepting DEF Accepts, States
<1>5. QED
  BY <1>4

\* The scanner's state.
Lexers == [pc : {"idle", "match", "act", "fatal"}, init : BOOLEAN, rest : Seq(Chars), buf : Seq(Chars),
           size : Nat, status : {"new", "normal", "eof_pending"}, text : Nat, cp : Nat, state : States,
           lastState : 0 .. 37, lastPos : Nat]

\* What is unread is the buffer from yytext on, and then the rest of the file.
LEMMA UnreadFacts ==
  ASSUME NEW l \in Lexers, l.text <= Len(l.buf)
  PROVE  /\ Unread(l) \in Seq(Chars) /\ Len(Unread(l)) = (Len(l.buf) - l.text) + Len(l.rest)
         /\ \A i \in l.text .. Len(l.buf) - 1 : Unread(l)[i - l.text + 1] = CharAt(l, i)
<1> DEFINE a == SubSeq(l.buf, l.text + 1, Len(l.buf))
           b == l.rest
<1>1. l.buf \in Seq(Chars) /\ b \in Seq(Chars) /\ l.text \in Nat /\ Len(l.buf) \in Nat
  BY DEF Lexers
<1>2. /\ a \in Seq(Chars) /\ Len(a) = Len(l.buf) - l.text
      /\ \A i \in 1 .. Len(l.buf) - l.text : a[i] = l.buf[l.text + i]
  BY <1>1, SMTT(40)
<1>3. Unread(l) = a \o b
  BY DEF Unread
<1> HIDE DEF a, b
<1>4. /\ a \o b \in Seq(Chars) /\ Len(a \o b) = Len(a) + Len(b)
      /\ \A i \in 1 .. Len(a) : (a \o b)[i] = a[i]
  BY <1>1, <1>2, Len(a) \in Nat, Len(b) \in Nat, ConcatFacts
<1>5. ASSUME NEW i \in l.text .. Len(l.buf) - 1 PROVE Unread(l)[i - l.text + 1] = CharAt(l, i)
  <2>1. i - l.text + 1 \in 1 .. Len(a) /\ l.text + (i - l.text + 1) = i + 1 /\ i \in Nat /\ i < Len(l.buf)
    BY <1>1, <1>2, SMTT(40)
  <2>2. Unread(l)[i - l.text + 1] = l.buf[i + 1]
    BY <1>2, <1>3, <1>4, <2>1
  <2>3. QED
    BY <1>1, <2>1, <2>2, CharAtFacts
<1>6. QED
  BY <1>2, <1>3, <1>4, <1>5 DEF b

-----------------------------------------------------------------------------
(* Runs of the automaton over the buffer.                                  *)

\* Nothing but the automaton has changed.
SameBuffer(m, l) ==
  /\ m.pc = l.pc /\ m.init = l.init /\ m.rest = l.rest /\ m.buf = l.buf /\ m.size = l.size
  /\ m.status = l.status /\ m.text = l.text

\* With the same buffer the same is unread.
LEMMA SameUnread == ASSUME NEW l, NEW m, SameBuffer(m, l) PROVE Unread(m) = Unread(l)
BY DEF SameBuffer, Unread

\* The positions before e where the automaton accepts.
AcceptedIn(st, a, e) == {i \in a .. e - 1 : yy_accept[st[i] + 1] # 0}

\* Where the automaton is after a run, and the last accepting state it remembers.
LEMMA MovedFacts ==
  ASSUME NEW l \in Lexers, NEW b \in Nat, NEW st \in [l.cp .. b -> States], NEW e \in l.cp .. b
  PROVE  LET m == Moved(l, st, e)
             A == AcceptedIn(st, l.cp, e)
         IN  /\ m \in Lexers /\ SameBuffer(m, l) /\ m.state = st[e] /\ m.cp = e
             /\ A = {} => m.lastPos = l.lastPos /\ m.lastState = l.lastState
             /\ A # {} => /\ m.lastPos \in A /\ m.lastState = st[m.lastPos]
                          /\ \A i \in A : i <= m.lastPos
<1> DEFINE m == Moved(l, st, e)
           A == {i \in l.cp .. e - 1 : yy_accept[st[i] + 1] # 0}
           last == Max(A)
<1>1. l.cp \in Nat /\ e \in Nat /\ st[e] \in States
  BY DEF Lexers
<1>2. A \in SUBSET Nat /\ IsFiniteSet(A)
  <2>1. A \subseteq l.cp .. e - 1 /\ l.cp \in Int /\ e - 1 \in Int
    BY <1>1
  <2>2. IsFiniteSet(l.cp .. e - 1)
    BY <2>1, FS_Interval
  <2>3. IsFiniteSet(A)
    BY <2>1, <2>2, FS_Subset
  <2>4. QED
    BY <1>1, <2>3
<1>3. A # {} => last \in A /\ \A y \in A : last >= y
  <2> HIDE DEF A
  <2>1. QED
    BY <1>2, MaxIsGreatest
<1>4. A # {} => last \in Nat /\ st[last] \in 0 .. 37
  <2>1. ASSUME A # {} PROVE last \in Nat /\ last \in l.cp .. b
    BY <1>1, <1>3, <2>1
  <2>2. \A x \in States : x \in 0 .. 37
    BY DEF States
  <2>3. QED
    BY <2>1, <2>2
<1>5. m = [l EXCEPT !.state = st[e], !.cp = e, !.lastPos = IF A = {} THEN @ ELSE last,
                    !.lastState = IF A = {} THEN @ ELSE st[last]]
  BY DEF Moved
<1> DEFINE s == st[e]
           t == st[last]
<1> HIDE DEF A, last, m, s, t
<1>6. s \in States /\ (A # {} => t \in 0 .. 37)
  BY <1>1, <1>4 DEF s, t
<1>7. m = [l EXCEPT !.state = s, !.cp = e, !.lastPos = IF A = {} THEN l.lastPos ELSE last,
                    !.lastState = IF A = {} THEN l.lastState ELSE t]
  BY <1>5 DEF s, t, Lexers
<1>8. m \in Lexers /\ SameBuffer(m, l) /\ m.state = s /\ m.cp = e
      /\ m.lastPos = (IF A = {} THEN l.lastPos ELSE last) /\ m.lastState = IF A = {} THEN l.lastState ELSE t
  BY <1>1, <1>4, <1>6, <1>7 DEF Lexers, SameBuffer
<1>9. ASSUME A # {} PROVE m.lastPos \in A /\ m.lastState = st[m.lastPos] /\ \A i \in A : i <= m.lastPos
  <2>1. m.lastPos = last /\ m.lastState = t
    BY <1>8, <1>9
  <2>2. \A i \in A : i <= last
    BY <1>2, <1>3, <1>9
  <2>3. QED
    BY <1>3, <1>9, <2>1, <2>2 DEF t
<1>10. QED
  BY <1>8, <1>9 DEF m, A, s, AcceptedIn

\* yy_get_previous_state goes along the walk over what is unread.
LEMMA PreviousWalk ==
  ASSUME NEW l \in Lexers, l.text <= Len(l.buf), NEW start, start = [l EXCEPT !.state = 1, !.cp = l.text]
  PROVE  /\ start \in Lexers /\ SameBuffer(start, l) /\ Ready(start)
         /\ \A i \in l.text .. Len(l.buf) : StatesFrom(start, 1)[i] = Walk(Unread(l))[i - l.text]
<1> DEFINE a == l.text
           n == Len(l.buf) - a
           u == Unread(l)
           st == StatesFrom(start, 1)
           T == {j \in 0 .. n : st[a + j] = Walk(u)[j]}
<1>1. a \in Nat /\ n \in Nat /\ Len(l.buf) \in Nat /\ a + n = Len(l.buf) /\ l.buf \in Seq(Chars) /\ 1 \in States
  BY DEF Lexers, States
<1>2. start \in Lexers /\ SameBuffer(start, l) /\ start.cp = a /\ start.state = 1
  BY <1>1 DEF Lexers, SameBuffer
<1>3. start.buf = l.buf
  BY <1>2 DEF SameBuffer
<1>4. Ready(start)
  BY <1>1, <1>2, <1>3 DEF Ready
<1> HIDE DEF a, n, u, st
<1>5. st[a] = 1 /\ \A i \in a + 1 .. Len(l.buf) + 2 : st[i] = NextState(st[i - 1], ClassAt(start, i - 1, 1))
  BY <1>2, <1>3, <1>4, StatesFromFacts DEF st
<1>6. u \in Seq(Chars) /\ n <= Len(u) /\ \A i \in a .. Len(l.buf) - 1 : u[i - a + 1] = CharAt(l, i)
  <2>1. Len(l.rest) \in Nat
    BY DEF Lexers
  <2>2. QED
    BY <1>1, <2>1, UnreadFacts DEF a, n, u
<1>7. 0 \in T
  <2>1. Walk(u)[0] = 1
    BY <1>6, WalkFacts
  <2>2. QED
    BY <1>1, <1>5, <2>1
<1>8. ASSUME NEW j \in 1 .. n, j - 1 \in T PROVE j \in T
  <2> DEFINE i == (a + j) - 1
  <2>1. /\ i \in Nat /\ i \in a .. Len(l.buf) - 1 /\ a + j \in a + 1 .. Len(l.buf) + 2
        /\ i = a + (j - 1) /\ i - a + 1 = j /\ j \in 1 .. Len(u)
    BY <1>1, <1>6, SMTT(40)
  <2>2. st[a + j] = NextState(st[i], ClassAt(start, i, 1))
    BY <1>5, <2>1
  <2> HIDE DEF i
  <2>3. ClassAt(start, i, 1) = ClassOf(u[j])
    <3>1. CharAt(start, i) = CharAt(l, i)
      BY <1>3 DEF CharAt
    <3>2. ClassAt(start, i, 1) = ClassOf(CharAt(start, i))
      BY <1>1, <1>3, <2>1, ClassAtFacts
    <3>3. QED
      BY <1>6, <2>1, <3>1, <3>2
  <2>4. Walk(u)[j] = NextState(Walk(u)[j - 1], ClassOf(u[j]))
    BY <1>6, <2>1, WalkFacts
  <2>5. st[i] = Walk(u)[j - 1]
    BY <1>8, <2>1
  <2>6. QED
    BY <2>2, <2>3, <2>4, <2>5
<1> HIDE DEF T
<1>9. \A j \in 0 .. n : j \in T
  <2>1. n \in Nat
    BY <1>1
  <2>2. QED
    BY <1>7, <1>8, <2>1, UpToInduction
<1>10. ASSUME NEW i \in l.text .. Len(l.buf) PROVE st[i] = Walk(u)[i - l.text]
  <2>1. i - a \in 0 .. n /\ a + (i - a) = i
    BY <1>1 DEF a
  <2>2. QED
    BY <1>9, <2>1 DEF T, a
<1>11. QED
  BY <1>2, <1>4, <1>10 DEF st, u

\* The automaton remembers the last text that it accepted before the current one.
Remembers(l) ==
  LET u == Unread(l)
      c == l.cp - l.text
  IN  c > 1 => \E k \in 1 .. c - 1 : /\ l.lastPos = l.text + k /\ l.lastState = Walk(u)[k] /\ Accepts(u, k)
                                     /\ \A j \in k + 1 .. c - 1 : ~Accepts(u, j)

\* yy_get_previous_state returns the state of the walk, and remembers what it accepted.
LEMMA PreviousFacts ==
  ASSUME NEW l \in Lexers, NEW end \in l.text .. Len(l.buf)
  PROVE  LET m == PreviousState(l, end)
         IN  /\ m \in Lexers /\ SameBuffer(m, l) /\ m.cp = end
             /\ m.state = Walk(Unread(l))[end - l.text] /\ Remembers(m)
<1> DEFINE start == [l EXCEPT !.state = 1, !.cp = l.text]
           st == StatesFrom(start, 1)
           m == PreviousState(l, end)
           u == Unread(l)
           b == Len(l.buf) + 2
           A == AcceptedIn(st, start.cp, end)
<1>1. l.text \in Nat /\ Len(l.buf) \in Nat /\ l.text <= Len(l.buf) /\ b \in Nat /\ end \in Nat
  BY DEF Lexers
<1>2. /\ start \in Lexers /\ SameBuffer(start, l) /\ Ready(start)
      /\ \A i \in l.text .. Len(l.buf) : st[i] = Walk(u)[i - l.text]
  <2> HIDE DEF st
  <2>1. QED
    BY <1>1, PreviousWalk DEF st
<1>3. start.cp = l.text
  BY DEF Lexers
<1>4. m = Moved(start, st, end)
  BY DEF PreviousState
<1>5. u \in Seq(Chars) /\ Len(l.buf) - l.text <= Len(u)
  <2>1. Len(l.rest) \in Nat
    BY DEF Lexers
  <2>2. QED
    BY <1>1, <2>1, UnreadFacts
<1> HIDE DEF start, st, m, u, b
<1>6. st \in [start.cp .. b -> States]
  <2>1. start.buf = l.buf
    BY <1>2 DEF SameBuffer
  <2>2. QED
    BY <1>2, <2>1, StatesFromFacts DEF st, b
<1>7. end \in start.cp .. b
  BY <1>1, <1>3 DEF b
<1>8. /\ m \in Lexers /\ SameBuffer(m, start) /\ m.state = st[end] /\ m.cp = end
      /\ A = {} => m.lastPos = start.lastPos /\ m.lastState = start.lastState
      /\ A # {} => m.lastPos \in A /\ m.lastState = st[m.lastPos] /\ \A i \in A : i <= m.lastPos
  <2>1. start \in Lexers /\ b \in Nat
    BY <1>1, <1>2
  <2>2. /\ Moved(start, st, end) \in Lexers /\ SameBuffer(Moved(start, st, end), start)
        /\ Moved(start, st, end).state = st[end] /\ Moved(start, st, end).cp = end
    BY <1>6, <1>7, <2>1, MovedFacts
  <2>3. A = {} => /\ Moved(start, st, end).lastPos = start.lastPos
                  /\ Moved(start, st, end).lastState = start.lastState
    BY <1>6, <1>7, <2>1, MovedFacts
  <2>4. A # {} => /\ Moved(start, st, end).lastPos \in A
                  /\ Moved(start, st, end).lastState = st[Moved(start, st, end).lastPos]
                  /\ \A i \in A : i <= Moved(start, st, end).lastPos
    BY <1>6, <1>7, <2>1, MovedFacts
  <2>5. QED
    BY <1>4, <2>2, <2>3, <2>4
<1>9. SameBuffer(m, l)
  BY <1>2, <1>8 DEF SameBuffer
<1>10. m.state = Walk(u)[end - l.text]
  BY <1>1, <1>2, <1>8
<1>11. Remembers(m)
  <2> DEFINE c == end - l.text
  <2>1. Unread(m) = u /\ m.cp - m.text = c /\ m.text = l.text
    BY <1>8, <1>9, SameUnread DEF u, SameBuffer
  <2>2. SUFFICES ASSUME c > 1
                 PROVE  \E k \in 1 .. c - 1 : /\ m.lastPos = l.text + k /\ m.lastState = Walk(u)[k] /\ Accepts(u, k)
                                              /\ \A j \in k + 1 .. c - 1 : ~Accepts(u, j)
    BY <2>1 DEF Remembers
  <2>3. ASSUME NEW j \in 0 .. c - 1 PROVE l.text + j \in A <=> Accepts(u, j)
    <3>1. l.text + j \in l.text .. end - 1 /\ l.text + j \in l.text .. Len(l.buf) /\ (l.text + j) - l.text = j
      BY <1>1
    <3>2. st[l.text + j] = Walk(u)[j]
      BY <1>2, <3>1
    <3>3. QED
      BY <1>3, <3>1, <3>2 DEF Accepts, AcceptedIn
  <2>4. Len(u) > 0 /\ c \in Nat /\ 1 \in 0 .. c - 1
    BY <1>1, <1>5, <2>2
  <2>5. Accepts(u, 1) /\ ~Accepts(u, 0)
    BY <1>5, <2>4, WalkStarts
  <2>6. l.text + 1 \in A /\ l.text + 0 \notin A
    BY <2>3, <2>4, <2>5
  <2>7. m.lastPos \in A /\ m.lastState = st[m.lastPos] /\ \A i \in A : i <= m.lastPos
    BY <1>8, <2>6
  <2> DEFINE k == m.lastPos - l.text
  <2>8. m.lastPos \in l.text .. end - 1
    BY <1>3, <2>7 DEF AcceptedIn
  <2> HIDE DEF A
  <2>9. k \in 1 .. c - 1 /\ m.lastPos = l.text + k /\ k \in 0 .. c - 1
    BY <1>1, <2>6, <2>7, <2>8
  <2>10. Accepts(u, k)
    BY <2>3, <2>7, <2>9
  <2>11. m.lastState = Walk(u)[k]
    BY <1>1, <1>2, <2>7, <2>8
  <2>12. ASSUME NEW j \in k + 1 .. c - 1 PROVE ~Accepts(u, j)
    <3>1. j \in 0 .. c - 1 /\ ~(l.text + j <= m.lastPos)
      BY <1>1, <2>9
    <3>2. QED
      BY <2>3, <2>7, <3>1
  <2> HIDE DEF k, c
  <2>13. QED
    BY <2>9, <2>10, <2>11, <2>12
<1>12. QED
  BY <1>8, <1>9, <1>10, <1>11 DEF m, u

\* The text that is acted on is the longest that the automaton accepts.
Longest(l) ==
  LET u == Unread(l)
      n == l.cp - l.text
  IN  /\ n \in 1 .. Len(l.buf) - l.text /\ l.state = Walk(u)[n] /\ Accepts(u, n)
      /\ \A k \in n + 1 .. Len(u) : ~Accepts(u, k)

\* The text ends with a NUL, of the file or at the end of the buffer; up to the NUL
\* it could be the start of a lexeme.
AtNul(l) ==
  /\ l.state = 3 /\ l.text < l.cp /\ l.cp <= Len(l.buf) + 1
  /\ Walk(Unread(l))[(l.cp - l.text) - 1] # 37

\* The automaton has read the text up to yy_cp.
Midway(l) ==
  /\ l.text <= l.cp /\ l.cp <= Len(l.buf) /\ l.state = Walk(Unread(l))[l.cp - l.text] /\ Remembers(l)

\* yy_find_action backs up to the longest text that is accepted.
LEMMA FoundLongest ==
  ASSUME NEW m \in Lexers, Midway(m), m.cp > m.text,
         \A k \in (m.cp - m.text) + 1 .. Len(Unread(m)) : ~Accepts(Unread(m), k)
  PROVE  Found(m) \in Lexers /\ SameBuffer(Found(m), m) /\ Longest(Found(m))
<1> DEFINE u == Unread(m)
           c == m.cp - m.text
           f == Found(m)
<1>1. m.cp \in Nat /\ m.text \in Nat /\ Len(m.buf) \in Nat /\ Len(m.rest) \in Nat
  BY DEF Lexers
<1>2. u \in Seq(Chars) /\ Len(u) = (Len(m.buf) - m.text) + Len(m.rest)
  BY <1>1, UnreadFacts DEF Midway
<1>3. c \in 1 .. Len(m.buf) - m.text /\ c \in 1 .. Len(u) /\ m.state = Walk(u)[c]
  BY <1>1, <1>2 DEF Midway
<1>4. \A k \in c + 1 .. Len(u) : ~Accepts(u, k)
  OBVIOUS
<1> HIDE DEF u, c, f
<1>5. CASE Accepts(u, c)
  <2>1. f = m
    BY <1>3, <1>5 DEF Found, Accepts, f
  <2>2. SameBuffer(f, m)
    BY <2>1 DEF SameBuffer
  <2>3. Longest(f)
    BY <1>3, <1>4, <1>5, <2>1 DEF Longest, u, c
  <2>4. QED
    BY <2>1, <2>2, <2>3 DEF f
<1>6. CASE ~Accepts(u, c)
  <2>1. c > 1
    <3>1. Accepts(u, 1)
      BY <1>2, <1>3, WalkStarts
    <3>2. QED
      BY <1>3, <1>6, <3>1
  <2>2. PICK k \in 1 .. c - 1 : /\ m.lastPos = m.text + k /\ m.lastState = Walk(u)[k] /\ Accepts(u, k)
                                /\ \A j \in k + 1 .. c - 1 : ~Accepts(u, j)
    BY <2>1 DEF Midway, Remembers, u, c
  <2>3. f = [m EXCEPT !.state = m.lastState, !.cp = m.lastPos]
    BY <1>3, <1>6 DEF Found, Accepts, f
  <2>4. m.lastState \in States
    <3>1. k \in 0 .. Len(u)
      BY <1>3
    <3>2. QED
      BY <1>2, <2>2, <3>1, WalkFacts
  <2>5. /\ f \in Lexers /\ SameBuffer(f, m) /\ f.state = m.lastState /\ f.cp = m.lastPos
        /\ f.text = m.text /\ f.buf = m.buf
    BY <2>3, <2>4 DEF Lexers, SameBuffer
  <2>6. Unread(f) = u /\ f.cp - f.text = k
    BY <1>1, <2>2, <2>5, SameUnread DEF u
  <2>7. k \in 1 .. Len(m.buf) - m.text
    BY <1>1, <1>3
  <2>8. ASSUME NEW j \in k + 1 .. Len(u) PROVE ~Accepts(u, j)
    <3>1. \/ j \in k + 1 .. c - 1 \/ j = c \/ j \in c + 1 .. Len(u)
      BY <1>3
    <3>2. QED
      BY <1>4, <1>6, <2>2, <3>1
  <2>9. Longest(f)
    BY <2>2, <2>5, <2>6, <2>7, <2>8 DEF Longest
  <2>10. QED
    BY <2>5, <2>9 DEF f
<1>7. QED
  BY <1>5, <1>6

\* As long as it meets no NUL, yy_match goes along the walk.
LEMMA RunWalk ==
  ASSUME NEW l \in Lexers, Midway(l), NEW z \in l.cp .. Len(l.buf), \A j \in l.cp .. z - 1 : CharAt(l, j) # 0
  PROVE  \A i \in l.cp .. z : StatesFrom(l, 0)[i] = Walk(Unread(l))[i - l.text]
<1> DEFINE a == l.cp
           n == z - a
           u == Unread(l)
           st == StatesFrom(l, 0)
           T == {j \in 0 .. n : st[a + j] = Walk(u)[(a + j) - l.text]}
<1>1. /\ a \in Nat /\ n \in Nat /\ Len(l.buf) \in Nat /\ a + n = z /\ l.buf \in Seq(Chars) /\ l.text \in Nat
      /\ l.text <= a /\ z <= Len(l.buf) /\ l.state \in States
  BY DEF Lexers, Midway
<1>2. Ready(l)
  BY <1>1 DEF Ready
<1>3. \A j \in a .. (a + n) - 1 : CharAt(l, j) # 0
  BY <1>1
<1>4. Walk(u)[a - l.text] = l.state
  BY DEF Midway
<1> HIDE DEF a, n, u, st
<1>5. st[a] = l.state /\ \A i \in a + 1 .. Len(l.buf) + 2 : st[i] = NextState(st[i - 1], ClassAt(l, i - 1, 0))
  BY <1>2, StatesFromFacts DEF st, a
<1>6. u \in Seq(Chars) /\ Len(l.buf) - l.text <= Len(u) /\ \A i \in l.text .. Len(l.buf) - 1 : u[i - l.text + 1] = CharAt(l, i)
  <2>1. Len(l.rest) \in Nat /\ l.text <= Len(l.buf)
    BY <1>1 DEF Lexers
  <2>2. QED
    BY <1>1, <2>1, UnreadFacts, SMTT(40) DEF u
<1>7. 0 \in T
  BY <1>1, <1>4, <1>5
<1>8. ASSUME NEW j \in 1 .. n, j - 1 \in T PROVE j \in T
  <2> DEFINE i == (a + j) - 1
             k == (a + j) - l.text
  <2>0. Len(u) \in Nat /\ Len(l.buf) - l.text <= Len(u) /\ a + n <= Len(l.buf) /\ j \in Nat /\ 1 <= j /\ j <= n
    BY <1>1, <1>6
  <2>1. /\ i \in Nat /\ i \in l.text .. Len(l.buf) - 1 /\ i \in a .. (a + n) - 1
        /\ a + j \in a + 1 .. Len(l.buf) + 2
        /\ i = a + (j - 1) /\ i - l.text + 1 = k /\ k \in 1 .. Len(u) /\ (a + (j - 1)) - l.text = k - 1
    BY <1>1, <2>0, SMTT(40)
  <2>2. st[a + j] = NextState(st[i], ClassAt(l, i, 0))
    BY <1>5, <2>1
  <2> HIDE DEF i
  <2>3. ClassAt(l, i, 0) = ClassOf(u[k])
    <3>1. CharAt(l, i) # 0
      BY <1>3, <2>1
    <3>2. ClassAt(l, i, 0) = ClassOf(CharAt(l, i))
      BY <1>1, <2>1, <3>1, ClassAtFacts
    <3>3. QED
      BY <1>6, <2>1, <3>2
  <2>4. Walk(u)[k] = NextState(Walk(u)[k - 1], ClassOf(u[k]))
    BY <1>6, <2>1, WalkFacts
  <2>5. st[i] = Walk(u)[k - 1]
    BY <1>8, <2>1
  <2>6. QED
    BY <2>2, <2>3, <2>4, <2>5
<1> HIDE DEF T
<1>9. \A j \in 0 .. n : j \in T
  <2>1. n \in Nat
    BY <1>1
  <2>2. QED
    BY <1>7, <1>8, <2>1, UpToInduction
<1>10. ASSUME NEW i \in l.cp .. z PROVE st[i] = Walk(u)[i - l.text]
  <2>1. i - a \in 0 .. n /\ a + (i - a) = i
    BY <1>1 DEF a
  <2>2. QED
    BY <1>9, <2>1 DEF T
<1>11. QED
  BY <1>10 DEF st, u

\* yy_match and yy_find_action end at the longest match, or at a NUL.
LEMMA RunFacts ==
  ASSUME NEW l \in Lexers, Midway(l), l.state # 37
  PROVE  LET f == Found(Run(l)) IN f \in Lexers /\ SameBuffer(f, l) /\ (Longest(f) \/ AtNul(f))
<1> DEFINE u == Unread(l)
           st == StatesFrom(l, 0)
           b == Len(l.buf) + 2
           stops == {i \in l.cp + 1 .. b : yy_base[st[i] + 1] = 84}
           e == Min(stops)
           m == Run(l)
           f == Found(m)
           zeros == {j \in l.cp .. Len(l.buf) : CharAt(l, j) = 0}
<1>1. /\ l.cp \in Nat /\ l.text \in Nat /\ Len(l.buf) \in Nat /\ l.buf \in Seq(Chars) /\ l.state \in States
      /\ l.text <= l.cp /\ l.cp <= Len(l.buf) /\ b \in Nat /\ Len(l.rest) \in Nat
  BY DEF Lexers, Midway
<1>2. m = Moved(l, st, e)
  BY DEF Run
<1>3. u \in Seq(Chars) /\ Len(u) = (Len(l.buf) - l.text) + Len(l.rest)
  BY <1>1, UnreadFacts
<1>4. Ready(l)
  BY <1>1 DEF Ready
<1>5. PICK z \in l.cp .. Len(l.buf) : CharAt(l, z) = 0 /\ \A j \in l.cp .. z - 1 : CharAt(l, j) # 0
  <2>1. CharAt(l, Len(l.buf)) = 0
    BY <1>1, CharAtFacts
  <2>2. zeros \in SUBSET Nat /\ Len(l.buf) \in zeros
    BY <1>1, <2>1
  <2>3. Min(zeros) \in zeros /\ \A y \in zeros : Min(zeros) <= y
    <3> HIDE DEF zeros
    <3>1. QED
      BY <2>2, MinIsLeast
  <2> DEFINE z == Min(zeros)
  <2>4. z \in l.cp .. Len(l.buf) /\ CharAt(l, z) = 0
    BY <2>3
  <2>5. ASSUME NEW j \in l.cp .. z - 1 PROVE CharAt(l, j) # 0
    <3>1. j \in l.cp .. Len(l.buf) /\ ~(z <= j)
      BY <1>1, <2>4
    <3>2. QED
      BY <2>3, <3>1
  <2> HIDE DEF z
  <2>6. QED
    BY <2>4, <2>5
<1>6. z \in Nat /\ l.cp <= z /\ z <= Len(l.buf)
  BY <1>1, <1>5
<1>7. \A i \in l.cp .. z : st[i] = Walk(u)[i - l.text]
  BY <1>5, RunWalk
<1> HIDE DEF u, st, b, stops, e, m, f, zeros
<1>8. /\ st \in [l.cp .. b -> States]
      /\ \A i \in l.cp + 1 .. b : st[i] = NextState(st[i - 1], ClassAt(l, i - 1, 0))
  BY <1>4, StatesFromFacts DEF st, b
<1>9. \A k \in 0 .. Len(u) : Walk(u)[k] \in States \ {3}
  BY <1>3, WalkStates
<1>10. st[z] \in States /\ st[z] # 3
  <2>1. z - l.text \in 0 .. Len(u) /\ z \in l.cp .. z
    BY <1>1, <1>3, <1>6, SMTT(30)
  <2>2. QED
    BY <1>7, <1>9, <2>1
<1>11. st[z + 1] = 3
  <2>1. z + 1 \in l.cp + 1 .. b /\ (z + 1) - 1 = z
    BY <1>1, <1>6 DEF b
  <2>2. ClassAt(l, z, 0) = 0
    BY <1>5 DEF ClassAt
  <2>3. st[z + 1] = NextState(st[z], 0)
    BY <1>8, <2>1, <2>2
  <2> DEFINE s == st[z]
  <2> HIDE DEF s
  <2>4. NextState(s, 0) = 3
    BY <1>10, NextStates DEF s
  <2>5. QED
    BY <2>3, <2>4 DEF s
<1>12. st[z + 2] = 37
  <2>1. z + 2 \in l.cp + 1 .. b /\ (z + 2) - 1 = z + 1 /\ z + 1 \in Nat
    BY <1>1, <1>6 DEF b
  <2>2. ClassAt(l, z + 1, 0) \in 0 .. 34
    BY <1>1, <2>1, ClassAtFacts
  <2>3. st[z + 2] = NextState(3, ClassAt(l, z + 1, 0))
    BY <1>8, <1>11, <2>1
  <2>4. QED
    BY <2>2, <2>3, NulRow
<1>13. /\ \A i \in l.cp + 1 .. b : i \in stops <=> st[i] \in Stops
       /\ stops \in SUBSET Nat
  <2>1. ASSUME NEW i \in l.cp + 1 .. b PROVE st[i] \in States
    <3>1. i \in l.cp .. b
      BY <1>1
    <3>2. QED
      BY <1>8, <3>1
  <2>2. stops \in SUBSET Nat
    BY <1>1 DEF stops
  <2>3. ASSUME NEW i \in l.cp + 1 .. b PROVE i \in stops <=> st[i] \in Stops
    <3>1. st[i] \in States
      BY <2>1
    <3>2. yy_base[st[i] + 1] = 84 <=> st[i] \in Stops
      BY <3>1, Accepting
    <3>3. QED
      BY <3>2 DEF stops
  <2>4. QED
    BY <2>2, <2>3
<1>14. z + 2 \in stops /\ z + 1 \notin stops
  <2>1. z + 2 \in l.cp + 1 .. b /\ z + 1 \in l.cp + 1 .. b
    BY <1>1, <1>6 DEF b
  <2>2. QED
    BY <1>11, <1>12, <1>13, <2>1 DEF Stops
<1>15. e \in stops /\ \A y \in stops : e <= y
  BY <1>13, <1>14, MinIsLeast DEF e
<1>16. e \in l.cp + 1 .. b /\ e <= z + 2 /\ e # z + 1 /\ e \in Nat /\ e \in l.cp .. b
  <2>1. e \in l.cp + 1 .. b
    BY <1>15 DEF stops
  <2>2. QED
    BY <1>1, <1>14, <1>15, <2>1
<1> DEFINE A == AcceptedIn(st, l.cp, e)
<1>17. /\ m \in Lexers /\ SameBuffer(m, l) /\ m.state = st[e] /\ m.cp = e
       /\ A = {} => m.lastPos = l.lastPos /\ m.lastState = l.lastState
       /\ A # {} => m.lastPos \in A /\ m.lastState = st[m.lastPos] /\ \A i \in A : i <= m.lastPos
  BY <1>1, <1>2, <1>8, <1>16, MovedFacts, ZenonT(40)
<1>18. Unread(m) = u /\ m.text = l.text /\ m.buf = l.buf
  BY <1>17, SameUnread DEF u, SameBuffer
<1>19. CASE e <= z
  <2>1. /\ st[e] = Walk(u)[e - l.text] /\ st[e] \in Stops /\ e - l.text \in 1 .. Len(l.buf) - l.text
        /\ e - l.text \in 0 .. Len(u)
    <3>1. e \in l.cp .. z /\ e - l.text \in 1 .. Len(l.buf) - l.text /\ e - l.text \in 0 .. Len(u)
      BY <1>1, <1>3, <1>6, <1>16, <1>19, SMTT(40)
    <3>2. QED
      BY <1>7, <1>13, <1>15, <1>16, <3>1
  <2>2. \A k \in (e - l.text) + 1 .. Len(u) : ~Accepts(u, k)
    BY <1>3, <2>1, WalkDies
  <2>3. Remembers(m)
    <3> DEFINE c == e - l.text
               d == l.cp - l.text
    <3>1. SUFFICES ASSUME c > 1
                   PROVE  \E k \in 1 .. c - 1 : /\ m.lastPos = l.text + k /\ m.lastState = Walk(u)[k] /\ Accepts(u, k)
                                                /\ \A j \in k + 1 .. c - 1 : ~Accepts(u, j)
      BY <1>17, <1>18 DEF Remembers
    <3>2. ASSUME NEW j \in d .. c - 1 PROVE l.text + j \in A <=> Accepts(u, j)
      <4>1. l.text + j \in l.cp .. e - 1 /\ l.text + j \in l.cp .. z /\ (l.text + j) - l.text = j
        BY <1>1, <1>6, <1>16, <1>19, SMTT(30)
      <4>2. st[l.text + j] = Walk(u)[j]
        BY <1>7, <4>1
      <4>3. QED
        BY <4>1, <4>2 DEF Accepts, AcceptedIn
    <3>3. A \subseteq l.cp .. e - 1
      BY DEF AcceptedIn
    <3>4. d \in Nat /\ c \in Nat /\ d < c
      BY <1>1, <1>16
    <3>5. Accepts(u, 1) /\ ~Accepts(u, 0)
      <4>1. Len(u) > 0
        BY <1>3, <2>1, <3>1
      <4>2. QED
        BY <1>3, <4>1, WalkStarts
    <3> HIDE DEF A
    <3>6. CASE A # {}
      <4> DEFINE k == m.lastPos - l.text
      <4>1. m.lastPos \in A /\ m.lastState = st[m.lastPos] /\ \A i \in A : i <= m.lastPos
        BY <1>17, <3>6
      <4>2. m.lastPos \in l.cp .. e - 1
        BY <3>3, <4>1
      <4>3. k \in d .. c - 1 /\ m.lastPos = l.text + k /\ k \in Nat
        BY <1>1, <1>16, <4>2, SMTT(40)
      <4>4. Accepts(u, k)
        BY <3>2, <4>1, <4>3
      <4>5. k \in 1 .. c - 1
        <5>1. k # 0
          BY <3>5, <4>4
        <5>2. QED
          BY <3>4, <4>3, <5>1
      <4>6. m.lastState = Walk(u)[k]
        <5>1. m.lastPos \in l.cp .. z
          BY <1>1, <1>6, <1>16, <1>19, <4>2
        <5>2. QED
          BY <1>7, <4>1, <5>1
      <4>7. ASSUME NEW j \in k + 1 .. c - 1 PROVE ~Accepts(u, j)
        <5>1. j \in d .. c - 1 /\ ~(l.text + j <= m.lastPos)
          BY <1>1, <3>4, <4>3, SMTT(30)
        <5>2. QED
          BY <3>2, <4>1, <5>1
      <4> HIDE DEF k, c
      <4>8. QED
        BY <4>3, <4>4, <4>5, <4>6, <4>7
    <3>7. CASE A = {}
      <4>1. d > 1
        <5>1. ASSUME ~(d > 1) PROVE FALSE
          <6>1. 1 \in d .. c - 1
            BY <3>1, <3>4, <5>1
          <6>2. QED
            BY <3>2, <3>5, <3>7, <6>1
        <5>2. QED
          BY <5>1
      <4>2. PICK k \in 1 .. d - 1 : /\ l.lastPos = l.text + k /\ l.lastState = Walk(u)[k] /\ Accepts(u, k)
                                    /\ \A j \in k + 1 .. d - 1 : ~Accepts(u, j)
        BY <4>1 DEF Midway, Remembers, u
      <4>3. k \in 1 .. c - 1
        BY <3>4
      <4>4. ASSUME NEW j \in k + 1 .. c - 1 PROVE ~Accepts(u, j)
        <5>1. j \in k + 1 .. d - 1 \/ j \in d .. c - 1
          BY <3>4
        <5>2. QED
          BY <3>2, <3>7, <4>2, <5>1
      <4>5. QED
        BY <1>17, <3>7, <4>2, <4>3, <4>4
    <3>8. QED
      BY <3>6, <3>7
  <2>4. m.cp = e /\ m.text = l.text /\ m.buf = l.buf /\ m.state = Walk(u)[e - l.text] /\ e > l.text /\ e <= Len(l.buf)
    BY <1>1, <1>6, <1>16, <1>17, <1>18, <1>19, <2>1
  <2>5. Midway(m)
    BY <1>1, <1>16, <1>18, <2>3, <2>4 DEF Midway
  <2>6. f \in Lexers /\ SameBuffer(f, m) /\ Longest(f)
    BY <1>17, <1>18, <2>2, <2>4, <2>5, FoundLongest DEF f
  <2>7. SameBuffer(f, l)
    BY <1>17, <2>6 DEF SameBuffer
  <2>8. QED
    BY <2>6, <2>7 DEF f, m
<1>20. CASE e > z
  <2>1. e = z + 2
    BY <1>6, <1>16, <1>20
  <2>2. yy_accept[37 + 1] = 0 /\ yy_accept[3 + 1] = 12
    BY DEF yy_accept
  <2>3. z + 1 \in A /\ \A i \in A : i <= z + 1
    <3>1. z + 1 \in l.cp .. e - 1 /\ \A i \in l.cp .. e - 1 : i <= z + 1
      BY <1>1, <1>6, <2>1
    <3>2. QED
      BY <1>11, <2>2, <3>1 DEF AcceptedIn
  <2>4. A \subseteq Nat
    BY <1>1 DEF AcceptedIn
  <2> HIDE DEF A
  <2>5. m.lastPos = z + 1 /\ m.lastState = 3
    <3>1. m.lastPos \in A /\ m.lastState = st[m.lastPos] /\ z + 1 <= m.lastPos /\ m.lastPos <= z + 1
      BY <1>17, <2>3
    <3>2. m.lastPos \in Nat
      BY <2>4, <3>1
    <3>3. m.lastPos = z + 1
      BY <1>6, <3>1, <3>2
    <3>4. QED
      BY <1>11, <3>1, <3>3
  <2>6. m.state = 37
    BY <1>12, <1>17, <2>1
  <2>7. f = [m EXCEPT !.state = m.lastState, !.cp = m.lastPos]
    BY <2>2, <2>6 DEF Found, f
  <2>8. 3 \in States /\ z + 1 \in Nat
    BY <1>6 DEF States
  <2>9. f \in Lexers /\ SameBuffer(f, m) /\ f.state = 3 /\ f.cp = z + 1
    BY <1>17, <2>5, <2>7, <2>8 DEF Lexers, SameBuffer
  <2>10. SameBuffer(f, l)
    BY <1>17, <2>9 DEF SameBuffer
  <2>11. AtNul(f)
    <3>1. f.text = l.text /\ f.buf = l.buf /\ Unread(f) = u /\ f.state = 3 /\ f.cp = z + 1
      BY <2>9, <2>10, SameUnread DEF SameBuffer, u
    <3>2. Walk(u)[z - l.text] # 37
      <4>1. z \in l.cp .. z /\ st[z] = Walk(u)[z - l.text]
        BY <1>1, <1>6, <1>7
      <4>2. CASE z = l.cp
        <5>1. st[l.cp] = l.state
          BY <1>4, StatesFromFacts DEF st
        <5>2. QED
          BY <4>1, <4>2, <5>1
      <4>3. CASE z # l.cp
        <5>1. z \in l.cp + 1 .. b /\ z \notin stops
          <6>1. z \in l.cp + 1 .. b
            BY <1>1, <1>6, <4>3 DEF b
          <6>2. ~(e <= z)
            BY <1>6, <1>16, <1>20
          <6>3. QED
            BY <1>15, <6>1, <6>2
        <5>2. st[z] \notin Stops
          BY <1>13, <5>1
        <5>3. QED
          BY <4>1, <5>2 DEF Stops
      <4>4. QED
        BY <4>2, <4>3
    <3>3. f.text < f.cp /\ f.cp <= Len(f.buf) + 1 /\ (f.cp - f.text) - 1 = z - l.text
      BY <1>1, <1>6, <3>1
    <3>4. QED
      BY <3>1, <3>2, <3>3 DEF AtNul
  <2>12. QED
    BY <2>9, <2>10, <2>11 DEF f, m
<1>21. QED
  BY <1>6, <1>16, <1>19, <1>20

-----------------------------------------------------------------------------
(* The buffer.                                                             *)

\* The buffer is doubled until there is room for one more character.
LEMMA GrownFacts ==
  ASSUME NEW size \in Nat, size >= 1, NEW moved \in Nat
  PROVE  Grown(size, moved) \in Nat /\ Grown(size, moved) > moved + 1
<1> DEFINE n == moved + 1
           step(v) == IF v - moved - 1 > 0 THEN v ELSE v * 2
           E(d) == [i \in 0 .. n |-> IF i = 0 THEN size ELSE IF d[i - 1] - moved - 1 > 0 THEN d[i - 1] ELSE d[i - 1] * 2]
           g == [i \in 1 .. n |-> [v \in Nat |-> step(v)]]
           F == CHOOSE d : d = E(d)
<1>1. n \in Nat
  OBVIOUS
<1>2. g \in [1 .. n -> [Nat -> Nat]]
  OBVIOUS
<1>3. Grown(size, moved) = F[n]
  BY DEF Grown
<1> HIDE DEF n
<1>4. PICK f \in [0 .. n -> Nat] : f[0] = size /\ \A i \in 1 .. n : f[i] = g[i][f[i - 1]]
  <2> DEFINE N == Nat
             v == size
  <2>1. v \in N /\ g \in [1 .. n -> [N -> N]]
    BY <1>2
  <2> HIDE DEF g, N, v
  <2>2. \E f \in [0 .. n -> N] : f[0] = v /\ \A i \in 1 .. n : f[i] = g[i][f[i - 1]]
    BY <1>1, <2>1, RecursionUpTo
  <2>3. QED
    BY <2>2 DEF N, v
<1>5. ASSUME NEW i \in 1 .. n PROVE f[i] = step(f[i - 1])
  <2>1. i - 1 \in 0 .. n
    BY <1>1
  <2>2. f[i - 1] \in Nat
    BY <2>1
  <2>3. QED
    BY <1>4, <2>2
<1>6. f = E(f)
  BY <1>4, <1>5
<1> HIDE DEF E, F
<1>7. F = E(F)
  BY <1>6 DEF F
<1>8. F = [i \in 0 .. n |-> IF i = 0 THEN size ELSE IF F[i - 1] - moved - 1 > 0 THEN F[i - 1] ELSE F[i - 1] * 2]
  BY <1>7 DEF E
<1>9. F[0] = size /\ \A i \in 1 .. n : F[i] = step(F[i - 1])
  BY <1>1, <1>8, SMTT(40)
<1> DEFINE T == {i \in 0 .. n : F[i] \in Nat /\ F[i] >= 1 /\ (F[i] > moved + 1 \/ F[i] >= i + 1)}
<1>10. 0 \in T
  BY <1>1, <1>9
<1>11. ASSUME NEW i \in 1 .. n, i - 1 \in T PROVE i \in T
  <2>1. F[i - 1] \in Nat /\ F[i - 1] >= 1 /\ (F[i - 1] > moved + 1 \/ F[i - 1] >= i)
    BY <1>1, <1>11
  <2>2. F[i] = step(F[i - 1])
    BY <1>9
  <2> DEFINE v == F[i - 1]
             w == F[i]
  <2>3. w = IF v - moved - 1 > 0 THEN v ELSE v * 2
    BY <2>2
  <2> HIDE DEF v, w
  <2>4. v \in Nat /\ v >= 1 /\ (v > moved + 1 \/ v >= i)
    BY <2>1 DEF v
  <2>5. w \in Nat /\ w >= 1 /\ (w > moved + 1 \/ w >= i + 1)
    BY <2>3, <2>4, <1>1
  <2>6. QED
    BY <2>5 DEF w
<1> HIDE DEF T
<1>12. \A i \in 0 .. n : i \in T
  BY <1>1, <1>10, <1>11, UpToInduction
<1>13. n \in T
  BY <1>1, <1>12
<1>14. QED
  BY <1>3, <1>13 DEF T, n

\* yy_get_next_buffer at the end of the buffer: nothing is lost, there is room,
\* and it finds nothing to read only at the end of the file.
LEMMA NextBufferFacts ==
  ASSUME NEW l \in Lexers, l.size >= 1, Len(l.buf) <= l.size, l.text <= Len(l.buf), l.cp = Len(l.buf) + 1,
         l.status = "eof_pending" => l.rest = <<>>
  PROVE  LET m == NextBuffer(l)
         IN  /\ m \in Lexers /\ m.pc = l.pc /\ m.init = l.init /\ m.cp = l.cp /\ m.text = 0 /\ m.size >= 1
             /\ Unread(m) = Unread(l)
             /\ Len(m.buf) <= m.size /\ Len(l.buf) - l.text <= Len(m.buf)
             /\ m.status # "normal" => m.rest = <<>> /\ Len(m.buf) = Len(l.buf) - l.text
             /\ m.status = "eof_pending" => Len(m.buf) > 0
             /\ m.status = "new" => Len(m.buf) = 0
<1> DEFINE moved == l.cp - l.text - 1
           size  == IF l.status = "eof_pending" THEN l.size ELSE Grown(l.size, moved)
           read  == IF l.status = "eof_pending" THEN 0
                    ELSE Min({size - moved - 1, ReadSize, Len(l.rest)})
           a == SubSeq(l.buf, l.text + 1, l.text + moved)
           b == SubSeq(l.rest, 1, read)
           c == SubSeq(l.rest, read + 1, Len(l.rest))
           status == IF read = 0 /\ moved > 0 THEN "eof_pending" ELSE IF read = 0 THEN "new" ELSE "normal"
           m == NextBuffer(l)
<1>1. /\ l.text \in Nat /\ Len(l.buf) \in Nat /\ l.size \in Nat /\ l.buf \in Seq(Chars) /\ l.rest \in Seq(Chars)
      /\ Len(l.rest) \in Nat /\ ReadSize \in Nat /\ ReadSize >= 1 /\ l.cp \in Nat
      /\ l.status \in {"new", "normal", "eof_pending"}
  BY ScannerAssumption DEF Lexers
<1>2. moved = Len(l.buf) - l.text /\ moved \in Nat /\ l.text + moved = Len(l.buf)
  BY <1>1
<1>3. m = [l EXCEPT !.size = size, !.text = 0, !.buf = a \o b, !.rest = c, !.status = status]
  BY DEF NextBuffer
<1> HIDE DEF moved
<1>4. size \in Nat /\ size >= 1 /\ (l.status # "eof_pending" => size - moved - 1 \in Nat /\ size - moved - 1 >= 1)
  <2>1. CASE l.status = "eof_pending"
    BY <1>1, <2>1
  <2>2. CASE l.status # "eof_pending"
    <3>1. Grown(l.size, moved) \in Nat /\ Grown(l.size, moved) > moved + 1
      BY <1>1, <1>2, GrownFacts
    <3>2. QED
      BY <1>2, <2>2, <3>1
  <2>3. QED
    BY <2>1, <2>2
<1> HIDE DEF size
<1>5. /\ read \in Nat /\ read <= Len(l.rest) /\ moved + read <= size
      /\ read = 0 => Len(l.rest) = 0
  <2>1. CASE l.status = "eof_pending"
    <3>1. read = 0 /\ size = l.size /\ Len(l.rest) = 0
      BY <2>1 DEF size
    <3>2. QED
      BY <1>1, <1>2, <3>1
  <2>2. CASE l.status # "eof_pending"
    <3> DEFINE x == size - moved - 1
               z == Len(l.rest)
               M == {x, ReadSize, z}
    <3>1. M \in SUBSET Nat /\ M # {} /\ read = Min(M) /\ x >= 1 /\ z \in Nat
      BY <1>1, <1>4, <2>2
    <3>2. Min(M) \in M /\ \A y \in M : Min(M) <= y
      <4> HIDE DEF M
      <4>1. QED
        BY <3>1, MinIsLeast
    <3>3. read \in {x, ReadSize, z} /\ read <= x /\ read <= z
      BY <3>1, <3>2
    <3> HIDE DEF read
    <3>4. QED
      BY <1>1, <1>2, <1>4, <2>2, <3>1, <3>3, SMTT(40)
  <2>3. QED
    BY <2>1, <2>2
<1> HIDE DEF read
<1>6. a \in Seq(Chars) /\ Len(a) = moved /\ a = SubSeq(l.buf, l.text + 1, Len(l.buf))
  <2>1. l.text \in 0 .. Len(l.buf)
    BY <1>1
  <2> DEFINE d == SubSeq(l.buf, l.text + 1, Len(l.buf))
  <2>2. d \in Seq(Chars) /\ Len(d) = Len(l.buf) - l.text
    BY <1>1, <2>1, SplitSeq, Zenon
  <2>3. a = d
    BY <1>2
  <2> HIDE DEF d, a
  <2>4. QED
    BY <1>2, <2>2, <2>3 DEF d
<1>7. b \in Seq(Chars) /\ Len(b) = read /\ c \in Seq(Chars) /\ Len(c) = Len(l.rest) - read /\ b \o c = l.rest
  <2>1. read \in 0 .. Len(l.rest)
    BY <1>1, <1>5
  <2>2. QED
    BY <1>1, <2>1, SplitSeq, ZenonT(40)
<1>8. Unread(l) = a \o l.rest
  BY <1>6 DEF Unread
<1> HIDE DEF a, b, c, m
<1> DEFINE ab == a \o b
<1>9. ab \in Seq(Chars) /\ Len(ab) = moved + read
  BY <1>6, <1>7, ConcatFacts
<1>10. status \in {"new", "normal", "eof_pending"}
  OBVIOUS
<1>11. ab \o c = Unread(l)
  <2>1. a \in Seq(Chars) /\ b \in Seq(Chars) /\ c \in Seq(Chars)
    BY <1>6, <1>7
  <2>2. (a \o b) \o c = a \o (b \o c)
    BY <2>1, ConcatAssoc, SMTT(40)
  <2>3. QED
    BY <1>7, <1>8, <2>2
<1> HIDE DEF ab, status
<1>12. m = [l EXCEPT !.size = size, !.text = 0, !.buf = ab, !.rest = c, !.status = status]
  BY <1>3 DEF ab
<1>13. /\ m \in Lexers /\ m.pc = l.pc /\ m.init = l.init /\ m.cp = l.cp /\ m.text = 0 /\ m.size = size
       /\ m.buf = ab /\ m.rest = c /\ m.status = status
  BY <1>4, <1>7, <1>9, <1>10, <1>12 DEF Lexers
<1>14. Unread(m) = Unread(l)
  <2>1. SubSeq(ab, 1, Len(ab)) = ab
    BY <1>9, WholeSeq
  <2>2. m.text + 1 = 1
    BY <1>13
  <2>4. Unread(m) = SubSeq(ab, 1, Len(ab)) \o c
    BY <1>13, <2>2, Zenon DEF Unread
  <2>3. QED
    BY <1>11, <2>1, <2>4
<1>15. status # "normal" => read = 0 /\ c = <<>>
  <2>1. ASSUME status # "normal" PROVE read = 0 /\ c = <<>>
    <3>1. read = 0
      BY <2>1 DEF status
    <3>2. Len(c) = 0
      BY <1>5, <1>7, <3>1
    <3>3. QED
      BY <1>7, <3>1, <3>2
  <2>2. QED
    BY <2>1
<1>16. (status = "eof_pending" => moved > 0) /\ (status = "new" => moved = 0)
  BY <1>2 DEF status
<1>17. QED
  BY <1>2, <1>4, <1>5, <1>9, <1>13, <1>14, <1>15, <1>16 DEF m

-----------------------------------------------------------------------------
(* The scanner between two steps.                                          *)

\* u is the end of v.
TailOf(u, v) == \E p \in 0 .. Len(v) : u = SubSeq(v, p + 1, Len(v))

\* The buffer is in its allocation, and after the end of the file nothing is left.
Sound(l) ==
  /\ l \in Lexers /\ l.size >= 1 /\ Len(l.buf) <= l.size
  /\ l.status = "eof_pending" => l.rest = <<>>

\* The scanner between two steps.
Scanning(l) ==
  /\ Sound(l) /\ l.text <= l.cp
  /\ l.pc = "idle" => l.cp <= Len(l.buf) /\ (l.text = l.cp \/ Action(l) \in 1 .. 10)
  /\ l.pc = "match" => Midway(l) /\ l.state # 37
  /\ l.pc \in {"act", "fatal"} => Longest(l) \/ AtNul(l)
  /\ l.pc = "act" => l.cp - l.text < YYLMAX
  /\ l.pc = "fatal" => l.cp - l.text >= YYLMAX
  /\ ~l.init => l.pc = "idle" /\ l.buf = <<>> /\ l.text = 0 /\ l.cp = 0

\* A step leaves what is unread as it is, or takes the text of an action off it.
Advances(l, m) ==
  \/ Unread(m) = Unread(l)
  \/ /\ l.pc \in {"act", "idle"} /\ Action(l) \in 1 .. 10 /\ l.cp <= Len(l.buf)
     /\ Unread(m) = SubSeq(Unread(l), (l.cp - l.text) + 1, Len(Unread(l)))

\* Taking off the start of a list, of the end of a list, and of two lists.
LEMMA DropDropped ==
  ASSUME NEW S, NEW v \in Seq(S), NEW p \in 0 .. Len(v), NEW r \in 0 .. Len(v) - p
  PROVE  LET u == SubSeq(v, p + 1, Len(v)) IN SubSeq(u, r + 1, Len(u)) = SubSeq(v, (p + r) + 1, Len(v))
<1> DEFINE u == SubSeq(v, p + 1, Len(v))
           q == p + r
           a == SubSeq(u, r + 1, Len(u))
           b == SubSeq(v, q + 1, Len(v))
<1>1. u \in Seq(S) /\ Len(u) = Len(v) - p /\ \A i \in 1 .. Len(v) - p : u[i] = v[p + i]
  BY SplitSeq
<1> HIDE DEF u
<1>2. Len(v) \in Nat /\ Len(u) \in Nat /\ p \in Nat /\ r \in Nat /\ r <= Len(u) /\ r \in 0 .. Len(u)
  BY <1>1
<1>3. q \in 0 .. Len(v) /\ Len(v) - q = Len(u) - r
  BY <1>1, <1>2
<1>4. a \in Seq(S) /\ Len(a) = Len(u) - r /\ \A i \in 1 .. Len(u) - r : a[i] = u[r + i]
  BY <1>1, <1>2, SplitSeq
<1> HIDE DEF q
<1>5. b \in Seq(S) /\ Len(b) = Len(v) - q /\ \A i \in 1 .. Len(v) - q : b[i] = v[q + i]
  BY <1>3, SplitSeq
<1> HIDE DEF a, b
<1>6. ASSUME NEW i \in 1 .. Len(a) PROVE a[i] = b[i]
  <2>1. i \in 1 .. Len(u) - r /\ r + i \in 1 .. Len(v) - p /\ q + i = p + (r + i)
    BY <1>1, <1>2, <1>4 DEF q
  <2>2. QED
    BY <1>1, <1>3, <1>4, <1>5, <2>1
<1>7. a = b
  BY <1>3, <1>4, <1>5, <1>6, SameSequence
<1>8. QED
  BY <1>7 DEF a, b, q, u

\* The end of an end is an end.
LEMMA TailOfTail ==
  ASSUME NEW S, NEW v \in Seq(S), NEW u, TailOf(u, v), NEW r \in 0 .. Len(u)
  PROVE  TailOf(SubSeq(u, r + 1, Len(u)), v)
<1>1. PICK p \in 0 .. Len(v) : u = SubSeq(v, p + 1, Len(v))
  BY DEF TailOf
<1>2. Len(u) = Len(v) - p
  BY <1>1, SplitSeq
<1>3. r \in 0 .. Len(v) - p /\ p + r \in 0 .. Len(v)
  BY <1>2
<1>4. SubSeq(u, r + 1, Len(u)) = SubSeq(v, (p + r) + 1, Len(v))
  BY <1>1, <1>3, DropDropped
<1>5. QED
  BY <1>3, <1>4 DEF TailOf

\* An end of a sequence is known by its length.
LEMMA TailIs ==
  ASSUME NEW S, NEW v \in Seq(S), NEW u, TailOf(u, v)
  PROVE  /\ u \in Seq(S) /\ Len(u) \in 0 .. Len(v) /\ u = SubSeq(v, (Len(v) - Len(u)) + 1, Len(v))
<1>1. PICK p \in 0 .. Len(v) : u = SubSeq(v, p + 1, Len(v))
  BY DEF TailOf
<1>2. u \in Seq(S) /\ Len(u) = Len(v) - p
  BY <1>1, SplitSeq
<1>3. Len(v) \in Nat /\ p \in Nat /\ p <= Len(v)
  OBVIOUS
<1>4. Len(v) - Len(u) = p /\ Len(u) \in 0 .. Len(v)
  BY <1>2, <1>3
<1>5. QED
  BY <1>1, <1>2, <1>4

\* The longest match is not empty and has an action; a NUL has the action 12.
LEMMA EndFacts ==
  ASSUME NEW l \in Lexers
  PROVE  /\ Longest(l) => l.text < l.cp /\ l.cp <= Len(l.buf) /\ Action(l) \in 1 .. 10
         /\ AtNul(l) => Action(l) = 12
<1>1. l.text \in Nat /\ l.cp \in Nat /\ Len(l.buf) \in Nat /\ Len(l.rest) \in Nat /\ l.state \in States
  BY DEF Lexers
<1>2. ASSUME Longest(l) PROVE l.text < l.cp /\ l.cp <= Len(l.buf) /\ Action(l) \in 1 .. 10
  <2> DEFINE u == Unread(l)
             n == l.cp - l.text
  <2>1. n \in 1 .. Len(l.buf) - l.text /\ l.state = Walk(u)[n] /\ Accepts(u, n)
    BY <1>2 DEF Longest
  <2>2. l.text < l.cp /\ l.cp <= Len(l.buf)
    BY <1>1, <2>1
  <2>3. u \in Seq(Chars) /\ Len(u) = (Len(l.buf) - l.text) + Len(l.rest)
    BY <1>1, <2>2, UnreadFacts
  <2> DEFINE h == Len(l.buf) - l.text
             r == Len(l.rest)
             w == Len(u)
  <2>3a. h \in Int /\ r \in Nat /\ n \in 1 .. h /\ w = h + r
    BY <1>1, <2>1, <2>3
  <2> HIDE DEF h, r, n, w
  <2>3b. n \in 0 .. w
    BY <2>3a
  <2>4. n \in 0 .. Len(u)
    BY <2>3b DEF w
  <2> USE DEF n
  <2>5. l.state # 3
    BY <2>1, <2>3, <2>4, WalkStates
  <2>6. yy_accept[l.state + 1] # 0
    BY <2>1 DEF Accepts
  <2>7. Action(l) \in 0 .. 10
    BY <1>1, <2>5, Accepting DEF Action
  <2>8. QED
    BY <2>2, <2>6, <2>7 DEF Action
<1>3. ASSUME AtNul(l) PROVE Action(l) = 12
  BY <1>3, Accepting DEF AtNul, Action, States
<1>4. QED
  BY <1>2, <1>3

\* The scanner when a text was found: it acts, or the text is too long.
LEMMA ActingFacts ==
  ASSUME NEW l, Sound(l), l.init, NEW f \in Lexers, SameBuffer(f, l), Longest(f) \/ AtNul(f)
  PROVE  Scanning(Acting(f)) /\ Unread(Acting(f)) = Unread(l) /\ Acting(f).pc \in {"act", "fatal"}
<1> DEFINE m == Acting(f)
           pc == IF f.cp - f.text >= YYLMAX THEN "fatal" ELSE "act"
<1>1. m = [f EXCEPT !.pc = pc] /\ pc \in {"act", "fatal"} /\ (pc = "act" <=> ~(f.cp - f.text >= YYLMAX))
  BY DEF Acting
<1>2. f.cp \in Nat /\ f.text \in Nat /\ YYLMAX \in Nat
  BY ScannerAssumption DEF Lexers
<1> HIDE DEF m, pc
<1>3. /\ m \in Lexers /\ m.pc = pc /\ m.init = f.init /\ m.rest = f.rest /\ m.buf = f.buf /\ m.size = f.size
      /\ m.status = f.status /\ m.text = f.text /\ m.cp = f.cp /\ m.state = f.state
  BY <1>1 DEF Lexers
<1>4. Unread(m) = Unread(f) /\ Unread(f) = Unread(l)
  BY <1>3, SameUnread DEF Unread
<1>5. Longest(m) <=> Longest(f)
  BY <1>3, <1>4 DEF Longest
<1>6. AtNul(m) <=> AtNul(f)
  BY <1>3, <1>4 DEF AtNul
<1>7. Sound(m) /\ m.init
  BY <1>3 DEF Sound, SameBuffer
<1>8. f.text <= f.cp
  BY <1>2, EndFacts DEF AtNul
<1>9. (pc = "act" => m.cp - m.text < YYLMAX) /\ (pc = "fatal" => m.cp - m.text >= YYLMAX)
  BY <1>1, <1>2, <1>3
<1>10. Scanning(m)
  BY <1>1, <1>3, <1>5, <1>6, <1>7, <1>8, <1>9 DEF Scanning
<1>11. QED
  BY <1>1, <1>3, <1>4, <1>10 DEF m

\* The next text starts where this one ends.
LEMMA StartedFacts ==
  ASSUME NEW l, Sound(l), l.init, l.text <= l.cp, l.cp <= Len(l.buf)
  PROVE  /\ Scanning(Started(l)) /\ Started(l).pc = "match" /\ Started(l).init
         /\ l.cp - l.text \in 0 .. Len(Unread(l)) /\ Unread(l) \in Seq(Chars)
         /\ Unread(Started(l)) = SubSeq(Unread(l), (l.cp - l.text) + 1, Len(Unread(l)))
<1> DEFINE m == Started(l)
<1>1. /\ l.text \in Nat /\ l.cp \in Nat /\ l.buf \in Seq(Chars) /\ Len(l.buf) \in Nat /\ l.rest \in Seq(Chars)
      /\ Len(l.rest) \in Nat /\ l \in Lexers /\ 1 \in States
  BY DEF Sound, Lexers, States
<1>2. m = [l EXCEPT !.pc = "match", !.text = l.cp, !.state = 1]
  BY DEF Started
<1> HIDE DEF m
<1>3. /\ m \in Lexers /\ m.pc = "match" /\ m.init = l.init /\ m.rest = l.rest /\ m.buf = l.buf /\ m.size = l.size
      /\ m.status = l.status /\ m.text = l.cp /\ m.cp = l.cp /\ m.state = 1
  BY <1>1, <1>2 DEF Lexers
<1>4. Sound(m) /\ m.init
  BY <1>3 DEF Sound
<1>5. Unread(m) \in Seq(Chars) /\ Len(Unread(m)) = (Len(l.buf) - l.cp) + Len(l.rest)
  <2>1. m.text <= Len(m.buf)
    BY <1>3
  <2>2. Unread(m) \in Seq(Chars) /\ Len(Unread(m)) = (Len(m.buf) - m.text) + Len(m.rest)
    BY <1>3, <2>1, UnreadFacts
  <2>3. QED
    BY <1>3, <2>2
<1>6. Midway(m)
  <2>1. m.cp - m.text = 0
    BY <1>1, <1>3
  <2>2. Walk(Unread(m))[0] = 1
    BY <1>5, WalkFacts
  <2>3. Remembers(m)
    BY <2>1 DEF Remembers
  <2>4. QED
    BY <1>1, <1>3, <2>1, <2>2, <2>3 DEF Midway
<1>7. Scanning(m)
  BY <1>1, <1>3, <1>4, <1>6 DEF Scanning
<1>8. /\ l.cp - l.text \in 0 .. Len(Unread(l)) /\ Unread(l) \in Seq(Chars)
      /\ Unread(m) = SubSeq(Unread(l), (l.cp - l.text) + 1, Len(Unread(l)))
  <2> DEFINE buf == l.buf
             rest == l.rest
             t == l.text
             p == l.cp
  <2>1. buf \in Seq(Chars) /\ rest \in Seq(Chars) /\ t \in 0 .. Len(buf) /\ p \in t .. Len(buf)
    BY <1>1
  <2>2. Unread(l) = SubSeq(buf, t + 1, Len(buf)) \o rest /\ Unread(m) = SubSeq(buf, p + 1, Len(buf)) \o rest
    BY <1>3 DEF Unread
  <2> DEFINE u == Unread(l)
             v == Unread(m)
             n == p - t
             a == SubSeq(buf, t + 1, Len(buf))
  <2>3. n \in 0 .. Len(buf) - t /\ t + n = p
    <3> HIDE DEF buf, t, p
    <3>1. Len(buf) \in Nat
      BY <2>1
    <3>2. QED
      BY <2>1, <3>1
  <2> HIDE DEF buf, rest, t, p, u, v, n
  <2>4. u = a \o rest /\ v = SubSeq(buf, p + 1, Len(buf)) \o rest
    BY <2>2 DEF u, v
  <2>5. a \in Seq(Chars) /\ Len(a) = Len(buf) - t
    BY <2>1, SplitSeq
  <2>6. SubSeq(a, n + 1, Len(a)) = SubSeq(buf, (t + n) + 1, Len(buf))
    BY <2>1, <2>3, DropDropped
  <2> HIDE DEF a
  <2>7. n \in 0 .. Len(a)
    BY <2>3, <2>5
  <2>8. /\ SubSeq(a \o rest, n + 1, Len(a \o rest)) = SubSeq(a, n + 1, Len(a)) \o rest
        /\ a \o rest \in Seq(Chars) /\ n \in 0 .. Len(a \o rest)
    BY <2>1, <2>5, <2>7, DropConcat
  <2>9. n \in 0 .. Len(u) /\ u \in Seq(Chars) /\ v = SubSeq(u, n + 1, Len(u))
    BY <2>3, <2>4, <2>6, <2>8
  <2>10. QED
    BY <2>9 DEF u, v, n, p, t
<1>9. QED
  BY <1>3, <1>7, <1>8 DEF m

\* A step that advances leaves an end of the file unread, and takes the length of
\* the text off it or nothing.
LEMMA AdvancesFacts ==
  ASSUME NEW l, Scanning(l), NEW m, Advances(l, m), NEW f \in Seq(Chars), TailOf(Unread(l), f)
  PROVE  /\ TailOf(Unread(m), f)
         /\ \/ Len(Unread(m)) = Len(Unread(l))
            \/ /\ l.pc \in {"act", "idle"} /\ Action(l) \in 1 .. 10
               /\ Len(Unread(m)) = Len(Unread(l)) - (l.cp - l.text) /\ Len(Unread(l)) \in Nat
<1>1. CASE Unread(m) = Unread(l)
  BY <1>1
<1>2. CASE Unread(m) # Unread(l)
  <2> DEFINE u == Unread(l)
             v == Unread(m)
             n == l.cp - l.text
  <2>1. /\ l.pc \in {"act", "idle"} /\ Action(l) \in 1 .. 10 /\ l.cp <= Len(l.buf)
        /\ v = SubSeq(u, n + 1, Len(u))
    BY <1>2 DEF Advances
  <2>2. /\ l \in Lexers /\ l.text \in Nat /\ l.cp \in Nat /\ l.text <= l.cp /\ Len(l.buf) \in Nat /\ Len(l.rest) \in Nat
        /\ l.text <= Len(l.buf)
    BY <2>1 DEF Scanning, Sound, Lexers
  <2>3. u \in Seq(Chars) /\ Len(u) = (Len(l.buf) - l.text) + Len(l.rest)
    BY <2>2, UnreadFacts
  <2> DEFINE c == l.cp
             t == l.text
             h == Len(l.buf)
             r == Len(l.rest)
             w == Len(u)
  <2>3a. t \in Nat /\ c \in Nat /\ h \in Nat /\ r \in Nat /\ t <= c /\ c <= h /\ w = (h - t) + r /\ n = c - t
    BY <2>1, <2>2, <2>3
  <2> HIDE DEF c, t, h, r, n, w
  <2>3b. n \in 0 .. w
    BY <2>3a
  <2>4. n \in 0 .. Len(u)
    BY <2>3b DEF w
  <2>5. TailOf(u, f)
    OBVIOUS
  <2> HIDE DEF u, v
  <2>6. Len(v) = Len(u) - n /\ Len(u) \in Nat
    BY <2>1, <2>3, <2>4, SplitSeq
  <2>7. TailOf(v, f)
    BY <2>1, <2>4, <2>5, TailOfTail
  <2>8. QED
    BY <2>1, <2>6, <2>7 DEF u, v, n
<1>3. QED
  BY <1>1, <1>2

\* The start of a text advances.
LEMMA StartAdvances ==
  ASSUME NEW l, Scanning(l), l.init, l.pc \in {"act", "idle"}, l.text = l.cp \/ Action(l) \in 1 .. 10, l.cp <= Len(l.buf)
  PROVE  Scanning(Started(l)) /\ Started(l).pc = "match" /\ Started(l).init /\ Advances(l, Started(l))
<1> DEFINE m == Started(l)
<1>1. Sound(l) /\ l.text <= l.cp /\ l.cp \in Nat
  BY DEF Scanning, Sound, Lexers
<1>2. /\ Scanning(m) /\ m.pc = "match" /\ m.init
      /\ Unread(l) \in Seq(Chars)
      /\ Unread(m) = SubSeq(Unread(l), (l.cp - l.text) + 1, Len(Unread(l)))
  BY <1>1, StartedFacts
<1>3. CASE l.text = l.cp
  <2>1. (l.cp - l.text) + 1 = 1
    BY <1>1, <1>3
  <2>2. SubSeq(Unread(l), 1, Len(Unread(l))) = Unread(l)
    BY <1>2, WholeSeq
  <2>3. Unread(m) = Unread(l)
    BY <1>2, <2>1, <2>2
  <2>4. QED
    BY <1>2, <2>3 DEF Advances
<1>4. CASE l.text # l.cp
  BY <1>2, <1>4 DEF Advances
<1>5. QED
  BY <1>3, <1>4

\* A call of yylex keeps the scanner sound.
LEMMA CalledKeeps ==
  ASSUME NEW l, Scanning(l), l.pc = "idle"
  PROVE  Scanning(Called(l)) /\ Called(l).pc = "match" /\ Called(l).init /\ Advances(l, Called(l))
<1>1. CASE l.init
  <2>1. Called(l) = Started(l)
    BY <1>1 DEF Called
  <2>2. QED
    BY <1>1, <2>1, StartAdvances DEF Scanning
<1>2. CASE ~l.init
  <2> DEFINE c == CreateBuffer(l)
  <2>1. Called(l) = Started(c)
    BY <1>2 DEF Called
  <2>2. /\ l \in Lexers /\ l.buf = <<>> /\ l.text = 0 /\ l.cp = 0 /\ l.size >= 1
    BY <1>2 DEF Scanning, Sound
  <2>3. c = [l EXCEPT !.init = TRUE, !.buf = <<>>, !.text = 0, !.cp = 0, !.status = "new"]
    BY <2>2 DEF CreateBuffer, Flushed, Lexers
  <2>4. <<>> \in Seq(Chars) /\ Len(<<>>) = 0
    OBVIOUS
  <2> HIDE DEF c
  <2>5. /\ c \in Lexers /\ c.init /\ c.buf = <<>> /\ c.text = 0 /\ c.cp = 0 /\ c.status = "new" /\ c.size = l.size
        /\ c.rest = l.rest
    BY <2>2, <2>3, <2>4 DEF Lexers
  <2>6. Unread(c) = Unread(l)
    BY <2>2, <2>5 DEF Unread
  <2>7. Sound(c) /\ c.text <= c.cp /\ c.cp <= Len(c.buf)
    BY <2>2, <2>4, <2>5 DEF Sound, Lexers
  <2>8. /\ Scanning(Started(c)) /\ Started(c).pc = "match" /\ Started(c).init
        /\ Unread(c) \in Seq(Chars)
        /\ Unread(Started(c)) = SubSeq(Unread(c), (c.cp - c.text) + 1, Len(Unread(c)))
    BY <2>5, <2>7, StartedFacts
  <2>9. (c.cp - c.text) + 1 = 1
    BY <2>5
  <2>10. SubSeq(Unread(c), 1, Len(Unread(c))) = Unread(c)
    BY <2>8, WholeSeq
  <2>11. Unread(Started(c)) = Unread(l)
    BY <2>6, <2>8, <2>9, <2>10
  <2>12. QED
    BY <2>1, <2>8, <2>11 DEF Advances
<1>3. QED
  BY <1>1, <1>2

\* So does yy_match,
LEMMA MatchKeeps ==
  ASSUME NEW l, Scanning(l), l.pc = "match"
  PROVE  LET m == Acting(Found(Run(l))) IN Scanning(m) /\ m.pc \in {"act", "fatal"} /\ Advances(l, m)
<1>1. l \in Lexers /\ Midway(l) /\ l.state # 37 /\ Sound(l) /\ l.init
  BY DEF Scanning, Sound
<1> DEFINE f == Found(Run(l))
<1>2. f \in Lexers /\ SameBuffer(f, l) /\ (Longest(f) \/ AtNul(f))
  BY <1>1, RunFacts
<1> HIDE DEF f
<1>3. QED
  BY <1>1, <1>2, ActingFacts DEF Advances, f

\* and an action that returns a token,
LEMMA ReturnKeeps ==
  ASSUME NEW l, Scanning(l), l.pc = "act", Action(l) \in 1 .. 10
  PROVE  LET m == [l EXCEPT !.pc = "idle"] IN Scanning(m) /\ m.pc = "idle" /\ Advances(l, m)
<1> DEFINE m == [l EXCEPT !.pc = "idle"]
<1>1. l \in Lexers /\ Sound(l) /\ l.init /\ (Longest(l) \/ AtNul(l)) /\ l.text <= l.cp
  BY DEF Scanning, Sound
<1>2. l.cp <= Len(l.buf)
  BY <1>1, EndFacts
<1> HIDE DEF m
<1>3. /\ m \in Lexers /\ m.pc = "idle" /\ m.init = l.init /\ m.rest = l.rest /\ m.buf = l.buf /\ m.size = l.size
      /\ m.status = l.status /\ m.text = l.text /\ m.cp = l.cp /\ m.state = l.state
  BY <1>1 DEF Lexers, m
<1>4. Sound(m) /\ Action(m) = Action(l) /\ Unread(m) = Unread(l)
  BY <1>1, <1>3 DEF Sound, Action, Unread
<1>5. Scanning(m)
  BY <1>1, <1>2, <1>3, <1>4 DEF Scanning
<1>6. QED
  BY <1>3, <1>4, <1>5 DEF Advances, m

\* and one that goes on,
LEMMA RestartKeeps ==
  ASSUME NEW l, Scanning(l), l.pc = "act", Action(l) \in 1 .. 10
  PROVE  Scanning(Started(l)) /\ Started(l).pc = "match" /\ Advances(l, Started(l))
<1>1. l \in Lexers /\ l.init /\ (Longest(l) \/ AtNul(l))
  BY DEF Scanning, Sound
<1>2. l.cp <= Len(l.buf)
  BY <1>1, EndFacts
<1>3. QED
  BY <1>1, <1>2, StartAdvances

\* and a NUL of the file,
LEMMA RealNulKeeps ==
  ASSUME NEW l, Scanning(l), l.pc = "act", Action(l) = 12, l.cp <= Len(l.buf)
  PROVE  LET end  == l.cp - 1
             prev == PreviousState(l, end)
             next == PreviousState(l, l.cp)
             m    == IF next.state = 37
                     THEN Acting(Found([next EXCEPT !.state = prev.state, !.cp = end]))
                     ELSE Acting(Found(Run(next)))
         IN  Scanning(m) /\ m.pc \in {"act", "fatal"} /\ Advances(l, m)
<1> DEFINE end  == l.cp - 1
           prev == PreviousState(l, end)
           next == PreviousState(l, l.cp)
           back == [next EXCEPT !.state = prev.state, !.cp = end]
           u    == Unread(l)
           c    == end - l.text
<1>1. l \in Lexers /\ Sound(l) /\ l.init /\ (Longest(l) \/ AtNul(l))
  BY DEF Scanning, Sound
<1>2. AtNul(l)
  BY <1>1, EndFacts
<1>3. /\ l.text \in Nat /\ l.cp \in Nat /\ Len(l.buf) \in Nat /\ Len(l.rest) \in Nat /\ l.text < l.cp
      /\ end \in l.text .. Len(l.buf) /\ l.cp \in l.text .. Len(l.buf) /\ c \in Nat
  BY <1>1, <1>2, SMTT(30) DEF AtNul, Lexers
<1>4. u \in Seq(Chars) /\ Len(u) = (Len(l.buf) - l.text) + Len(l.rest)
  BY <1>1, <1>3, UnreadFacts
<1>5. prev \in Lexers /\ prev.state = Walk(u)[c]
  BY <1>1, <1>3, PreviousFacts
<1>6. next \in Lexers /\ SameBuffer(next, l) /\ next.cp = l.cp /\ next.state = Walk(u)[l.cp - l.text] /\ Remembers(next)
  BY <1>1, <1>3, PreviousFacts
<1>7. /\ l.cp - l.text = c + 1 /\ c + 1 \in 1 .. Len(u) /\ c \in 0 .. Len(u) /\ c + 1 \in 0 .. Len(u)
      /\ c + 1 \in 1 .. Len(l.buf) - l.text
  <2> DEFINE t == l.text
             p == l.cp
             b == Len(l.buf)
             z == Len(u)
             r == Len(l.rest)
  <2>1. /\ t \in Nat /\ p \in Nat /\ b \in Nat /\ r \in Nat /\ t < p /\ p \in t .. b /\ c = (p - 1) - t
        /\ z = (b - t) + r
    BY <1>3, <1>4
  <2> HIDE DEF u, t, p, b, z, r, c
  <2>2. p - t = c + 1 /\ c + 1 \in 1 .. z /\ c \in 0 .. z /\ c + 1 \in 0 .. z /\ c + 1 \in 1 .. b - t
    BY <2>1
  <2>3. QED
    BY <2>2 DEF t, p, b, z
<1> HIDE DEF prev, next, u
<1>8. Unread(next) = u /\ next.text = l.text /\ next.buf = l.buf
  BY <1>6, SameUnread DEF u, SameBuffer
<1>9. ASSUME NEW f \in Lexers, SameBuffer(f, l), Longest(f) \/ AtNul(f)
      PROVE  Scanning(Acting(f)) /\ Acting(f).pc \in {"act", "fatal"} /\ Advances(l, Acting(f))
  BY <1>1, <1>9, ActingFacts DEF Advances
<1>10. ASSUME next.state # 37 PROVE Found(Run(next)) \in Lexers /\ SameBuffer(Found(Run(next)), l)
                                    /\ (Longest(Found(Run(next))) \/ AtNul(Found(Run(next))))
  <2>1. Midway(next)
    BY <1>3, <1>6, <1>8 DEF Midway
  <2> DEFINE f == Found(Run(next))
  <2>2. f \in Lexers /\ SameBuffer(f, next) /\ (Longest(f) \/ AtNul(f))
    BY <1>6, <1>10, <2>1, RunFacts
  <2> HIDE DEF f
  <2>3. SameBuffer(f, l)
    BY <1>6, <2>2 DEF SameBuffer
  <2>4. QED
    BY <2>2, <2>3 DEF f
<1>11. ASSUME next.state = 37 PROVE Found(back) \in Lexers /\ SameBuffer(Found(back), l) /\ Longest(Found(back))
  <2>1. Walk(u)[c + 1] = 37
    BY <1>6, <1>7, <1>11
  <2>2. ~Accepts(u, c + 1)
    BY <2>1, Accepting DEF Accepts, States
  <2>3. c > 0
    <3>1. ASSUME c = 0 PROVE FALSE
      <4>1. Len(u) > 0
        BY <1>3, <1>4, <1>7
      <4>2. Accepts(u, 1)
        BY <1>4, <4>1, WalkStarts
      <4>3. QED
        BY <2>2, <3>1, <4>2
    <3>2. QED
      BY <1>3, <3>1
  <2>4. ASSUME NEW k \in c + 1 .. Len(u) PROVE ~Accepts(u, k)
    <3>1. Walk(u)[c + 1] \in Stops
      BY <2>1 DEF Stops
    <3>2. \A j \in (c + 1) + 1 .. Len(u) : ~Accepts(u, j)
      BY <1>4, <1>7, <3>1, WalkDies
    <3>3. k = c + 1 \/ k \in (c + 1) + 1 .. Len(u)
      BY <1>3, <1>4
    <3>4. QED
      BY <2>2, <3>2, <3>3
  <2>5. prev.state \in States /\ end \in Nat
    BY <1>3, <1>5, SMTT(40) DEF Lexers
  <2> HIDE DEF end
  <2>6. /\ back \in Lexers /\ SameBuffer(back, l) /\ back.cp = end /\ back.state = prev.state /\ back.text = l.text
        /\ back.buf = l.buf /\ back.lastPos = next.lastPos /\ back.lastState = next.lastState
    BY <1>6, <1>8, <2>5 DEF Lexers, SameBuffer
  <2> HIDE DEF back
  <2>7. Unread(back) = u
    BY <2>6, SameUnread DEF u
  <2>8. back.cp - back.text = c
    BY <2>6
  <2> HIDE DEF c
  <2>9. CASE Accepts(u, c)
    <3>1. Found(back) = back
      BY <1>5, <2>6, <2>9 DEF Found, Accepts
    <3>2. c \in 1 .. Len(l.buf) - l.text
      BY <1>3, <1>7, <2>3
    <3>3. Longest(back)
      BY <1>5, <2>4, <2>6, <2>7, <2>8, <2>9, <3>2 DEF Longest
    <3>4. QED
      BY <2>6, <3>1, <3>3
  <2>10. CASE ~Accepts(u, c)
    <3>1. PICK k \in 1 .. c : /\ next.lastPos = l.text + k /\ next.lastState = Walk(u)[k] /\ Accepts(u, k)
                              /\ \A j \in k + 1 .. c : ~Accepts(u, j)
      <4>1. next.cp - next.text = c + 1 /\ c + 1 > 1 /\ (c + 1) - 1 = c
        BY <1>3, <1>6, <1>7, <1>8, <2>3
      <4>2. QED
        BY <1>6, <1>8, <4>1 DEF Remembers
    <3>2. k \in 1 .. c - 1 /\ \A j \in k + 1 .. c - 1 : ~Accepts(u, j)
      <4>1. k # c
        BY <2>10, <3>1
      <4>2. QED
        BY <1>3, <3>1, <4>1
    <3>3. Remembers(back)
      BY <2>6, <2>7, <2>8, <3>1, <3>2 DEF Remembers
    <3>4. back.text <= back.cp /\ back.cp <= Len(back.buf) /\ back.cp > back.text
      BY <1>3, <2>3, <2>6 DEF c
    <3>5. Midway(back)
      BY <1>5, <2>6, <2>7, <2>8, <3>3, <3>4 DEF Midway
    <3>6. Found(back) \in Lexers /\ SameBuffer(Found(back), back) /\ Longest(Found(back))
      BY <2>4, <2>6, <2>7, <2>8, <3>4, <3>5, FoundLongest
    <3>7. QED
      BY <2>6, <3>6 DEF SameBuffer
  <2>11. QED
    BY <2>9, <2>10
<1> HIDE DEF back
<1>12. QED
  BY <1>9, <1>10, <1>11 DEF prev, next, back

\* and the next buffer, which leaves unread what was unread,
LEMMA NextBufferReady ==
  ASSUME NEW l, Scanning(l), l.pc = "act", Action(l) = 12, l.cp > Len(l.buf)
  PROVE  LET m == NextBuffer(l)
         IN  /\ Sound(m) /\ m.pc = "act" /\ m.init /\ Unread(m) = Unread(l) /\ m.text = 0
             /\ l.cp - l.text - 1 \in 0 .. Len(m.buf)
             /\ m.status # "normal" => m.rest = <<>>
             /\ m.status = "eof_pending" => Len(m.buf) > 0
             /\ m.status = "new" => Len(m.buf) = 0
<1>1. l \in Lexers /\ Sound(l) /\ l.init /\ (Longest(l) \/ AtNul(l))
  BY DEF Scanning, Sound
<1>2. AtNul(l)
  BY <1>1, EndFacts
<1>3. l.text \in Nat /\ l.cp \in Nat /\ Len(l.buf) \in Nat
  BY <1>1 DEF Lexers
<1>4. /\ l.text <= Len(l.buf) /\ l.cp = Len(l.buf) + 1 /\ l.cp - l.text - 1 = Len(l.buf) - l.text
  BY <1>2, <1>3 DEF AtNul
<1>5. l.size >= 1 /\ Len(l.buf) <= l.size /\ (l.status = "eof_pending" => l.rest = <<>>)
  BY <1>1 DEF Sound
<1> DEFINE m == NextBuffer(l)
<1>6. /\ m \in Lexers /\ m.pc = l.pc /\ m.init = l.init /\ m.cp = l.cp /\ m.text = 0 /\ m.size >= 1
      /\ Unread(m) = Unread(l)
      /\ Len(m.buf) <= m.size /\ Len(l.buf) - l.text <= Len(m.buf)
      /\ m.status # "normal" => m.rest = <<>> /\ Len(m.buf) = Len(l.buf) - l.text
      /\ m.status = "eof_pending" => Len(m.buf) > 0
      /\ m.status = "new" => Len(m.buf) = 0
  BY <1>1, <1>4, <1>5, NextBufferFacts
<1> HIDE DEF m
<1>7. Sound(m)
  BY <1>6 DEF Sound
<1>8. Len(m.buf) \in Nat
  BY <1>6 DEF Lexers
<1>9. l.cp - l.text - 1 \in 0 .. Len(m.buf)
  BY <1>3, <1>4, <1>6, <1>8
<1>10. QED
  BY <1>1, <1>6, <1>7, <1>9 DEF m

\* and the scan that goes on with it,
LEMMA ContinueKeeps ==
  ASSUME NEW l, Scanning(l), l.pc = "act", Action(l) = 12, l.cp > Len(l.buf)
  PROVE  LET m == [PreviousState(NextBuffer(l), l.cp - l.text - 1) EXCEPT !.pc = "match"]
         IN  Scanning(m) /\ m.pc = "match" /\ Advances(l, m)
<1> DEFINE next == NextBuffer(l)
           end == l.cp - l.text - 1
           p == PreviousState(next, end)
           m == [p EXCEPT !.pc = "match"]
<1>1. Sound(next) /\ next.init /\ Unread(next) = Unread(l) /\ next.text = 0 /\ end \in 0 .. Len(next.buf)
  BY NextBufferReady
<1>2. next \in Lexers /\ Len(next.buf) \in Nat
  BY <1>1 DEF Sound, Lexers
<1> HIDE DEF next, end
<1>3. p \in Lexers /\ SameBuffer(p, next) /\ p.cp = end /\ p.state = Walk(Unread(next))[end - next.text] /\ Remembers(p)
  <2>1. end \in next.text .. Len(next.buf)
    BY <1>1
  <2>2. QED
    BY <1>2, <2>1, PreviousFacts
<1> HIDE DEF p
<1>4. /\ m \in Lexers /\ m.pc = "match" /\ m.init = p.init /\ m.rest = p.rest /\ m.buf = p.buf /\ m.size = p.size
      /\ m.status = p.status /\ m.text = p.text /\ m.cp = p.cp /\ m.state = p.state /\ m.lastPos = p.lastPos
      /\ m.lastState = p.lastState
  BY <1>3 DEF Lexers
<1> HIDE DEF m
<1>5. Unread(m) = Unread(p) /\ Unread(p) = Unread(next)
  BY <1>3, <1>4, SameUnread DEF Unread
<1>6. Sound(m) /\ m.init /\ m.text = 0 /\ m.cp = end /\ end <= Len(m.buf) /\ end \in Nat
  BY <1>1, <1>2, <1>3, <1>4 DEF Sound, SameBuffer
<1>7. Remembers(m)
  BY <1>3, <1>4, <1>5 DEF Remembers
<1>8. p.text = next.text
  BY <1>3 DEF SameBuffer
<1>9. Midway(m)
  <2>1. m.cp - m.text = end - next.text
    BY <1>3, <1>4, <1>8
  <2>2. m.state = Walk(Unread(m))[m.cp - m.text]
    BY <1>3, <1>4, <1>5, <2>1
  <2>3. m.text <= m.cp /\ m.cp <= Len(m.buf)
    BY <1>6
  <2>4. QED
    BY <1>7, <2>2, <2>3 DEF Midway
<1>10. m.state # 37
  <2>1. l \in Lexers /\ (Longest(l) \/ AtNul(l))
    BY DEF Scanning, Sound
  <2>2. AtNul(l)
    BY <2>1, EndFacts
  <2>3. Walk(Unread(l))[end] # 37
    BY <2>2 DEF AtNul, end
  <2>4. end - next.text = end
    BY <1>1, <1>2
  <2>5. QED
    BY <1>1, <1>3, <1>4, <2>3, <2>4
<1>11. Scanning(m)
  BY <1>4, <1>6, <1>9, <1>10 DEF Scanning
<1>12. QED
  BY <1>1, <1>4, <1>5, <1>11 DEF Advances, m, p, next, end

\* and the last match of the file,
LEMMA LastMatchKeeps ==
  ASSUME NEW l, Scanning(l), l.pc = "act", Action(l) = 12, l.cp > Len(l.buf), NextBuffer(l).status = "eof_pending"
  PROVE  LET next == NextBuffer(l)
             m == Acting(Found(PreviousState(next, Len(next.buf))))
         IN  Scanning(m) /\ m.pc \in {"act", "fatal"} /\ Advances(l, m)
<1> DEFINE next == NextBuffer(l)
           end == Len(next.buf)
           p == PreviousState(next, end)
           f == Found(p)
<1>1. /\ Sound(next) /\ next.init /\ Unread(next) = Unread(l) /\ next.text = 0 /\ next.rest = <<>> /\ end > 0
  BY NextBufferReady
<1>2. next \in Lexers /\ end \in Nat /\ Len(next.buf) \in Nat
  BY <1>1 DEF Sound, Lexers
<1> HIDE DEF next
<1>3. p \in Lexers /\ SameBuffer(p, next) /\ p.cp = end /\ p.state = Walk(Unread(next))[end - next.text] /\ Remembers(p)
  <2>1. end \in next.text .. Len(next.buf)
    BY <1>1, <1>2
  <2>2. QED
    BY <1>2, <2>1, PreviousFacts
<1> HIDE DEF p
<1>4. Unread(p) = Unread(next) /\ p.text = next.text /\ p.buf = next.buf
  BY <1>3, SameUnread DEF SameBuffer
<1>5. Midway(p) /\ p.cp > p.text
  BY <1>1, <1>2, <1>3, <1>4 DEF Midway
<1>6. Len(Unread(next)) = end
  <2>1. Len(Unread(next)) = (Len(next.buf) - next.text) + Len(next.rest)
    BY <1>1, <1>2, UnreadFacts
  <2>2. QED
    BY <1>1, <1>2, <2>1
<1>7. \A k \in (p.cp - p.text) + 1 .. Len(Unread(p)) : ~Accepts(Unread(p), k)
  <2>1. (p.cp - p.text) + 1 = end + 1 /\ Len(Unread(p)) = end
    BY <1>1, <1>2, <1>3, <1>4, <1>6
  <2> DEFINE e == end
  <2>2. e \in Nat /\ (p.cp - p.text) + 1 = e + 1 /\ Len(Unread(p)) = e
    BY <1>2, <2>1
  <2> HIDE DEF e
  <2>3. QED
    BY <2>2
<1>8. f \in Lexers /\ SameBuffer(f, p) /\ Longest(f)
  BY <1>3, <1>5, <1>7, FoundLongest
<1> HIDE DEF f
<1>9. SameBuffer(f, next)
  BY <1>3, <1>8 DEF SameBuffer
<1>10. Scanning(Acting(f)) /\ Unread(Acting(f)) = Unread(next) /\ Acting(f).pc \in {"act", "fatal"}
  BY <1>1, <1>8, <1>9, ActingFacts
<1>11. QED
  BY <1>1, <1>10 DEF Advances, f, p, next

\* and a flushed buffer, of which nothing but the file is left,
LEMMA FlushedKeeps ==
  ASSUME NEW l \in Lexers, l.size >= 1
  PROVE  LET m == Flushed(l)
         IN  /\ m \in Lexers /\ Sound(m) /\ m.pc = l.pc /\ m.init = l.init /\ m.buf = <<>> /\ m.text = 0 /\ m.cp = 0
             /\ m.rest = l.rest /\ Unread(m) = l.rest /\ m.status = "new"
<1> DEFINE m == Flushed(l)
<1>1. m = [l EXCEPT !.buf = <<>>, !.text = 0, !.cp = 0, !.status = "new"]
  BY DEF Flushed
<1>2. <<>> \in Seq(Chars) /\ Len(<<>>) = 0
  OBVIOUS
<1> HIDE DEF m
<1>3. /\ m \in Lexers /\ m.pc = l.pc /\ m.init = l.init /\ m.buf = <<>> /\ m.text = 0 /\ m.cp = 0
      /\ m.rest = l.rest /\ m.size = l.size /\ m.status = "new"
  BY <1>1, <1>2 DEF Lexers
<1>4. Sound(m)
  BY <1>2, <1>3 DEF Sound, Lexers
<1>5. Unread(m) = l.rest
  <2>1. l.rest \in Seq(Chars)
    BY DEF Lexers
  <2>2. SubSeq(<<>>, 1, 0) = <<>> /\ <<>> \o l.rest = l.rest
    BY <2>1
  <2>3. m.text + 1 = 1 /\ Len(m.buf) = 0
    BY <1>2, <1>3
  <2>4. QED
    BY <1>3, <2>2, <2>3 DEF Unread
<1>6. QED
  BY <1>3, <1>4, <1>5 DEF m

\* and the end of the file,
LEMMA EndOfFileKeeps ==
  ASSUME NEW l, Scanning(l), l.pc = "act", Action(l) = 12, l.cp > Len(l.buf), NextBuffer(l).status = "new"
  PROVE  LET m == [Flushed(NextBuffer(l)) EXCEPT !.pc = "idle"]
         IN  Scanning(m) /\ m.pc = "idle" /\ m.init /\ Advances(l, m)
<1> DEFINE next == NextBuffer(l)
           f == Flushed(next)
           m == [f EXCEPT !.pc = "idle"]
<1>1. /\ Sound(next) /\ next.init /\ Unread(next) = Unread(l) /\ next.text = 0 /\ next.rest = <<>> /\ Len(next.buf) = 0
  BY NextBufferReady
<1>2. next \in Lexers /\ next.size >= 1
  BY <1>1 DEF Sound
<1> HIDE DEF next
<1>3. /\ f \in Lexers /\ Sound(f) /\ f.pc = next.pc /\ f.init = next.init /\ f.buf = <<>> /\ f.text = 0 /\ f.cp = 0
      /\ f.rest = next.rest /\ Unread(f) = next.rest
  BY <1>2, FlushedKeeps
<1> HIDE DEF f
<1>4. /\ m \in Lexers /\ m.pc = "idle" /\ m.init = f.init /\ m.rest = f.rest /\ m.buf = f.buf /\ m.size = f.size
      /\ m.status = f.status /\ m.text = f.text /\ m.cp = f.cp
  BY <1>3 DEF Lexers
<1> HIDE DEF m
<1>5. Sound(m)
  BY <1>3, <1>4 DEF Sound
<1>6. Scanning(m)
  <2>1. Len(<<>>) = 0
    OBVIOUS
  <2>2. QED
    BY <1>1, <1>3, <1>4, <1>5, <2>1 DEF Scanning
<1>7. Unread(next) = <<>>
  <2>1. Unread(next) \in Seq(Chars) /\ Len(Unread(next)) = (Len(next.buf) - next.text) + Len(next.rest)
    BY <1>1, <1>2, UnreadFacts
  <2>2. Len(Unread(next)) = 0
    BY <1>1, <2>1
  <2>3. QED
    BY <2>1, <2>2
<1>8. Unread(m) = <<>>
  BY <1>1, <1>3, <1>4 DEF Unread
<1>9. QED
  BY <1>1, <1>3, <1>4, <1>6, <1>7, <1>8 DEF Advances, m, f, next

\* and yylex_destroy, which drops what was in the buffer.
LEMMA DestroyedKeeps ==
  ASSUME NEW l, Scanning(l), l.pc = "idle", NEW f \in Seq(Chars), TailOf(Unread(l), f)
  PROVE  LET m == Destroyed(l) IN Scanning(m) /\ m.pc = "idle" /\ ~m.init /\ TailOf(Unread(m), f)
<1> DEFINE g == Flushed(l)
           m == Destroyed(l)
<1>1. l \in Lexers /\ l.size >= 1 /\ l.cp <= Len(l.buf) /\ l.text <= l.cp
  BY DEF Scanning, Sound
<1>2. /\ g \in Lexers /\ Sound(g) /\ g.pc = l.pc /\ g.init = l.init /\ g.buf = <<>> /\ g.text = 0 /\ g.cp = 0
      /\ g.rest = l.rest /\ Unread(g) = l.rest /\ g.status = "new"
  BY <1>1, FlushedKeeps
<1>3. m = [g EXCEPT !.init = FALSE]
  BY DEF Destroyed
<1> HIDE DEF g, m
<1>4. /\ m \in Lexers /\ m.pc = "idle" /\ m.init = FALSE /\ m.rest = g.rest /\ m.buf = <<>> /\ m.size = g.size
      /\ m.status = g.status /\ m.text = 0 /\ m.cp = 0
  BY <1>2, <1>3 DEF Lexers
<1>5. Sound(m) /\ Unread(m) = l.rest
  BY <1>2, <1>4 DEF Sound, Unread
<1>6. Scanning(m)
  <2>1. Len(<<>>) = 0
    OBVIOUS
  <2>2. QED
    BY <1>4, <1>5, <2>1 DEF Scanning
<1>7. TailOf(Unread(m), f)
  <2> DEFINE a == SubSeq(l.buf, l.text + 1, Len(l.buf))
             r == l.rest
             n == Len(a)
             u == a \o r
  <2>1. /\ l.buf \in Seq(Chars) /\ r \in Seq(Chars) /\ l.text \in Nat /\ l.cp \in Nat /\ Len(l.buf) \in Nat
        /\ l.text \in 0 .. Len(l.buf)
    BY <1>1 DEF Lexers
  <2>2. a \in Seq(Chars) /\ n \in Nat
    BY <2>1, SplitSeq
  <2>3. TailOf(u, f)
    BY DEF Unread
  <2> HIDE DEF a
  <2>4. /\ SubSeq(a \o r, n + 1, Len(a \o r)) = SubSeq(a, n + 1, Len(a)) \o r
        /\ n \in 0 .. Len(a \o r)
    <3> HIDE DEF r
    <3>1. n \in 0 .. Len(a)
      BY <2>2
    <3>2. QED
      BY <2>1, <2>2, <3>1, DropConcat
  <2>5. SubSeq(a, n + 1, Len(a)) \o r = r
    <3>1. SubSeq(a, n + 1, Len(a)) = <<>>
      BY <2>2
    <3>2. QED
      BY <2>1, <3>1
  <2> HIDE DEF u, n
  <2>6. SubSeq(u, n + 1, Len(u)) = r /\ n \in 0 .. Len(u)
    BY <2>4, <2>5 DEF u
  <2>7. TailOf(r, f)
    BY <2>3, <2>6, TailOfTail
  <2>8. QED
    BY <1>5, <2>7
<1>8. QED
  BY <1>4, <1>6, <1>7 DEF m

-----------------------------------------------------------------------------
(* The scanner in the program.                                             *)

\* The invariant of the scanner.
ScannerInv ==
  /\ file \in Seq(Chars) /\ Scanning(lex) /\ TailOf(Unread(lex), file)
  /\ yyparse # "shift" => lex.pc = "idle"

\* Only yyparse and analizador_sintactico's end change the scanner.
LEMMA NextCases ==
  ASSUME Next
  PROVE  \/ ConsoleParses
         \/ Analysed
         \/ UNCHANGED scanVars /\ UNCHANGED <<yyparse, rule, stack, stacksize, yynerrs>>
<1>1. ASSUME Console PROVE \/ ConsoleParses \/ Analysed
                           \/ UNCHANGED scanVars /\ UNCHANGED <<yyparse, rule, stack, stacksize, yynerrs>>
  BY <1>1 DEF Console, NoContext, OnInit, CannotOpen, FatalError, Connect, SendAction, SendInstructions, OnBeforeExit,
     parseVars
<1>2. ASSUME Sigint PROVE UNCHANGED scanVars /\ UNCHANGED <<yyparse, rule, stack, stacksize, yynerrs>>
  BY <1>2 DEF Sigint
<1>3. ASSUME Kernel PROVE UNCHANGED scanVars /\ UNCHANGED <<yyparse, rule, stack, stacksize, yynerrs>>
  BY <1>3 DEF Kernel, HandleSyscall, HandleInstructions, Dispatch, EndIo, parseVars
<1>4. ASSUME Cpu PROVE UNCHANGED scanVars /\ UNCHANGED <<yyparse, rule, stack, stacksize, yynerrs>>
  BY <1>4 DEF Cpu, ExecuteNothing, ExecuteNoOp, ExecuteRead, ExecuteWrite, ExecuteCopy, ExecuteIo, ExecuteExit, Stays,
     parseVars
<1>5. ASSUME Interrupted PROVE UNCHANGED scanVars /\ UNCHANGED <<yyparse, rule, stack, stacksize, yynerrs>>
  BY <1>5 DEF Interrupted, parseVars
<1>6. QED
  BY <1>1, <1>2, <1>3, <1>4, <1>5 DEF Next

\* Every step of yylex keeps the scanner sound, and advances.
LEMMA ScanKeeps ==
  ASSUME Scanning(lex), Scan
  PROVE  Scanning(lex') /\ Advances(lex, lex') /\ file' = file /\ lex.pc # "idle"
<1>1. CASE Match
  BY <1>1, MatchKeeps DEF Match
<1>2. CASE ReturnToken
  <2>1. lex.pc = "act" /\ Action(lex) \in 1 .. 10 /\ lex' = [lex EXCEPT !.pc = "idle"] /\ file' = file
    BY <1>2 DEF ReturnToken, Return
  <2>2. QED
    BY <2>1, ReturnKeeps
<1>3. CASE Skip
  BY <1>3, RestartKeeps DEF Skip
<1>4. CASE LexicalError
  BY <1>4, RestartKeeps DEF LexicalError
<1>5. CASE RealNul
  BY <1>5, RealNulKeeps DEF RealNul
<1>6. CASE ContinueScan
  BY <1>6, ContinueKeeps DEF ContinueScan, AtBufferEnd
<1>7. CASE LastMatch
  BY <1>7, LastMatchKeeps DEF LastMatch, AtBufferEnd
<1>8. CASE EndOfFile
  BY <1>8, EndOfFileKeeps DEF EndOfFile, AtBufferEnd
<1>9. QED
  BY <1>1, <1>2, <1>3, <1>4, <1>5, <1>6, <1>7, <1>8 DEF Scan

\* Every step keeps the invariant of the scanner.
LEMMA ScannerStep ==
  ASSUME ScannerInv, [Next]_vars
  PROVE  /\ ScannerInv' /\ file' = file
         /\ Advances(lex, lex') \/ ~lex'.init
<1> USE DEF ScannerInv
<1>0. ASSUME Advances(lex, lex') PROVE TailOf(Unread(lex'), file)
  BY <1>0, AdvancesFacts
<1>1. CASE UNCHANGED scanVars /\ UNCHANGED yyparse
  <2>1. lex' = lex /\ file' = file /\ yyparse' = yyparse
    BY <1>1 DEF scanVars
  <2>2. Advances(lex, lex')
    BY <2>1 DEF Advances
  <2>3. QED
    BY <2>1, <2>2
<1>2. CASE Analysed
  <2>1. lex' = Destroyed(lex) /\ file' = file /\ lex.pc = "idle" /\ yyparse' = yyparse
    BY <1>2 DEF Analysed, Parsed, parseVars
  <2>2. Scanning(lex') /\ lex'.pc = "idle" /\ ~lex'.init /\ TailOf(Unread(lex'), file)
    BY <2>1, DestroyedKeeps
  <2>3. QED
    BY <2>1, <2>2
<1>3. CASE ConsoleParses
  <2>1. CASE Scan /\ UNCHANGED parseVars
    <3>1. Scanning(lex') /\ Advances(lex, lex') /\ file' = file /\ lex.pc # "idle" /\ yyparse' = yyparse
      BY <2>1, ScanKeeps DEF parseVars
    <3>2. QED
      BY <1>0, <3>1
  <2>2. CASE ReadToken
    <3>1. lex' = Called(lex) /\ lex.pc = "idle" /\ file' = file /\ yyparse = "shift" /\ yyparse' = yyparse
      BY <2>2 DEF ReadToken, Deciding, parseVars
    <3>2. Scanning(lex') /\ Advances(lex, lex')
      BY <3>1, CalledKeeps
    <3>3. QED
      BY <1>0, <3>1, <3>2
  <2>3. CASE Shift \/ Default \/ Reduce \/ SyntaxError
    <3>1. lex' = lex /\ file' = file /\ lex.pc = "idle"
      BY <2>3 DEF Shift, Default, Reduce, SyntaxError, Deciding, scanVars
    <3>2. Advances(lex, lex')
      BY <3>1 DEF Advances
    <3>3. QED
      BY <3>1, <3>2
  <2>4. QED
    BY <1>3, <2>1, <2>2, <2>3 DEF ConsoleParses, Parse
<1>4. CASE UNCHANGED vars
  BY <1>1, <1>4 DEF vars, parseVars
<1>5. QED
  BY <1>1, <1>2, <1>3, <1>4, NextCases

\* The invariant holds at the start.
LEMMA ScannerStart == ASSUME Init PROVE ScannerInv
<1>1. PICK n \in BufSizes :
        lex = [pc |-> "idle", init |-> FALSE, rest |-> file, buf |-> <<>>, size |-> n, status |-> "new",
               text |-> 0, cp |-> 0, state |-> 1, lastState |-> 0, lastPos |-> 0]
  BY DEF Init, ParseInit, ScanInit
<1>2. file \in Seq(Chars) /\ n \in Nat /\ n >= 1 /\ yyparse = "shift"
  BY ScannerAssumption DEF Init, ParseInit, ScanInit
<1>3. <<>> \in Seq(Chars) /\ Len(<<>>) = 0 /\ 1 \in States
  BY DEF States
<1>4. /\ lex \in Lexers /\ lex.size >= 1 /\ lex.buf = <<>> /\ lex.text = 0 /\ lex.cp = 0 /\ lex.pc = "idle" /\ lex.init = FALSE
      /\ lex.status = "new" /\ lex.rest = file
  BY <1>1, <1>2, <1>3 DEF Lexers
<1>5. Sound(lex)
  BY <1>2, <1>3, <1>4 DEF Sound, Lexers
<1>6. Scanning(lex)
  BY <1>3, <1>4, <1>5 DEF Scanning
<1>7. Unread(lex) = file
  <2>1. SubSeq(<<>>, 1, 0) = <<>> /\ <<>> \o file = file
    BY <1>2
  <2>2. lex.text + 1 = 1 /\ Len(lex.buf) = 0
    BY <1>3, <1>4
  <2>3. QED
    BY <1>4, <2>1, <2>2 DEF Unread
<1>8. TailOf(file, file)
  <2>1. SubSeq(file, 0 + 1, Len(file)) = file /\ 0 \in 0 .. Len(file)
    BY <1>2
  <2>2. QED
    BY <2>1 DEF TailOf
<1>9. QED
  BY <1>2, <1>6, <1>7, <1>8 DEF ScannerInv

\* The scanner's invariant always holds.
LEMMA ScannerAlways == Spec => []ScannerInv
<1>1. ScannerInv /\ [Next]_vars => ScannerInv'
  BY ScannerStep
<1>2. QED
  BY <1>1, ScannerStart, PTL DEF Spec

\* For every text and every size of the buffer: however yy_get_next_buffer has
\* moved, grown and refilled it, the buffer and what was not read yet are the rest
\* of the file, and the pointers of scanner.c stay in the buffer.
THEOREM BufferKeepsFileAlways == Spec => []BufferKeepsFile
<1>1. ScannerInv => BufferKeepsFile
  <2> SUFFICES ASSUME ScannerInv PROVE BufferKeepsFile
    OBVIOUS
  <2>1. file \in Seq(Chars) /\ Scanning(lex) /\ TailOf(Unread(lex), file)
    BY DEF ScannerInv
  <2>2. Unread(lex) = SubSeq(file, Position(lex) + 1, Len(file))
    BY <2>1, TailIs DEF Position
  <2>3. lex \in Lexers /\ Len(lex.buf) <= lex.size /\ lex.text <= lex.cp
    BY <2>1 DEF Scanning, Sound
  <2>4. lex.text \in Nat /\ lex.cp \in Nat /\ Len(lex.buf) \in Nat
    BY <2>3 DEF Lexers
  <2>5. lex.cp <= Len(lex.buf) + 1
    <3>1. CASE lex.pc = "idle"
      BY <2>1, <2>4, <3>1 DEF Scanning
    <3>2. CASE lex.pc = "match"
      BY <2>1, <2>4, <3>2 DEF Scanning, Midway
    <3>3. CASE lex.pc \in {"act", "fatal"}
      BY <2>1, <2>3, <2>4, <3>3, EndFacts DEF Scanning, AtNul
    <3>4. QED
      BY <2>3, <3>1, <3>2, <3>3 DEF Lexers
  <2>6. ASSUME lex.pc = "act" PROVE lex.text < lex.cp /\ lex.cp - lex.text < YYLMAX
    BY <2>1, <2>3, <2>6, EndFacts DEF Scanning, AtNul
  <2>7. QED
    BY <2>2, <2>3, <2>5, <2>6 DEF BufferKeepsFile
<1>2. QED
  BY <1>1, ScannerAlways, PTL

\* yylex leaves no character out and scans none for two tokens: a new text starts
\* where the text of the last action ended.
THEOREM ScansInOrderAlways == Spec => ScansInOrder
<1> DEFINE P == lex'.init /\ Position(lex') # Position(lex) =>
                  /\ Position(lex') = Position(lex) + (lex.cp - lex.text)
                  /\ lex.pc \in {"act", "idle"} /\ Action(lex) \in 1 .. 10
<1>1. ASSUME ScannerInv, [Next]_vars PROVE [P]_scanVars
  <2>1. SUFFICES ASSUME lex'.init, Position(lex') # Position(lex)
                 PROVE  /\ Position(lex') = Position(lex) + (lex.cp - lex.text)
                        /\ lex.pc \in {"act", "idle"} /\ Action(lex) \in 1 .. 10
    OBVIOUS
  <2>2. Advances(lex, lex') /\ file \in Seq(Chars) /\ TailOf(Unread(lex), file) /\ Scanning(lex)
    BY <1>1, <2>1, ScannerStep DEF ScannerInv
  <2>3. \/ Len(Unread(lex')) = Len(Unread(lex))
        \/ /\ lex.pc \in {"act", "idle"} /\ Action(lex) \in 1 .. 10
           /\ Len(Unread(lex')) = Len(Unread(lex)) - (lex.cp - lex.text) /\ Len(Unread(lex)) \in Nat
    BY <2>2, AdvancesFacts
  <2>4. lex.cp \in Nat /\ lex.text \in Nat /\ Len(file) \in Nat
    BY <2>2 DEF Scanning, Sound, Lexers
  <2> DEFINE x == Len(Unread(lex))
             y == Len(Unread(lex'))
             z == Len(file)
             n == lex.cp - lex.text
  <2>5. Position(lex) = z - x /\ Position(lex') = z - y
    BY DEF Position
  <2>6. y # x
    BY <2>1, <2>5
  <2>7. /\ lex.pc \in {"act", "idle"} /\ Action(lex) \in 1 .. 10 /\ y = x - n /\ x \in Nat /\ n \in Int /\ z \in Nat
    BY <2>3, <2>4, <2>6
  <2> HIDE DEF x, y, z, n
  <2>8. z - y = (z - x) + n
    BY <2>7
  <2>9. QED
    BY <2>5, <2>7, <2>8 DEF n
<1>2. QED
  BY <1>1, ScannerAlways, PTL DEF Spec, ScansInOrder

-----------------------------------------------------------------------------
(* The automaton accepts the lexemes of console.l: keywords.               *)

\* The states of the automaton on the way through a keyword.
Keywords == 4 .. 9
Path == [k \in Keywords |->
  CASE k = 5 -> <<11, 20, 27, 32, 35>>
    [] k = 7 -> <<10, 19, 26>>
    [] k = 6 -> <<12, 21, 28, 33>>
    [] k = 9 -> <<8, 17, 24, 30>>
    [] k = 8 -> <<13, 22, 29, 34, 36>>
    [] k = 4 -> <<9, 18, 25, 31>>]

\* The letters of the keywords, in lower case.
Letters == [k \in Keywords |->
  CASE k = 5 -> <<27, 28, 21, 28, 29>>
    [] k = 7 -> <<26, 5, 28>>
    [] k = 6 -> <<30, 25, 22, 24>>
    [] k = 9 -> <<23, 28, 29, 34>>
    [] k = 8 -> <<32, 30, 26, 31, 25>>
    [] k = 4 -> <<25, 33, 26, 31>>]

\* The keywords of console.l are spelt with these classes.
LEMMA SpellingIs == Spelling = Letters
BY DEF Spelling, Letters, Keywords, NO_OP, IO, READ, COPY, WRITE, EXIT

\* The tokens of the keywords.
LEMMA KeywordIs == Keywords = {NO_OP, IO, READ, COPY, WRITE, EXIT}
BY DEF Keywords, NO_OP, IO, READ, COPY, WRITE, EXIT

\* The paths of the keywords and their letters.
LEMMA PathLengths ==
  ASSUME NEW k \in Keywords
  PROVE  /\ Path[k] \in Seq(8 .. 13 \cup 17 .. 22 \cup 24 .. 36) /\ Letters[k] \in Seq({5} \cup 21 .. 34)
         /\ Len(Path[k]) = Len(Letters[k]) /\ Len(Path[k]) \in 3 .. 5
<1>1. CASE k = 4
  BY <1>1 DEF Path, Letters, Keywords
<1>2. CASE k = 5
  BY <1>2 DEF Path, Letters, Keywords
<1>3. CASE k = 6
  BY <1>3 DEF Path, Letters, Keywords
<1>4. CASE k = 7
  BY <1>4 DEF Path, Letters, Keywords
<1>5. CASE k = 8
  BY <1>5 DEF Path, Letters, Keywords
<1>6. CASE k = 9
  BY <1>6 DEF Path, Letters, Keywords
<1>7. QED
  BY <1>1, <1>2, <1>3, <1>4, <1>5, <1>6 DEF Keywords

\* The same, letter by letter.
LEMMA PathIs ==
  /\ Len(Path[4]) = 4 /\ Len(Letters[4]) = 4 /\ Path[4][1] = 9 /\ Path[4][2] = 18 /\ Path[4][3] = 25 /\ Path[4][4] = 31
     /\ Letters[4][1] = 25 /\ Letters[4][2] = 33 /\ Letters[4][3] = 26 /\ Letters[4][4] = 31
  /\ Len(Path[5]) = 5 /\ Len(Letters[5]) = 5 /\ Path[5][1] = 11 /\ Path[5][2] = 20 /\ Path[5][3] = 27 /\ Path[5][4] = 32
     /\ Path[5][5] = 35
     /\ Letters[5][1] = 27 /\ Letters[5][2] = 28 /\ Letters[5][3] = 21 /\ Letters[5][4] = 28 /\ Letters[5][5] = 29
  /\ Len(Path[6]) = 4 /\ Len(Letters[6]) = 4 /\ Path[6][1] = 12 /\ Path[6][2] = 21 /\ Path[6][3] = 28 /\ Path[6][4] = 33
     /\ Letters[6][1] = 30 /\ Letters[6][2] = 25 /\ Letters[6][3] = 22 /\ Letters[6][4] = 24
  /\ Len(Path[7]) = 3 /\ Len(Letters[7]) = 3 /\ Path[7][1] = 10 /\ Path[7][2] = 19 /\ Path[7][3] = 26
     /\ Letters[7][1] = 26 /\ Letters[7][2] = 5 /\ Letters[7][3] = 28
  /\ Len(Path[8]) = 5 /\ Len(Letters[8]) = 5 /\ Path[8][1] = 13 /\ Path[8][2] = 22 /\ Path[8][3] = 29 /\ Path[8][4] = 34
     /\ Path[8][5] = 36
     /\ Letters[8][1] = 32 /\ Letters[8][2] = 30 /\ Letters[8][3] = 26 /\ Letters[8][4] = 31 /\ Letters[8][5] = 25
  /\ Len(Path[9]) = 4 /\ Len(Letters[9]) = 4 /\ Path[9][1] = 8 /\ Path[9][2] = 17 /\ Path[9][3] = 24 /\ Path[9][4] = 30
     /\ Letters[9][1] = 23 /\ Letters[9][2] = 28 /\ Letters[9][3] = 29 /\ Letters[9][4] = 34
BY DEF Path, Letters, Keywords

\* A state and its letter lead along the path, and to its first state from the start.
LEMMA PathForward ==
  ASSUME NEW k \in Keywords, NEW i \in 1 .. Len(Path[k]) - 1
  PROVE  Path[k][i] \in DOMAIN Expects /\ Expects[Path[k][i]] = <<Letters[k][i + 1], Path[k][i + 1]>>
<1>1. CASE k = 4
  <2>0. i \in 1 .. 3
    BY <1>1, PathIs
  <2>1. CASE i = 1
    BY <1>1, <2>1, PathIs DEF Expects
  <2>2. CASE i = 2
    BY <1>1, <2>2, PathIs DEF Expects
  <2>3. CASE i = 3
    BY <1>1, <2>3, PathIs DEF Expects
  <2>4. QED
    BY <2>0, <2>1, <2>2, <2>3
<1>2. CASE k = 5
  <2>0. i \in 1 .. 4
    BY <1>2, PathIs
  <2>1. CASE i = 1
    BY <1>2, <2>1, PathIs DEF Expects
  <2>2. CASE i = 2
    BY <1>2, <2>2, PathIs DEF Expects
  <2>3. CASE i = 3
    BY <1>2, <2>3, PathIs DEF Expects
  <2>4. CASE i = 4
    BY <1>2, <2>4, PathIs DEF Expects
  <2>5. QED
    BY <2>0, <2>1, <2>2, <2>3, <2>4
<1>3. CASE k = 6
  <2>0. i \in 1 .. 3
    BY <1>3, PathIs
  <2>1. CASE i = 1
    BY <1>3, <2>1, PathIs DEF Expects
  <2>2. CASE i = 2
    BY <1>3, <2>2, PathIs DEF Expects
  <2>3. CASE i = 3
    BY <1>3, <2>3, PathIs DEF Expects
  <2>4. QED
    BY <2>0, <2>1, <2>2, <2>3
<1>4. CASE k = 7
  <2>0. i \in 1 .. 2
    BY <1>4, PathIs
  <2>1. CASE i = 1
    BY <1>4, <2>1, PathIs DEF Expects
  <2>2. CASE i = 2
    BY <1>4, <2>2, PathIs DEF Expects
  <2>3. QED
    BY <2>0, <2>1, <2>2
<1>5. CASE k = 8
  <2>0. i \in 1 .. 4
    BY <1>5, PathIs
  <2>1. CASE i = 1
    BY <1>5, <2>1, PathIs DEF Expects
  <2>2. CASE i = 2
    BY <1>5, <2>2, PathIs DEF Expects
  <2>3. CASE i = 3
    BY <1>5, <2>3, PathIs DEF Expects
  <2>4. CASE i = 4
    BY <1>5, <2>4, PathIs DEF Expects
  <2>5. QED
    BY <2>0, <2>1, <2>2, <2>3, <2>4
<1>6. CASE k = 9
  <2>0. i \in 1 .. 3
    BY <1>6, PathIs
  <2>1. CASE i = 1
    BY <1>6, <2>1, PathIs DEF Expects
  <2>2. CASE i = 2
    BY <1>6, <2>2, PathIs DEF Expects
  <2>3. CASE i = 3
    BY <1>6, <2>3, PathIs DEF Expects
  <2>4. QED
    BY <2>0, <2>1, <2>2, <2>3
<1>7. QED
  BY <1>1, <1>2, <1>3, <1>4, <1>5, <1>6 DEF Keywords

\* The first states of the paths.
LEMMA PathStarts ==
  /\ Path[4][1] = 9 /\ Path[5][1] = 11 /\ Path[6][1] = 12 /\ Path[7][1] = 10 /\ Path[8][1] = 13 /\ Path[9][1] = 8
  /\ Letters[4][1] = 25 /\ Letters[5][1] = 27 /\ Letters[6][1] = 30 /\ Letters[7][1] = 26 /\ Letters[8][1] = 32
  /\ Letters[9][1] = 23
BY DEF Path, Letters, Keywords

\* The first letter of a keyword, in either case, starts its path and no other
\* character does.
LEMMA PathFirst ==
  ASSUME NEW k \in Keywords, NEW c \in 1 .. 34
  PROVE  NextState(1, c) = Path[k][1] <=> Lower(c) = Letters[k][1]
<1>1. NextState(1, c) =
     CASE c = 2 -> 5 [] c = 3 -> 6 [] c = 6 -> 7 [] Lower(c) = 23 -> 8 [] Lower(c) = 25 -> 9
       [] Lower(c) = 26 -> 10 [] Lower(c) = 27 -> 11 [] Lower(c) = 30 -> 12 [] Lower(c) = 32 -> 13 [] OTHER -> 4
  BY FirstRow DEF Lower
<1>2. QED
  BY <1>1, PathStarts DEF Keywords, Lower

\* A state that waits for a letter is on the path of a keyword.
LEMMA ExpectsOnPath ==
  ASSUME NEW s \in DOMAIN Expects
  PROVE  \E k \in Keywords : \E i \in 1 .. Len(Path[k]) - 1 : s = Path[k][i]
<1>1. DOMAIN Expects = 8 .. 13 \cup 17 .. 22 \cup {24, 25, 27, 28, 29, 32, 34}
  BY DEF Expects
<1>2. CASE s \in {9, 18, 25}
  <2>1. 4 \in Keywords /\ \E i \in 1 .. 3 : s = Path[4][i]
    BY <1>2, PathIs DEF Keywords
  <2>2. Len(Path[4]) - 1 = 3
    BY PathIs
  <2>3. QED
    BY <2>1, <2>2
<1>3. CASE s \in {11, 20, 27, 32}
  <2>1. 5 \in Keywords /\ \E i \in 1 .. 4 : s = Path[5][i]
    BY <1>3, PathIs DEF Keywords
  <2>2. Len(Path[5]) - 1 = 4
    BY PathIs
  <2>3. QED
    BY <2>1, <2>2
<1>4. CASE s \in {12, 21, 28}
  <2>1. 6 \in Keywords /\ \E i \in 1 .. 3 : s = Path[6][i]
    BY <1>4, PathIs DEF Keywords
  <2>2. Len(Path[6]) - 1 = 3
    BY PathIs
  <2>3. QED
    BY <2>1, <2>2
<1>5. CASE s \in {10, 19}
  <2>1. 7 \in Keywords /\ \E i \in 1 .. 2 : s = Path[7][i]
    BY <1>5, PathIs DEF Keywords
  <2>2. Len(Path[7]) - 1 = 2
    BY PathIs
  <2>3. QED
    BY <2>1, <2>2
<1>6. CASE s \in {13, 22, 29, 34}
  <2>1. 8 \in Keywords /\ \E i \in 1 .. 4 : s = Path[8][i]
    BY <1>6, PathIs DEF Keywords
  <2>2. Len(Path[8]) - 1 = 4
    BY PathIs
  <2>3. QED
    BY <2>1, <2>2
<1>7. CASE s \in {8, 17, 24}
  <2>1. 9 \in Keywords /\ \E i \in 1 .. 3 : s = Path[9][i]
    BY <1>7, PathIs DEF Keywords
  <2>2. Len(Path[9]) - 1 = 3
    BY PathIs
  <2>3. QED
    BY <2>1, <2>2
<1>8. \/ s \in {9, 18, 25} \/ s \in {11, 20, 27, 32} \/ s \in {12, 21, 28} \/ s \in {10, 19}
      \/ s \in {13, 22, 29, 34} \/ s \in {8, 17, 24}
  <2>1. s \in 8 .. 13 \cup 17 .. 22 \cup {24, 25, 27, 28, 29, 32, 34}
    BY <1>1
  <2>2. QED
    BY <2>1
<1>9. QED
  BY <1>2, <1>3, <1>4, <1>5, <1>6, <1>7, <1>8

\* No state is on two paths, or twice on one.
LEMMA PathUnique ==
  ASSUME NEW k \in Keywords, NEW j \in Keywords, NEW i \in 1 .. Len(Path[k]), NEW h \in 1 .. Len(Path[j]),
         Path[k][i] = Path[j][h]
  PROVE  k = j /\ i = h
<1> DEFINE Key(s) == CASE s \in {9, 18, 25, 31} -> 4 [] s \in {11, 20, 27, 32, 35} -> 5 [] s \in {12, 21, 28, 33} -> 6
                       [] s \in {10, 19, 26} -> 7 [] s \in {13, 22, 29, 34, 36} -> 8 [] OTHER -> 9
           Place(s) == CASE s \in 8 .. 13 -> 1 [] s \in 17 .. 22 -> 2 [] s \in 24 .. 29 -> 3 [] s \in 30 .. 34 -> 4
                         [] OTHER -> 5
<1>2. ASSUME NEW x \in Keywords, NEW y \in 1 .. Len(Path[x]) PROVE Key(Path[x][y]) = x /\ Place(Path[x][y]) = y
  <2>1. CASE x = 4
    <3>0. y \in 1 .. 4
      BY <2>1, PathIs
    <3>1. CASE y = 1
      BY <2>1, <3>1, PathIs
    <3>2. CASE y = 2
      BY <2>1, <3>2, PathIs
    <3>3. CASE y = 3
      BY <2>1, <3>3, PathIs
    <3>4. CASE y = 4
      BY <2>1, <3>4, PathIs
    <3>5. QED
      BY <3>0, <3>1, <3>2, <3>3, <3>4
  <2>2. CASE x = 5
    <3>0. y \in 1 .. 5
      BY <2>2, PathIs
    <3>1. CASE y = 1
      BY <2>2, <3>1, PathIs
    <3>2. CASE y = 2
      BY <2>2, <3>2, PathIs
    <3>3. CASE y = 3
      BY <2>2, <3>3, PathIs
    <3>4. CASE y = 4
      BY <2>2, <3>4, PathIs
    <3>5. CASE y = 5
      BY <2>2, <3>5, PathIs
    <3>6. QED
      BY <3>0, <3>1, <3>2, <3>3, <3>4, <3>5
  <2>3. CASE x = 6
    <3>0. y \in 1 .. 4
      BY <2>3, PathIs
    <3>1. CASE y = 1
      BY <2>3, <3>1, PathIs
    <3>2. CASE y = 2
      BY <2>3, <3>2, PathIs
    <3>3. CASE y = 3
      BY <2>3, <3>3, PathIs
    <3>4. CASE y = 4
      BY <2>3, <3>4, PathIs
    <3>5. QED
      BY <3>0, <3>1, <3>2, <3>3, <3>4
  <2>4. CASE x = 7
    <3>0. y \in 1 .. 3
      BY <2>4, PathIs
    <3>1. CASE y = 1
      BY <2>4, <3>1, PathIs
    <3>2. CASE y = 2
      BY <2>4, <3>2, PathIs
    <3>3. CASE y = 3
      BY <2>4, <3>3, PathIs
    <3>4. QED
      BY <3>0, <3>1, <3>2, <3>3
  <2>5. CASE x = 8
    <3>0. y \in 1 .. 5
      BY <2>5, PathIs
    <3>1. CASE y = 1
      BY <2>5, <3>1, PathIs
    <3>2. CASE y = 2
      BY <2>5, <3>2, PathIs
    <3>3. CASE y = 3
      BY <2>5, <3>3, PathIs
    <3>4. CASE y = 4
      BY <2>5, <3>4, PathIs
    <3>5. CASE y = 5
      BY <2>5, <3>5, PathIs
    <3>6. QED
      BY <3>0, <3>1, <3>2, <3>3, <3>4, <3>5
  <2>6. CASE x = 9
    <3>0. y \in 1 .. 4
      BY <2>6, PathIs
    <3>1. CASE y = 1
      BY <2>6, <3>1, PathIs
    <3>2. CASE y = 2
      BY <2>6, <3>2, PathIs
    <3>3. CASE y = 3
      BY <2>6, <3>3, PathIs
    <3>4. CASE y = 4
      BY <2>6, <3>4, PathIs
    <3>5. QED
      BY <3>0, <3>1, <3>2, <3>3, <3>4
  <2>7. QED
    BY <2>1, <2>2, <2>3, <2>4, <2>5, <2>6 DEF Keywords
<1> HIDE DEF Key, Place
<1>3. Key(Path[k][i]) = k /\ Place(Path[k][i]) = i /\ Key(Path[j][h]) = j /\ Place(Path[j][h]) = h
  BY <1>2
<1>4. QED
  BY <1>3

\* The class of a letter.
LEMMA LowerClass ==
  ASSUME NEW c \in Chars, NEW x \in {5} \cup 21 .. 34
  PROVE  Lower(ClassOf(c)) = x <=> Lower(c) = x
BY DEF Chars, ClassOf, Class, Lower

\* The classes of blanks, digits and word characters.
LEMMA ClassKinds ==
  ASSUME NEW c \in Chars
  PROVE  /\ ClassOf(c) \in {2, 3} <=> c \in {2, 3}
         /\ ClassOf(c) = 6 <=> IsDigit(c)
         /\ ClassOf(c) \in Wordy <=> IsDigit(c) \/ IsAlpha(c) \/ IsInvalid(c)
BY DEF Chars, ClassOf, Class, IsDigit, IsAlpha, IsInvalid, Wordy

\* The states and the letters of the paths.
LEMMA PathPlaces ==
  ASSUME NEW k \in Keywords, NEW i \in 1 .. Len(Path[k])
  PROVE  Path[k][i] \in 8 .. 13 \cup 17 .. 22 \cup 24 .. 36 /\ Letters[k][i] \in {5} \cup 21 .. 34
<1>1. Path[k] \in Seq(8 .. 13 \cup 17 .. 22 \cup 24 .. 36) /\ i \in 1 .. Len(Path[k])
  BY PathLengths
<1>2. Letters[k] \in Seq({5} \cup 21 .. 34) /\ i \in 1 .. Len(Letters[k])
  BY PathLengths
<1>3. \A S : \A s \in Seq(S) : \A j \in 1 .. Len(s) : s[j] \in S
  OBVIOUS
<1>4. Path[k][i] \in 8 .. 13 \cup 17 .. 22 \cup 24 .. 36
  BY <1>1, <1>3, Zenon
<1>5. Letters[k][i] \in {5} \cup 21 .. 34
  BY <1>2, <1>3, Zenon
<1>6. QED
  BY <1>4, <1>5, Zenon

\* A state that waits for a letter waits for the next one of its keyword.
LEMMA ExpectsFrom ==
  ASSUME NEW s \in DOMAIN Expects
  PROVE  \E k \in Keywords : \E i \in 1 .. Len(Path[k]) - 1 :
           s = Path[k][i] /\ Expects[s][1] = Letters[k][i + 1] /\ Expects[s][2] = Path[k][i + 1]
<1>0. PICK k \in Keywords : \E i \in 1 .. Len(Path[k]) - 1 : s = Path[k][i]
  BY ExpectsOnPath
<1>1. PICK i \in 1 .. Len(Path[k]) - 1 : s = Path[k][i]
  BY <1>0
<1>2. Expects[s] = <<Letters[k][i + 1], Path[k][i + 1]>>
  BY <1>1, PathForward
<1>3. QED
  BY <1>1, <1>2

\* The states before a state.
LEMMA NextBack ==
  ASSUME NEW s \in States \ {3}, NEW c \in 1 .. 34
  PROVE  LET t == NextState(s, c)
         IN  /\ t \in {5, 6} => s = 1 /\ c \in {2, 3}
             /\ t = 14 => s \in {5, 6, 14} /\ c \in {2, 3}
             /\ t = 7 => s = 1 /\ c = 6
             /\ t = 16 => s \in {7, 16} /\ c = 6
             /\ t = 15 => s \in {7, 16} /\ c \in Wordy /\ c # 6
             /\ t = 23 => s \in {15, 23} /\ c \in Wordy
             /\ t = 4 => s = 1
<1> DEFINE t == NextState(s, c)
<1>1. CASE s = 1
  <2>1. t = CASE c = 0 -> 3 [] c = 2 -> 5 [] c = 3 -> 6 [] c = 6 -> 7 [] Lower(c) = 23 -> 8 [] Lower(c) = 25 -> 9
       [] Lower(c) = 26 -> 10 [] Lower(c) = 27 -> 11 [] Lower(c) = 30 -> 12 [] Lower(c) = 32 -> 13 [] OTHER -> 4
    BY <1>1, FirstRow
  <2> HIDE DEF t
  <2>2. QED
    BY <1>1, <2>1 DEF t, Lower
<1>2. CASE s \in Stops
  <2>1. t = 37
    BY <1>2, NextStates
  <2>2. QED
    BY <2>1
<1>3. CASE s \in {5, 6, 14}
  <2>1. t = IF c \in {2, 3} THEN 14 ELSE 37
    BY <1>3, BlankRows
  <2> HIDE DEF t
  <2>2. QED
    BY <1>3, <2>1 DEF t
<1>4. CASE s \in {7, 16}
  <2>1. t = IF c = 6 THEN 16 ELSE IF c \in Wordy THEN 15 ELSE 37
    BY <1>4, DigitRows
  <2> HIDE DEF t
  <2>2. QED
    BY <1>4, <2>1 DEF t
<1>5. CASE s \in {15, 23}
  <2>1. t = IF c \in Wordy THEN 23 ELSE 37
    BY <1>5, BadRows
  <2> HIDE DEF t
  <2>2. QED
    BY <1>5, <2>1 DEF t
<1>6. CASE s \in DOMAIN Expects
  <2>1. t = IF Lower(c) = Expects[s][1] THEN Expects[s][2] ELSE 37
    BY <1>6, KeywordRows
  <2>2. Expects[s][2] \in 8 .. 13 \cup 17 .. 22 \cup 24 .. 36
    <3>0. PICK k \in Keywords : \E i \in 1 .. Len(Path[k]) - 1 :
            s = Path[k][i] /\ Expects[s][1] = Letters[k][i + 1] /\ Expects[s][2] = Path[k][i + 1]
      BY <1>6, ExpectsFrom
    <3>1. PICK i \in 1 .. Len(Path[k]) - 1 :
            s = Path[k][i] /\ Expects[s][1] = Letters[k][i + 1] /\ Expects[s][2] = Path[k][i + 1]
      BY <3>0
    <3>2. i + 1 \in 1 .. Len(Path[k])
      BY PathLengths
    <3>3. QED
      BY <3>1, <3>2, PathPlaces
  <2>3. t \in 8 .. 13 \cup 17 .. 22 \cup 24 .. 37
    BY <2>1, <2>2
  <2> HIDE DEF t
  <2>4. QED
    BY <2>3 DEF t
<1>7. QED
  BY <1>1, <1>2, <1>3, <1>4, <1>5, <1>6, StatePartition

\* The states within keywords.
PathStates == 8 .. 13 \cup 17 .. 22 \cup 24 .. 36

\* A step into a keyword is a step along its path, with its letter.
AlongPath(s, c, t) ==
  \E k \in Keywords : \E i \in 1 .. Len(Path[k]) :
    t = Path[k][i] /\ Lower(c) = Letters[k][i] /\ ((i = 1 /\ s = 1) \/ (i > 1 /\ s = Path[k][i - 1]))

\* A state of a path is reached along the path only.
LEMMA PathFrom ==
  ASSUME NEW s \in States \ {3}, NEW c \in 1 .. 34
  PROVE  NextState(s, c) \in PathStates => AlongPath(s, c, NextState(s, c))
<1> DEFINE t == NextState(s, c)
<1>1. ASSUME s = 1 PROVE t \in PathStates => AlongPath(s, c, t)
  <2>1. NextState(1, c) \in 4 .. 13
    BY FirstRow
  <2>2. t \in 4 .. 13
    BY <1>1, <2>1
  <2> HIDE DEF t
  <2>3. ASSUME t \in PathStates PROVE AlongPath(s, c, t)
    <3>1. t \in 8 .. 13
      BY <2>2, <2>3 DEF PathStates
    <3>2. PICK k \in Keywords : t = Path[k][1]
      <4>1. 4 \in Keywords /\ 5 \in Keywords /\ 6 \in Keywords /\ 7 \in Keywords /\ 8 \in Keywords /\ 9 \in Keywords
        BY DEF Keywords
      <4>2. t = 8 \/ t = 9 \/ t = 10 \/ t = 11 \/ t = 12 \/ t = 13
        BY <3>1
      <4>3. QED
        BY <4>1, <4>2, PathStarts, ZenonT(40)
    <3>3. 1 \in 1 .. Len(Path[k])
      <4> DEFINE n == Len(Path[k])
      <4>1. n \in 3 .. 5
        BY PathLengths, Zenon
      <4> HIDE DEF n
      <4>2. 1 \in 1 .. n
        BY <4>1
      <4>3. QED
        BY <4>2 DEF n
    <3>4. Lower(c) = Letters[k][1]
      <4>1. NextState(1, c) = Path[k][1]
        BY <1>1, <3>2 DEF t
      <4>2. QED
        BY <4>1, PathFirst
    <3>5. t = Path[k][1] /\ Lower(c) = Letters[k][1] /\ ((1 = 1 /\ s = 1) \/ (1 > 1 /\ s = Path[k][1 - 1]))
      BY <1>1, <3>2, <3>4
    <3>6. QED
      BY <3>3, <3>5, Zenon DEF AlongPath
  <2>4. QED
    BY <2>3
<1>2. ASSUME s \in Stops PROVE t \notin PathStates
  <2>1. t = 37
    BY <1>2, NextStates
  <2>2. QED
    BY <2>1 DEF PathStates
<1>3. ASSUME s \in {5, 6, 14} PROVE t \notin PathStates
  <2>1. t \in {14, 37}
    BY <1>3, BlankRows
  <2>2. QED
    BY <2>1 DEF PathStates
<1>4. ASSUME s \in {7, 16} PROVE t \notin PathStates
  <2>1. t \in {16, 15, 37}
    BY <1>4, DigitRows
  <2>2. QED
    BY <2>1 DEF PathStates
<1>5. ASSUME s \in {15, 23} PROVE t \notin PathStates
  <2>1. t \in {23, 37}
    BY <1>5, BadRows
  <2>2. QED
    BY <2>1 DEF PathStates
<1>6. ASSUME s \in DOMAIN Expects PROVE t \in PathStates => AlongPath(s, c, t)
  <2>1. t = IF Lower(c) = Expects[s][1] THEN Expects[s][2] ELSE 37
    BY <1>6, KeywordRows
  <2> HIDE DEF t
  <2>2. ASSUME t \in PathStates PROVE AlongPath(s, c, t)
    <3>1. Lower(c) = Expects[s][1] /\ t = Expects[s][2]
      BY <2>1, <2>2 DEF PathStates
    <3>2. PICK k \in Keywords : \E i \in 1 .. Len(Path[k]) - 1 :
            s = Path[k][i] /\ Expects[s][1] = Letters[k][i + 1] /\ Expects[s][2] = Path[k][i + 1]
      BY <1>6, ExpectsFrom
    <3>3. PICK i \in 1 .. Len(Path[k]) - 1 :
            s = Path[k][i] /\ Expects[s][1] = Letters[k][i + 1] /\ Expects[s][2] = Path[k][i + 1]
      BY <3>2
    <3>4. i + 1 \in 1 .. Len(Path[k]) /\ i + 1 > 1 /\ (i + 1) - 1 = i
      BY PathLengths
    <3>5. QED
      BY <3>1, <3>3, <3>4 DEF AlongPath
  <2>3. QED
    BY <2>2
<1> HIDE DEF t
<1>7. t \in PathStates => AlongPath(s, c, t)
  BY <1>1, <1>2, <1>3, <1>4, <1>5, <1>6, StatePartition
<1>8. QED
  BY <1>7 DEF t

\* The same, from a given place of a given path.
LEMMA PathBack ==
  ASSUME NEW s \in States \ {3}, NEW c \in 1 .. 34, NEW k \in Keywords, NEW i \in 1 .. Len(Path[k]),
         NextState(s, c) = Path[k][i]
  PROVE  /\ Lower(c) = Letters[k][i]
         /\ \/ i = 1 /\ s = 1
            \/ i > 1 /\ s = Path[k][i - 1]
<1>1. Path[k][i] \in PathStates
  BY PathPlaces DEF PathStates
<1>2. AlongPath(s, c, Path[k][i])
  BY <1>1, PathFrom
<1>3. PICK j \in Keywords : \E h \in 1 .. Len(Path[j]) :
        Path[k][i] = Path[j][h] /\ Lower(c) = Letters[j][h] /\ ((h = 1 /\ s = 1) \/ (h > 1 /\ s = Path[j][h - 1]))
  BY <1>2 DEF AlongPath
<1>4. PICK h \in 1 .. Len(Path[j]) :
        Path[k][i] = Path[j][h] /\ Lower(c) = Letters[j][h] /\ ((h = 1 /\ s = 1) \/ (h > 1 /\ s = Path[j][h - 1]))
  BY <1>3
<1>5. k = j /\ i = h
  BY <1>4, PathUnique
<1>6. QED
  BY <1>4, <1>5

-----------------------------------------------------------------------------
(* Blanks, constants, and what the states say of the text.                 *)

\* One step of a walk.
LEMMA StepFacts ==
  ASSUME NEW u \in Seq(Chars), NEW i \in 1 .. Len(u)
  PROVE  /\ u[i] \in Chars /\ ClassOf(u[i]) \in 1 .. 34 /\ i - 1 \in 0 .. Len(u) /\ Walk(u)[i - 1] \in States \ {3}
         /\ Walk(u)[i] = NextState(Walk(u)[i - 1], ClassOf(u[i])) /\ (i = 1 => Walk(u)[i - 1] = 1)
<1>1. u[i] \in Chars /\ i - 1 \in 0 .. Len(u) /\ (i = 1 => i - 1 = 0)
  OBVIOUS
<1>2. Walk(u)[i] = NextState(Walk(u)[i - 1], ClassOf(u[i])) /\ Walk(u)[0] = 1
  BY WalkFacts
<1>3. Walk(u)[i - 1] \in States \ {3}
  BY <1>1, WalkStates
<1>4. QED
  BY <1>1, <1>2, <1>3, Classes

\* The first blank or digit.
LEMMA FirstSteps == NextState(1, 2) = 5 /\ NextState(1, 3) = 6 /\ NextState(1, 6) = 7
<1>1. 2 \in 0 .. 34 /\ 3 \in 0 .. 34 /\ 6 \in 0 .. 34
  OBVIOUS
<1>2. Lower(2) = 2 /\ Lower(3) = 3 /\ Lower(6) = 6
  BY DEF Lower
<1>3. NextState(1, 2) = 5
  BY <1>1, <1>2, FirstRow
<1>4. NextState(1, 3) = 6
  BY <1>1, <1>2, FirstRow
<1>5. NextState(1, 6) = 7
  BY <1>1, <1>2, FirstRow
<1>6. QED
  BY <1>3, <1>4, <1>5

\* Blanks lead to a state of blanks.
LEMMA BlankWalk ==
  ASSUME NEW u \in Seq(Chars), NEW n \in 1 .. Len(u), \A i \in 1 .. n : u[i] \in {2, 3}
  PROVE  Walk(u)[n] \in {5, 6, 14}
<1> DEFINE T == {i \in 0 .. n : i > 0 => Walk(u)[i] \in {5, 6, 14}}
<1>1. 0 \in T
  OBVIOUS
<1>2. ASSUME NEW i \in 1 .. n, i - 1 \in T PROVE i \in T
  <2> DEFINE s == Walk(u)[i - 1]
             c == ClassOf(u[i])
  <2>1. i \in 1 .. Len(u)
    OBVIOUS
  <2>2. Walk(u)[i] = NextState(s, c) /\ (i = 1 => s = 1)
    BY <2>1, StepFacts
  <2>3. c \in {2, 3}
    BY <2>1, StepFacts, ClassKinds
  <2>4. i # 1 => s \in {5, 6, 14}
    BY <1>2
  <2> HIDE DEF s, c
  <2>5. NextState(s, c) \in {5, 6, 14}
    <3>1. CASE i = 1
      BY <2>2, <2>3, <3>1, FirstSteps
    <3>2. CASE i # 1
      <4>1. s \in {5, 6, 14} /\ c \in 0 .. 34 /\ c # 0
        BY <2>3, <2>4, <3>2
      <4>2. NextState(s, c) = IF c = 0 THEN 3 ELSE IF c \in {2, 3} THEN 14 ELSE 37
        BY <4>1, BlankRows
      <4>3. QED
        BY <2>3, <4>1, <4>2
    <3>3. QED
      BY <3>1, <3>2
  <2>6. QED
    BY <2>2, <2>5
<1> HIDE DEF T
<1>3. n \in Nat /\ n \in 0 .. n /\ n > 0
  OBVIOUS
<1>4. \A i \in 0 .. n : i \in T
  BY <1>1, <1>2, <1>3, UpToInduction
<1>5. n \in T
  BY <1>3, <1>4
<1>6. QED
  BY <1>3, <1>5 DEF T

\* Digits lead to a state of constants.
LEMMA DigitWalk ==
  ASSUME NEW u \in Seq(Chars), NEW n \in 1 .. Len(u), \A i \in 1 .. n : IsDigit(u[i])
  PROVE  Walk(u)[n] \in {7, 16}
<1> DEFINE T == {i \in 0 .. n : i > 0 => Walk(u)[i] \in {7, 16}}
<1>1. 0 \in T
  OBVIOUS
<1>2. ASSUME NEW i \in 1 .. n, i - 1 \in T PROVE i \in T
  <2> DEFINE s == Walk(u)[i - 1]
             c == ClassOf(u[i])
  <2>1. i \in 1 .. Len(u)
    OBVIOUS
  <2>2. Walk(u)[i] = NextState(s, c) /\ (i = 1 => s = 1)
    BY <2>1, StepFacts
  <2>3. c = 6
    BY <2>1, StepFacts, ClassKinds
  <2>4. i # 1 => s \in {7, 16}
    BY <1>2
  <2> HIDE DEF s, c
  <2>5. NextState(s, c) \in {7, 16}
    <3>1. CASE i = 1
      BY <2>2, <2>3, <3>1, FirstSteps
    <3>2. CASE i # 1
      <4>1. s \in {7, 16} /\ c \in 0 .. 34
        BY <2>3, <2>4, <3>2
      <4>2. NextState(s, c) = IF c = 0 THEN 3 ELSE IF c = 6 THEN 16 ELSE IF c \in Wordy THEN 15 ELSE 37
        BY <4>1, DigitRows
      <4>3. QED
        BY <2>3, <4>2
    <3>3. QED
      BY <3>1, <3>2
  <2>6. QED
    BY <2>2, <2>5
<1> HIDE DEF T
<1>3. n \in Nat /\ n \in 0 .. n /\ n > 0
  OBVIOUS
<1>4. \A i \in 0 .. n : i \in T
  BY <1>1, <1>2, <1>3, UpToInduction
<1>5. n \in T
  BY <1>3, <1>4
<1>6. QED
  BY <1>3, <1>5 DEF T

\* What spoils a constant, or goes on in a spoilt one.
WordChar(c) == IsDigit(c) \/ IsAlpha(c) \/ IsInvalid(c)

\* Digits and then word characters lead to a state of bad constants.
LEMMA BadWalk ==
  ASSUME NEW u \in Seq(Chars), NEW m \in 1 .. Len(u), NEW n \in 1 .. m - 1, \A i \in 1 .. n : IsDigit(u[i]),
         ~IsDigit(u[n + 1]), \A i \in n + 1 .. m : WordChar(u[i])
  PROVE  Walk(u)[m] \in {15, 23}
<1> DEFINE d == m - n
           T == {j \in 0 .. d : j > 0 => Walk(u)[n + j] \in {15, 23}}
<1>0. d \in Nat /\ n \in 1 .. Len(u) /\ n \in Nat /\ m \in Nat /\ Len(u) \in Nat /\ n + d = m /\ d > 0
  OBVIOUS
<1>1. 0 \in T
  BY <1>0
<1>2. ASSUME NEW j \in 1 .. d, j - 1 \in T PROVE j \in T
  <2> DEFINE i == n + j
             s == Walk(u)[i - 1]
             c == ClassOf(u[i])
  <2>1. i \in 1 .. Len(u) /\ i \in n + 1 .. m /\ i - 1 = n + (j - 1) /\ (j = 1 => i = n + 1 /\ i - 1 = n)
    BY <1>0
  <2>2. Walk(u)[i] = NextState(s, c) /\ c \in 1 .. 34
    BY <2>1, StepFacts
  <2>3. c \in Wordy /\ (j = 1 => c # 6)
    BY <2>1, StepFacts, ClassKinds DEF WordChar
  <2>4. j # 1 => s \in {15, 23}
    BY <1>2, <2>1
  <2>5. j = 1 => s \in {7, 16}
    BY <1>0, <2>1, DigitWalk
  <2> HIDE DEF s, c
  <2>6. NextState(s, c) \in {15, 23}
    <3>1. CASE j = 1
      <4>1. s \in {7, 16} /\ c \in 0 .. 34 /\ c # 0 /\ c # 6
        BY <2>2, <2>3, <2>5, <3>1
      <4>2. NextState(s, c) = IF c = 0 THEN 3 ELSE IF c = 6 THEN 16 ELSE IF c \in Wordy THEN 15 ELSE 37
        BY <4>1, DigitRows
      <4>3. QED
        BY <2>3, <4>1, <4>2
    <3>2. CASE j # 1
      <4>1. s \in {15, 23} /\ c \in 0 .. 34 /\ c # 0
        BY <2>2, <2>4, <3>2
      <4>2. NextState(s, c) = IF c = 0 THEN 3 ELSE IF c \in Wordy THEN 23 ELSE 37
        BY <4>1, BadRows
      <4>3. QED
        BY <2>3, <4>1, <4>2
    <3>3. QED
      BY <3>1, <3>2
  <2>7. QED
    BY <2>2, <2>6
<1> HIDE DEF T
<1>3. \A j \in 0 .. d : j \in T
  <2> HIDE DEF d
  <2>1. QED
    BY <1>0, <1>1, <1>2, UpToInduction
<1>4. d \in T
  BY <1>0, <1>3
<1>5. QED
  BY <1>0, <1>4 DEF T

\* The letters of a keyword lead to the end of its path.
LEMMA KeywordWalk ==
  ASSUME NEW u \in Seq(Chars), NEW k \in Keywords, Len(Path[k]) <= Len(u),
         \A i \in 1 .. Len(Path[k]) : Lower(u[i]) = Letters[k][i]
  PROVE  Walk(u)[Len(Path[k])] = Path[k][Len(Path[k])]
<1> DEFINE n == Len(Path[k])
           T == {i \in 0 .. n : i > 0 => Walk(u)[i] = Path[k][i]}
<1>0. n \in 3 .. 5
  BY PathLengths
<1>1. 0 \in T
  BY <1>0
<1>2. ASSUME NEW i \in 1 .. n, i - 1 \in T PROVE i \in T
  <2> DEFINE s == Walk(u)[i - 1]
             c == ClassOf(u[i])
  <2>1. i \in 1 .. Len(u)
    BY <1>0
  <2>2. Walk(u)[i] = NextState(s, c) /\ (i = 1 => s = 1) /\ c \in 1 .. 34 /\ u[i] \in Chars
    BY <2>1, StepFacts
  <2>3. Lower(c) = Letters[k][i]
    <3>1. Letters[k][i] \in {5} \cup 21 .. 34
      BY PathPlaces
    <3>2. Lower(u[i]) = Letters[k][i]
      OBVIOUS
    <3>3. QED
      BY <2>2, <3>1, <3>2, LowerClass
  <2>4. i # 1 => i - 1 \in 1 .. n - 1 /\ s = Path[k][i - 1] /\ (i - 1) + 1 = i
    BY <1>0, <1>2
  <2> HIDE DEF s, c
  <2>5. NextState(s, c) = Path[k][i]
    <3>1. CASE i = 1
      <4>1. Lower(c) = Letters[k][1]
        BY <2>3, <3>1
      <4>2. NextState(1, c) = Path[k][1]
        BY <2>2, <4>1, PathFirst
      <4>3. QED
        BY <2>2, <3>1, <4>2
    <3>2. CASE i # 1
      <4>1. s \in DOMAIN Expects /\ Expects[s] = <<Letters[k][i], Path[k][i]>>
        BY <2>4, <3>2, PathForward
      <4>2. Expects[s][1] = Letters[k][i] /\ Expects[s][2] = Path[k][i]
        BY <4>1
      <4>3. NextState(s, c) = IF c = 0 THEN 3 ELSE IF Lower(c) = Expects[s][1] THEN Expects[s][2] ELSE 37
        <5>1. c \in 0 .. 34
          BY <2>2
        <5>2. QED
          BY <4>1, <5>1, KeywordRows
      <4>4. c # 0
        BY <2>2
      <4>5. QED
        BY <2>3, <4>2, <4>3, <4>4
    <3>3. QED
      BY <3>1, <3>2
  <2>6. QED
    BY <2>2, <2>5
<1> HIDE DEF T
<1>3. \A i \in 0 .. n : i \in T
  <2> HIDE DEF n
  <2>1. n \in Nat
    BY <1>0
  <2>2. QED
    BY <1>1, <1>2, <2>1, UpToInduction
<1>4. n \in T /\ n > 0
  <2> HIDE DEF n
  <2>1. n \in 0 .. n /\ n > 0
    BY <1>0
  <2>2. QED
    BY <1>3, <2>1
<1>5. Walk(u)[n] = Path[k][n]
  <2> HIDE DEF n
  <2>1. QED
    BY <1>4 DEF T
<1>6. QED
  BY <1>5

\* What the text is like that leads to a state.
Spelt(s, u, m) ==
  /\ s \in {5, 6, 14} => \A i \in 1 .. m : u[i] \in {2, 3}
  /\ s \in {7, 16} => \A i \in 1 .. m : IsDigit(u[i])
  /\ s \in {15, 23} => \E n \in 1 .. m - 1 : /\ \A i \in 1 .. n : IsDigit(u[i])
                                             /\ ~IsDigit(u[n + 1]) /\ \A i \in n + 1 .. m : WordChar(u[i])
  /\ \A k \in Keywords : \A i \in 1 .. Len(Path[k]) :
       s = Path[k][i] => m = i /\ \A j \in 1 .. i : Lower(u[j]) = Letters[k][j]
  /\ s = 4 => m = 1

\* The next character of a walk keeps what its state says of the text.
LEMMA SpeltStep ==
  ASSUME NEW u \in Seq(Chars), NEW m \in 1 .. Len(u), m > 1 => Spelt(Walk(u)[m - 1], u, m - 1)
  PROVE  Spelt(Walk(u)[m], u, m)
<1> DEFINE s == Walk(u)[m - 1]
           c == ClassOf(u[m])
           t == Walk(u)[m]
<1>1. t = NextState(s, c) /\ (m = 1 => s = 1) /\ c \in 1 .. 34 /\ u[m] \in Chars /\ s \in States \ {3}
  BY StepFacts
<1>2. s = 1 => m = 1
  <2>1. ASSUME m > 1 PROVE s # 1
    <3>1. m - 1 \in 1 .. Len(u)
      BY <2>1
    <3>2. s \in 4 .. 37
      BY <3>1, WalkStates
    <3> HIDE DEF s
    <3>3. QED
      BY <3>2
  <2>2. QED
    BY <2>1
<1>3. /\ c \in {2, 3} <=> u[m] \in {2, 3}
      /\ c = 6 <=> IsDigit(u[m])
      /\ c \in Wordy <=> WordChar(u[m])
  BY <1>1, ClassKinds DEF WordChar
<1>4. m > 1 => Spelt(s, u, m - 1)
  OBVIOUS
<1>5. Len(u) \in Nat /\ m \in Nat /\ \A i \in 1 .. m : i = m \/ (m > 1 /\ i \in 1 .. m - 1)
  OBVIOUS
<1> HIDE DEF s, c, t
<1>6. /\ t \in {5, 6} => s = 1 /\ c \in {2, 3}
      /\ t = 14 => s \in {5, 6, 14} /\ c \in {2, 3}
      /\ t = 7 => s = 1 /\ c = 6
      /\ t = 16 => s \in {7, 16} /\ c = 6
      /\ t = 15 => s \in {7, 16} /\ c \in Wordy /\ c # 6
      /\ t = 23 => s \in {15, 23} /\ c \in Wordy
      /\ t = 4 => s = 1
  BY <1>1, NextBack, ZenonT(60)
<1>7. s # 1 => m > 1
  BY <1>1, <1>5
<1>8. ASSUME t \in {5, 6, 14} PROVE \A i \in 1 .. m : u[i] \in {2, 3}
  <2>1. u[m] \in {2, 3} /\ (m > 1 => s \in {5, 6, 14})
    BY <1>2, <1>3, <1>6, <1>8
  <2>2. m > 1 => \A i \in 1 .. m - 1 : u[i] \in {2, 3}
    BY <1>4, <2>1 DEF Spelt
  <2>3. QED
    BY <1>5, <2>1, <2>2
<1>9. ASSUME t \in {7, 16} PROVE \A i \in 1 .. m : IsDigit(u[i])
  <2>1. IsDigit(u[m]) /\ (m > 1 => s \in {7, 16})
    BY <1>2, <1>3, <1>6, <1>9
  <2>2. m > 1 => \A i \in 1 .. m - 1 : IsDigit(u[i])
    BY <1>4, <2>1 DEF Spelt
  <2>3. QED
    BY <1>5, <2>1, <2>2
<1>10. ASSUME t = 15 PROVE \E n \in 1 .. m - 1 : /\ \A i \in 1 .. n : IsDigit(u[i])
                                                 /\ ~IsDigit(u[n + 1]) /\ \A i \in n + 1 .. m : WordChar(u[i])
  <2>1. WordChar(u[m]) /\ ~IsDigit(u[m]) /\ s \in {7, 16} /\ m > 1
    BY <1>3, <1>6, <1>7, <1>10
  <2>2. \A i \in 1 .. m - 1 : IsDigit(u[i])
    BY <1>4, <2>1 DEF Spelt
  <2>3. m - 1 \in 1 .. m - 1 /\ (m - 1) + 1 = m /\ \A i \in (m - 1) + 1 .. m : i = m
    BY <1>5, <2>1
  <2>4. QED
    BY <2>1, <2>2, <2>3
<1>11. ASSUME t = 23 PROVE \E n \in 1 .. m - 1 : /\ \A i \in 1 .. n : IsDigit(u[i])
                                                 /\ ~IsDigit(u[n + 1]) /\ \A i \in n + 1 .. m : WordChar(u[i])
  <2>1. WordChar(u[m]) /\ s \in {15, 23} /\ m > 1
    BY <1>3, <1>6, <1>7, <1>11
  <2>2. PICK n \in 1 .. (m - 1) - 1 : /\ \A i \in 1 .. n : IsDigit(u[i])
                                      /\ ~IsDigit(u[n + 1]) /\ \A i \in n + 1 .. m - 1 : WordChar(u[i])
    BY <1>4, <2>1 DEF Spelt
  <2>3. n \in 1 .. m - 1 /\ \A i \in n + 1 .. m : i = m \/ i \in n + 1 .. m - 1
    BY <1>5
  <2>4. QED
    BY <2>1, <2>2, <2>3
<1>12. ASSUME NEW k \in Keywords, NEW i \in 1 .. Len(Path[k]), t = Path[k][i]
       PROVE  m = i /\ \A j \in 1 .. i : Lower(u[j]) = Letters[k][j]
  <2>1. Lower(c) = Letters[k][i] /\ ((i = 1 /\ s = 1) \/ (i > 1 /\ s = Path[k][i - 1]))
    <3>1. NextState(s, c) = Path[k][i]
      BY <1>1, <1>12
    <3>2. s \in States \ {3} /\ c \in 1 .. 34
      BY <1>1
    <3>3. QED
      BY <3>1, <3>2, PathBack, ZenonT(60)
  <2>2. Len(Path[k]) \in Nat /\ i \in Nat
    BY PathLengths
  <2>3. Lower(u[m]) = Letters[k][i]
    <3>1. Letters[k][i] \in {5} \cup 21 .. 34
      BY PathPlaces
    <3>2. QED
      BY <1>1, <2>1, <3>1, LowerClass DEF c
  <2>4. CASE i = 1 /\ s = 1
    <3>1. m = 1 /\ i = 1
      BY <1>2, <2>4
    <3>2. QED
      BY <2>3, <3>1
  <2>5. CASE i > 1 /\ s = Path[k][i - 1]
    <3>1. i - 1 \in 1 .. Len(Path[k])
      BY <2>2, <2>5
    <3>2. s # 1
      <4>1. Path[k][i - 1] \in 8 .. 13 \cup 17 .. 22 \cup 24 .. 36
        BY <3>1, PathPlaces
      <4>2. s \in 8 .. 13 \cup 17 .. 22 \cup 24 .. 36
        BY <2>5, <4>1
      <4>3. QED
        BY <4>2
    <3>3. m - 1 = i - 1 /\ \A j \in 1 .. i - 1 : Lower(u[j]) = Letters[k][j]
      BY <1>4, <1>7, <2>5, <3>1, <3>2 DEF Spelt
    <3>4. m = i /\ \A j \in 1 .. i : j = i \/ j \in 1 .. i - 1
      BY <1>5, <2>2, <3>3
    <3>5. QED
      BY <2>3, <3>3, <3>4
  <2>6. QED
    BY <2>1, <2>4, <2>5
<1>13. t = 4 => m = 1
  BY <1>2, <1>6
<1>14. Spelt(t, u, m)
  BY <1>8, <1>9, <1>10, <1>11, <1>12, <1>13 DEF Spelt
<1>15. QED
  BY <1>14 DEF t

\* The state of a walk says what the text is like.
LEMMA SpeltAlways ==
  ASSUME NEW u \in Seq(Chars), NEW m \in 1 .. Len(u)
  PROVE  Spelt(Walk(u)[m], u, m)
<1> DEFINE T == {i \in 0 .. m : i > 0 => Spelt(Walk(u)[i], u, i)}
<1>1. 0 \in T
  OBVIOUS
<1>2. ASSUME NEW i \in 1 .. m, i - 1 \in T PROVE i \in T
  <2>1. i \in 1 .. Len(u) /\ (i > 1 => Spelt(Walk(u)[i - 1], u, i - 1))
    BY <1>2
  <2>2. Spelt(Walk(u)[i], u, i)
    BY <2>1, SpeltStep
  <2>3. QED
    BY <2>2
<1> HIDE DEF T
<1>3. m \in Nat /\ m \in 0 .. m /\ m > 0
  OBVIOUS
<1>4. \A i \in 0 .. m : i \in T
  BY <1>1, <1>2, <1>3, UpToInduction
<1>5. m \in T
  BY <1>3, <1>4
<1>6. QED
  BY <1>3, <1>5 DEF T

-----------------------------------------------------------------------------
(* The actions.                                                            *)

\* The first k characters of u spell the keyword j.
Spells(u, k, j) == k = Len(Path[j]) /\ \A i \in 1 .. k : Lower(u[i]) = Letters[j][i]

\* The end of a keyword's path accepts the token of the keyword,
LEMMA KeywordEnds ==
  ASSUME NEW j \in Keywords
  PROVE  LET s == Path[j][Len(Path[j])] IN s \in States /\ yy_accept[s + 1] \in 1 .. 6 /\ TokenOf(yy_accept[s + 1]) = j
<1>1. /\ yy_accept[31 + 1] = 6 /\ yy_accept[35 + 1] = 1 /\ yy_accept[33 + 1] = 3 /\ yy_accept[26 + 1] = 2
      /\ yy_accept[36 + 1] = 5 /\ yy_accept[30 + 1] = 4
  BY DEF yy_accept
<1>2. /\ TokenOf(6) = 4 /\ TokenOf(1) = 5 /\ TokenOf(3) = 6 /\ TokenOf(2) = 7 /\ TokenOf(5) = 8 /\ TokenOf(4) = 9
  BY DEF TokenOf, EXIT, NO_OP, READ, IO, WRITE, COPY
<1>3. 31 \in States /\ 35 \in States /\ 33 \in States /\ 26 \in States /\ 36 \in States /\ 30 \in States
  BY DEF States
<1>4. CASE j = 4
  BY <1>1, <1>2, <1>3, <1>4, PathIs
<1>5. CASE j = 5
  BY <1>1, <1>2, <1>3, <1>5, PathIs
<1>6. CASE j = 6
  BY <1>1, <1>2, <1>3, <1>6, PathIs
<1>7. CASE j = 7
  BY <1>1, <1>2, <1>3, <1>7, PathIs
<1>8. CASE j = 8
  BY <1>1, <1>2, <1>3, <1>8, PathIs
<1>9. CASE j = 9
  BY <1>1, <1>2, <1>3, <1>9, PathIs
<1>10. QED
  BY <1>4, <1>5, <1>6, <1>7, <1>8, <1>9 DEF Keywords

\* and no other state does.
LEMMA KeywordActions ==
  ASSUME NEW s \in 4 .. 37, yy_accept[s + 1] \in 1 .. 6
  PROVE  TokenOf(yy_accept[s + 1]) \in Keywords /\ s = Path[TokenOf(yy_accept[s + 1])][Len(Path[TokenOf(yy_accept[s + 1])])]
<1>1. s \in {26, 30, 31, 33, 35, 36}
  BY DEF yy_accept
<1>2. /\ yy_accept[31 + 1] = 6 /\ yy_accept[35 + 1] = 1 /\ yy_accept[33 + 1] = 3 /\ yy_accept[26 + 1] = 2
      /\ yy_accept[36 + 1] = 5 /\ yy_accept[30 + 1] = 4
  BY DEF yy_accept
<1>3. /\ TokenOf(6) = 4 /\ TokenOf(1) = 5 /\ TokenOf(3) = 6 /\ TokenOf(2) = 7 /\ TokenOf(5) = 8 /\ TokenOf(4) = 9
  BY DEF TokenOf, EXIT, NO_OP, READ, IO, WRITE, COPY
<1>4. CASE s = 26
  <2>1. TokenOf(yy_accept[s + 1]) = 7
    BY <1>2, <1>3, <1>4
  <2>2. 7 \in Keywords /\ Path[7][Len(Path[7])] = 26
    BY PathIs DEF Keywords
  <2>3. QED
    BY <1>4, <2>1, <2>2
<1>5. CASE s = 30
  <2>1. TokenOf(yy_accept[s + 1]) = 9
    BY <1>2, <1>3, <1>5
  <2>2. 9 \in Keywords /\ Path[9][Len(Path[9])] = 30
    BY PathIs DEF Keywords
  <2>3. QED
    BY <1>5, <2>1, <2>2
<1>6. CASE s = 31
  <2>1. TokenOf(yy_accept[s + 1]) = 4
    BY <1>2, <1>3, <1>6
  <2>2. 4 \in Keywords /\ Path[4][Len(Path[4])] = 31
    BY PathIs DEF Keywords
  <2>3. QED
    BY <1>6, <2>1, <2>2
<1>7. CASE s = 33
  <2>1. TokenOf(yy_accept[s + 1]) = 6
    BY <1>2, <1>3, <1>7
  <2>2. 6 \in Keywords /\ Path[6][Len(Path[6])] = 33
    BY PathIs DEF Keywords
  <2>3. QED
    BY <1>7, <2>1, <2>2
<1>8. CASE s = 35
  <2>1. TokenOf(yy_accept[s + 1]) = 5
    BY <1>2, <1>3, <1>8
  <2>2. 5 \in Keywords /\ Path[5][Len(Path[5])] = 35
    BY PathIs DEF Keywords
  <2>3. QED
    BY <1>8, <2>1, <2>2
<1>9. CASE s = 36
  <2>1. TokenOf(yy_accept[s + 1]) = 8
    BY <1>2, <1>3, <1>9
  <2>2. 8 \in Keywords /\ Path[8][Len(Path[8])] = 36
    BY PathIs DEF Keywords
  <2>3. QED
    BY <1>9, <2>1, <2>2
<1>10. QED
  BY <1>1, <1>4, <1>5, <1>6, <1>7, <1>8, <1>9

\* The first characters of a text.
LEMMA PrefixIs ==
  ASSUME NEW u \in Seq(Chars), NEW k \in 1 .. Len(u)
  PROVE  LET p == SubSeq(u, 1, k)
         IN  p \in Seq(Chars) /\ Len(p) = k /\ DOMAIN p = 1 .. k /\ \A i \in 1 .. k : p[i] = u[i]
OBVIOUS

\* The first characters are a keyword, by its letters.
LEMMA KeywordOf ==
  ASSUME NEW u \in Seq(Chars), NEW k \in 1 .. Len(u), NEW j \in Keywords
  PROVE  j \in Keyword(SubSeq(u, 1, k)) <=> Spells(u, k, j)
<1> DEFINE p == SubSeq(u, 1, k)
           w == Letters[j]
           n == Len(Path[j])
<1>1. DOMAIN p = 1 .. k /\ \A i \in 1 .. k : p[i] = u[i]
  BY PrefixIs
<1>2. w \in Seq({5} \cup 21 .. 34) /\ Len(w) = n /\ n \in Nat
  BY PathLengths
<1>3. j \in Keyword(p) <=> w = [i \in DOMAIN p |-> Lower(p[i])]
  BY SpellingIs DEF Keyword, Letters
<1> HIDE DEF p, w, n
<1>4. [i \in DOMAIN p |-> Lower(p[i])] = [i \in 1 .. k |-> Lower(u[i])]
  BY <1>1
<1>5. DOMAIN w = 1 .. n /\ w = [i \in 1 .. n |-> w[i]]
  BY <1>2
<1>6. w = [i \in 1 .. k |-> Lower(u[i])] <=> k = n /\ \A i \in 1 .. k : Lower(u[i]) = w[i]
  <2>1. ASSUME w = [i \in 1 .. k |-> Lower(u[i])] PROVE k = n /\ \A i \in 1 .. k : Lower(u[i]) = w[i]
    <3>1. DOMAIN w = 1 .. k /\ \A i \in 1 .. k : Lower(u[i]) = w[i]
      BY <2>1
    <3>2. 1 .. k = 1 .. n /\ k \in Nat /\ k >= 1
      BY <1>5, <3>1
    <3>3. k = n
      <4>0. k \in 1 .. k
        BY <3>2
      <4>1. k \in 1 .. n
        BY <3>2, <4>0, Zenon
      <4>2. n \in 1 .. k
        <5>1. n \in 1 .. n
          BY <1>2, <4>1
        <5>2. QED
          BY <3>2, <5>1
      <4>3. QED
        BY <1>2, <4>1, <4>2
    <3>4. QED
      BY <3>1, <3>3
  <2>2. ASSUME k = n, \A i \in 1 .. k : Lower(u[i]) = w[i] PROVE w = [i \in 1 .. k |-> Lower(u[i])]
    BY <1>5, <2>2
  <2>3. QED
    BY <2>1, <2>2
<1>7. QED
  BY <1>3, <1>4, <1>6 DEF Spells, p, w, n

\* Only keywords are keywords.
LEMMA KeywordIn == ASSUME NEW p PROVE Keyword(p) \subseteq Keywords
BY KeywordIs, SpellingIs DEF Keyword, Letters

\* BadConstant of the first k characters.
Bad(u, k) == \E n \in 1 .. k - 1 : /\ \A i \in 1 .. n : IsDigit(u[i])
                                   /\ ~IsDigit(u[n + 1]) /\ \A i \in n + 1 .. k : WordChar(u[i])

\* What the first characters are, character by character.
LEMMA PrefixKinds ==
  ASSUME NEW u \in Seq(Chars), NEW k \in 1 .. Len(u)
  PROVE  LET p == SubSeq(u, 1, k)
         IN  /\ Blank(p) <=> \A i \in 1 .. k : u[i] \in {2, 3}
             /\ Constant(p) <=> \A i \in 1 .. k : IsDigit(u[i])
             /\ BadConstant(p) <=> Bad(u, k)
             /\ Len(p) = k
<1> DEFINE p == SubSeq(u, 1, k)
<1>1. Len(p) = k /\ DOMAIN p = 1 .. k /\ \A i \in 1 .. k : p[i] = u[i]
  BY PrefixIs
<1> HIDE DEF p
<1>2. Blank(p) <=> \A i \in 1 .. k : u[i] \in {2, 3}
  BY <1>1 DEF Blank
<1>3. Constant(p) <=> \A i \in 1 .. k : IsDigit(u[i])
  BY <1>1 DEF Constant
<1>4. ASSUME NEW n \in 1 .. k - 1
      PROVE  /\ (\A i \in 1 .. n : IsDigit(p[i])) <=> \A i \in 1 .. n : IsDigit(u[i])
             /\ IsDigit(p[n + 1]) <=> IsDigit(u[n + 1])
             /\ (\A i \in n + 1 .. k : IsDigit(p[i]) \/ IsAlpha(p[i]) \/ IsInvalid(p[i]))
                  <=> \A i \in n + 1 .. k : WordChar(u[i])
  <2>1. n + 1 \in 1 .. k /\ (\A i \in 1 .. n : i \in 1 .. k) /\ \A i \in n + 1 .. k : i \in 1 .. k
    OBVIOUS
  <2>2. QED
    BY <1>1, <2>1 DEF WordChar
<1>5. BadConstant(p) <=> Bad(u, k)
  BY <1>1, <1>4 DEF BadConstant, Bad
<1>6. QED
  BY <1>1, <1>2, <1>3, <1>5 DEF p

\* A text that spells a keyword leads to the end of its path.
LEMMA SpellsEnd ==
  ASSUME NEW u \in Seq(Chars), NEW k \in 1 .. Len(u), NEW j \in Keywords, Spells(u, k, j)
  PROVE  Walk(u)[k] = Path[j][Len(Path[j])]
<1>1. k = Len(Path[j]) /\ \A i \in 1 .. Len(Path[j]) : Lower(u[i]) = Letters[j][i]
  BY DEF Spells
<1>2. Len(Path[j]) <= Len(u)
  BY <1>1
<1>3. QED
  BY <1>1, <1>2, KeywordWalk

\* What the states tell of the text that leads to them.
LEMMA LexemeStates ==
  ASSUME NEW u \in Seq(Chars), NEW k \in 1 .. Len(u)
  PROVE  LET s == Walk(u)[k]
         IN  /\ (\A i \in 1 .. k : u[i] \in {2, 3}) <=> s \in {5, 6, 14}
             /\ (\A i \in 1 .. k : IsDigit(u[i])) <=> s \in {7, 16}
             /\ Bad(u, k) <=> s \in {15, 23}
             /\ \A j \in Keywords : Spells(u, k, j) <=> s = Path[j][Len(Path[j])]
             /\ s \in {4} \cup 8 .. 13 => k = 1
<1> DEFINE s == Walk(u)[k]
<1>1. Spelt(s, u, k)
  BY SpeltAlways
<1>2. (\A i \in 1 .. k : u[i] \in {2, 3}) <=> s \in {5, 6, 14}
  BY <1>1, BlankWalk DEF Spelt
<1>3. (\A i \in 1 .. k : IsDigit(u[i])) <=> s \in {7, 16}
  BY <1>1, DigitWalk DEF Spelt
<1>4. Bad(u, k) <=> s \in {15, 23}
  <2>1. ASSUME Bad(u, k) PROVE s \in {15, 23}
    <3>1. PICK n \in 1 .. k - 1 : /\ \A i \in 1 .. n : IsDigit(u[i])
                                  /\ ~IsDigit(u[n + 1]) /\ \A i \in n + 1 .. k : WordChar(u[i])
      BY <2>1 DEF Bad
    <3>2. QED
      BY <3>1, BadWalk
  <2>2. ASSUME s \in {15, 23} PROVE Bad(u, k)
    BY <1>1, <2>2 DEF Spelt, Bad
  <2>3. QED
    BY <2>1, <2>2
<1>5. ASSUME NEW j \in Keywords PROVE Spells(u, k, j) <=> s = Path[j][Len(Path[j])]
  <2>1. ASSUME s = Path[j][Len(Path[j])] PROVE Spells(u, k, j)
    <3> DEFINE n == Len(Path[j])
    <3>1. n \in 3 .. 5
      BY PathLengths
    <3>2. n \in 1 .. n
      <4> HIDE DEF n
      <4>1. QED
        BY <3>1
    <3>3. k = n /\ \A i \in 1 .. n : Lower(u[i]) = Letters[j][i]
      BY <1>1, <2>1, <3>2 DEF Spelt
    <3>4. QED
      BY <3>3 DEF Spells
  <2>2. QED
    BY <2>1, SpellsEnd
<1>6. s \in {4} \cup 8 .. 13 => k = 1
  <2>1. s = 4 => k = 1
    BY <1>1 DEF Spelt
  <2>2. ASSUME s \in 8 .. 13 PROVE k = 1
    <3> HIDE DEF s
    <3>1. s \in {8, 9, 10, 11, 12, 13} /\ 4 \in Keywords /\ 5 \in Keywords /\ 6 \in Keywords /\ 7 \in Keywords
          /\ 8 \in Keywords /\ 9 \in Keywords
      BY <2>2 DEF Keywords
    <3>5. \E j \in Keywords : s = Path[j][1]
      BY <3>1, PathStarts, ZenonT(40)
    <3>4. PICK j \in Keywords : s = Path[j][1]
      BY <3>5
    <3>2. 1 \in 1 .. Len(Path[j])
      <4> DEFINE n == Len(Path[j])
      <4>1. n \in 3 .. 5
        BY PathLengths
      <4> HIDE DEF n
      <4>2. 1 \in 1 .. n
        BY <4>1
      <4>3. QED
        BY <4>2 DEF n
    <3>3. QED
      BY <1>1, <3>4, <3>2 DEF Spelt
  <2>3. QED
    BY <2>1, <2>2
<1>7. QED
  BY <1>2, <1>3, <1>4, <1>5, <1>6

\* The packed automaton of scanner.c accepts exactly the lexemes of console.l, and
\* with the action of the right pattern.
LEMMA LexemeActions ==
  ASSUME NEW u \in Seq(Chars), NEW k \in 1 .. Len(u)
  PROVE  LET a == yy_accept[Walk(u)[k] + 1]
             p == SubSeq(u, 1, k)
         IN  /\ a # 0 <=> Lexeme(p)
             /\ a # 0 => RightAction(a, p)
<1> DEFINE s == Walk(u)[k]
           a == yy_accept[s + 1]
           p == SubSeq(u, 1, k)
           key == \E j \in Keywords : s = Path[j][Len(Path[j])]
<1>1. s \in 4 .. 37 /\ s \in States
  BY WalkStates DEF States
<1>2. /\ Blank(p) <=> s \in {5, 6, 14}
      /\ Constant(p) <=> s \in {7, 16}
      /\ BadConstant(p) <=> s \in {15, 23}
      /\ Len(p) = k
  BY LexemeStates, PrefixKinds
<1>3. \A j \in Keywords : j \in Keyword(p) <=> s = Path[j][Len(Path[j])]
  BY LexemeStates, KeywordOf
<1>4. Keyword(p) # {} <=> key
  BY <1>3, KeywordIn
<1>5. s \in {4} \cup 8 .. 13 => k = 1
  BY LexemeStates
<1>6. /\ a = 7 <=> s \in {5, 6, 14}
      /\ a = 8 <=> s \in {7, 16}
      /\ a = 9 <=> s \in {15, 23}
      /\ a = 10 <=> s \in {4} \cup 8 .. 13
      /\ a \in 0 .. 10
  <2> HIDE DEF s
  <2>1. a \in 0 .. 10 \cup {12} /\ (a = 12 <=> s = 3) /\ s # 3
    BY <1>1, Accepting
  <2>2. QED
    BY <1>1, <2>1, Accepting
<1>7. a \in 1 .. 6 <=> key
  <2>1. ASSUME a \in 1 .. 6 PROVE key
    BY <1>1, <2>1, KeywordActions
  <2>2. ASSUME key PROVE a \in 1 .. 6
    BY <2>2, KeywordEnds
  <2>3. QED
    BY <2>1, <2>2
<1>8. a \in 1 .. 6 => TokenOf(a) \in Keyword(p)
  BY <1>1, <1>3, KeywordActions
<1>9. k = 1 => a # 0
  BY WalkStarts DEF Accepts
<1> HIDE DEF s, a, p, key
<1>10. a # 0 <=> Lexeme(p)
  <2>1. a # 0 => Lexeme(p)
    BY <1>2, <1>4, <1>5, <1>6, <1>7 DEF Lexeme
  <2>2. Lexeme(p) => a # 0
    BY <1>2, <1>4, <1>6, <1>7, <1>9 DEF Lexeme
  <2>3. QED
    BY <2>1, <2>2
<1>11. RightAction(a, p)
  BY <1>2, <1>4, <1>6, <1>7, <1>8 DEF RightAction
<1>12. QED
  BY <1>10, <1>11 DEF s, a, p

\* The invariant of the scanner implies that each action is that of the longest match.
LEMMA LongestIsLexeme ==
  ASSUME lex \in Lexers, Longest(lex)
  PROVE  LET n == lex.cp - lex.text
             Starts(k) == SubSeq(Unread(lex), 1, k)
         IN  /\ n \in 1 .. Len(Unread(lex)) /\ YyText = Starts(n)
             /\ Lexeme(Starts(n)) /\ \A k \in n + 1 .. Len(Unread(lex)) : ~Lexeme(Starts(k))
             /\ RightAction(Action(lex), Starts(n))
<1> DEFINE u == Unread(lex)
           b == lex.buf
           t == lex.text
           n == lex.cp - t
<1>0. b \in Seq(Chars) /\ t \in Nat /\ lex.cp \in Nat /\ Len(b) \in Nat /\ lex.rest \in Seq(Chars)
  BY DEF Lexers
<1>1. /\ n \in 1 .. Len(b) - t /\ lex.state = Walk(u)[n] /\ Accepts(u, n)
      /\ \A k \in n + 1 .. Len(u) : ~Accepts(u, k)
  BY DEF Longest
<1>2. t <= Len(b)
  BY <1>0, <1>1
<1>3. /\ u \in Seq(Chars) /\ Len(u) = (Len(b) - t) + Len(lex.rest)
      /\ \A i \in t .. Len(b) - 1 : u[i - t + 1] = CharAt(lex, i)
  BY <1>2, UnreadFacts
<1>4. Len(lex.rest) \in Nat /\ n \in 1 .. Len(u)
  BY <1>0, <1>1, <1>3
<1>5. YyText = SubSeq(u, 1, n)
  <2> DEFINE y == SubSeq(b, t + 1, lex.cp)
             v == SubSeq(u, 1, n)
  <2>1. Len(y) = n /\ y \in Seq(Chars) /\ \A i \in 1 .. n : y[i] = b[t + i]
    <3> DEFINE cp == lex.cp
    <3>1. t + 1 \in 1 .. Len(b) + 1 /\ cp \in t .. Len(b) /\ n = cp - t
      BY <1>0, <1>1
    <3> HIDE DEF cp, t, b, n
    <3>2. Len(SubSeq(b, t + 1, cp)) = n /\ SubSeq(b, t + 1, cp) \in Seq(Chars)
          /\ \A i \in 1 .. n : SubSeq(b, t + 1, cp)[i] = b[t + i]
      BY <1>0, <3>1
    <3>3. QED
      BY <3>2 DEF cp
  <2>2. Len(v) = n /\ v \in Seq(Chars) /\ \A i \in 1 .. n : v[i] = u[i]
    BY <1>3, <1>4, PrefixIs
  <2>3. ASSUME NEW i \in 1 .. n PROVE u[i] = b[t + i]
    <3> DEFINE h == t + i - 1
    <3>1. h \in t .. Len(b) - 1 /\ h - t + 1 = i /\ h < Len(b) /\ h + 1 = t + i
      <4>1. n \in 1 .. Len(b) - t
        BY <1>1
      <4> HIDE DEF n, t, b
      <4>2. QED
        BY <1>0, <4>1
    <3>2. u[i] = CharAt(lex, h)
      <4> HIDE DEF h, u
      <4>1. QED
        BY <1>3, <3>1
    <3>3. CharAt(lex, h) = b[t + i]
      BY <3>1 DEF CharAt
    <3>4. QED
      BY <3>2, <3>3
  <2> HIDE DEF y, v
  <2>4. y = v
    BY <2>1, <2>2, <2>3, SameSequence
  <2>5. QED
    BY <2>4 DEF y, v, YyText
<1> HIDE DEF u, n
<1>6. ASSUME NEW k \in n + 1 .. Len(u) PROVE ~Lexeme(SubSeq(u, 1, k))
  <2>1. k \in 1 .. Len(u)
    BY <1>3, <1>4
  <2>2. QED
    BY <1>1, <1>3, <2>1, LexemeActions DEF Accepts
<1>7. Lexeme(SubSeq(u, 1, n)) /\ RightAction(Action(lex), SubSeq(u, 1, n))
  BY <1>1, <1>3, <1>4, LexemeActions DEF Accepts, Action
<1>8. QED
  BY <1>4, <1>5, <1>6, <1>7 DEF u, n

\* For every text and every size of the buffer: yylex acts on the longest lexeme
\* of console.l that the unread part of the file starts with, and takes the action
\* of its pattern.  The invariant says that the automaton, whenever it stops, is in
\* the state of its walk over the unread text, however often the buffer was refilled.
THEOREM LongestMatchAlways == Spec => []LongestMatch
<1>1. ASSUME ScannerInv PROVE LongestMatch
  <2>1. SUFFICES ASSUME lex.pc = "act", Action(lex) # 12 PROVE LongestMatch
    BY DEF LongestMatch
  <2>2. lex \in Lexers /\ (Longest(lex) \/ AtNul(lex))
    BY <1>1, <2>1 DEF ScannerInv, Scanning, Sound
  <2>3. ~AtNul(lex)
    <3>1. yy_accept[3 + 1] = 12
      BY DEF yy_accept
    <3>2. QED
      BY <2>1, <3>1 DEF AtNul, Action
  <2>4. QED
    BY <2>2, <2>3, LongestIsLexeme DEF LongestMatch
<1>2. QED
  BY <1>1, ScannerAlways, PTL

-----------------------------------------------------------------------------
(* What tokens say.                                                        *)

\* Tokens.
Tok == [kind : {0} \cup 3 .. 9, val : Nat]

\* The value of a constant.
LEMMA ValueIsNat ==
  ASSUME NEW s \in Seq(Chars), Constant(s)
  PROVE  ValueOf(s) \in Nat
<1> DEFINE n == Len(s)
           N == Nat
           z == 0
           E(d) == [i \in 0 .. n |-> IF i = 0 THEN 0 ELSE 10 * d[i - 1] + (s[i] - 100)]
           g == [i \in 1 .. n |-> [x \in N |-> 10 * x + (s[i] - 100)]]
           F == CHOOSE d : d = E(d)
<1>1. n \in Nat /\ z \in N
  OBVIOUS
<1>2. ASSUME NEW x \in N, NEW i \in 1 .. n PROVE 10 * x + (s[i] - 100) \in N
  <2>1. s[i] \in Nat /\ s[i] >= 100
    <3>1. i \in DOMAIN s /\ s[i] \in Chars
      BY <1>2
    <3>2. IsDigit(s[i])
      BY <3>1 DEF Constant
    <3>3. s[i] \in Nat
      BY <3>1, Classes
    <3>4. QED
      BY <3>2, <3>3 DEF IsDigit
  <2> DEFINE y == s[i]
  <2>2. y \in Nat /\ y >= 100
    BY <2>1
  <2> HIDE DEF y
  <2>3. 10 * x + (y - 100) \in Nat
    BY <2>2
  <2>4. QED
    BY <2>3 DEF y
<1>3. g \in [1 .. n -> [N -> N]]
  BY <1>2
<1> HIDE DEF n, N
<1>4. PICK f \in [0 .. n -> N] : f[0] = z /\ \A i \in 1 .. n : f[i] = g[i][f[i - 1]]
  <2> HIDE DEF g, z
  <2>1. QED
    BY <1>1, <1>3, RecursionUpTo
<1>5. ASSUME NEW i \in 1 .. n PROVE f[i] = 10 * f[i - 1] + (s[i] - 100)
  <2>1. i - 1 \in 0 .. n
    BY <1>1
  <2>2. f[i - 1] \in N
    BY <2>1
  <2>3. QED
    BY <1>4, <2>2
<1>6. f = E(f)
  BY <1>4, <1>5
<1> HIDE DEF E, F
<1>8. F = E(F)
  BY <1>6 DEF F
<1>9. F = [i \in 0 .. n |-> IF i = 0 THEN 0 ELSE 10 * F[i - 1] + (s[i] - 100)]
  BY <1>8 DEF E
<1>10. F[0] = 0 /\ \A i \in 1 .. n : F[i] = 10 * F[i - 1] + (s[i] - 100)
  BY <1>1, <1>9
<1>11. \A i \in 0 .. n : F[i] \in N
  <2> DEFINE T == {i \in 0 .. n : F[i] \in N}
  <2>1. 0 \in T
    BY <1>1, <1>10
  <2>2. \A i \in 1 .. n : i - 1 \in T => i \in T
    BY <1>2, <1>10
  <2> HIDE DEF T
  <2>3. \A i \in 0 .. n : i \in T
    BY <1>1, <2>1, <2>2, UpToInduction
  <2>4. QED
    BY <2>3 DEF T
<1>12. ValueOf(s) = F[n]
  BY DEF ValueOf, F, E, n
<1>13. QED
  BY <1>1, <1>11, <1>12 DEF N

\* The tokens that yylex returns.
LEMMA ReturnedToken ==
  ASSUME ScannerInv, ReturnToken
  PROVE  \E t \in Tok : t.kind # 0 /\ Return(t)
<1> DEFINE a == Action(lex)
           t == [kind |-> TokenOf(a), val |-> IF a = 8 THEN ValueOf(YyText) ELSE 0]
<1>1. lex.pc = "act" /\ a \in {1, 2, 3, 4, 5, 6, 8} /\ Return(t)
  BY DEF ReturnToken
<1>2. lex \in Lexers /\ (Longest(lex) \/ AtNul(lex))
  BY <1>1 DEF ScannerInv, Scanning, Sound
<1>3. ~AtNul(lex)
  <2>1. yy_accept[3 + 1] = 12
    BY DEF yy_accept
  <2>2. AtNul(lex) => a = 12
    BY <2>1 DEF AtNul, Action
  <2> HIDE DEF a
  <2>3. QED
    BY <1>1, <2>2
<1>4. a = 8 => Constant(YyText)
  BY <1>2, <1>3, LongestIsLexeme DEF RightAction
<1>5. YyText \in Seq(Chars)
  <2>1. lex.buf \in Seq(Chars) /\ lex.text \in Nat /\ lex.cp \in Nat
    BY <1>2 DEF Lexers
  <2>2. lex.cp <= Len(lex.buf) /\ Len(lex.buf) \in Nat
    <3>1. lex.cp - lex.text \in 1 .. Len(lex.buf) - lex.text
      BY <1>2, <1>3 DEF Longest
    <3>2. QED
      BY <2>1, <3>1
  <2>3. QED
    BY <2>1, <2>2 DEF YyText
<1>6. (IF a = 8 THEN ValueOf(YyText) ELSE 0) \in Nat
  BY <1>4, <1>5, ValueIsNat
<1>7. TokenOf(a) \in 3 .. 9
  <2> HIDE DEF a
  <2>1. QED
    BY <1>1 DEF TokenOf, NO_OP, IO, READ, COPY, WRITE, EXIT, CONST
<1> HIDE DEF a
<1>8. t \in Tok /\ t.kind # 0
  BY <1>6, <1>7 DEF Tok
<1>9. QED
  BY <1>1, <1>8

\* Instructions, as the parser requests them, and what is read of tokens.
Codes == {"EXIT", "NO_OP", "IO", "READ", "WRITE", "COPY"}
Instr == [icode : Codes, param0 : Nat, param1 : Nat]
Readings == [ok : BOOLEAN, open : Seq(Tok), list : Seq(Instr)]

\* How many constants a statement has.
LEMMA ArityIs ==
  /\ DOMAIN Arity = 4 .. 9
  /\ Arity[4] = 0 /\ Arity[5] = 1 /\ Arity[6] = 1 /\ Arity[7] = 1 /\ Arity[8] = 2 /\ Arity[9] = 2
  /\ \A k \in 4 .. 9 : Arity[k] \in 0 .. 2
BY DEF Arity, EXIT, NO_OP, IO, READ, WRITE, COPY

\* A statement means instructions.
LEMMA MeaningFacts ==
  ASSUME NEW s \in Seq(Tok), Len(s) > 0, Opens(s), Complete(s)
  PROVE  Meaning(s) \in Seq(Instr)
<1> DEFINE k == s[1].kind
<1>1. k \in 4 .. 9 /\ Len(s) = Arity[k] + 1
  BY ArityIs DEF Opens, Complete
<1>2. ASSUME NEW c \in Codes, NEW a \in Nat, NEW b \in Nat PROVE NewInstruction(c, a, b) \in Instr
  BY DEF NewInstruction, Instr
<1>4. ASSUME NEW i \in 1 .. Len(s) PROVE s[i].val \in Nat
  <2>1. s[i] \in Tok
    OBVIOUS
  <2>2. QED
    BY <2>1 DEF Tok
<1> HIDE DEF k
<1>5. k # 4 => 2 \in 1 .. Len(s)
  BY <1>1, ArityIs
<1>6. k \in 8 .. 9 => 3 \in 1 .. Len(s)
  BY <1>1, ArityIs
<1>7. ASSUME NEW n \in Nat PROVE [i \in 1 .. n |-> NewInstruction("NO_OP", 0, 0)] \in Seq(Instr)
  <2>1. NewInstruction("NO_OP", 0, 0) \in Instr
    BY <1>2 DEF Codes
  <2>2. QED
    BY <2>1
<1>8. /\ k = 4 => Meaning(s) = <<NewInstruction("EXIT", 0, 0)>>
      /\ k = 5 => Meaning(s) = [i \in 1 .. s[2].val |-> NewInstruction("NO_OP", 0, 0)]
      /\ k = 7 => Meaning(s) = <<NewInstruction("IO", s[2].val, 0)>>
      /\ k = 6 => Meaning(s) = <<NewInstruction("READ", s[2].val, 0)>>
      /\ k = 8 => Meaning(s) = <<NewInstruction("WRITE", s[2].val, s[3].val)>>
      /\ k = 9 => Meaning(s) = <<NewInstruction("COPY", s[2].val, s[3].val)>>
  BY DEF Meaning, k, EXIT, NO_OP, IO, READ, WRITE, COPY
<1>9. CASE k = 4
  <2>1. 0 \in Nat /\ 0 \in Nat
    BY <1>9
  <2>2. NewInstruction("EXIT", 0, 0) \in Instr
    BY <2>1 DEF NewInstruction, Instr, Codes
  <2>3. Meaning(s) = <<NewInstruction("EXIT", 0, 0)>>
    BY <1>8, <1>9
  <2>4. QED
    BY <2>2, <2>3
<1>10. CASE k = 5
  <2>1. s[2].val \in Nat
    BY <1>4, <1>5, <1>10
  <2>2. Meaning(s) = [i \in 1 .. s[2].val |-> NewInstruction("NO_OP", 0, 0)]
    BY <1>8, <1>10
  <2>3. QED
    BY <1>7, <2>1, <2>2
<1>11. CASE k = 6
  <2>1. s[2].val \in Nat /\ 0 \in Nat
    BY <1>4, <1>5, <1>11
  <2>2. NewInstruction("READ", s[2].val, 0) \in Instr
    BY <2>1 DEF NewInstruction, Instr, Codes
  <2>3. Meaning(s) = <<NewInstruction("READ", s[2].val, 0)>>
    BY <1>8, <1>11
  <2>4. QED
    BY <2>2, <2>3
<1>12. CASE k = 7
  <2>1. s[2].val \in Nat /\ 0 \in Nat
    BY <1>4, <1>5, <1>12
  <2>2. NewInstruction("IO", s[2].val, 0) \in Instr
    BY <2>1 DEF NewInstruction, Instr, Codes
  <2>3. Meaning(s) = <<NewInstruction("IO", s[2].val, 0)>>
    BY <1>8, <1>12
  <2>4. QED
    BY <2>2, <2>3
<1>13. CASE k = 8
  <2>1. s[2].val \in Nat /\ s[3].val \in Nat
    BY <1>4, <1>5, <1>6, <1>13
  <2>2. NewInstruction("WRITE", s[2].val, s[3].val) \in Instr
    BY <2>1 DEF NewInstruction, Instr, Codes
  <2>3. Meaning(s) = <<NewInstruction("WRITE", s[2].val, s[3].val)>>
    BY <1>8, <1>13
  <2>4. QED
    BY <2>2, <2>3
<1>14. CASE k = 9
  <2>1. s[2].val \in Nat /\ s[3].val \in Nat
    BY <1>4, <1>5, <1>6, <1>14
  <2>2. NewInstruction("COPY", s[2].val, s[3].val) \in Instr
    BY <2>1 DEF NewInstruction, Instr, Codes
  <2>3. Meaning(s) = <<NewInstruction("COPY", s[2].val, s[3].val)>>
    BY <1>8, <1>14
  <2>4. QED
    BY <2>2, <2>3
<1>15. QED
  BY <1>1, <1>9, <1>10, <1>11, <1>12, <1>13, <1>14

\* What one more token adds to a reading.
LEMMA ReadOneFacts ==
  ASSUME NEW r \in Readings, NEW t \in Tok
  PROVE  /\ ReadOne(r, t) \in Readings
         /\ ~r.ok \/ ~Opens(Append(r.open, t)) => ~ReadOne(r, t).ok /\ ReadOne(r, t).open = r.open /\ ReadOne(r, t).list = r.list
         /\ r.ok /\ Opens(Append(r.open, t)) /\ Complete(Append(r.open, t)) =>
              ReadOne(r, t).ok /\ ReadOne(r, t).open = <<>> /\ ReadOne(r, t).list = r.list \o Meaning(Append(r.open, t))
         /\ r.ok /\ Opens(Append(r.open, t)) /\ ~Complete(Append(r.open, t)) =>
              ReadOne(r, t).ok /\ ReadOne(r, t).open = Append(r.open, t) /\ ReadOne(r, t).list = r.list
<1> DEFINE s == Append(r.open, t)
           q == ReadOne(r, t)
<1>1. r.open \in Seq(Tok) /\ r.list \in Seq(Instr) /\ r.ok \in BOOLEAN
  BY DEF Readings
<1>2. s \in Seq(Tok) /\ Len(s) > 0
  BY <1>1
<1>3. <<>> \in Seq(Tok)
  OBVIOUS
<1>4. q = IF ~r.ok \/ ~Opens(s) THEN [r EXCEPT !.ok = FALSE]
          ELSE IF Complete(s) THEN [ok |-> TRUE, open |-> <<>>, list |-> r.list \o Meaning(s)]
          ELSE [r EXCEPT !.open = s]
  BY DEF ReadOne
<1> HIDE DEF s, q
<1>5. CASE ~r.ok \/ ~Opens(s)
  <2>1. q = [r EXCEPT !.ok = FALSE]
    BY <1>4, <1>5
  <2>2. q \in Readings /\ ~q.ok /\ q.open = r.open /\ q.list = r.list
    BY <2>1 DEF Readings
  <2>3. QED
    BY <1>5, <2>2 DEF q, s
<1>6. CASE r.ok /\ Opens(s) /\ Complete(s)
  <2>1. q = [ok |-> TRUE, open |-> <<>>, list |-> r.list \o Meaning(s)]
    BY <1>4, <1>6
  <2>2. r.list \o Meaning(s) \in Seq(Instr)
    BY <1>1, <1>2, <1>6, MeaningFacts, ConcatFacts
  <2> DEFINE l == r.list \o Meaning(s)
  <2> HIDE DEF l
  <2>3. q \in Readings /\ q.ok /\ q.open = <<>> /\ q.list = l
    BY <1>3, <2>1, <2>2 DEF Readings, l
  <2>4. QED
    BY <1>6, <2>3 DEF q, s, l
<1>7. CASE r.ok /\ Opens(s) /\ ~Complete(s)
  <2>1. q = [r EXCEPT !.open = s]
    BY <1>4, <1>7
  <2>2. q \in Readings /\ q.ok /\ q.open = s /\ q.list = r.list
    BY <1>2, <1>7, <2>1 DEF Readings
  <2>3. QED
    BY <1>7, <2>2 DEF q, s
<1>8. QED
  BY <1>5, <1>6, <1>7 DEF s

\* The readings of the first n tokens.
ReadUp(ts) == LET r[n \in 0 .. Len(ts)] == IF n = 0 THEN Nothing ELSE ReadOne(r[n - 1], ts[n]) IN r

\* The readings of the first tokens.
LEMMA ReadUpFacts ==
  ASSUME NEW ts \in Seq(Tok)
  PROVE  /\ ReadUp(ts) \in [0 .. Len(ts) -> Readings] /\ ReadUp(ts)[0] = Nothing
         /\ \A i \in 1 .. Len(ts) : ReadUp(ts)[i] = ReadOne(ReadUp(ts)[i - 1], ts[i])
         /\ Reads(ts) = ReadUp(ts)[Len(ts)]
<1> DEFINE n == Len(ts)
           E(d) == [i \in 0 .. n |-> IF i = 0 THEN Nothing ELSE ReadOne(d[i - 1], ts[i])]
           g == [i \in 1 .. n |-> [s \in Readings |-> ReadOne(s, ts[i])]]
           F == ReadUp(ts)
<1>1. n \in Nat /\ Nothing \in Readings
  <2>1. <<>> \in Seq(Tok) /\ <<>> \in Seq(Instr)
    OBVIOUS
  <2>2. QED
    BY <2>1 DEF Nothing, Readings
<1>2. ASSUME NEW s \in Readings, NEW i \in 1 .. n PROVE ReadOne(s, ts[i]) \in Readings
  <2>1. ts[i] \in Tok
    BY <1>2
  <2>2. QED
    BY <2>1, ReadOneFacts
<1>3. g \in [1 .. n -> [Readings -> Readings]]
  BY <1>2
<1>0. Reads(ts) = F[n]
  BY DEF Reads, ReadUp
<1> HIDE DEF n
<1>4. PICK f \in [0 .. n -> Readings] : f[0] = Nothing /\ \A i \in 1 .. n : f[i] = g[i][f[i - 1]]
  <2> HIDE DEF g
  <2>1. QED
    BY <1>1, <1>3, RecursionUpTo
<1>5. ASSUME NEW i \in 1 .. n PROVE f[i] = ReadOne(f[i - 1], ts[i])
  <2>1. i - 1 \in 0 .. n
    BY <1>1
  <2>2. f[i - 1] \in Readings
    BY <2>1
  <2>3. QED
    BY <1>4, <2>2
<1>6. f = E(f)
  BY <1>4, <1>5
<1>7. F = CHOOSE d : d = E(d)
  BY DEF ReadUp, n
<1> HIDE DEF E, F
<1>8. F = E(F)
  BY <1>6, <1>7
<1>9. F = [i \in 0 .. n |-> IF i = 0 THEN Nothing ELSE ReadOne(F[i - 1], ts[i])]
  BY <1>8 DEF E
<1>10. F[0] = Nothing /\ \A i \in 1 .. n : F[i] = ReadOne(F[i - 1], ts[i])
  BY <1>1, <1>9
<1>11. \A i \in 0 .. n : F[i] \in Readings
  <2> DEFINE T == {i \in 0 .. n : F[i] \in Readings}
  <2>1. 0 \in T
    BY <1>1, <1>10
  <2>2. \A i \in 1 .. n : i - 1 \in T => i \in T
    BY <1>2, <1>10
  <2> HIDE DEF T
  <2>3. \A i \in 0 .. n : i \in T
    BY <1>1, <2>1, <2>2, UpToInduction
  <2>4. QED
    BY <2>3 DEF T
<1>12. F \in [0 .. n -> Readings]
  BY <1>9, <1>11
<1>13. QED
  BY <1>0, <1>10, <1>12 DEF n, F

\* A reading of tokens.
LEMMA ReadsFacts ==
  ASSUME NEW ts \in Seq(Tok)
  PROVE  Reads(ts) \in Readings /\ (Len(ts) = 0 => Reads(ts) = Nothing)
<1>1. Len(ts) \in 0 .. Len(ts)
  OBVIOUS
<1>2. QED
  BY <1>1, ReadUpFacts

\* A reading goes on from the reading before.
LEMMA ReadsAppend ==
  ASSUME NEW ts \in Seq(Tok), NEW t \in Tok
  PROVE  Reads(Append(ts, t)) = ReadOne(Reads(ts), t)
<1> DEFINE n == Len(ts)
           as == Append(ts, t)
           F == ReadUp(ts)
           G == ReadUp(as)
           T == {i \in 0 .. n : F[i] = G[i]}
<1>1. as \in Seq(Tok) /\ Len(as) = n + 1 /\ n \in Nat /\ as[n + 1] = t /\ \A i \in 1 .. n : as[i] = ts[i]
  OBVIOUS
<1>2. F[0] = Nothing /\ (\A i \in 1 .. n : F[i] = ReadOne(F[i - 1], ts[i])) /\ Reads(ts) = F[n]
  BY ReadUpFacts
<1>3. G[0] = Nothing /\ (\A i \in 1 .. n + 1 : G[i] = ReadOne(G[i - 1], as[i])) /\ Reads(as) = G[n + 1]
  BY <1>1, ReadUpFacts
<1> HIDE DEF n, as, F, G
<1>4. 0 \in T
  BY <1>1, <1>2, <1>3
<1>5. ASSUME NEW i \in 1 .. n, i - 1 \in T PROVE i \in T
  <2>1. i \in 1 .. n + 1
    BY <1>1
  <2>7. F[i - 1] = G[i - 1]
    BY <1>5
  <2>8. as[i] = ts[i]
    BY <1>1
  <2>9. i \in 0 .. n
    BY <1>1
  <2>2. F[i - 1] = G[i - 1] /\ as[i] = ts[i] /\ i \in 0 .. n
    BY <2>7, <2>8, <2>9
  <2>3. G[i] = ReadOne(G[i - 1], as[i])
    BY <1>3, <2>1
  <2>4. F[i] = ReadOne(F[i - 1], ts[i])
    BY <1>2
  <2>5. F[i] = G[i]
    BY <2>2, <2>3, <2>4
  <2>6. QED
    BY <2>2, <2>5
<1> HIDE DEF T
<1>6. \A i \in 0 .. n : i \in T
  BY <1>1, <1>4, <1>5, UpToInduction
<1>7. F[n] = G[n]
  BY <1>1, <1>6 DEF T
<1>8. n + 1 \in 1 .. n + 1 /\ (n + 1) - 1 = n
  BY <1>1
<1>9. Reads(as) = ReadOne(G[n], t)
  BY <1>1, <1>3, <1>8
<1>10. QED
  BY <1>2, <1>7, <1>9 DEF as

-----------------------------------------------------------------------------
(* The parser: its packed tables.                                          *)

\* The state of the parser after i tokens of a statement that starts with the keyword k.
StateOf(k, i) == IF i = 1 THEN k - 3 ELSE k + 4 * (i - 1)
RuleOf(k) == CASE k = 6 -> 7 [] k = 7 -> 6 [] OTHER -> k

\* The rows of parser.c's tables where a statement starts,
LEMMA StartEntries ==
  ASSUME NEW t \in {0} \cup 3 .. 9
  PROVE  /\ TableEntry(0, t) = IF t \in 4 .. 9 THEN t - 3 ELSE 0
         /\ TableEntry(7, t) = IF t = 0 THEN 14 ELSE IF t \in 4 .. 9 THEN t - 3 ELSE 0
         /\ yypact[0 + 1] # YYNINF /\ yypact[7 + 1] # YYNINF /\ yydefact[0 + 1] = 0 /\ yydefact[7 + 1] = 0
BY DEF TableEntry, yypact, yycheck, yytable, YYLAST, YYNINF, yydefact

\* those where a constant is missing,
LEMMA WaitingEntries ==
  ASSUME NEW s \in {2, 3, 4, 5, 6, 12, 13}, NEW t \in {0} \cup 3 .. 9
  PROVE  /\ TableEntry(s, t) = IF t # 3 THEN 0 ELSE CASE s = 2 -> 9 [] s = 3 -> 10 [] s = 4 -> 11 [] s = 5 -> 12
                                                     [] s = 6 -> 13 [] s = 12 -> 16 [] s = 13 -> 17
         /\ yypact[s + 1] # YYNINF /\ yydefact[s + 1] = 0
<1>1. yypact[s + 1] = CASE s = 2 -> -2 [] s = 3 -> -1 [] s = 4 -> 13 [] s = 5 -> 14 [] s = 6 -> 15 [] s = 12 -> 16
                        [] s = 13 -> 17
  BY DEF yypact
<1>2. yydefact[s + 1] = 0
  BY DEF yydefact
<1>3. CASE s = 2
  BY <1>1, <1>2, <1>3 DEF TableEntry, yycheck, yytable, YYLAST, YYNINF
<1>4. CASE s = 3
  BY <1>1, <1>2, <1>4 DEF TableEntry, yycheck, yytable, YYLAST, YYNINF
<1>5. CASE s = 4
  BY <1>1, <1>2, <1>5 DEF TableEntry, yycheck, yytable, YYLAST, YYNINF
<1>6. CASE s = 5
  BY <1>1, <1>2, <1>6 DEF TableEntry, yycheck, yytable, YYLAST, YYNINF
<1>7. CASE s = 6
  BY <1>1, <1>2, <1>7 DEF TableEntry, yycheck, yytable, YYLAST, YYNINF
<1>8. CASE s = 12
  BY <1>1, <1>2, <1>8 DEF TableEntry, yycheck, yytable, YYLAST, YYNINF
<1>9. CASE s = 13
  BY <1>1, <1>2, <1>9 DEF TableEntry, yycheck, yytable, YYLAST, YYNINF
<1>10. QED
  BY <1>3, <1>4, <1>5, <1>6, <1>7, <1>8, <1>9

\* the same by keyword and number of tokens,
LEMMA OpenEntries ==
  ASSUME NEW k \in 4 .. 9, NEW i \in 1 .. Arity[k], NEW t \in {0} \cup 3 .. 9
  PROVE  /\ TableEntry(StateOf(k, i), t) = IF t = 3 THEN StateOf(k, i + 1) ELSE 0
         /\ yypact[StateOf(k, i) + 1] # YYNINF /\ yydefact[StateOf(k, i) + 1] = 0
         /\ StateOf(k, i + 1) \in 1 .. 17 \ {14}
<1> DEFINE s == StateOf(k, i)
           n == StateOf(k, i + 1)
<1>1. i \in 1 .. 2 /\ k \in 5 .. 9 /\ (i = 2 => k \in 8 .. 9)
  BY ArityIs
<1>2. s = (IF i = 1 THEN k - 3 ELSE k + 4) /\ n = (IF i = 1 THEN k + 4 ELSE k + 8)
  BY <1>1 DEF StateOf
<1> HIDE DEF s, n
<1>3. s \in {2, 3, 4, 5, 6, 12, 13} /\ n \in 1 .. 17 \ {14}
  BY <1>1, <1>2
<1>4. n = CASE s = 2 -> 9 [] s = 3 -> 10 [] s = 4 -> 11 [] s = 5 -> 12 [] s = 6 -> 13 [] s = 12 -> 16 [] s = 13 -> 17
  BY <1>1, <1>2
<1>5. QED
  BY <1>3, <1>4, WaitingEntries DEF s, n

\* those where a statement is complete,
LEMMA CompleteRows ==
  ASSUME NEW k \in 4 .. 9
  PROVE  LET s == StateOf(k, Arity[k] + 1)
         IN  /\ s \in 1 .. 17 /\ yypact[s + 1] = YYNINF /\ yydefact[s + 1] = RuleOf(k) /\ RuleOf(k) # 0
             /\ yyr2[RuleOf(k) + 1] = Arity[k] + 1 /\ yyr1[RuleOf(k) + 1] = 12
<1>1. CASE k = 4
  BY <1>1, ArityIs DEF StateOf, RuleOf, yypact, yydefact, yyr1, yyr2, YYNINF
<1>2. CASE k = 5
  BY <1>2, ArityIs DEF StateOf, RuleOf, yypact, yydefact, yyr1, yyr2, YYNINF
<1>3. CASE k = 6
  BY <1>3, ArityIs DEF StateOf, RuleOf, yypact, yydefact, yyr1, yyr2, YYNINF
<1>4. CASE k = 7
  BY <1>4, ArityIs DEF StateOf, RuleOf, yypact, yydefact, yyr1, yyr2, YYNINF
<1>5. CASE k = 8
  BY <1>5, ArityIs DEF StateOf, RuleOf, yypact, yydefact, yyr1, yyr2, YYNINF
<1>6. CASE k = 9
  BY <1>6, ArityIs DEF StateOf, RuleOf, yypact, yydefact, yyr1, yyr2, YYNINF
<1>7. QED
  BY <1>1, <1>2, <1>3, <1>4, <1>5, <1>6

\* and those after its reduction.
LEMMA ReducedRows ==
  /\ yypact[8 + 1] = YYNINF /\ yypact[15 + 1] = YYNINF /\ yydefact[8 + 1] = 2 /\ yydefact[15 + 1] = 3
  /\ yyr1[2 + 1] = 11 /\ yyr1[3 + 1] = 11 /\ yyr2[2 + 1] = 1 /\ yyr2[3 + 1] = 2
  /\ Goto(0, 12) = 8 /\ Goto(7, 12) = 15 /\ Goto(0, 11) = 7 /\ YYFINAL = 14
BY DEF yypact, yydefact, yyr1, yyr2, YYNINF, Goto, yypgoto, yydefgoto, yycheck, yytable, YYLAST, YYFINAL

-----------------------------------------------------------------------------
(* The stack.                                                              *)

\* The stack of the parser, and the room it has.
Entries == [state : 0 .. 17, val : Nat]
Room(st, size) == st \in Seq(Entries) /\ Len(st) \in 1 .. 5 /\ size \in 2 .. MaxDepth /\ Len(st) < size

\* The start of a statement, or nothing.
Partial(s) == s \in Seq(Tok) /\ (Len(s) > 0 => Opens(s) /\ Len(s) <= Arity[s[1].kind])
Statement(s) == s \in Seq(Tok) /\ Len(s) > 0 /\ Opens(s) /\ Complete(s)

\* The stack holds what was reduced so far, if anything, and the tokens of s.
Held(st, b, s) ==
  /\ b \in 1 .. 2 /\ Len(st) = b + Len(s) /\ st[1].state = 0 /\ (b = 2 => st[2].state = 7)
  /\ \A i \in 1 .. Len(s) : st[b + i].state = StateOf(s[1].kind, i) /\ st[b + i].val = s[i].val

\* A token that goes on with a statement.
LEMMA OpensAppend ==
  ASSUME NEW o, Partial(o), NEW t \in Tok
  PROVE  LET s == Append(o, t)
         IN  /\ Opens(s) <=> (Len(o) = 0 /\ t.kind \in 4 .. 9) \/ (Len(o) > 0 /\ t.kind = 3)
             /\ s \in Seq(Tok) /\ Len(s) = Len(o) + 1
             /\ s[1] = IF Len(o) = 0 THEN t ELSE o[1]
             /\ Opens(s) => s[1].kind \in 4 .. 9 /\ (Complete(s) => Statement(s)) /\ (~Complete(s) => Partial(s))
<1> DEFINE s == Append(o, t)
           n == Len(o)
<1>1. o \in Seq(Tok) /\ n \in Nat
  BY DEF Partial
<1>2. s \in Seq(Tok) /\ Len(s) = n + 1 /\ s[n + 1] = t /\ \A i \in 1 .. n : s[i] = o[i]
  BY <1>1, AppendFacts
<1>3. s[1] = IF n = 0 THEN t ELSE o[1]
  BY <1>1, <1>2
<1>4. n > 0 => o[1].kind \in 4 .. 9 /\ n <= Arity[o[1].kind] /\ \A i \in 2 .. n : o[i].kind = CONST
  BY ArityIs DEF Partial, Opens
<1> HIDE DEF s, n
<1>5. Opens(s) <=> (n = 0 /\ t.kind \in 4 .. 9) \/ (n > 0 /\ t.kind = 3)
  <2>1. CASE n = 0
    <3>1. Opens(s) <=> t.kind \in 4 .. 9
      BY <1>2, <1>3, <2>1, ArityIs DEF Opens
    <3>2. QED
      BY <2>1, <3>1
  <2>2. CASE n > 0
    <3>1. s[1].kind \in 4 .. 9
      BY <1>3, <1>4, <2>2
    <3>2. (\A i \in 2 .. n + 1 : s[i].kind = CONST) <=> t.kind = CONST
      <4>1. \A i \in 2 .. n : s[i].kind = CONST
        BY <1>2, <1>4, <2>2
      <4>2. n + 1 \in 2 .. n + 1 /\ \A i \in 2 .. n + 1 : i = n + 1 \/ i \in 2 .. n
        BY <1>1, <2>2
      <4>3. QED
        BY <1>2, <4>1, <4>2
    <3>3. Opens(s) <=> t.kind = 3
      BY <1>2, <3>1, <3>2, ArityIs DEF Opens, CONST
    <3>4. QED
      BY <1>1, <2>2, <3>3
  <2>3. QED
    BY <1>1, <2>1, <2>2
<1>6. ASSUME Opens(s) PROVE s[1].kind \in 4 .. 9 /\ (Complete(s) => Statement(s)) /\ (~Complete(s) => Partial(s))
  <2> DEFINE k == s[1].kind
  <2>1. k \in 4 .. 9
    BY <1>6, ArityIs DEF Opens
  <2>2. Arity[k] \in 0 .. 2 /\ n <= Arity[k]
    <3>1. n = 0 \/ (n > 0 /\ k = o[1].kind)
      BY <1>1, <1>3
    <3>2. Arity[k] \in 0 .. 2
      BY <2>1, ArityIs
    <3>3. QED
      BY <1>1, <1>4, <3>1, <3>2
  <2>3. Complete(s) => Statement(s)
    BY <1>1, <1>2, <1>6 DEF Statement
  <2>4. ASSUME ~Complete(s) PROVE Partial(s)
    <3>1. n + 1 # Arity[k] + 1
      BY <1>2, <2>4 DEF Complete
    <3>2. Len(s) <= Arity[k]
      BY <1>1, <1>2, <2>2, <3>1
    <3>3. QED
      BY <1>2, <1>6, <3>2 DEF Partial
  <2>5. QED
    BY <2>1, <2>3, <2>4
<1>7. QED
  BY <1>2, <1>3, <1>5, <1>6 DEF s, n

\* The top of the stack is the state after the tokens of the statement.
LEMMA TopState ==
  ASSUME NEW st, NEW b, NEW s \in Seq(Tok), Held(st, b, s)
  PROVE  Last(st).state = IF Len(s) > 0 THEN StateOf(s[1].kind, Len(s)) ELSE IF b = 2 THEN 7 ELSE 0
<1> DEFINE n == Len(s)
<1>1. Last(st) = st[b + n] /\ n \in Nat /\ b \in 1 .. 2
  BY DEF Last, Held
<1>2. \A i \in 1 .. n : st[b + i].state = StateOf(s[1].kind, i)
  BY DEF Held
<1>3. st[1].state = 0 /\ (b = 2 => st[2].state = 7)
  BY DEF Held
<1> HIDE DEF n
<1>4. CASE n > 0
  <2>1. n \in 1 .. n
    BY <1>1, <1>4
  <2>2. QED
    BY <1>1, <1>2, <1>4, <2>1 DEF n
<1>5. CASE n = 0
  <2>1. b + n = b
    BY <1>1, <1>5
  <2>2. QED
    BY <1>1, <1>3, <1>5, <2>1 DEF n
<1>6. QED
  BY <1>1, <1>4, <1>5

\* The entry for a token behind the start of a statement.
LEMMA EntryOf ==
  ASSUME NEW st, NEW b, NEW o, Partial(o), Held(st, b, o), NEW t \in Tok
  PROVE  LET s == Append(o, t)
             q == Last(st).state
         IN  /\ Opens(s) => TableEntry(q, t.kind) = StateOf(s[1].kind, Len(o) + 1) /\ TableEntry(q, t.kind) \in 1 .. 17 \ {14}
             /\ ~Opens(s) => TableEntry(q, t.kind) = IF Len(o) = 0 /\ b = 2 /\ t.kind = 0 THEN 14 ELSE 0
             /\ yypact[q + 1] # YYNINF /\ yydefact[q + 1] = 0
<1> DEFINE s == Append(o, t)
           q == Last(st).state
           n == Len(o)
           k == t.kind
<1>1. o \in Seq(Tok) /\ n \in Nat /\ b \in 1 .. 2 /\ k \in {0} \cup 3 .. 9
  BY DEF Partial, Held, Tok
<1>2. /\ Opens(s) <=> (n = 0 /\ k \in 4 .. 9) \/ (n > 0 /\ k = 3)
      /\ s[1] = IF n = 0 THEN t ELSE o[1]
  BY OpensAppend
<1>3. q = IF n > 0 THEN StateOf(o[1].kind, n) ELSE IF b = 2 THEN 7 ELSE 0
  BY <1>1, TopState
<1>4. n > 0 => o[1].kind \in 4 .. 9 /\ n <= Arity[o[1].kind]
  BY ArityIs DEF Partial, Opens
<1> HIDE DEF s, q, n
<1>5. CASE n = 0
  <2>1. q \in {0, 7} /\ (q = 7 <=> b = 2)
    BY <1>1, <1>3, <1>5
  <2>2. TableEntry(q, k) = (IF q = 7 /\ k = 0 THEN 14 ELSE IF k \in 4 .. 9 THEN k - 3 ELSE 0)
        /\ yypact[q + 1] # YYNINF /\ yydefact[q + 1] = 0
    BY <1>1, <2>1, StartEntries
  <2>3. StateOf(s[1].kind, n + 1) = k - 3
    BY <1>2, <1>5 DEF StateOf
  <2>4. Opens(s) <=> k \in 4 .. 9
    BY <1>2, <1>5
  <2> HIDE DEF k
  <2>5. QED
    BY <1>1, <1>5, <2>1, <2>2, <2>3, <2>4 DEF s, q, n, k
<1>6. CASE n > 0
  <2> DEFINE j == o[1].kind
  <2>1. j \in 4 .. 9 /\ n \in 1 .. Arity[j] /\ q = StateOf(j, n) /\ s[1].kind = j
    <3>1. j \in 4 .. 9 /\ n <= Arity[j] /\ q = StateOf(j, n) /\ s[1].kind = j
      BY <1>1, <1>2, <1>3, <1>4, <1>6
    <3>2. Arity[j] \in 0 .. 2
      BY <3>1, ArityIs
    <3>3. QED
      BY <1>1, <1>6, <3>1, <3>2
  <2>2. /\ TableEntry(q, k) = IF k = 3 THEN StateOf(j, n + 1) ELSE 0
        /\ yypact[q + 1] # YYNINF /\ yydefact[q + 1] = 0
        /\ StateOf(j, n + 1) \in 1 .. 17 \ {14}
    BY <1>1, <2>1, OpenEntries
  <2>3. Opens(s) <=> k = 3
    BY <1>1, <1>2, <1>6
  <2> HIDE DEF k, j
  <2>4. n # 0
    BY <1>6
  <2>5. QED
    BY <2>1, <2>2, <2>3, <2>4 DEF s, q, n, k
<1>7. QED
  BY <1>1, <1>5, <1>6

\* A push keeps the stack and the statement in step.
LEMMA HeldPush ==
  ASSUME NEW st \in Seq(Entries), NEW b, NEW o, Partial(o), Held(st, b, o), NEW t \in Tok, Opens(Append(o, t)),
         NEW e \in Entries, e.state = StateOf(Append(o, t)[1].kind, Len(o) + 1), e.val = t.val
  PROVE  Held(Append(st, e), b, Append(o, t))
<1> DEFINE s == Append(o, t)
           p == Append(st, e)
           n == Len(o)
<1>1. o \in Seq(Tok) /\ n \in Nat /\ b \in 1 .. 2 /\ Len(st) = b + n
  BY DEF Partial, Held
<1>2. Len(s) = n + 1 /\ s[n + 1] = t /\ \A i \in 1 .. n : s[i] = o[i]
  BY <1>1, AppendFacts
<1>3. Len(p) = Len(st) + 1 /\ p[Len(st) + 1] = e /\ \A i \in 1 .. Len(st) : p[i] = st[i]
  BY AppendFacts
<1>4. s[1] = IF n = 0 THEN t ELSE o[1]
  BY OpensAppend
<1>5. /\ st[1].state = 0 /\ (b = 2 => st[2].state = 7)
      /\ \A i \in 1 .. n : st[b + i].state = StateOf(o[1].kind, i) /\ st[b + i].val = o[i].val
  BY DEF Held
<1>0. e.state = StateOf(s[1].kind, n + 1)
  OBVIOUS
<1> HIDE DEF s, p, n
<1>6. p[1].state = 0 /\ (b = 2 => p[2].state = 7)
  BY <1>1, <1>3, <1>5
<1>7. ASSUME NEW i \in 1 .. n + 1 PROVE p[b + i].state = StateOf(s[1].kind, i) /\ p[b + i].val = s[i].val
  <2>1. CASE i = n + 1
    <3>1. b + i = Len(st) + 1
      BY <1>1, <2>1
    <3>2. QED
      BY <1>0, <1>2, <1>3, <2>1, <3>1
  <2>2. CASE i # n + 1
    <3>1. i \in 1 .. n /\ b + i \in 1 .. Len(st) /\ n # 0
      BY <1>1, <2>2
    <3>2. QED
      BY <1>2, <1>3, <1>4, <1>5, <3>1
  <2>3. QED
    BY <2>1, <2>2
<1>8. b \in 1 .. 2 /\ Len(p) = b + Len(s)
  BY <1>1, <1>2, <1>3
<1>9. Held(p, b, s)
  BY <1>2, <1>6, <1>7, <1>8 DEF Held
<1>10. QED
  BY <1>9 DEF p, s

\* yynewstate has room for a state: the stack is enlarged in time.
LEMMA PushFacts ==
  ASSUME Room(stack, stacksize), NEW below \in Seq(Entries), Len(below) \in 1 .. 4, Len(below) <= Len(stack),
         NEW s \in 0 .. 17, NEW v \in Nat, PushState(below, s, v)
  PROVE  /\ stack' = Append(below, [state |-> s, val |-> v]) /\ Room(stack', stacksize')
         /\ yyparse' = IF s = 14 THEN "YYACCEPT" ELSE "shift"
<1> DEFINE e == [state |-> s, val |-> v]
           p == Append(below, e)
           n == Len(p)
           size == IF n < stacksize THEN stacksize ELSE Min({2 * stacksize, MaxDepth})
<1>1. e \in Entries
  BY DEF Entries
<1>2. stacksize \in 2 .. MaxDepth /\ Len(stack) < stacksize /\ Len(stack) \in Nat /\ MaxDepth \in Nat /\ 6 <= MaxDepth
  BY ParserAssumption DEF Room
<1>3. p \in Seq(Entries) /\ n = Len(below) + 1
  BY <1>1, AppendFacts
<1>4. n \in 2 .. 5 /\ n <= stacksize
  <2> DEFINE lb == Len(below)
             ls == Len(stack)
  <2>1. lb \in 1 .. 4 /\ lb <= ls /\ n = lb + 1 /\ ls < stacksize /\ ls \in Nat
    BY <1>2, <1>3
  <2> HIDE DEF n, p, e, lb, ls
  <2>2. QED
    BY <1>2, <2>1
<1>5. /\ stack' = p /\ stacksize' = size
      /\ yyparse' = CASE n >= stacksize /\ stacksize >= MaxDepth -> "YYNOMEM"
                      [] n >= size -> "YYABORT"
                      [] n < size /\ s = YYFINAL -> "YYACCEPT"
                      [] OTHER -> "shift"
  BY DEF PushState
<1> HIDE DEF p, n
<1>6. size \in 2 .. MaxDepth /\ n < size
  <2>1. CASE n < stacksize
    BY <1>2, <2>1
  <2>2. CASE n >= stacksize
    <3> DEFINE m == Min({2 * stacksize, MaxDepth})
    <3>1. {2 * stacksize, MaxDepth} \in SUBSET Nat /\ {2 * stacksize, MaxDepth} # {}
      BY <1>2
    <3>2. m \in {2 * stacksize, MaxDepth} /\ \A y \in {2 * stacksize, MaxDepth} : m <= y
      BY <3>1, MinIsLeast
    <3>3. size = m
      BY <1>2, <1>4, <2>2
    <3> HIDE DEF m, size
    <3>4. QED
      BY <1>2, <1>4, <2>2, <3>2, <3>3
  <2>3. QED
    BY <1>2, <1>4, <2>1, <2>2
<1> HIDE DEF size
<1>7. ~(n >= stacksize /\ stacksize >= MaxDepth) /\ ~(n >= size) /\ n < size
  BY <1>2, <1>4, <1>6
<1>8. yyparse' = IF s = 14 THEN "YYACCEPT" ELSE "shift"
  BY <1>5, <1>7 DEF YYFINAL
<1>9. Room(stack', stacksize')
  <2>1. Len(stack') = n
    BY <1>5 DEF n
  <2>2. n \in 1 .. 5
    BY <1>4
  <2>3. QED
    BY <1>3, <1>5, <1>6, <2>1, <2>2 DEF Room
<1>10. QED
  BY <1>5, <1>8, <1>9 DEF p

\* What the semantic action of a statement requests.
LEMMA RequestedIs ==
  ASSUME NEW st, NEW b, NEW s, Statement(s), Held(st, b, s)
  PROVE  Requested(RuleOf(s[1].kind), st) = Meaning(s)
<1> DEFINE k == s[1].kind
           n == Len(s)
           top == st[Len(st)].val
           second == st[Len(st) - 1].val
<1>1. k \in 4 .. 9 /\ n = Arity[k] + 1
  BY ArityIs DEF Statement, Opens, Complete
<1>2. Len(st) = b + n /\ b \in 1 .. 2 /\ \A i \in 1 .. n : st[b + i].val = s[i].val
  BY DEF Held
<1>3. Requested(RuleOf(k), st) = LET r == RuleOf(k) IN
        CASE r = 4 -> <<NewInstruction("EXIT", 0, 0)>>
          [] r = 5 -> [i \in 1 .. top |-> NewInstruction("NO_OP", 0, 0)]
          [] r = 6 -> <<NewInstruction("IO", top, 0)>>
          [] r = 7 -> <<NewInstruction("READ", top, 0)>>
          [] r = 8 -> <<NewInstruction("WRITE", second, top)>>
          [] r = 9 -> <<NewInstruction("COPY", second, top)>>
          [] OTHER -> <<>>
  BY DEF Requested, Last
<1>4. /\ k = 4 => Meaning(s) = <<NewInstruction("EXIT", 0, 0)>>
      /\ k = 5 => Meaning(s) = [i \in 1 .. s[2].val |-> NewInstruction("NO_OP", 0, 0)]
      /\ k = 7 => Meaning(s) = <<NewInstruction("IO", s[2].val, 0)>>
      /\ k = 6 => Meaning(s) = <<NewInstruction("READ", s[2].val, 0)>>
      /\ k = 8 => Meaning(s) = <<NewInstruction("WRITE", s[2].val, s[3].val)>>
      /\ k = 9 => Meaning(s) = <<NewInstruction("COPY", s[2].val, s[3].val)>>
  BY DEF Meaning, EXIT, NO_OP, IO, READ, WRITE, COPY
<1>5. n \in 1 .. 3 /\ (n = 2 => Len(st) = b + 2) /\ (n = 3 => Len(st) = b + 3 /\ Len(st) - 1 = b + 2)
  <2> HIDE DEF k, n
  <2>1. QED
    BY <1>1, <1>2, ArityIs, SMTT(30)
<1> HIDE DEF n
<1>6. (n = 2 => top = s[2].val) /\ (n = 3 => top = s[3].val /\ second = s[2].val)
  <2>1. (n = 2 => 2 \in 1 .. n) /\ (n = 3 => 3 \in 1 .. n /\ 2 \in 1 .. n)
    OBVIOUS
  <2>2. ASSUME n = 2 PROVE top = s[2].val
    <3>1. st[b + 2].val = s[2].val
      BY <1>2, <2>1, <2>2
    <3>2. QED
      BY <1>5, <2>2, <3>1
  <2>3. ASSUME n = 3 PROVE top = s[3].val /\ second = s[2].val
    <3>1. st[b + 2].val = s[2].val /\ st[b + 3].val = s[3].val
      BY <1>2, <2>1, <2>3
    <3>2. Len(st) = b + 3 /\ Len(st) - 1 = b + 2
      BY <1>5, <2>3
    <3>3. QED
      BY <3>1, <3>2
  <2> HIDE DEF top, second
  <2>4. QED
    BY <2>2, <2>3, Zenon
<1> HIDE DEF top, second
<1>7. CASE k = 4
  BY <1>3, <1>4, <1>7 DEF RuleOf
<1>8. CASE k = 5
  <2>1. n = 2
    BY <1>1, <1>8, ArityIs
  <2>2. RuleOf(k) = 5
    BY <1>8 DEF RuleOf
  <2>3. Requested(RuleOf(k), st) = [i \in 1 .. top |-> NewInstruction("NO_OP", 0, 0)]
    BY <1>3, <2>2
  <2>4. Meaning(s) = [i \in 1 .. s[2].val |-> NewInstruction("NO_OP", 0, 0)]
    BY <1>4, <1>8
  <2>5. top = s[2].val
    BY <1>6, <2>1
  <2>6. QED
    BY <2>3, <2>4, <2>5
<1>9. CASE k = 6
  <2>1. n = 2
    BY <1>1, <1>9, ArityIs
  <2>2. QED
    BY <1>3, <1>4, <1>6, <1>9, <2>1 DEF RuleOf
<1>10. CASE k = 7
  <2>1. n = 2
    BY <1>1, <1>10, ArityIs
  <2>2. QED
    BY <1>3, <1>4, <1>6, <1>10, <2>1 DEF RuleOf
<1>11. CASE k = 8
  <2>1. n = 3
    BY <1>1, <1>11, ArityIs
  <2>2. QED
    BY <1>3, <1>4, <1>6, <1>11, <2>1 DEF RuleOf
<1>12. CASE k = 9
  <2>1. n = 3
    BY <1>1, <1>12, ArityIs
  <2>2. QED
    BY <1>3, <1>4, <1>6, <1>12, <2>1 DEF RuleOf
<1>13. QED
  BY <1>1, <1>7, <1>8, <1>9, <1>10, <1>11, <1>12

-----------------------------------------------------------------------------
(* The parser's invariant, and the actions of yyparse.                     *)

\* The tokens that the parser has taken, and what they say.
Ahead == IF yychar = Empty THEN handed ELSE Front(handed)
Read == Reads(Ahead)
Kept(x) == console.pc # "ended" => list = x

\* The token cannot follow.
Refused == ~Opens(Append(Read.open, yychar)) /\ ~(yychar.kind = 0 /\ Len(Read.open) = 0 /\ Len(Ahead) > 0)

\* The parser has read the start of a statement, or is between two; the look-ahead
\* is refused only if it cannot follow.
Opening ==
  /\ yyparse \in {"shift", "error"} /\ Read.ok /\ Partial(Read.open) /\ yynerrs = 0
  /\ \E b \in 1 .. 2 : Held(stack, b, Read.open) /\ (b = 1 <=> Len(Ahead) = Len(Read.open))
  /\ yyparse = "error" => yychar # Empty /\ Refused
  /\ yychar # Empty => lex.pc = "idle"
  /\ Kept(Read.list)

\* All tokens were taken, and the last one ended a statement.
Settled == yychar = Empty /\ lex.pc = "idle" /\ Read.ok /\ Read.open = <<>> /\ Len(handed) > 0 /\ yynerrs = 0

\* The statement is on the stack and is reduced next.
Completing ==
  /\ yyparse \in {"shift", "reduce"} /\ Settled
  /\ \E s \in Seq(Tok) :
       /\ Statement(s) /\ (\E b \in 1 .. 2 : Held(stack, b, s)) /\ (yyparse = "reduce" => rule = RuleOf(s[1].kind))
       /\ console.pc # "ended" => Read.list = list \o Meaning(s)

\* The statement was reduced, and is reduced with the ones before next.
Reduced ==
  /\ yyparse \in {"shift", "reduce"} /\ Settled /\ Kept(Read.list) /\ stack[1].state = 0
  /\ \/ Len(stack) = 2 /\ stack[2].state = 8 /\ (yyparse = "reduce" => rule = 2)
     \/ Len(stack) = 3 /\ stack[3].state = 15 /\ (yyparse = "reduce" => rule = 3)

\* The program is accepted.
Accepted ==
  /\ yyparse = "YYACCEPT" /\ yychar = Empty /\ lex.pc = "idle" /\ yynerrs = 0
  /\ Len(handed) > 1 /\ Last(handed).kind = 0
  /\ Reads(Front(handed)).ok /\ Reads(Front(handed)).open = <<>> /\ Kept(Reads(Front(handed)).list)

\* A token was refused.
Refusing ==
  /\ yyparse = "YYABORT" /\ yychar # Empty /\ lex.pc = "idle" /\ yynerrs = 1 /\ Read.ok /\ Refused /\ Kept(Read.list)

\* The last token is in yychar, or was taken.
Typed ==
  /\ handed \in Seq(Tok) /\ Room(stack, stacksize)
  /\ yychar = Empty \/ (Len(handed) > 0 /\ yychar = Last(handed))

\* The invariant of the parser: where it is in the program that it reads.
ParserInv == Typed /\ (Opening \/ Completing \/ Reduced \/ Accepted \/ Refusing)

\* YYEMPTY is no token.
LEMMA NotEmpty == ASSUME NEW t \in Tok PROVE t # Empty
BY DEF Tok, Empty

\* The tokens that were taken, and the one that is looked at.
LEMMA AheadFacts ==
  ASSUME Typed
  PROVE  /\ Ahead \in Seq(Tok) /\ Read \in Readings
         /\ yychar # Empty => /\ yychar \in Tok /\ handed = Append(Ahead, yychar) /\ Len(Ahead) = Len(handed) - 1
                              /\ Ahead = Front(handed) /\ Reads(handed) = ReadOne(Read, yychar)
         /\ yychar = Empty => Ahead = handed
<1>1. handed \in Seq(Tok) /\ (yychar = Empty \/ (Len(handed) > 0 /\ yychar = Last(handed)))
  BY DEF Typed
<1>2. ASSUME yychar # Empty
      PROVE  /\ yychar \in Tok /\ handed = Append(Ahead, yychar) /\ Len(Ahead) = Len(handed) - 1
             /\ Ahead \in Seq(Tok) /\ Ahead = Front(handed)
  <2>1. Ahead = Front(handed) /\ Len(handed) > 0 /\ yychar = Last(handed)
    BY <1>1, <1>2 DEF Ahead
  <2>2. QED
    BY <1>1, <2>1, FrontLast
<1>3. yychar = Empty => Ahead = handed
  BY DEF Ahead
<1>4. Ahead \in Seq(Tok)
  BY <1>1, <1>2, <1>3
<1>5. Read \in Readings
  BY <1>4, ReadsFacts DEF Read
<1>6. yychar # Empty => Reads(handed) = ReadOne(Read, yychar)
  BY <1>2, ReadsAppend DEF Read
<1>7. QED
  BY <1>2, <1>3, <1>4, <1>5, <1>6

\* The invariant of the parser holds at the start.
LEMMA ParserStart == ASSUME Init PROVE ParserInv
<1>1. /\ yyparse = "shift" /\ stack = <<[state |-> 0, val |-> 0]>> /\ stacksize = InitDepth /\ yynerrs = 0 /\ list = <<>>
      /\ yychar = Empty /\ handed = <<>>
  BY DEF Init, ParseInit, ScanInit
<1>2. [state |-> 0, val |-> 0] \in Entries
  BY DEF Entries
<1>3. stack \in Seq(Entries) /\ Len(stack) = 1 /\ stack[1].state = 0
  BY <1>1, <1>2
<1>4. handed \in Seq(Tok) /\ Len(handed) = 0
  BY <1>1
<1>5. Typed
  BY <1>1, <1>3, <1>4, ParserAssumption DEF Typed, Room
<1>6. Ahead = handed /\ Read = Nothing
  BY <1>1, <1>4, ReadsFacts DEF Ahead, Read
<1>7. Read.ok /\ Read.open = <<>> /\ Read.list = <<>>
  BY <1>6 DEF Nothing
<1>8. Partial(<<>>) /\ Len(<<>>) = 0
  BY DEF Partial
<1>9. Held(stack, 1, <<>>)
  BY <1>3, <1>8 DEF Held
<1>10. \E b \in 1 .. 2 : Held(stack, b, Read.open) /\ (b = 1 <=> Len(Ahead) = Len(Read.open))
  <2>1. 1 \in 1 .. 2 /\ Held(stack, 1, Read.open) /\ (1 = 1 <=> Len(Ahead) = Len(Read.open))
    BY <1>4, <1>6, <1>7, <1>8, <1>9
  <2>2. QED
    BY <2>1
<1>11. Opening
  BY <1>1, <1>7, <1>8, <1>10 DEF Opening, Kept
<1>12. QED
  BY <1>5, <1>11 DEF ParserInv

\* A token of the start of a statement is shifted.
LEMMA ShiftKeeps ==
  ASSUME Typed, Opening, Shift, UNCHANGED console
  PROVE  ParserInv'
<1> DEFINE t == yychar
           o == Read.open
           s == Append(o, t)
           q == ReadOne(Read, t)
           x == TableEntry(yystate, t.kind)
           e == [state |-> x, val |-> t.val]
<1>1. /\ yyparse = "shift" /\ lex.pc = "idle" /\ yychar # Empty /\ x > 0 /\ PushState(stack, x, t.val)
      /\ yychar' = Empty /\ handed' = handed /\ lex' = lex /\ yynerrs' = yynerrs /\ list' = list
  BY DEF Shift, Deciding
<1>2. /\ t \in Tok /\ Ahead \in Seq(Tok) /\ Read \in Readings /\ handed = Append(Ahead, t)
      /\ Reads(handed) = q /\ Len(Ahead) = Len(handed) - 1 /\ Ahead = Front(handed)
  BY <1>1, AheadFacts
<1>3. Read.ok /\ Partial(o) /\ yynerrs = 0 /\ Kept(Read.list)
  BY DEF Opening
<1>4. PICK b \in 1 .. 2 : Held(stack, b, o) /\ (b = 1 <=> Len(Ahead) = Len(o))
  BY DEF Opening
<1>5. /\ Opens(s) => x = StateOf(s[1].kind, Len(o) + 1) /\ x \in 1 .. 17 \ {14}
      /\ ~Opens(s) => x = IF Len(o) = 0 /\ b = 2 /\ t.kind = 0 THEN 14 ELSE 0
  BY <1>2, <1>3, <1>4, EntryOf DEF yystate
<1>6. stack \in Seq(Entries) /\ Len(stack) \in 1 .. 4 /\ Room(stack, stacksize)
  <2>1. stack \in Seq(Entries) /\ Room(stack, stacksize) /\ Len(stack) = b + Len(o)
    BY <1>4 DEF Typed, Room, Held
  <2>2. Len(o) \in 0 .. 2
    <3>1. Len(o) > 0 => o[1].kind \in 4 .. 9 /\ Len(o) <= Arity[o[1].kind]
      BY <1>3, ArityIs DEF Partial, Opens
    <3>2. o \in Seq(Tok) /\ Len(o) \in Nat
      BY <1>3 DEF Partial
    <3>3. ASSUME Len(o) > 0 PROVE Len(o) <= 2
      <4>1. Arity[o[1].kind] \in 0 .. 2
        BY <3>1, <3>3, ArityIs
      <4>2. QED
        BY <3>1, <3>2, <3>3, <4>1
    <3> DEFINE lo == Len(o)
    <3>4. lo \in Nat /\ (lo > 0 => lo <= 2)
      BY <3>2, <3>3
    <3> HIDE DEF lo
    <3>5. lo \in 0 .. 2
      BY <3>4
    <3>6. QED
      BY <3>5 DEF lo
  <2> DEFINE n == Len(o)
             m == Len(stack)
  <2>3. n \in 0 .. 2 /\ m = b + n
    BY <2>1, <2>2
  <2> HIDE DEF n, m
  <2>4. m \in 1 .. 4
    BY <2>3
  <2>5. QED
    BY <2>1, <2>4 DEF m
<1>7. t.val \in Nat /\ t.kind \in {0} \cup 3 .. 9
  BY <1>2 DEF Tok
<1> HIDE DEF x
<1>8. x \in 0 .. 17
  BY <1>1, <1>5
<1>9. /\ stack' = Append(stack, e) /\ Room(stack', stacksize')
      /\ yyparse' = IF x = 14 THEN "YYACCEPT" ELSE "shift"
  <2>1. Len(stack) <= Len(stack) /\ PushState(stack, x, t.val)
    BY <1>1, <1>6
  <2>2. QED
    BY <1>6, <1>7, <1>8, <2>1, PushFacts, Zenon
<1>10. Typed' /\ Ahead' = handed /\ Read' = q
  <2>1. handed \in Seq(Tok)
    BY DEF Typed
  <2>2. Ahead' = handed
    BY <1>1 DEF Ahead
  <2>3. Read' = q
    BY <1>2, <2>2 DEF Read
  <2>4. Typed'
    BY <1>1, <1>9, <2>1 DEF Typed
  <2>5. QED
    BY <2>2, <2>3, <2>4
<1>11. CASE ~Opens(s)
  <2>1. x = 14 /\ Len(o) = 0 /\ b = 2 /\ t.kind = 0
    BY <1>1, <1>5, <1>11
  <2>2. Len(handed) > 1
    <3>1. Len(Ahead) \in Nat /\ Len(Ahead) # 0 /\ Len(handed) \in Nat /\ Len(Ahead) = Len(handed) - 1
      BY <1>2, <1>4, <2>1 DEF Typed
    <3>2. QED
      BY <3>1
  <2>3. Last(handed).kind = 0
    BY <1>2, <2>1, AppendFacts
  <2>4. o = <<>>
    <3>1. o \in Seq(Tok)
      BY <1>3 DEF Partial
    <3>2. QED
      BY <2>1, <3>1
  <2>5. Reads(Front(handed)) = Read
    BY <1>2 DEF Read
  <2>7. Accepted'
    BY <1>1, <1>3, <1>9, <2>1, <2>2, <2>3, <2>4, <2>5 DEF Accepted, Kept
  <2>8. QED
    BY <1>10, <2>7 DEF ParserInv
<1>12. CASE Opens(s)
  <2>1. e \in Entries /\ e.state = StateOf(s[1].kind, Len(o) + 1) /\ e.val = t.val
    BY <1>5, <1>7, <1>8, <1>12 DEF Entries
  <2>2. Held(stack', b, s)
    <3> HIDE DEF e
    <3>1. QED
      BY <1>2, <1>3, <1>4, <1>6, <1>9, <1>12, <2>1, HeldPush
  <2>3. /\ s \in Seq(Tok) /\ Len(s) = Len(o) + 1 /\ s[1].kind \in 4 .. 9
        /\ (Complete(s) => Statement(s)) /\ (~Complete(s) => Partial(s))
    BY <1>2, <1>3, <1>12, OpensAppend
  <2>4. yyparse' = "shift"
    BY <1>5, <1>9, <1>12
  <2>5. CASE Complete(s)
    <3>1. q.ok /\ q.open = <<>> /\ q.list = Read.list \o Meaning(s)
      BY <1>2, <1>3, <1>12, <2>5, ReadOneFacts
    <3>2. Len(handed) > 0
      BY <1>1 DEF Typed
    <3>3. Settled'
      BY <1>1, <1>3, <1>10, <3>1, <3>2 DEF Settled
    <3>4. console'.pc # "ended" => q.list = list' \o Meaning(s)
      BY <1>1, <1>3, <3>1 DEF Kept
    <3>5. \E c \in 1 .. 2 : Held(stack', c, s)
      BY <2>2
    <3>6. Completing'
      BY <1>10, <2>3, <2>4, <2>5, <3>3, <3>4, <3>5 DEF Completing
    <3>7. QED
      BY <1>10, <3>6 DEF ParserInv
  <2>6. CASE ~Complete(s)
    <3>1. q.ok /\ q.open = s /\ q.list = Read.list
      BY <1>2, <1>3, <1>12, <2>6, ReadOneFacts
    <3>2. b = 1 <=> Len(handed) = Len(s)
      <4> DEFINE la == Len(Ahead)
                 lh == Len(handed)
                 lo == Len(o)
                 ls == Len(s)
      <4>1. la = lh - 1 /\ ls = lo + 1 /\ (b = 1 <=> la = lo) /\ la \in Nat /\ lh \in Nat /\ lo \in Nat /\ ls \in Nat
        BY <1>2, <1>3, <1>4, <2>3 DEF Typed, Partial
      <4> HIDE DEF la, lh, lo, ls
      <4>2. b = 1 <=> lh = ls
        BY <4>1
      <4>3. QED
        BY <4>2 DEF lh, ls
    <3>3. \E c \in 1 .. 2 : Held(stack', c, q.open) /\ (c = 1 <=> Len(handed) = Len(q.open))
      BY <2>2, <3>1, <3>2
    <3>4. (Kept(Read.list))'
      BY <1>1, <1>3, <1>10, <3>1 DEF Kept
    <3>5. Partial(q.open)
      BY <2>3, <2>6, <3>1
    <3>6. Opening'
      BY <1>1, <1>3, <1>10, <2>4, <3>1, <3>3, <3>4, <3>5 DEF Opening
    <3>7. QED
      BY <1>10, <3>6 DEF ParserInv
  <2>7. QED
    BY <2>5, <2>6
<1>13. QED
  BY <1>11, <1>12

\* Nothing that the invariant speaks of changes but the place in yyparse and the rule.
LEMMA SameRead ==
  ASSUME handed' = handed, yychar' = yychar
  PROVE  Ahead' = Ahead /\ Read' = Read
<1>1. Ahead' = Ahead
  BY DEF Ahead
<1>2. QED
  BY <1>1 DEF Read

\* A token that cannot follow is an error, and needs no reduction.
LEMMA DefaultOpening ==
  ASSUME Typed, Opening, Default, UNCHANGED console
  PROVE  ParserInv'
<1> DEFINE t == yychar
           o == Read.open
           s == Append(o, t)
           x == TableEntry(yystate, t.kind)
<1>1. /\ yyparse = "shift" /\ lex.pc = "idle" /\ (NeedsToken => yychar # Empty /\ x = 0)
      /\ rule' = yydefact[yystate + 1] /\ yyparse' = IF yydefact[yystate + 1] = 0 THEN "error" ELSE "reduce"
      /\ stack' = stack /\ stacksize' = stacksize /\ yynerrs' = yynerrs /\ list' = list /\ yychar' = yychar
      /\ handed' = handed /\ lex' = lex
  BY DEF Default, Deciding, scanVars
<1>2. Read.ok /\ Partial(o) /\ yynerrs = 0 /\ Kept(Read.list)
  BY DEF Opening
<1>3. PICK b \in 1 .. 2 : Held(stack, b, o) /\ (b = 1 <=> Len(Ahead) = Len(o))
  BY DEF Opening
<1>4. yypact[yystate + 1] # YYNINF /\ yydefact[yystate + 1] = 0
  <2>1. [kind |-> 0, val |-> 0] \in Tok
    BY DEF Tok
  <2>2. QED
    BY <1>2, <1>3, <2>1, EntryOf DEF yystate
<1>5. yychar # Empty /\ x = 0 /\ yyparse' = "error"
  BY <1>1, <1>4 DEF NeedsToken
<1>6. t \in Tok /\ Ahead \in Seq(Tok)
  BY <1>5, AheadFacts
<1>7. /\ Opens(s) => x \in 1 .. 17 \ {14}
      /\ ~Opens(s) => x = IF Len(o) = 0 /\ b = 2 /\ t.kind = 0 THEN 14 ELSE 0
  BY <1>2, <1>3, <1>6, EntryOf DEF yystate
<1>8. Refused
  <2> HIDE DEF x
  <2>1. ~Opens(s) /\ ~(Len(o) = 0 /\ b = 2 /\ t.kind = 0)
    BY <1>5, <1>7
  <2>2. ASSUME t.kind = 0, Len(o) = 0, Len(Ahead) > 0 PROVE FALSE
    <3>1. b = 1
      BY <2>1, <2>2
    <3>2. Len(Ahead) = 0
      BY <1>3, <2>2, <3>1
    <3>3. QED
      BY <2>2, <3>2
  <2>3. QED
    BY <2>1, <2>2 DEF Refused
<1>9. Ahead' = Ahead /\ Read' = Read
  BY <1>1, SameRead
<1>10. Typed'
  BY <1>1 DEF Typed
<1>11. Refused'
  BY <1>1, <1>8, <1>9 DEF Refused
<1>12. Kept(Read.list)'
  BY <1>1, <1>2, <1>9 DEF Kept
<1>13. \E c \in 1 .. 2 : Held(stack', c, Read'.open) /\ (c = 1 <=> Len(Ahead') = Len(Read'.open))
  BY <1>1, <1>3, <1>9
<1>14. Opening'
  BY <1>1, <1>2, <1>5, <1>9, <1>11, <1>12, <1>13 DEF Opening
<1>15. QED
  BY <1>10, <1>14 DEF ParserInv

\* A statement that is complete is reduced, whatever comes next.
LEMMA TopOfStatement ==
  ASSUME NEW s, Statement(s), NEW b, Held(stack, b, s)
  PROVE  /\ yystate = StateOf(s[1].kind, Arity[s[1].kind] + 1) /\ yypact[yystate + 1] = YYNINF
         /\ yydefact[yystate + 1] = RuleOf(s[1].kind) /\ RuleOf(s[1].kind) # 0 /\ s[1].kind \in 4 .. 9
         /\ Len(s) = Arity[s[1].kind] + 1
<1>1. s \in Seq(Tok) /\ Len(s) > 0 /\ s[1].kind \in 4 .. 9 /\ Len(s) = Arity[s[1].kind] + 1
  BY ArityIs DEF Statement, Opens, Complete
<1>2. yystate = StateOf(s[1].kind, Arity[s[1].kind] + 1)
  BY <1>1, TopState DEF yystate
<1>3. QED
  BY <1>1, <1>2, CompleteRows

\* A complete statement is reduced without looking at a token.
LEMMA DefaultCompleting ==
  ASSUME Typed, Completing, Default, UNCHANGED console
  PROVE  ParserInv'
<1>1. /\ yyparse = "shift" /\ lex.pc = "idle"
      /\ rule' = yydefact[yystate + 1] /\ yyparse' = IF yydefact[yystate + 1] = 0 THEN "error" ELSE "reduce"
      /\ stack' = stack /\ stacksize' = stacksize /\ yynerrs' = yynerrs /\ list' = list /\ yychar' = yychar
      /\ handed' = handed /\ lex' = lex
  BY DEF Default, Deciding, scanVars
<1>2. PICK s \in Seq(Tok) : /\ Statement(s) /\ (\E b \in 1 .. 2 : Held(stack, b, s))
                            /\ console.pc # "ended" => Read.list = list \o Meaning(s)
  BY DEF Completing
<1>3. yydefact[yystate + 1] = RuleOf(s[1].kind) /\ RuleOf(s[1].kind) # 0
  BY <1>2, TopOfStatement
<1>4. Ahead' = Ahead /\ Read' = Read
  BY <1>1, SameRead
<1>5. Typed'
  BY <1>1 DEF Typed
<1>6. Settled'
  BY <1>1, <1>4 DEF Settled, Completing
<1>7. yyparse' = "reduce" /\ rule' = RuleOf(s[1].kind)
  BY <1>1, <1>3
<1>8. Completing'
  BY <1>1, <1>2, <1>4, <1>6, <1>7 DEF Completing
<1>9. QED
  BY <1>5, <1>8 DEF ParserInv

\* The state on top after a reduction.
LEMMA TopOfReduced ==
  ASSUME Typed, Reduced
  PROVE  /\ Len(stack) = 2 => yystate = 8
         /\ Len(stack) = 3 => yystate = 15
         /\ yypact[yystate + 1] = YYNINF
<1>1. (Len(stack) = 2 /\ stack[2].state = 8) \/ (Len(stack) = 3 /\ stack[3].state = 15)
  BY DEF Reduced
<1>2. QED
  BY <1>1, ReducedRows DEF yystate, Last

\* So is a statement after the ones before.
LEMMA DefaultReduced ==
  ASSUME Typed, Reduced, Default, UNCHANGED console
  PROVE  ParserInv'
<1>1. /\ yyparse = "shift" /\ lex.pc = "idle"
      /\ rule' = yydefact[yystate + 1] /\ yyparse' = IF yydefact[yystate + 1] = 0 THEN "error" ELSE "reduce"
      /\ stack' = stack /\ stacksize' = stacksize /\ yynerrs' = yynerrs /\ list' = list /\ yychar' = yychar
      /\ handed' = handed /\ lex' = lex
  BY DEF Default, Deciding, scanVars
<1>2. Ahead' = Ahead /\ Read' = Read
  BY <1>1, SameRead
<1>3. Typed' /\ Settled'
  BY <1>1, <1>2 DEF Typed, Settled, Reduced
<1>4. /\ Len(stack) = 2 => rule' = 2 /\ yyparse' = "reduce"
      /\ Len(stack) = 3 => rule' = 3 /\ yyparse' = "reduce"
  BY <1>1, TopOfReduced, ReducedRows
<1>5. Kept(Read.list)'
  BY <1>1, <1>2 DEF Kept, Reduced
<1>6. Reduced'
  BY <1>1, <1>3, <1>4, <1>5 DEF Reduced
<1>7. QED
  BY <1>3, <1>6 DEF ParserInv

\* A token that cannot follow is a syntax error.
LEMMA ErrorKeeps ==
  ASSUME Typed, Opening, SyntaxError, UNCHANGED console
  PROVE  ParserInv'
<1>1. /\ yyparse = "error" /\ yynerrs' = yynerrs + 1 /\ stack' = <<Head(stack)>> /\ yyparse' = "YYABORT"
      /\ stacksize' = stacksize /\ list' = list /\ yychar' = yychar /\ handed' = handed /\ lex' = lex
  BY DEF SyntaxError, scanVars
<1>2. Ahead' = Ahead /\ Read' = Read
  BY <1>1, SameRead
<1>3. Typed'
  <2>1. stack \in Seq(Entries) /\ Len(stack) \in 1 .. 5 /\ stacksize \in 2 .. MaxDepth
    BY DEF Typed, Room
  <2>2. stack' \in Seq(Entries) /\ Len(stack') = 1
    BY <1>1, <2>1
  <2>3. Room(stack', stacksize')
    BY <1>1, <2>1, <2>2 DEF Room
  <2>4. QED
    BY <1>1, <2>3 DEF Typed
<1>4. Refused' /\ Kept(Read.list)' /\ yychar' # Empty /\ lex'.pc = "idle" /\ yynerrs' = 1 /\ Read'.ok
  BY <1>1, <1>2 DEF Opening, Refused, Kept
<1>5. Refusing'
  BY <1>1, <1>4 DEF Refusing
<1>6. QED
  BY <1>3, <1>5 DEF ParserInv

\* The reduction of a statement requests its instructions.
LEMMA ReduceCompleting ==
  ASSUME Typed, Completing, Reduce, UNCHANGED console
  PROVE  ParserInv'
<1> DEFINE below == SubSeq(stack, 1, Len(stack) - yyr2[rule + 1])
           lhs == yyr1[rule + 1]
           x == Goto(Last(below).state, lhs)
           v == stack[Len(below) + 1].val
<1>1. /\ yyparse = "reduce" /\ PushState(below, x, v) /\ list' = list \o Requested(rule, stack)
      /\ yynerrs' = yynerrs /\ yychar' = yychar /\ handed' = handed /\ lex' = lex
  BY DEF Reduce, scanVars
<1>2. PICK s \in Seq(Tok) : /\ Statement(s) /\ (\E b \in 1 .. 2 : Held(stack, b, s)) /\ rule = RuleOf(s[1].kind)
                            /\ console.pc # "ended" => Read.list = list \o Meaning(s)
  BY <1>1 DEF Completing
<1>3. PICK b \in 1 .. 2 : Held(stack, b, s)
  BY <1>2
<1>4. s[1].kind \in 4 .. 9 /\ Len(s) = Arity[s[1].kind] + 1
  BY <1>2, <1>3, TopOfStatement
<1>5. yyr2[rule + 1] = Len(s) /\ lhs = 12
  BY <1>2, <1>4, CompleteRows
<1>6. /\ stack \in Seq(Entries) /\ Room(stack, stacksize) /\ Len(stack) = b + Len(s) /\ stack[1].state = 0
      /\ (b = 2 => stack[2].state = 7) /\ Len(s) \in Nat /\ Len(s) > 0 /\ Len(stack) \in Nat
  BY <1>2, <1>3 DEF Typed, Room, Held, Statement
<1>7. /\ below \in Seq(Entries) /\ Len(below) = b /\ \A i \in 1 .. b : below[i] = stack[i]
  <2> DEFINE n == Len(stack) - yyr2[rule + 1]
  <2>1. n = b /\ b \in 0 .. Len(stack)
    BY <1>5, <1>6
  <2> HIDE DEF n
  <2>2. SubSeq(stack, 1, b) \in Seq(Entries) /\ Len(SubSeq(stack, 1, b)) = b /\ \A i \in 1 .. b : SubSeq(stack, 1, b)[i] = stack[i]
    BY <1>6, <2>1
  <2>3. below = SubSeq(stack, 1, b)
    BY <2>1 DEF n
  <2>4. QED
    BY <2>2, <2>3
<1> HIDE DEF below
<1>8. Last(below).state = (IF b = 2 THEN 7 ELSE 0) /\ stack[b + 1] \in Entries
  <2>1. Last(below) = stack[b]
    BY <1>7 DEF Last
  <2>2. b + 1 \in 1 .. Len(stack)
    BY <1>6
  <2>3. QED
    BY <1>6, <2>1, <2>2
<1>9. x = (IF b = 2 THEN 15 ELSE 8) /\ v \in Nat
  BY <1>5, <1>7, <1>8, ReducedRows DEF Entries
<1> HIDE DEF x, v
<1>10. Len(below) \in 1 .. 4 /\ Len(below) <= Len(stack) /\ x \in 0 .. 17 /\ x # 14
  BY <1>6, <1>7, <1>9
<1>11. stack' = Append(below, [state |-> x, val |-> v]) /\ Room(stack', stacksize') /\ yyparse' = "shift"
  BY <1>1, <1>6, <1>7, <1>9, <1>10, PushFacts
<1>12. Len(stack') = b + 1 /\ stack'[b + 1].state = x /\ stack'[1].state = 0
  <2> DEFINE e == [state |-> x, val |-> v]
  <2>1. e \in Entries /\ e.state = x
    BY <1>9, <1>10 DEF Entries
  <2> HIDE DEF e
  <2>2. stack' = Append(below, e)
    BY <1>11 DEF e
  <2>3. /\ Len(stack') = Len(below) + 1 /\ stack'[Len(below) + 1] = e /\ \A i \in 1 .. Len(below) : stack'[i] = below[i]
    BY <1>7, <2>1, <2>2, AppendFacts
  <2>4. 1 \in 1 .. b
    OBVIOUS
  <2>5. QED
    BY <1>6, <1>7, <2>1, <2>3, <2>4
<1>13. Requested(rule, stack) = Meaning(s)
  BY <1>2, <1>3, RequestedIs
<1>14. Ahead' = Ahead /\ Read' = Read
  BY <1>1, SameRead
<1>15. Typed'
  BY <1>1, <1>11 DEF Typed
<1>16. Settled'
  BY <1>1, <1>14 DEF Settled, Completing
<1>17. Kept(Read.list)'
  BY <1>1, <1>2, <1>13, <1>14 DEF Kept
<1>18. (Len(stack') = 2 /\ stack'[2].state = 8) \/ (Len(stack') = 3 /\ stack'[3].state = 15)
  BY <1>9, <1>12
<1>19. Reduced'
  BY <1>11, <1>12, <1>16, <1>17, <1>18 DEF Reduced
<1>20. QED
  BY <1>15, <1>19 DEF ParserInv

\* The reduction of statements requests nothing.
LEMMA ReduceReduced ==
  ASSUME Typed, Reduced, Reduce, UNCHANGED console, console.pc # "ended"
  PROVE  ParserInv'
<1> DEFINE below == SubSeq(stack, 1, Len(stack) - yyr2[rule + 1])
           lhs == yyr1[rule + 1]
           x == Goto(Last(below).state, lhs)
           v == stack[Len(below) + 1].val
<1>1. /\ yyparse = "reduce" /\ PushState(below, x, v) /\ list' = list \o Requested(rule, stack)
      /\ yynerrs' = yynerrs /\ yychar' = yychar /\ handed' = handed /\ lex' = lex
  BY DEF Reduce, scanVars
<1>2. (Len(stack) = 2 /\ rule = 2) \/ (Len(stack) = 3 /\ rule = 3)
  BY <1>1 DEF Reduced
<1>3. Len(stack) - yyr2[rule + 1] = 1 /\ lhs = 11 /\ Requested(rule, stack) = <<>>
  <2>1. Requested(2, stack) = <<>> /\ Requested(3, stack) = <<>>
    BY DEF Requested
  <2>2. CASE Len(stack) = 2 /\ rule = 2
    <3>1. yyr2[rule + 1] = 1 /\ lhs = 11
      BY <2>2, ReducedRows
    <3>2. QED
      BY <2>1, <2>2, <3>1
  <2>3. CASE Len(stack) = 3 /\ rule = 3
    <3>1. yyr2[rule + 1] = 2 /\ lhs = 11
      BY <2>3, ReducedRows
    <3>2. QED
      BY <2>1, <2>3, <3>1
  <2>4. QED
    BY <1>2, <2>2, <2>3
<1>4. stack \in Seq(Entries) /\ Room(stack, stacksize) /\ stack[1].state = 0 /\ Len(stack) \in 2 .. 3
  BY <1>2 DEF Typed, Room, Reduced
<1>5. below \in Seq(Entries) /\ Len(below) = 1 /\ below[1] = stack[1]
  <2>1. below = SubSeq(stack, 1, 1)
    BY <1>3
  <2>2. SubSeq(stack, 1, 1) \in Seq(Entries) /\ Len(SubSeq(stack, 1, 1)) = 1 /\ SubSeq(stack, 1, 1)[1] = stack[1]
    BY <1>4
  <2>3. QED
    BY <2>1, <2>2
<1> HIDE DEF below
<1>6. Last(below).state = 0 /\ stack[2] \in Entries
  BY <1>4, <1>5 DEF Last
<1>7. x = 7 /\ v \in Nat
  BY <1>3, <1>5, <1>6, ReducedRows DEF Entries
<1> HIDE DEF x, v
<1>8. Len(below) \in 1 .. 4 /\ Len(below) <= Len(stack) /\ x \in 0 .. 17 /\ x # 14
  BY <1>4, <1>5, <1>7
<1>9. stack' = Append(below, [state |-> x, val |-> v]) /\ Room(stack', stacksize') /\ yyparse' = "shift"
  BY <1>1, <1>4, <1>5, <1>7, <1>8, PushFacts
<1>10. Len(stack') = 2 /\ stack'[2].state = 7 /\ stack'[1].state = 0
  <2> DEFINE e == [state |-> x, val |-> v]
  <2>1. e \in Entries /\ e.state = 7
    BY <1>7 DEF Entries
  <2> HIDE DEF e
  <2>2. stack' = Append(below, e)
    BY <1>9 DEF e
  <2>3. /\ Len(stack') = Len(below) + 1 /\ stack'[Len(below) + 1] = e /\ \A i \in 1 .. Len(below) : stack'[i] = below[i]
    <3>1. below \in Seq(Entries)
      BY <1>5
    <3>2. QED
      BY <3>1, <2>1, <2>2, AppendFacts
  <2>4. 1 \in 1 .. Len(below) /\ Len(below) + 1 = 2
    BY <1>5
  <2>5. stack'[1] = below[1]
    BY <2>3, <2>4
  <2>6. Len(stack') = 2 /\ stack'[2] = e
    BY <2>3, <2>4
  <2>7. QED
    BY <1>4, <1>5, <2>1, <2>5, <2>6
<1>11. Ahead' = Ahead /\ Read' = Read /\ Read \in Readings /\ Ahead = handed
  BY <1>1, SameRead, AheadFacts DEF Reduced, Settled
<1>12. Typed'
  BY <1>1, <1>9 DEF Typed
<1>13. list = Read.list /\ Read.list \in Seq(Instr) /\ list' = list \o <<>>
  BY <1>1, <1>3, <1>11 DEF Reduced, Kept, Readings
<1>14. Kept(Read.list)'
  <2>1. list' = list
    BY <1>13
  <2>2. QED
    BY <1>11, <1>13, <2>1 DEF Kept
<1>15. Partial(<<>>) /\ Len(<<>>) = 0
  BY DEF Partial
<1>16. Held(stack', 2, <<>>)
  BY <1>10, <1>15 DEF Held
<1>17. yychar = Empty /\ lex.pc = "idle" /\ Read.ok /\ Read.open = <<>> /\ Len(handed) > 0 /\ yynerrs = 0
  BY DEF Reduced, Settled
<1>18. \E b \in 1 .. 2 : Held(stack', b, Read.open) /\ (b = 1 <=> Len(Ahead) = Len(Read.open))
  <2>1. 2 \in 1 .. 2 /\ Held(stack', 2, Read.open) /\ (2 = 1 <=> Len(Ahead) = Len(Read.open))
    BY <1>11, <1>15, <1>16, <1>17
  <2>2. QED
    BY <2>1
<1>19. Opening'
  BY <1>1, <1>9, <1>11, <1>14, <1>15, <1>17, <1>18 DEF Opening
<1>20. QED
  BY <1>12, <1>19 DEF ParserInv

\* A state that always reduces does not read a token.
LEMMA ReadTokenKeeps ==
  ASSUME ParserInv, ReadToken, UNCHANGED console
  PROVE  ParserInv'
<1>1. /\ yyparse = "shift" /\ NeedsToken /\ yychar = Empty /\ yychar' = yychar /\ handed' = handed
      /\ yyparse' = yyparse /\ stack' = stack /\ stacksize' = stacksize /\ yynerrs' = yynerrs /\ list' = list
  BY DEF ReadToken, Deciding, parseVars
<1>2. Typed /\ ~Completing /\ ~Reduced /\ ~Accepted /\ ~Refusing
  <2>1. ASSUME Completing PROVE FALSE
    <3>1. PICK s \in Seq(Tok) : Statement(s) /\ (\E b \in 1 .. 2 : Held(stack, b, s))
      BY <2>1 DEF Completing
    <3>2. yypact[yystate + 1] = YYNINF
      BY <3>1, TopOfStatement
    <3>3. QED
      BY <1>1, <3>2 DEF NeedsToken
  <2>2. Typed
    BY DEF ParserInv
  <2>3. ASSUME Reduced PROVE FALSE
    BY <1>1, <2>2, <2>3, TopOfReduced DEF NeedsToken
  <2>4. QED
    BY <1>1, <2>1, <2>2, <2>3 DEF Accepted, Refusing
<1>3. Opening
  BY <1>2 DEF ParserInv
<1>4. Ahead' = Ahead /\ Read' = Read
  BY <1>1, SameRead
<1>5. Typed'
  BY <1>1, <1>2 DEF Typed
<1>6. Kept(Read.list)'
  BY <1>1, <1>3, <1>4 DEF Opening, Kept
<1>7. \E c \in 1 .. 2 : Held(stack', c, Read'.open) /\ (c = 1 <=> Len(Ahead') = Len(Read'.open))
  BY <1>1, <1>3, <1>4 DEF Opening
<1>8. Opening'
  BY <1>1, <1>3, <1>4, <1>6, <1>7 DEF Opening
<1>9. QED
  BY <1>5, <1>8 DEF ParserInv

\* The scanner hands a token over, or goes on.
LEMMA HandedKeeps ==
  ASSUME Typed, Opening, yychar = Empty, yyparse = "shift", UNCHANGED <<parseVars, console>>, NEW t \in Tok,
         yychar' = t, handed' = Append(handed, t), lex'.pc = "idle"
  PROVE  ParserInv'
<1>1. handed \in Seq(Tok) /\ Ahead = handed
  BY AheadFacts DEF Typed, Ahead
<1>2. handed' \in Seq(Tok) /\ Len(handed') > 0 /\ Last(handed') = t /\ Front(handed') = handed /\ t # Empty
  BY <1>1, AppendFacts, NotEmpty
<1>3. stack' = stack /\ stacksize' = stacksize /\ yyparse' = yyparse /\ yynerrs' = yynerrs /\ list' = list /\ console' = console
  BY DEF parseVars
<1>4. Ahead' = Ahead
  BY <1>1, <1>2 DEF Ahead
<1>5. Read' = Read
  BY <1>4 DEF Read
<1>6. Typed'
  BY <1>2, <1>3 DEF Typed
<1>7. Kept(Read.list)'
  BY <1>3, <1>5 DEF Opening, Kept
<1>8. \E c \in 1 .. 2 : Held(stack', c, Read'.open) /\ (c = 1 <=> Len(Ahead') = Len(Read'.open))
  BY <1>3, <1>4, <1>5 DEF Opening
<1>9. Opening'
  BY <1>3, <1>5, <1>7, <1>8 DEF Opening
<1>10. QED
  BY <1>6, <1>9 DEF ParserInv

\* A step within yylex leaves the parser as it is.
LEMMA QuietKeeps ==
  ASSUME Typed, Opening, yychar = Empty, yyparse = "shift", UNCHANGED <<parseVars, console, yychar, handed>>
  PROVE  ParserInv'
<1>1. /\ stack' = stack /\ stacksize' = stacksize /\ yyparse' = yyparse /\ yynerrs' = yynerrs /\ list' = list
      /\ console' = console /\ yychar' = yychar /\ handed' = handed
  BY DEF parseVars
<1>2. Ahead' = Ahead /\ Read' = Read
  BY <1>1, SameRead
<1>3. Typed'
  BY <1>1 DEF Typed
<1>4. Kept(Read.list)'
  BY <1>1, <1>2 DEF Opening, Kept
<1>5. \E c \in 1 .. 2 : Held(stack', c, Read'.open) /\ (c = 1 <=> Len(Ahead') = Len(Read'.open))
  BY <1>1, <1>2 DEF Opening
<1>6. Opening'
  BY <1>1, <1>2, <1>4, <1>5 DEF Opening
<1>7. QED
  BY <1>3, <1>6 DEF ParserInv

\* Every step of yylex keeps the invariant of the parser.
LEMMA ScanParserKeeps ==
  ASSUME ParserInv, ScannerInv, Scan, UNCHANGED <<parseVars, console>>
  PROVE  ParserInv'
<1>1. lex.pc # "idle" /\ yyparse = "shift"
  BY ScanKeeps DEF ScannerInv
<1>2. Typed /\ Opening /\ yychar = Empty
  BY <1>1 DEF ParserInv, Opening, Completing, Reduced, Settled, Accepted, Refusing
<1>3. CASE ReturnToken
  <2>1. PICK t \in Tok : Return(t)
    BY <1>3, ReturnedToken
  <2>2. yychar' = t /\ handed' = Append(handed, t) /\ lex' = [lex EXCEPT !.pc = "idle"]
    BY <2>1 DEF Return
  <2>3. lex'.pc = "idle"
    BY <2>2 DEF ScannerInv, Scanning, Sound, Lexers
  <2>4. QED
    BY <1>1, <1>2, <2>2, <2>3, HandedKeeps
<1>4. CASE EndOfFile
  <2> DEFINE t == [kind |-> EOF, val |-> 0]
  <2>1. yychar' = t /\ handed' = Append(handed, t)
    BY <1>4 DEF EndOfFile
  <2>2. t \in Tok
    BY DEF Tok, EOF
  <2>3. lex'.pc = "idle"
    BY <1>4 DEF EndOfFile, Flushed, NextBuffer
  <2> HIDE DEF t
  <2>4. QED
    BY <1>1, <1>2, <2>1, <2>2, <2>3, HandedKeeps
<1>5. CASE Match \/ Skip \/ LexicalError \/ RealNul \/ ContinueScan \/ LastMatch
  <2>1. yychar' = yychar /\ handed' = handed
    BY <1>5 DEF Match, Skip, LexicalError, RealNul, ContinueScan, LastMatch
  <2>2. QED
    BY <1>1, <1>2, <2>1, QuietKeeps
<1>6. QED
  BY <1>3, <1>4, <1>5 DEF Scan

-----------------------------------------------------------------------------
(* The parser in the program.                                              *)

\* The steps of the others: the list is emptied only when the console ends.
LEMMA OtherSteps ==
  ASSUME Next
  PROVE  \/ At("parse") /\ Parse /\ UNCHANGED <<consoleVars, systemVars>>
         \/ Analysed
         \/ /\ UNCHANGED <<scanVars, yyparse, rule, stack, stacksize, yynerrs>>
            /\ console'.pc # "ended" => list' = list /\ console.pc # "ended"
<1> DEFINE Quiet == /\ UNCHANGED <<scanVars, yyparse, rule, stack, stacksize, yynerrs>>
                    /\ console'.pc # "ended" => list' = list /\ console.pc # "ended"
<1>0. ASSUME NEW c PROVE Ends(c) => console'.pc = "ended"
  BY DEF Ends
<1>1. ASSUME Console PROVE ConsoleParses \/ Analysed \/ Quiet
  <2>1. ASSUME NoContext \/ OnInit \/ CannotOpen \/ FatalError PROVE Quiet
    BY <1>0, <2>1 DEF NoContext, OnInit, CannotOpen, FatalError, parseVars, At, Goes
  <2>2. ASSUME Connect \/ SendAction \/ SendInstructions PROVE Quiet
    BY <2>2 DEF Connect, SendAction, SendInstructions, parseVars, At
  <2>3. ASSUME OnBeforeExit PROVE Quiet
    BY <1>0, <2>3 DEF OnBeforeExit
  <2>4. QED
    BY <1>1, <2>1, <2>2, <2>3 DEF Console
<1>2. ASSUME Sigint PROVE Quiet
  BY <1>0, <1>2 DEF Sigint
<1>3. ASSUME Kernel PROVE UNCHANGED <<scanVars, parseVars, console>>
  BY <1>3 DEF Kernel, HandleSyscall, HandleInstructions, Dispatch, EndIo, consoleVars
<1>4. ASSUME Cpu PROVE UNCHANGED <<scanVars, parseVars, console>>
  BY <1>4 DEF Cpu, ExecuteNothing, ExecuteNoOp, ExecuteRead, ExecuteWrite, ExecuteCopy, ExecuteIo, ExecuteExit, Stays,
     consoleVars
<1>5. ASSUME Interrupted PROVE UNCHANGED <<scanVars, parseVars, console>>
  BY <1>5 DEF Interrupted, consoleVars
<1>6. UNCHANGED <<scanVars, parseVars, console>> => Quiet
  BY DEF parseVars
<1>7. ConsoleParses => At("parse") /\ Parse /\ UNCHANGED <<consoleVars, systemVars>>
  BY DEF ConsoleParses
<1> HIDE DEF Quiet
<1>8. ConsoleParses \/ Analysed \/ Quiet
  BY <1>1, <1>2, <1>3, <1>4, <1>5, <1>6 DEF Next
<1>9. QED
  BY <1>7, <1>8 DEF Quiet

\* So does a step of anyone else,
LEMMA QuietParserKeeps ==
  ASSUME ParserInv, UNCHANGED <<yychar, handed, yyparse, rule, stack, stacksize, yynerrs>>, lex'.pc = lex.pc,
         console'.pc # "ended" => list' = list /\ console.pc # "ended"
  PROVE  ParserInv'
<1>1. Ahead' = Ahead /\ Read' = Read
  BY SameRead
<1>2. Typed' /\ Typed
  BY DEF ParserInv, Typed
<1>3. ASSUME NEW x PROVE Kept(x) => (console'.pc # "ended" => list' = x)
  BY DEF Kept
<1>4. CASE Opening
  <2>1. Kept(Read.list)'
    BY <1>1, <1>3, <1>4 DEF Opening, Kept
  <2>2. Refused' <=> Refused
    BY <1>1 DEF Refused
  <2>3. \E c \in 1 .. 2 : Held(stack', c, Read'.open) /\ (c = 1 <=> Len(Ahead') = Len(Read'.open))
    BY <1>1, <1>4 DEF Opening
  <2>4. Opening'
    BY <1>1, <1>4, <2>1, <2>2, <2>3 DEF Opening
  <2>5. QED
    BY <1>2, <2>4 DEF ParserInv
<1>5. Settled => Settled'
  BY <1>1 DEF Settled
<1>6. CASE Completing
  <2>1. PICK s \in Seq(Tok) : /\ Statement(s) /\ (\E b \in 1 .. 2 : Held(stack, b, s))
                              /\ (yyparse = "reduce" => rule = RuleOf(s[1].kind))
                              /\ console.pc # "ended" => Read.list = list \o Meaning(s)
    BY <1>6 DEF Completing
  <2>2. /\ Statement(s) /\ (\E b \in 1 .. 2 : Held(stack', b, s)) /\ (yyparse' = "reduce" => rule' = RuleOf(s[1].kind))
        /\ console'.pc # "ended" => Read'.list = list' \o Meaning(s)
    BY <1>1, <2>1
  <2>3. Completing'
    BY <1>5, <1>6, <2>2 DEF Completing
  <2>4. QED
    BY <1>2, <2>3 DEF ParserInv
<1>7. CASE Reduced
  <2>1. Kept(Read.list)'
    BY <1>1, <1>3, <1>7 DEF Reduced, Kept
  <2>2. Reduced'
    BY <1>5, <1>7, <2>1 DEF Reduced
  <2>3. QED
    BY <1>2, <2>2 DEF ParserInv
<1>8. CASE Accepted
  <2>1. Kept(Reads(Front(handed)).list)'
    BY <1>3, <1>8 DEF Accepted, Kept
  <2>2. Accepted'
    BY <1>8, <2>1 DEF Accepted
  <2>3. QED
    BY <1>2, <2>2 DEF ParserInv
<1>9. CASE Refusing
  <2>1. Kept(Read.list)' /\ (Refused' <=> Refused)
    BY <1>1, <1>3, <1>9 DEF Refusing, Kept, Refused
  <2>2. Refusing'
    BY <1>1, <1>9, <2>1 DEF Refusing
  <2>3. QED
    BY <1>2, <2>2 DEF ParserInv
<1>10. QED
  BY <1>4, <1>6, <1>7, <1>8, <1>9 DEF ParserInv

\* and so does every step.
LEMMA ParserStep ==
  ASSUME ParserInv, ScannerInv, [Next]_vars
  PROVE  ParserInv'
<1>1. CASE At("parse") /\ Parse /\ UNCHANGED <<consoleVars, systemVars>>
  <2>1. console' = console /\ console.pc # "ended"
    BY <1>1 DEF At, consoleVars
  <2>2. Typed
    BY DEF ParserInv
  <2>3. CASE ReadToken
    BY <2>1, <2>3, ReadTokenKeeps
  <2>4. CASE Scan /\ UNCHANGED parseVars
    BY <2>1, <2>4, ScanParserKeeps
  <2>5. CASE Shift
    <3>1. yyparse = "shift" /\ yychar # Empty
      BY <2>5 DEF Shift, Deciding
    <3>2. Opening
      BY <3>1 DEF ParserInv, Completing, Reduced, Settled, Accepted, Refusing
    <3>3. QED
      BY <2>1, <2>2, <2>5, <3>2, ShiftKeeps
  <2>6. CASE Default
    <3>1. yyparse = "shift"
      BY <2>6 DEF Default, Deciding
    <3>2. Opening \/ Completing \/ Reduced
      BY <3>1 DEF ParserInv, Accepted, Refusing
    <3>3. QED
      BY <2>1, <2>2, <2>6, <3>2, DefaultOpening, DefaultCompleting, DefaultReduced
  <2>7. CASE Reduce
    <3>1. yyparse = "reduce"
      BY <2>7 DEF Reduce
    <3>2. Completing \/ Reduced
      BY <3>1 DEF ParserInv, Opening, Accepted, Refusing
    <3>3. QED
      BY <2>1, <2>2, <2>7, <3>2, ReduceCompleting, ReduceReduced
  <2>8. CASE SyntaxError
    <3>1. yyparse = "error"
      BY <2>8 DEF SyntaxError
    <3>2. Opening
      BY <3>1 DEF ParserInv, Completing, Reduced, Accepted, Refusing
    <3>3. QED
      BY <2>1, <2>2, <2>8, <3>2, ErrorKeeps
  <2>9. QED
    BY <1>1, <2>3, <2>4, <2>5, <2>6, <2>7, <2>8 DEF Parse
<1>2. CASE Analysed
  <2>1. /\ yychar' = yychar /\ handed' = handed /\ yyparse' = yyparse /\ rule' = rule /\ stack' = stack
        /\ stacksize' = stacksize /\ yynerrs' = yynerrs /\ list' = list /\ lex' = Destroyed(lex) /\ console.pc = "parse"
    BY <1>2 DEF Analysed, parseVars, At
  <2>2. lex'.pc = lex.pc
    BY <2>1 DEF Destroyed, Flushed, ScannerInv, Scanning, Sound, Lexers
  <2>3. QED
    BY <2>1, <2>2, QuietParserKeeps
<1>3. CASE /\ UNCHANGED <<scanVars, yyparse, rule, stack, stacksize, yynerrs>>
           /\ console'.pc # "ended" => list' = list /\ console.pc # "ended"
  <2>1. /\ UNCHANGED <<yychar, handed, yyparse, rule, stack, stacksize, yynerrs>> /\ lex'.pc = lex.pc
    BY <1>3 DEF scanVars
  <2>2. QED
    BY <1>3, <2>1, QuietParserKeeps
<1>4. CASE UNCHANGED vars
  <2>1. /\ UNCHANGED <<yychar, handed, yyparse, rule, stack, stacksize, yynerrs>> /\ lex' = lex /\ list' = list
        /\ console' = console
    BY <1>4 DEF vars, scanVars, parseVars, consoleVars
  <2>2. QED
    BY <2>1, QuietParserKeeps
<1>5. QED
  BY <1>1, <1>2, <1>3, <1>4, OtherSteps

\* The invariants of scanner and parser always hold.
LEMMA ParserAlways == Spec => [](ScannerInv /\ ParserInv)
<1>1. ScannerInv /\ ParserInv /\ [Next]_vars => ParserInv'
  BY ParserStep
<1>2. Init => ParserInv
  BY ParserStart
<1>3. QED
  BY <1>1, <1>2, ScannerAlways, PTL DEF Spec

\* At the end of yyparse the invariant is what ParserExact says.
LEMMA ParsedMeans ==
  ASSUME ParserInv, Parsed
  PROVE  /\ ~Reads(handed).ok /\ Reads(Front(handed)).ok
         /\ yyparse = IF WellFormed(handed) THEN "YYACCEPT" ELSE "YYABORT"
         /\ (yynerrs = 0) = WellFormed(handed)
         /\ console.pc # "ended" => list = Programmed
<1>1. Typed /\ handed \in Seq(Tok) /\ (Accepted \/ Refusing)
  BY DEF ParserInv, Parsed, Opening, Completing, Reduced, Typed
<1>2. CASE Accepted
  <2> DEFINE f == Front(handed)
             t == Last(handed)
  <2>1. f \in Seq(Tok) /\ t \in Tok /\ handed = Append(f, t) /\ t.kind = 0
    BY <1>1, <1>2, FrontLast DEF Accepted
  <2>2. Reads(handed) = ReadOne(Reads(f), t) /\ Reads(f) \in Readings
    BY <2>1, ReadsAppend, ReadsFacts
  <2>3. ~Opens(Append(Reads(f).open, t))
    <3> DEFINE o == Reads(f).open
    <3>0. Partial(<<>>) /\ Len(<<>>) = 0
      BY DEF Partial
    <3>1. o = <<>>
      BY <1>2 DEF Accepted
    <3> HIDE DEF o, t
    <3>4. Partial(o) /\ Len(o) = 0
      BY <3>0, <3>1
    <3>5. Opens(Append(o, t)) <=> ((Len(o) = 0 /\ t.kind \in 4 .. 9) \/ (Len(o) > 0 /\ t.kind = 3))
      BY <2>1, <3>4, OpensAppend
    <3>2. ~Opens(Append(o, t))
      BY <2>1, <3>4, <3>5
    <3>3. QED
      BY <3>2 DEF o
  <2>4. ~Reads(handed).ok /\ Reads(handed).list = Reads(f).list
    BY <2>1, <2>2, <2>3, ReadOneFacts
  <2>5. WellFormed(handed)
    BY <1>2 DEF Accepted, WellFormed, EOF
  <2>6. QED
    BY <1>2, <2>4, <2>5 DEF Accepted, Kept, Programmed
<1>3. CASE Refusing
  <2>1. yychar # Empty /\ Read.ok /\ Refused /\ Kept(Read.list) /\ yynerrs = 1 /\ yyparse = "YYABORT"
    BY <1>3 DEF Refusing
  <2>2. /\ yychar \in Tok /\ handed = Append(Ahead, yychar) /\ Ahead = Front(handed) /\ Read \in Readings
        /\ Reads(handed) = ReadOne(Read, yychar) /\ Ahead \in Seq(Tok) /\ Len(Ahead) = Len(handed) - 1
    BY <1>1, <2>1, AheadFacts
  <2>3. ~Reads(handed).ok /\ Reads(handed).list = Read.list
    BY <2>1, <2>2, ReadOneFacts, ZenonT(60) DEF Refused
  <2>4. Reads(Front(handed)) = Read /\ Last(handed) = yychar
    BY <2>2, AppendFacts DEF Read
  <2>5. ~WellFormed(handed)
    <3>1. ASSUME WellFormed(handed) PROVE FALSE
      <4>1. Len(handed) > 1 /\ yychar.kind = 0 /\ Read.open = <<>>
        BY <2>4, <3>1 DEF WellFormed, EOF
      <4>2. Len(Ahead) > 0 /\ Len(Read.open) = 0
        <5> DEFINE lh == Len(handed)
                   la == Len(Ahead)
        <5>1. lh \in Nat /\ la \in Nat /\ la = lh - 1 /\ lh > 1
          <6>1. la = lh - 1 /\ Ahead \in Seq(Tok)
            BY <2>2
          <6>2. QED
            BY <1>1, <4>1, <6>1
        <5>2. Len(Read.open) = 0
          BY <4>1
        <5> HIDE DEF lh, la
        <5>3. la > 0
          BY <5>1
        <5>4. QED
          BY <5>2, <5>3 DEF la
      <4>3. QED
        BY <2>1, <4>1, <4>2 DEF Refused
    <3>2. QED
      BY <3>1
  <2>6. (yynerrs = 0) = WellFormed(handed)
    <3>1. WellFormed(handed) = FALSE
      BY <2>5 DEF WellFormed
    <3>2. (yynerrs = 0) = FALSE
      BY <2>1
    <3>3. QED
      BY <3>1, <3>2
  <2>7. QED
    BY <2>1, <2>3, <2>4, <2>5, <2>6 DEF Kept, Programmed
<1>4. QED
  BY <1>1, <1>2, <1>3

\* For every text: yyparse, an automaton of packed tables and a stack, accepts
\* exactly the programs of the grammar, stops at the first token that cannot be
\* one, needs at most 5 entries of stack, and has requested the instructions of the
\* statements that it read, once each and in order.
THEOREM ParserExactAlways == Spec => []ParserExact
<1>1. ParserInv => ParserExact
  <2> SUFFICES ASSUME ParserInv PROVE ParserExact
    OBVIOUS
  <2>1. Len(stack) <= 5
    <3> DEFINE n == Len(stack)
    <3>1. n \in 1 .. 5
      BY DEF ParserInv, Typed, Room
    <3> HIDE DEF n
    <3>2. n <= 5
      BY <3>1
    <3>3. QED
      BY <3>2 DEF n
  <2>2. QED
    BY <2>1, ParsedMeans, Zenon DEF ParserExact
<1>2. QED
  BY <1>1, ParserAlways, PTL

-----------------------------------------------------------------------------
(* The lexemes of a text, one after the other.                             *)

\* What has been read of a text t.
LexRecs(t) == {r \in [pos : Nat, tokens : Seq(Tok), errors : Nat, longest : Nat] : r.pos <= Len(t)}

\* The longest lexeme that a text starts with is one: a single character always is.
LEMMA LongestAtFacts ==
  ASSUME NEW u \in Seq(Chars), Len(u) > 0
  PROVE  /\ LongestAt(u) \in 1 .. Len(u) /\ Lexeme(SubSeq(u, 1, LongestAt(u)))
         /\ \A k \in 1 .. Len(u) : Lexeme(SubSeq(u, 1, k)) => k <= LongestAt(u)
<1> DEFINE n == Len(u)
           K == {k \in 1 .. n : Lexeme(SubSeq(u, 1, k))}
<1>1. n \in Nat /\ n > 0
  OBVIOUS
<1>2. Len(SubSeq(u, 1, 1)) = 1
  BY <1>1, PrefixIs
<1>3. Lexeme(SubSeq(u, 1, 1))
  BY <1>2 DEF Lexeme
<1>4. LongestAt(u) = Max(K)
  BY DEF LongestAt
<1> HIDE DEF n
<1>5. K \in SUBSET Nat /\ 1 \in K
  BY <1>1, <1>3
<1>6. IsFiniteSet(K)
  <2>1. IsFiniteSet(1 .. n) /\ K \subseteq 1 .. n
    BY <1>1, FS_Interval
  <2>2. QED
    BY <2>1, FS_Subset
<1> DEFINE m == Max(K)
<1>7. m \in K /\ \A y \in K : m >= y
  <2> HIDE DEF K
  <2>1. QED
    BY <1>5, <1>6, MaxIsGreatest
<1>8. m \in Nat
  BY <1>5, <1>7
<1>9. \A k \in 1 .. n : Lexeme(SubSeq(u, 1, k)) => k <= m
  <2> SUFFICES ASSUME NEW k \in 1 .. n, Lexeme(SubSeq(u, 1, k)) PROVE k <= m
    OBVIOUS
  <2>1. k \in K
    OBVIOUS
  <2> HIDE DEF K, m
  <2>2. m >= k
    BY <1>7, <2>1
  <2>3. QED
    BY <1>1, <1>8, <2>2
<1>10. m \in 1 .. n /\ Lexeme(SubSeq(u, 1, m))
  BY <1>7
<1> HIDE DEF m, K
<1>11. LongestAt(u) = m
  BY <1>4 DEF m
<1>12. QED
  BY <1>9, <1>10, <1>11 DEF n

\* A lexeme is one token, or none, and at most one error.
LEMMA TokensOfType ==
  ASSUME NEW s \in Seq(Chars)
  PROVE  TokensOf(s) \in Seq(Tok) /\ ErrorsOf(s) \in {0, 1}
<1>1. CASE Keyword(s) # {}
  <2> DEFINE k == CHOOSE k \in Keyword(s) : TRUE
  <2>1. k \in Keyword(s)
    BY <1>1
  <2>2. k \in 4 .. 9
    BY <2>1, KeywordIn DEF Keywords
  <2>3. TokensOf(s) = <<[kind |-> k, val |-> 0]>>
    BY <1>1 DEF TokensOf
  <2> HIDE DEF k
  <2>4. [kind |-> k, val |-> 0] \in Tok
    BY <2>2 DEF Tok
  <2>5. QED
    BY <2>3, <2>4 DEF ErrorsOf
<1>2. CASE Keyword(s) = {} /\ Constant(s)
  <2>1. TokensOf(s) = <<[kind |-> 3, val |-> ValueOf(s)]>>
    BY <1>2 DEF TokensOf, CONST
  <2>2. ValueOf(s) \in Nat
    BY <1>2, ValueIsNat
  <2>3. [kind |-> 3, val |-> ValueOf(s)] \in Tok
    BY <2>2 DEF Tok
  <2>4. QED
    BY <2>1, <2>3 DEF ErrorsOf
<1>3. CASE Keyword(s) = {} /\ ~Constant(s)
  <2>1. TokensOf(s) = <<>>
    BY <1>3 DEF TokensOf
  <2>2. <<>> \in Seq(Tok)
    OBVIOUS
  <2>3. QED
    BY <2>1, <2>2 DEF ErrorsOf
<1>4. QED
  BY <1>1, <1>2, <1>3

\* One more lexeme of a text, if there is any left.
LEMMA LexOneFacts ==
  ASSUME NEW t \in Seq(Chars), NEW r \in LexRecs(t)
  PROVE  LET u == SubSeq(t, r.pos + 1, Len(t))
             k == LongestAt(u)
             s == SubSeq(u, 1, k)
             m == LexOne(t, r)
         IN  /\ u \in Seq(Chars) /\ Len(u) = Len(t) - r.pos
             /\ m \in LexRecs(t)
             /\ Len(u) > 0 => /\ k \in 1 .. Len(u) /\ s \in Seq(Chars)
                              /\ m.pos = r.pos + k /\ m.tokens = r.tokens \o TokensOf(s)
                              /\ m.errors = r.errors + ErrorsOf(s) /\ m.longest \in {r.longest, k}
<1> DEFINE p == r.pos
           u == SubSeq(t, p + 1, Len(t))
           k == LongestAt(u)
           s == SubSeq(u, 1, k)
           m == LexOne(t, r)
           x == Max({r.longest, k})
<1>1. /\ p \in Nat /\ p <= Len(t) /\ Len(t) \in Nat /\ r.tokens \in Seq(Tok) /\ r.errors \in Nat /\ r.longest \in Nat
  BY DEF LexRecs
<1>2. u \in Seq(Chars) /\ Len(u) = Len(t) - p
  BY <1>1, SplitSeq
<1>3. CASE Len(u) = 0
  <2>1. u = <<>>
    <3> HIDE DEF u
    <3>1. QED
      BY <1>2, <1>3
  <2>2. m = r
    BY <2>1 DEF LexOne
  <2>3. m \in LexRecs(t)
    BY <2>2
  <2>4. ~(Len(u) > 0)
    <3> DEFINE lu == Len(u)
    <3> HIDE DEF lu
    <3>1. lu = 0
      BY <1>3 DEF lu
    <3>2. ~(lu > 0)
      BY <3>1
    <3>3. QED
      BY <3>2 DEF lu
  <2> HIDE DEF u, m, p, k, s
  <2>5. QED
    BY <1>2, <2>3, <2>4, Zenon DEF u, m, p, k, s
<1>4. CASE Len(u) > 0
  <2> HIDE DEF p, u
  <2>1. k \in 1 .. Len(u)
    BY <1>2, <1>4, LongestAtFacts
  <2>2. s \in Seq(Chars)
    <3> HIDE DEF k
    <3>1. QED
      BY <1>2, <2>1, PrefixIs
  <2>3. TokensOf(s) \in Seq(Tok) /\ ErrorsOf(s) \in {0, 1}
    <3> HIDE DEF s
    <3>1. QED
      BY <2>2, TokensOfType
  <2>4. x \in {r.longest, k}
    <3> DEFINE a == r.longest
               A == {a, k}
    <3> HIDE DEF a, k
    <3>0. a \in Nat /\ k \in Nat
      BY <1>1, <1>2, <2>1 DEF a
    <3>1. A \in SUBSET Nat /\ A # {}
      BY <3>0
    <3>2. IsFiniteSet(A)
      <4>1. A = {a} \cup {k} /\ IsFiniteSet({a})
        BY FS_Singleton
      <4>2. IsFiniteSet({a} \cup {k})
        BY <4>1, FS_AddElement
      <4>3. QED
        BY <4>1, <4>2
    <3> HIDE DEF A
    <3>3. Max(A) \in A
      BY <3>1, <3>2, MaxIsGreatest
    <3>4. QED
      BY <3>3 DEF A, a
  <2>5. u # <<>>
    BY <1>2, <1>4
  <2>6. m = [pos |-> p + k, tokens |-> r.tokens \o TokensOf(s), errors |-> r.errors + ErrorsOf(s), longest |-> x]
    BY <2>5 DEF LexOne, p, u
  <2> HIDE DEF x, m
  <2>7. /\ m.pos = p + k /\ m.tokens = r.tokens \o TokensOf(s) /\ m.errors = r.errors + ErrorsOf(s) /\ m.longest = x
        /\ m = [pos |-> m.pos, tokens |-> m.tokens, errors |-> m.errors, longest |-> m.longest]
    BY <2>6
  <2> HIDE DEF k, s
  <2>8. m.pos \in Nat /\ m.pos <= Len(t) /\ m.longest \in Nat
    <3> DEFINE lu == Len(u)
               lt == Len(t)
    <3>1. lu = lt - p /\ lt \in Nat /\ k \in 1 .. lu /\ p \in Nat
      BY <1>1, <1>2, <2>1
    <3> HIDE DEF lu, lt
    <3>2. p + k \in Nat /\ p + k <= lt /\ k \in Nat
      BY <3>1
    <3>3. QED
      BY <1>1, <2>4, <2>7, <3>2 DEF lt
  <2>9. m.errors \in Nat
    BY <1>1, <2>3, <2>7
  <2>10. m.tokens \in Seq(Tok)
    <3> DEFINE T == Tok
               a == r.tokens
               b == TokensOf(s)
    <3>1. a \in Seq(T) /\ b \in Seq(T)
      BY <1>1, <2>3
    <3> HIDE DEF T, a, b
    <3>2. a \o b \in Seq(T)
      BY <3>1, ConcatFacts
    <3>3. QED
      BY <2>7, <3>2 DEF T, a, b
  <2>11. m \in [pos : Nat, tokens : Seq(Tok), errors : Nat, longest : Nat]
    <3> DEFINE T == Seq(Tok)
    <3> HIDE DEF T
    <3>1. m.pos \in Nat /\ m.tokens \in T /\ m.errors \in Nat /\ m.longest \in Nat
      BY <2>8, <2>9, <2>10 DEF T
    <3>2. QED
      BY <2>7, <3>1 DEF T
  <2>12. m \in LexRecs(t)
    BY <2>8, <2>11 DEF LexRecs
  <2>13. QED
    BY <1>2, <2>1, <2>2, <2>4, <2>7, <2>12 DEF p, u, k, s, m
<1>5. Len(u) = 0 \/ Len(u) > 0
  BY <1>2
<1>6. QED
  BY <1>3, <1>4, <1>5

\* What the first i lexemes of a text are, for every i.
LEMMA LexedFacts ==
  ASSUME NEW t \in Seq(Chars)
  PROVE  /\ Lexed(t)[0] = [pos |-> 0, tokens |-> <<>>, errors |-> 0, longest |-> 0]
         /\ \A i \in 0 .. Len(t) : Lexed(t)[i] \in LexRecs(t)
         /\ \A i \in 1 .. Len(t) : Lexed(t)[i] = LexOne(t, Lexed(t)[i - 1])
<1> DEFINE n == Len(t)
           z == [pos |-> 0, tokens |-> <<>>, errors |-> 0, longest |-> 0]
           S == LexRecs(t)
           P == Seq(S) \ {<<>>}
           Longer(s) == Append(s, LexOne(t, s[Len(s)]))
           E(d) == [i \in 0 .. n |-> IF i = 0 THEN <<z>> ELSE Longer(d[i - 1])]
           g == [i \in 1 .. n |-> [s \in P |-> Longer(s)]]
           F == CHOOSE d : d = E(d)
<1>1. n \in Nat /\ z \in S
  <2>1. n \in Nat /\ <<>> \in Seq(Tok) /\ 0 \in Nat /\ 0 <= n
    OBVIOUS
  <2> DEFINE T == Seq(Tok)
  <2>2. z \in [pos : Nat, tokens : T, errors : Nat, longest : Nat] /\ z.pos = 0
    <3> HIDE DEF T
    <3>0. <<>> \in T
      BY <2>1 DEF T
    <3>1. QED
      BY <3>0
  <2> HIDE DEF z
  <2>3. QED
    BY <2>1, <2>2 DEF LexRecs
<1>2. ASSUME NEW s \in S PROVE LexOne(t, s) \in S
  BY <1>2, LexOneFacts
<1>3. Lexed(t) = [i \in 0 .. n |-> F[n][i + 1]]
  BY DEF Lexed
<1> HIDE DEF n, z, S
<1>4. ASSUME NEW s \in P
      PROVE  /\ Longer(s) \in P /\ Len(Longer(s)) = Len(s) + 1 /\ Len(s) \in Nat \ {0}
             /\ Longer(s)[Len(s) + 1] = LexOne(t, s[Len(s)])
             /\ \A i \in 1 .. Len(s) : Longer(s)[i] = s[i]
  <2> DEFINE c == s[Len(s)]
             e == LexOne(t, c)
  <2>1. s \in Seq(S) /\ Len(s) \in Nat \ {0}
    OBVIOUS
  <2>2. c \in S
    BY <2>1
  <2>3. e \in S
    BY <1>2, <2>2
  <2> HIDE DEF c, e
  <2>4. /\ Append(s, e) \in Seq(S) /\ Len(Append(s, e)) = Len(s) + 1 /\ Append(s, e)[Len(s) + 1] = e
        /\ \A i \in 1 .. Len(s) : Append(s, e)[i] = s[i]
    BY <2>1, <2>3
  <2>5. Append(s, e) # <<>>
    BY <2>1, <2>4
  <2>6. QED
    BY <2>1, <2>4, <2>5 DEF c, e
<1>5. <<z>> \in P /\ Len(<<z>>) = 1 /\ <<z>>[1] = z
  BY <1>1
<1> HIDE DEF P, Longer
<1>6. F[0] = <<z>> /\ \A i \in 1 .. n : F[i] = Longer(F[i - 1])
  <2>1. F = CHOOSE d : d = E(d)
    OBVIOUS
  <2> HIDE DEF F
  <2>2. g \in [1 .. n -> [P -> P]]
    BY <1>4
  <2>3. PICK f \in [0 .. n -> P] : f[0] = <<z>> /\ \A i \in 1 .. n : f[i] = g[i][f[i - 1]]
    <3> DEFINE a == <<z>>
    <3>1. a \in P /\ n \in Nat
      BY <1>1, <1>5
    <3> HIDE DEF g, a, E
    <3>2. \E f \in [0 .. n -> P] : f[0] = a /\ \A i \in 1 .. n : f[i] = g[i][f[i - 1]]
      BY <2>2, <3>1, RecursionUpTo, SMTT(60)
    <3>3. QED
      BY <3>2 DEF a
  <2>4. ASSUME NEW i \in 1 .. n PROVE f[i] = Longer(f[i - 1])
    <3>1. i - 1 \in 0 .. n
      BY <1>1
    <3>2. f[i - 1] \in P
      BY <3>1
    <3>3. QED
      BY <2>3, <3>2
  <2>5. f = E(f)
    <3> HIDE DEF g
    <3>1. \A i \in 0 .. n : f[i] = IF i = 0 THEN <<z>> ELSE Longer(f[i - 1])
      BY <1>1, <2>3, <2>4
    <3>2. QED
      BY <3>1
  <2> HIDE DEF E
  <2>6. F = E(F)
    BY <2>1, <2>5
  <2>7. F = [i \in 0 .. n |-> IF i = 0 THEN <<z>> ELSE Longer(F[i - 1])]
    BY <2>6 DEF E
  <2>8. QED
    BY <1>1, <2>7
<1> HIDE DEF F
<1>7. \A i \in 0 .. n : F[i] \in P /\ Len(F[i]) = i + 1
  <2> DEFINE T == {i \in 0 .. n : F[i] \in P /\ Len(F[i]) = i + 1}
  <2>1. 0 \in T
    BY <1>1, <1>5, <1>6
  <2>2. ASSUME NEW i \in 1 .. n, i - 1 \in T PROVE i \in T
    BY <1>4, <1>6, <2>2
  <2> HIDE DEF T
  <2>3. \A i \in 0 .. n : i \in T
    BY <1>1, <2>1, <2>2, UpToInduction
  <2>4. QED
    BY <2>3 DEF T
\* A longer list has the same first elements.
<1>8. ASSUME NEW j \in 0 .. n PROVE Lexed(t)[j] = F[j][j + 1]
  <2> DEFINE T == {i \in 0 .. n : j <= i => F[i][j + 1] = F[j][j + 1]}
  <2>1. 0 \in T
    BY <1>1
  <2>2. ASSUME NEW i \in 1 .. n, i - 1 \in T PROVE i \in T
    <3>1. CASE j <= i - 1
      <4>1. F[i - 1][j + 1] = F[j][j + 1]
        BY <2>2, <3>1
      <4>2. F[i - 1] \in P /\ Len(F[i - 1]) = i /\ j + 1 \in 1 .. i
        BY <1>1, <1>7, <3>1
      <4>3. QED
        BY <1>4, <1>6, <4>1, <4>2
    <3>2. CASE j > i - 1
      BY <3>2
    <3>3. QED
      BY <3>1, <3>2
  <2> HIDE DEF T
  <2>3. \A i \in 0 .. n : i \in T
    BY <1>1, <2>1, <2>2, UpToInduction
  <2>4. F[n][j + 1] = F[j][j + 1]
    BY <1>1, <2>3 DEF T
  <2>5. QED
    BY <1>3, <2>4
<1>9. Lexed(t)[0] = z
  BY <1>1, <1>5, <1>6, <1>8
<1>10. ASSUME NEW i \in 1 .. n PROVE Lexed(t)[i] = LexOne(t, Lexed(t)[i - 1])
  <2>1. i - 1 \in 0 .. n /\ i \in 0 .. n /\ (i - 1) + 1 = i
    BY <1>1
  <2>2. F[i - 1] \in P /\ Len(F[i - 1]) = i
    BY <1>7, <2>1
  <2>3. F[i][i + 1] = LexOne(t, F[i - 1][i])
    BY <1>4, <1>6, <2>2
  <2>4. QED
    BY <1>8, <2>1, <2>3
<1>11. \A i \in 0 .. n : Lexed(t)[i] \in S
  <2> DEFINE T == {i \in 0 .. n : Lexed(t)[i] \in S}
  <2>1. 0 \in T
    BY <1>1, <1>9
  <2>2. \A i \in 1 .. n : i - 1 \in T => i \in T
    BY <1>2, <1>10
  <2> HIDE DEF T
  <2>3. \A i \in 0 .. n : i \in T
    BY <1>1, <2>1, <2>2, UpToInduction
  <2>4. QED
    BY <2>3 DEF T
<1>12. QED
  BY <1>9, <1>10, <1>11 DEF n, z, S

-----------------------------------------------------------------------------
(* The lexeme that yylex acts on.                                          *)

\* A text is one keyword at most.
LEMMA OneKeyword ==
  ASSUME NEW u \in Seq(Chars), NEW n \in 1 .. Len(u), NEW k \in Keyword(SubSeq(u, 1, n)), NEW j \in Keyword(SubSeq(u, 1, n))
  PROVE  k = j
<1>1. k \in Keywords /\ j \in Keywords
  BY KeywordIn
<1>2. Spells(u, n, k) /\ Spells(u, n, j)
  BY <1>1, KeywordOf
<1>3. Walk(u)[n] = Path[k][Len(Path[k])] /\ Walk(u)[n] = Path[j][Len(Path[j])]
  BY <1>1, <1>2, SpellsEnd
<1>4. TokenOf(yy_accept[Walk(u)[n] + 1]) = k /\ TokenOf(yy_accept[Walk(u)[n] + 1]) = j
  BY <1>1, <1>3, KeywordEnds
<1>5. QED
  BY <1>4

\* The text that yylex acts on is the longest lexeme, and the action that of Lexemes.
LEMMA LexemeRead ==
  ASSUME lex \in Lexers, Longest(lex)
  PROVE  LET u == Unread(lex)
             n == lex.cp - lex.text
             s == SubSeq(u, 1, n)
             a == Action(lex)
         IN  /\ u \in Seq(Chars) /\ n \in 1 .. Len(u) /\ LongestAt(u) = n
             /\ a \in {1, 2, 3, 4, 5, 6, 8} =>
                  /\ TokensOf(s) = <<[kind |-> TokenOf(a), val |-> IF a = 8 THEN ValueOf(YyText) ELSE 0]>>
                  /\ ErrorsOf(s) = 0
             /\ a = 7 => TokensOf(s) = <<>> /\ ErrorsOf(s) = 0
             /\ a \in {9, 10} => TokensOf(s) = <<>> /\ ErrorsOf(s) = 1
<1> DEFINE u == Unread(lex)
           n == lex.cp - lex.text
           s == SubSeq(u, 1, n)
           a == Action(lex)
<1>1. /\ n \in 1 .. Len(u) /\ YyText = s /\ Lexeme(s) /\ RightAction(a, s)
      /\ \A k \in n + 1 .. Len(u) : ~Lexeme(SubSeq(u, 1, k))
  BY LongestIsLexeme
<1>2. u \in Seq(Chars)
  <2>1. lex.text \in Nat /\ lex.cp \in Nat /\ Len(lex.buf) \in Nat
    BY DEF Lexers
  <2>2. n \in 1 .. Len(lex.buf) - lex.text
    BY DEF Longest
  <2>3. lex.text <= Len(lex.buf)
    <3> DEFINE t == lex.text
               b == Len(lex.buf)
    <3>1. n \in 1 .. b - t /\ t \in Nat /\ b \in Nat
      BY <2>1, <2>2
    <3> HIDE DEF n, t, b
    <3>2. t <= b
      BY <3>1
    <3>3. QED
      BY <3>2 DEF t, b
  <2>4. QED
    BY <2>3, UnreadFacts
<1>3. LongestAt(u) = n
  <2> DEFINE m == LongestAt(u)
             lu == Len(u)
  <2> HIDE DEF u, n
  <2>1. lu \in Nat /\ n \in 1 .. lu
    BY <1>1, <1>2
  <2>2. m \in 1 .. lu /\ Lexeme(SubSeq(u, 1, m)) /\ \A k \in 1 .. lu : Lexeme(SubSeq(u, 1, k)) => k <= m
    <3>1. Len(u) > 0
      BY <2>1
    <3>2. QED
      BY <1>2, <3>1, LongestAtFacts
  <2> HIDE DEF m
  <2>3. n <= m
    BY <1>1, <2>1, <2>2
  <2>4. ~(m \in n + 1 .. lu)
    BY <1>1, <2>2
  <2> HIDE DEF lu
  <2>5. m = n
    BY <2>1, <2>2, <2>3, <2>4
  <2>6. QED
    BY <2>5 DEF m
<1>4. /\ a \in 1 .. 6 <=> Keyword(s) # {}
      /\ a \in 1 .. 6 => TokenOf(a) \in Keyword(s)
      /\ a = 7 <=> Blank(s)
      /\ a = 8 <=> Constant(s)
  BY <1>1 DEF RightAction
<1> HIDE DEF u, n, a
<1>5. CASE a \in 1 .. 6
  <2> DEFINE k == CHOOSE k \in Keyword(s) : TRUE
  <2>1. k \in Keyword(s) /\ TokenOf(a) \in Keyword(s)
    BY <1>4, <1>5
  <2> HIDE DEF k
  <2>2. k = TokenOf(a)
    BY <1>1, <1>2, <2>1, OneKeyword
  <2>3. TokensOf(s) = <<[kind |-> k, val |-> 0]>> /\ ErrorsOf(s) = 0
    BY <1>4, <1>5 DEF TokensOf, ErrorsOf, k
  <2>4. a # 7 /\ a # 8 /\ a \notin {9, 10}
    BY <1>5
  <2> HIDE DEF s
  <2>5. QED
    BY <1>1, <1>2, <1>3, <2>2, <2>3, <2>4 DEF u, n, s, a
<1>6. CASE a = 8
  <2>1. Keyword(s) = {} /\ Constant(s)
    BY <1>4, <1>6
  <2>2. TokensOf(s) = <<[kind |-> CONST, val |-> ValueOf(s)]>> /\ ErrorsOf(s) = 0
    BY <2>1 DEF TokensOf, ErrorsOf
  <2>3. TokenOf(a) = CONST
    BY <1>6 DEF TokenOf
  <2> HIDE DEF s
  <2>4. a # 7 /\ a \notin {9, 10}
    BY <1>6
  <2>5. QED
    BY <1>1, <1>2, <1>3, <1>6, <2>2, <2>3, <2>4 DEF u, n, s, a
<1>7. CASE a = 7
  <2>1. Keyword(s) = {} /\ ~Constant(s) /\ Blank(s)
    BY <1>4, <1>7
  <2>2. TokensOf(s) = <<>> /\ ErrorsOf(s) = 0
    BY <2>1 DEF TokensOf, ErrorsOf
  <2> HIDE DEF s
  <2>3. a \notin {1, 2, 3, 4, 5, 6, 8} /\ a \notin {9, 10}
    BY <1>7
  <2>4. QED
    BY <1>1, <1>2, <1>3, <2>2, <2>3 DEF u, n, s, a
<1>8. CASE a \notin 1 .. 8
  <2>1. Keyword(s) = {} /\ ~Constant(s) /\ ~Blank(s)
    BY <1>4, <1>8
  <2>2. TokensOf(s) = <<>> /\ ErrorsOf(s) = 1
    BY <2>1 DEF TokensOf, ErrorsOf
  <2> HIDE DEF s
  <2>3. a \notin {1, 2, 3, 4, 5, 6, 8} /\ a # 7
    BY <1>8
  <2>4. QED
    BY <1>1, <1>2, <1>3, <2>2, <2>3 DEF u, n, s, a
<1>9. a \in 1 .. 6 \/ a = 7 \/ a = 8 \/ a \notin 1 .. 8
  OBVIOUS
<1>10. QED
  BY <1>5, <1>6, <1>7, <1>8, <1>9

\* Text of five characters or more that the automaton goes on with is a lexeme: the
\* states that do not accept are within keywords.
LEMMA LongIsLexeme ==
  ASSUME NEW u \in Seq(Chars), NEW m \in 5 .. Len(u), Walk(u)[m] # 37
  PROVE  Lexeme(SubSeq(u, 1, m))
<1> DEFINE s == Walk(u)[m]
<1>0. m \in 1 .. Len(u)
  OBVIOUS
<1>1. s \in 4 .. 37 /\ s \in States /\ Spelt(s, u, m)
  BY <1>0, WalkStates, SpeltAlways DEF States
<1>2. yy_accept[s + 1] # 0
  <2> SUFFICES ASSUME yy_accept[s + 1] = 0 PROVE FALSE
    OBVIOUS
  <2> HIDE DEF s
  <2>1. s \in {1, 17, 18, 19, 20, 21, 22, 24, 25, 27, 28, 29, 32, 34, 37}
    BY <1>1, Accepting
  <2>2. s \in DOMAIN Expects
    <3>1. DOMAIN Expects = 8 .. 13 \cup 17 .. 22 \cup {24, 25, 27, 28, 29, 32, 34}
      BY DEF Expects
    <3>2. s # 37
      BY DEF s
    <3>3. QED
      BY <1>1, <2>1, <3>1, <3>2
  <2>3. PICK k \in Keywords : \E i \in 1 .. Len(Path[k]) - 1 : s = Path[k][i]
    BY <2>2, ExpectsOnPath
  <2>4. PICK i \in 1 .. Len(Path[k]) - 1 : s = Path[k][i]
    BY <2>3
  <2>5. Len(Path[k]) \in 3 .. 5
    BY PathLengths
  <2> DEFINE lp == Len(Path[k])
  <2>6. lp \in 3 .. 5 /\ i \in 1 .. lp - 1
    BY <2>5
  <2> HIDE DEF lp
  <2>7. i \in 1 .. lp /\ i <= 4
    BY <2>6
  <2>8. m = i
    BY <1>1, <2>4, <2>7 DEF Spelt, lp
  <2>9. m >= 5
    OBVIOUS
  <2>10. QED
    BY <2>6, <2>7, <2>8, <2>9
<1>3. QED
  BY <1>0, <1>2, LexemeActions

\* Text that yytext has no room for is a lexeme that yytext has no room for, but for
\* the end of the buffer that follows it.
LEMMA FatalIsLong ==
  ASSUME Scanning(lex), lex.pc = "fatal"
  PROVE  LongestAt(Unread(lex)) >= YYLMAX - 1
<1> DEFINE u == Unread(lex)
           c == lex.cp
           t == lex.text
           b == Len(lex.buf)
           m == LongestAt(u)
           Y == YYLMAX
<1>1. /\ lex \in Lexers /\ c \in Nat /\ t \in Nat /\ b \in Nat /\ c - t >= Y /\ Y \in Nat /\ Y >= 6
      /\ (Longest(lex) \/ AtNul(lex))
  BY ScannerAssumption DEF Scanning, Sound, Lexers
<1>2. CASE Longest(lex)
  <2>1. m = c - t
    BY <1>1, <1>2, LexemeRead
  <2> HIDE DEF m, c, t, Y
  <2>2. m >= Y - 1
    BY <1>1, <2>1
  <2>3. QED
    BY <2>2 DEF m, Y
<1>3. CASE AtNul(lex)
  <2>1. c <= b + 1 /\ Walk(u)[(c - t) - 1] # 37
    BY <1>3 DEF AtNul
  <2>2. t <= b
    <3> HIDE DEF c, t, b, Y
    <3>1. QED
      BY <1>1, <2>1
  <2>3. u \in Seq(Chars) /\ Len(u) = (b - t) + Len(lex.rest) /\ Len(lex.rest) \in Nat
    <3>1. Len(lex.rest) \in Nat
      BY <1>1 DEF Lexers
    <3>2. QED
      BY <1>1, <2>2, <3>1, UnreadFacts
  <2> DEFINE k == (c - t) - 1
             lr == Len(lex.rest)
             lu == Len(u)
  <2>4. lu = (b - t) + lr /\ lr \in Nat
    BY <2>3
  <2> HIDE DEF c, t, b, Y, lr, lu
  <2>5. k \in 5 .. lu /\ k >= Y - 1 /\ lu > 0
    BY <1>1, <2>1, <2>2, <2>4
  <2>6. Walk(u)[k] # 37
    BY <2>1
  <2> HIDE DEF k, u
  <2>7. Lexeme(SubSeq(u, 1, k))
    BY <2>3, <2>5, <2>6, LongIsLexeme DEF lu
  <2>8. k <= m /\ m \in 1 .. lu
    <3>1. k \in 1 .. lu
      BY <2>5
    <3>2. QED
      BY <2>3, <2>5, <2>7, <3>1, LongestAtFacts DEF lu
  <2> HIDE DEF m
  <2>9. m >= Y - 1
    BY <1>1, <2>3, <2>5, <2>8
  <2>10. QED
    BY <2>9 DEF m, Y, u
<1>4. QED
  BY <1>1, <1>2, <1>3

-----------------------------------------------------------------------------
(* The scanner reads the lexemes of the file.                              *)

\* The token for the end of the file.
EndToken == [kind |-> 0, val |-> 0]

\* The text that yylex goes on with.
Pending(l) == IF l.pc = "idle" THEN SubSeq(Unread(l), (l.cp - l.text) + 1, Len(Unread(l))) ELSE Unread(l)

\* The first n lexemes of the file were read: their tokens were returned, their errors
\* counted, and the rest of the file is what yylex goes on with, until yyparse ends.
ReadLexemes(n) ==
  LET r == Lexed(file)[n] IN
  /\ n \in 0 .. Len(file) /\ n <= r.pos
  /\ lex.init \/ ~Parsed => Pending(lex) = SubSeq(file, r.pos + 1, Len(file))
  /\ handed = r.tokens \/ (lex.pc = "idle" /\ handed = Append(r.tokens, EndToken) /\ r.pos = Len(file))
  /\ yylexerrs = r.errors /\ r.longest < YYLMAX

\* The invariant of the scanner with respect to the lexemes of the file.
ExactInv == file \in Texts /\ \E n \in Nat : ReadLexemes(n)

\* Nothing is left of nothing.
LEMMA EmptyCut == SubSeq(<<>>, 1, 0) = <<>> /\ Len(<<>>) = 0
OBVIOUS

\* A call of yylex goes on where the last one ended.
LEMMA PendingCalled ==
  ASSUME NEW l, Scanning(l), l.pc = "idle"
  PROVE  Unread(Called(l)) = Pending(l) /\ Pending(Called(l)) = Pending(l)
<1>1. Called(l).pc = "match"
  BY CalledKeeps
<1>2. Unread(Called(l)) = SubSeq(Unread(l), (l.cp - l.text) + 1, Len(Unread(l)))
  <2>1. CASE l.init
    <3>1. Called(l) = Started(l)
      BY <2>1 DEF Called
    <3>2. Sound(l) /\ l.text <= l.cp /\ l.cp <= Len(l.buf)
      BY DEF Scanning
    <3>3. QED
      BY <2>1, <3>1, <3>2, StartedFacts
  <2>2. CASE ~l.init
    <3>1. Advances(l, Called(l))
      BY CalledKeeps
    <3>2. l \in Lexers /\ l.text = 0 /\ l.cp = 0 /\ l.buf = <<>>
      BY <2>2 DEF Scanning, Sound
    <3>3. (l.cp - l.text) + 1 = 1 /\ l.text <= Len(l.buf)
      BY <3>2, EmptyCut
    <3>4. Unread(l) \in Seq(Chars)
      BY <3>2, <3>3, UnreadFacts
    <3>5. SubSeq(Unread(l), 1, Len(Unread(l))) = Unread(l)
      BY <3>4, WholeSeq
    <3>6. QED
      BY <3>1, <3>3, <3>5 DEF Advances
  <2>3. QED
    BY <2>1, <2>2
<1>3. QED
  BY <1>1, <1>2 DEF Pending

\* No statement goes on with the end of the file: yyparse does not call yylex again.
LEMMA EndIsRefused ==
  ASSUME NEW ts \in Seq(Tok)
  PROVE  ~Reads(Append(ts, EndToken)).ok
<1> DEFINE r == Reads(ts)
           e == EndToken
           s == Append(r.open, e)
<1>1. e \in Tok /\ e.kind = 0
  BY DEF EndToken, Tok
<1>2. r \in Readings /\ Reads(Append(ts, e)) = ReadOne(r, e)
  <2> HIDE DEF e
  <2>1. QED
    BY <1>1, ReadsFacts, ReadsAppend
<1>3. r.open \in Seq(Tok)
  BY <1>2 DEF Readings
<1>4. ~Opens(s)
  <2> DEFINE o == r.open
             lo == Len(o)
             V == Tok
  <2>0. e \in V /\ o \in Seq(V)
    BY <1>1, <1>3
  <2> HIDE DEF e, r, o, V
  <2>1. Len(s) = lo + 1 /\ s[lo + 1] = e
    BY <2>0, AppendFacts DEF o
  <2>2. lo \in Nat
    BY <2>0
  <2> HIDE DEF s, lo
  <2>3. CASE lo = 0
    <3>1. s[1] = e
      BY <2>1, <2>3
    <3>2. 0 \notin DOMAIN Arity
      BY ArityIs
    <3>3. QED
      BY <1>1, <3>1, <3>2 DEF Opens
  <2>4. CASE lo > 0
    <3>1. lo + 1 \in 2 .. Len(s)
      BY <2>1, <2>2, <2>4
    <3>2. s[lo + 1].kind # CONST
      BY <1>1, <2>1 DEF CONST
    <3>3. QED
      BY <3>1, <3>2 DEF Opens
  <2>5. QED
    BY <2>2, <2>3, <2>4
<1> HIDE DEF r, e
<1>5. ~ReadOne(r, e).ok
  BY <1>1, <1>2, <1>4, ReadOneFacts
<1>6. QED
  BY <1>2, <1>5 DEF e

\* The action that yylex takes is that of the next lexeme of the file.
LEMMA OneMore ==
  ASSUME ScannerInv, lex.pc = "act", Action(lex) \in 1 .. 10, NEW n \in Nat, ReadLexemes(n)
  PROVE  LET r == Lexed(file)[n]
             m == Lexed(file)[n + 1]
             c == lex.cp - lex.text
             s == SubSeq(Unread(lex), 1, c)
         IN  /\ n + 1 \in 0 .. Len(file) /\ n + 1 <= m.pos
             /\ SubSeq(file, m.pos + 1, Len(file)) = SubSeq(Unread(lex), c + 1, Len(Unread(lex)))
             /\ handed = r.tokens /\ r.tokens \in Seq(Tok)
             /\ m.tokens = r.tokens \o TokensOf(s) /\ m.errors = yylexerrs + ErrorsOf(s)
             /\ m.longest < YYLMAX
<1> DEFINE r == Lexed(file)[n]
           m == Lexed(file)[n + 1]
           c == lex.cp - lex.text
           u == Unread(lex)
           s == SubSeq(u, 1, c)
           p == r.pos
           L == Len(file)
<1>1. file \in Seq(Chars) /\ Scanning(lex) /\ lex \in Lexers /\ lex.init /\ (Longest(lex) \/ AtNul(lex)) /\ c < YYLMAX
  BY DEF ScannerInv, Scanning, Sound
<1>2. Longest(lex)
  <2>1. AtNul(lex) => Action(lex) = 12
    BY <1>1, EndFacts
  <2> DEFINE a == Action(lex)
  <2>2. a \in 1 .. 10 /\ (AtNul(lex) => a = 12)
    BY <2>1
  <2> HIDE DEF a
  <2>3. ~AtNul(lex)
    BY <2>2
  <2>4. QED
    BY <1>1, <2>3
<1>3. u \in Seq(Chars) /\ c \in 1 .. Len(u) /\ LongestAt(u) = c
  BY <1>1, <1>2, LexemeRead
<1>4. /\ n \in 0 .. L /\ n <= p /\ Pending(lex) = SubSeq(file, p + 1, L) /\ handed = r.tokens
      /\ yylexerrs = r.errors /\ r.longest < YYLMAX
  BY <1>1 DEF ReadLexemes
<1>5. u = SubSeq(file, p + 1, L)
  BY <1>4 DEF Pending
<1>6. r \in LexRecs(file) /\ (\A i \in 1 .. L : Lexed(file)[i] = LexOne(file, Lexed(file)[i - 1]))
  BY <1>1, <1>4, LexedFacts
<1>7. p \in Nat /\ p <= L /\ L \in Nat /\ r.tokens \in Seq(Tok)
  BY <1>1, <1>6 DEF LexRecs
<1>8. Len(u) = L - p
  <2> DEFINE f == file
  <2>1. f \in Seq(Chars) /\ p \in 0 .. Len(f)
    BY <1>1, <1>7
  <2> HIDE DEF f, p
  <2>2. Len(SubSeq(f, p + 1, Len(f))) = Len(f) - p
    BY <2>1, SplitSeq
  <2>3. QED
    BY <1>5, <2>2 DEF f
<1> DEFINE lu == Len(u)
<1>9. lu \in Nat /\ c \in 1 .. lu /\ lu = L - p
  BY <1>3, <1>8
<1>10. lu > 0 /\ n + 1 \in 1 .. L /\ (n + 1) - 1 = n /\ n + 1 <= p + c /\ c \in 0 .. L - p
  <2> HIDE DEF lu, c, L, p
  <2>1. QED
    BY <1>4, <1>7, <1>9
<1>11. m = LexOne(file, r)
  BY <1>6, <1>10
<1>12. /\ m.pos = p + c /\ m.tokens = r.tokens \o TokensOf(s) /\ m.errors = r.errors + ErrorsOf(s)
       /\ m.longest \in {r.longest, c}
  <2> HIDE DEF r, m, u, c
  <2>1. LET v == SubSeq(file, r.pos + 1, Len(file))
            k == LongestAt(v)
            w == SubSeq(v, 1, k)
            q == LexOne(file, r)
        IN  Len(v) > 0 => /\ q.pos = r.pos + k /\ q.tokens = r.tokens \o TokensOf(w)
                          /\ q.errors = r.errors + ErrorsOf(w) /\ q.longest \in {r.longest, k}
    BY <1>1, <1>6, LexOneFacts
  <2>2. QED
    BY <1>3, <1>5, <1>10, <1>11, <2>1
<1>13. SubSeq(file, (p + c) + 1, L) = SubSeq(u, c + 1, Len(u))
  <2> DEFINE f == file
  <2>1. f \in Seq(Chars) /\ p \in 0 .. Len(f) /\ c \in 0 .. Len(f) - p
    BY <1>1, <1>7, <1>10
  <2>2. u = SubSeq(f, p + 1, Len(f))
    BY <1>5
  <2> HIDE DEF f, p, c, u
  <2>3. LET v == SubSeq(f, p + 1, Len(f)) IN SubSeq(v, c + 1, Len(v)) = SubSeq(f, (p + c) + 1, Len(f))
    BY <2>1, DropDropped
  <2>4. QED
    BY <2>2, <2>3 DEF f
<1>14. m.longest < YYLMAX
  BY <1>1, <1>4, <1>12
<1>15. n + 1 \in 0 .. L /\ n + 1 <= m.pos
  BY <1>10, <1>12
<1>16. m.errors = yylexerrs + ErrorsOf(s)
  BY <1>4, <1>12
<1> HIDE DEF r, m, c, u, s, p, L
<1>17. QED
  BY <1>4, <1>7, <1>12, <1>13, <1>14, <1>15, <1>16 DEF r, m, c, u, s, p, L

\* Init has read nothing.
LEMMA ExactStart == ASSUME Init PROVE ExactInv
<1>1. PICK n \in BufSizes :
        lex = [pc |-> "idle", init |-> FALSE, rest |-> file, buf |-> <<>>, size |-> n, status |-> "new",
               text |-> 0, cp |-> 0, state |-> 1, lastState |-> 0, lastPos |-> 0]
  BY DEF Init, ParseInit, ScanInit
<1>2. file \in Texts /\ handed = <<>> /\ yylexerrs = 0
  BY DEF Init, ParseInit, ScanInit
<1>3. ScannerInv /\ file \in Seq(Chars) /\ Scanning(lex)
  BY ScannerStart DEF ScannerInv
<1> DEFINE r == Lexed(file)[0]
<1>4. r.pos = 0 /\ r.tokens = <<>> /\ r.errors = 0 /\ r.longest = 0
  BY <1>3, LexedFacts
<1>5. Pending(lex) = file
  <2>1. lex.text = 0 /\ lex.cp = 0 /\ lex.pc = "idle" /\ lex.buf = <<>> /\ lex.rest = file
    BY <1>1
  <2>2. (lex.cp - lex.text) + 1 = 1 /\ lex.text + 1 = 1 /\ Len(lex.buf) = 0
    BY <2>1, EmptyCut
  <2>3. Unread(lex) = file
    <3>1. <<>> \o file = file
      BY <1>3
    <3>2. QED
      BY <2>1, <2>2, <3>1, EmptyCut DEF Unread
  <2>4. SubSeq(file, 1, Len(file)) = file
    BY <1>3, WholeSeq
  <2>5. QED
    BY <2>1, <2>2, <2>3, <2>4 DEF Pending
<1>6. SubSeq(file, r.pos + 1, Len(file)) = file
  <2>1. r.pos + 1 = 1
    BY <1>4
  <2>2. QED
    BY <1>3, <2>1, WholeSeq
<1>7. 0 \in 0 .. Len(file) /\ 0 <= r.pos /\ r.longest < YYLMAX
  BY <1>3, <1>4, ScannerAssumption
<1> HIDE DEF r
<1>8. ReadLexemes(0)
  BY <1>2, <1>4, <1>5, <1>6, <1>7 DEF ReadLexemes, r
<1>9. QED
  BY <1>2, <1>8 DEF ExactInv

\* A step that reads nothing keeps what was read.
LEMMA ExactQuiet ==
  ASSUME ExactInv, file' = file, handed' = handed, yylexerrs' = yylexerrs,
         lex'.init \/ ~Parsed' => (lex.init \/ ~Parsed) /\ Pending(lex') = Pending(lex),
         \A n \in Nat : ReadLexemes(n) /\ handed # Lexed(file)[n].tokens => lex'.pc = "idle"
  PROVE  ExactInv'
<1>1. PICK n \in Nat : ReadLexemes(n)
  BY DEF ExactInv
<1> DEFINE r == Lexed(file)[n]
<1>3. /\ n \in 0 .. Len(file) /\ n <= r.pos
      /\ lex.init \/ ~Parsed => Pending(lex) = SubSeq(file, r.pos + 1, Len(file))
      /\ handed = r.tokens \/ (lex.pc = "idle" /\ handed = Append(r.tokens, EndToken) /\ r.pos = Len(file))
      /\ yylexerrs = r.errors /\ r.longest < YYLMAX
  BY <1>1 DEF ReadLexemes
<1>4. handed = r.tokens \/ (lex'.pc = "idle" /\ handed = Append(r.tokens, EndToken) /\ r.pos = Len(file))
  BY <1>1, <1>3
<1>5. lex'.init \/ ~Parsed' => Pending(lex') = SubSeq(file, r.pos + 1, Len(file))
  BY <1>3
<1> HIDE DEF r
<1>6. ReadLexemes(n)'
  BY <1>3, <1>4, <1>5 DEF ReadLexemes, r
<1>7. QED
  BY <1>6 DEF ExactInv

\* After an action one more lexeme is read.
LEMMA ExactAfter ==
  ASSUME ScannerInv, ExactInv, lex.pc = "act", Action(lex) \in 1 .. 10, file' = file,
         LET s == SubSeq(Unread(lex), 1, lex.cp - lex.text)
         IN  handed' = handed \o TokensOf(s) /\ yylexerrs' = yylexerrs + ErrorsOf(s),
         Pending(lex') = SubSeq(Unread(lex), (lex.cp - lex.text) + 1, Len(Unread(lex)))
  PROVE  ExactInv'
<1>1. PICK n \in Nat : ReadLexemes(n)
  BY DEF ExactInv
<1> DEFINE r == Lexed(file)[n]
           m == Lexed(file)[n + 1]
           s == SubSeq(Unread(lex), 1, lex.cp - lex.text)
<1>2. /\ n + 1 \in 0 .. Len(file) /\ n + 1 <= m.pos
      /\ SubSeq(file, m.pos + 1, Len(file)) = SubSeq(Unread(lex), (lex.cp - lex.text) + 1, Len(Unread(lex)))
      /\ handed = r.tokens /\ m.tokens = r.tokens \o TokensOf(s) /\ m.errors = yylexerrs + ErrorsOf(s)
      /\ m.longest < YYLMAX
  BY <1>1, OneMore
<1>3. handed' = handed \o TokensOf(s) /\ yylexerrs' = yylexerrs + ErrorsOf(s)
  OBVIOUS
<1> HIDE DEF r, m, s
<1>4. ReadLexemes(n + 1)'
  BY <1>2, <1>3 DEF ReadLexemes, m
<1>5. n + 1 \in Nat
  OBVIOUS
<1>6. QED
  BY <1>4, <1>5 DEF ExactInv

\* The steps of yylex.
LEMMA ExactScan ==
  ASSUME ScannerInv, ExactInv, Scan, UNCHANGED parseVars
  PROVE  ExactInv'
<1>1. Scanning(lex) /\ lex \in Lexers /\ file \in Seq(Chars) /\ yyparse' = yyparse
  BY DEF ScannerInv, Scanning, Sound, parseVars
<1>2. lex.pc # "idle" /\ file' = file /\ Advances(lex, lex') /\ Scanning(lex') /\ (Parsed' <=> Parsed)
  BY <1>1, ScanKeeps DEF Parsed
<1>3. lex.init
  BY <1>1, <1>2 DEF Scanning
<1>4. ASSUME NEW n \in Nat, ReadLexemes(n) PROVE handed = Lexed(file)[n].tokens
  BY <1>2, <1>4 DEF ReadLexemes
<1>5. CASE Match \/ RealNul \/ ContinueScan \/ LastMatch
  <2>1. handed' = handed /\ yylexerrs' = yylexerrs
    BY <1>5 DEF Match, RealNul, ContinueScan, LastMatch
  <2>2. lex.pc = "match" \/ (lex.pc = "act" /\ Action(lex) = 12)
    BY <1>5 DEF Match, RealNul, ContinueScan, LastMatch, AtBufferEnd
  <2>3. Unread(lex') = Unread(lex)
    <3> DEFINE a == Action(lex)
    <3>1. lex.pc = "match" \/ a = 12
      BY <2>2
    <3>2. Unread(lex') = Unread(lex) \/ (lex.pc \in {"act", "idle"} /\ a \in 1 .. 10)
      BY <1>2 DEF Advances
    <3> HIDE DEF a
    <3>3. QED
      BY <3>1, <3>2
  <2>4. lex'.pc # "idle"
    <3>1. CASE Match
      <4>1. lex.pc = "match" /\ lex' = Acting(Found(Run(lex)))
        BY <3>1 DEF Match
      <4>2. QED
        BY <1>1, <4>1, MatchKeeps
    <3>2. CASE RealNul
      BY <1>1, <3>2, RealNulKeeps DEF RealNul
    <3>3. CASE ContinueScan
      BY <1>1, <3>3, ContinueKeeps DEF ContinueScan, AtBufferEnd
    <3>4. CASE LastMatch
      BY <1>1, <3>4, LastMatchKeeps DEF LastMatch, AtBufferEnd
    <3>5. QED
      BY <1>5, <3>1, <3>2, <3>3, <3>4
  <2>5. Pending(lex') = Pending(lex)
    BY <1>2, <2>3, <2>4 DEF Pending
  <2>6. QED
    BY <1>2, <1>3, <1>4, <2>1, <2>5, ExactQuiet
<1> DEFINE a == Action(lex)
           c == lex.cp - lex.text
           u == Unread(lex)
           s == SubSeq(u, 1, c)
<1>6. ASSUME lex.pc = "act", a \in 1 .. 10
      PROVE  /\ Longest(lex) /\ lex.text <= lex.cp /\ lex.cp <= Len(lex.buf)
             /\ Started(lex).pc = "match" /\ Unread(Started(lex)) = SubSeq(u, c + 1, Len(u))
  <2>1. Longest(lex) \/ AtNul(lex)
    BY <1>1, <1>6 DEF Scanning
  <2>2. AtNul(lex) => a = 12
    BY <1>1, EndFacts
  <2>3. Longest(lex)
    <3> HIDE DEF a
    <3>1. QED
      BY <1>6, <2>1, <2>2
  <2>4. Sound(lex) /\ lex.text <= lex.cp /\ lex.cp <= Len(lex.buf)
    BY <1>1, <2>3, EndFacts DEF Scanning
  <2>5. QED
    BY <1>3, <2>3, <2>4, StartedFacts
<1>7. CASE ReturnToken
  <2> DEFINE t == [kind |-> TokenOf(a), val |-> IF a = 8 THEN ValueOf(YyText) ELSE 0]
  <2>1. /\ lex.pc = "act" /\ a \in {1, 2, 3, 4, 5, 6, 8} /\ handed' = Append(handed, t) /\ lex' = [lex EXCEPT !.pc = "idle"]
        /\ yylexerrs' = yylexerrs
    BY <1>7 DEF ReturnToken, Return
  <2>2. a \in 1 .. 10
    <3> HIDE DEF a
    <3>1. QED
      BY <2>1
  <2>3. TokensOf(s) = <<t>> /\ ErrorsOf(s) = 0
    BY <1>1, <1>6, <2>1, <2>2, LexemeRead
  <2>4. /\ lex'.pc = "idle" /\ lex'.cp = lex.cp /\ lex'.text = lex.text /\ lex'.buf = lex.buf /\ lex'.rest = lex.rest
    BY <1>1, <2>1 DEF Lexers
  <2>5. Pending(lex') = SubSeq(u, c + 1, Len(u))
    BY <2>4 DEF Pending, Unread
  <2>6. PICK n \in Nat : ReadLexemes(n)
    BY DEF ExactInv
  <2>7. handed \in Seq(Tok) /\ yylexerrs \in Nat
    <3>1. n \in 0 .. Len(file) /\ yylexerrs = Lexed(file)[n].errors
      BY <2>6 DEF ReadLexemes
    <3>2. Lexed(file)[n] \in LexRecs(file)
      BY <1>1, <3>1, LexedFacts
    <3>3. QED
      BY <1>4, <2>6, <3>1, <3>2 DEF LexRecs
  <2>8. handed' = handed \o TokensOf(s)
    <3>1. Append(handed, t) = handed \o <<t>>
      <4> HIDE DEF t
      <4>1. QED
        BY <2>7
    <3>2. QED
      BY <2>1, <2>3, <3>1
  <2>9. yylexerrs' = yylexerrs + ErrorsOf(s)
    BY <2>1, <2>3, <2>7
  <2>10. QED
    BY <1>2, <2>1, <2>2, <2>5, <2>8, <2>9, ExactAfter
<1>8. CASE Skip \/ LexicalError
  <2>1. /\ lex.pc = "act" /\ a \in 7 .. 10 /\ a # 8 /\ handed' = handed /\ lex' = Started(lex)
        /\ yylexerrs' = yylexerrs + IF a = 7 THEN 0 ELSE 1
    <3>1. PICK n \in Nat : ReadLexemes(n)
      BY DEF ExactInv
    <3>2. yylexerrs \in Nat
      <4>1. n \in 0 .. Len(file) /\ yylexerrs = Lexed(file)[n].errors
        BY <3>1 DEF ReadLexemes
      <4>2. Lexed(file)[n] \in LexRecs(file)
        BY <1>1, <4>1, LexedFacts
      <4>3. QED
        BY <4>1, <4>2 DEF LexRecs
    <3>3. QED
      BY <1>8, <3>2 DEF Skip, LexicalError
  <2>2. a \in 1 .. 10 /\ (a = 7 \/ a \in {9, 10})
    <3> HIDE DEF a
    <3>1. QED
      BY <2>1
  <2>3. TokensOf(s) = <<>> /\ ErrorsOf(s) = IF a = 7 THEN 0 ELSE 1
    BY <1>1, <1>6, <2>1, <2>2, LexemeRead
  <2>4. Pending(lex') = SubSeq(u, c + 1, Len(u))
    BY <1>6, <2>1, <2>2 DEF Pending
  <2>5. PICK n \in Nat : ReadLexemes(n)
    BY DEF ExactInv
  <2>6. handed \in Seq(Tok)
    <3>1. n \in 0 .. Len(file)
      BY <2>5 DEF ReadLexemes
    <3>2. Lexed(file)[n] \in LexRecs(file)
      BY <1>1, <3>1, LexedFacts
    <3>3. QED
      BY <1>4, <2>5, <3>2 DEF LexRecs
  <2>7. handed' = handed \o TokensOf(s)
    <3>1. handed \o <<>> = handed
      BY <2>6
    <3>2. QED
      BY <2>1, <2>3, <3>1
  <2>8. yylexerrs' = yylexerrs + ErrorsOf(s)
    BY <2>1, <2>3
  <2>9. QED
    BY <1>2, <2>1, <2>2, <2>4, <2>7, <2>8, ExactAfter
<1>9. CASE EndOfFile
  <2> DEFINE next == NextBuffer(lex)
  <2>1. /\ lex.pc = "act" /\ a = 12 /\ lex.cp > Len(lex.buf) /\ next.status = "new" /\ handed' = Append(handed, EndToken)
        /\ lex' = [Flushed(next) EXCEPT !.pc = "idle"] /\ yylexerrs' = yylexerrs
    BY <1>9 DEF EndOfFile, AtBufferEnd, EndToken, EOF
  <2>2. Sound(next) /\ Unread(next) = u /\ next.rest = <<>> /\ Len(next.buf) = 0 /\ next.text = 0
    BY <1>1, <2>1, NextBufferReady
  <2>3. u = <<>>
    <3>1. next.buf \in Seq(Chars)
      BY <2>2 DEF Sound, Lexers
    <3> DEFINE b == next.buf
    <3>2. b = <<>>
      <4>1. b \in Seq(Chars) /\ Len(b) = 0
        BY <2>2, <3>1
      <4> HIDE DEF b
      <4>2. QED
        BY <4>1
    <3>3. next.text + 1 = 1
      BY <2>2
    <3>4. <<>> \o <<>> = <<>>
      OBVIOUS
    <3> HIDE DEF next, u
    <3>5. Unread(next) = SubSeq(<<>>, 1, 0) \o <<>>
      BY <2>2, <3>2, <3>3 DEF Unread
    <3>6. QED
      BY <2>2, <3>4, <3>5, EmptyCut
  <2>4. Pending(lex') = <<>> /\ lex'.pc = "idle"
    <3>1. next \in Lexers /\ next.size >= 1
      BY <2>2 DEF Sound
    <3> DEFINE f == Flushed(next)
    <3>2. f \in Lexers /\ f.buf = <<>> /\ f.text = 0 /\ f.cp = 0 /\ f.rest = <<>>
      BY <2>2, <3>1, FlushedKeeps
    <3>3. lex' = [f EXCEPT !.pc = "idle"]
      BY <2>1
    <3> HIDE DEF f
    <3>4. lex'.pc = "idle" /\ lex'.buf = <<>> /\ lex'.text = 0 /\ lex'.cp = 0 /\ lex'.rest = <<>>
      BY <3>2, <3>3 DEF Lexers
    <3>5. (lex'.cp - lex'.text) + 1 = 1 /\ lex'.text + 1 = 1
      BY <3>4
    <3>6. Unread(lex') = <<>>
      <4>1. <<>> \o <<>> = <<>>
        OBVIOUS
      <4>2. QED
        BY <3>4, <3>5, <4>1, EmptyCut DEF Unread
    <3>7. QED
      BY <3>4, <3>5, <3>6, EmptyCut DEF Pending
  <2>5. PICK n \in Nat : ReadLexemes(n)
    BY DEF ExactInv
  <2> DEFINE r == Lexed(file)[n]
  <2>6. /\ n \in 0 .. Len(file) /\ n <= r.pos /\ yylexerrs = r.errors /\ r.longest < YYLMAX
        /\ Pending(lex) = SubSeq(file, r.pos + 1, Len(file)) /\ handed = r.tokens
    BY <1>3, <1>4, <2>5 DEF ReadLexemes
  <2>7. SubSeq(file, r.pos + 1, Len(file)) = <<>>
    BY <1>2, <2>3, <2>6 DEF Pending
  <2>8. r.pos = Len(file)
    <3>1. r \in LexRecs(file)
      BY <1>1, <2>6, LexedFacts
    <3>2. r.pos \in Nat /\ r.pos <= Len(file) /\ Len(file) \in Nat
      BY <1>1, <3>1 DEF LexRecs
    <3> DEFINE f == file
               p == r.pos
               L == Len(f)
    <3>3. f \in Seq(Chars) /\ p \in 0 .. Len(f) /\ SubSeq(f, p + 1, Len(f)) = <<>>
      BY <1>1, <2>7, <3>2
    <3> HIDE DEF f, p
    <3>4. Len(SubSeq(f, p + 1, Len(f))) = Len(f) - p
      BY <3>3, SplitSeq
    <3>5. L - p = 0 /\ L \in Nat /\ p \in 0 .. L
      BY <3>3, <3>4, EmptyCut
    <3> HIDE DEF L
    <3>6. p = L
      BY <3>5
    <3>7. QED
      BY <3>6 DEF p, L, f
  <2> HIDE DEF r, next
  <2>9. ReadLexemes(n)'
    BY <1>2, <2>1, <2>4, <2>6, <2>7, <2>8 DEF ReadLexemes, r
  <2>10. QED
    BY <1>2, <2>9 DEF ExactInv
<1>10. QED
  BY <1>5, <1>7, <1>8, <1>9 DEF Scan

\* Every step keeps the invariant.
LEMMA ExactStep ==
  ASSUME ScannerInv, ParserInv, ExactInv, [Next]_vars
  PROVE  ExactInv'
<1>1. Scanning(lex) /\ lex \in Lexers /\ file \in Seq(Chars)
  BY DEF ScannerInv, Scanning, Sound
<1>2. ASSUME NEW n \in Nat, ReadLexemes(n), handed # Lexed(file)[n].tokens
      PROVE  lex.pc = "idle" /\ ~Reads(handed).ok
  <2> DEFINE r == Lexed(file)[n]
  <2>1. n \in 0 .. Len(file) /\ lex.pc = "idle" /\ handed = Append(r.tokens, EndToken)
    BY <1>2 DEF ReadLexemes
  <2>2. r \in LexRecs(file)
    BY <1>1, <2>1, LexedFacts
  <2>3. r.tokens \in Seq(Tok)
    BY <2>2 DEF LexRecs
  <2>4. QED
    BY <2>1, <2>3, EndIsRefused
<1>3. CASE UNCHANGED <<file, lex, yylexerrs, handed>> /\ (Parsed => Parsed')
  <2>1. lex'.init \/ ~Parsed' => lex.init \/ ~Parsed
    BY <1>3
  <2>2. Pending(lex') = Pending(lex) /\ lex'.pc = lex.pc
    BY <1>3
  <2>3. QED
    BY <1>2, <1>3, <2>1, <2>2, ExactQuiet
<1>4. CASE At("parse") /\ Parse
  <2>1. CASE ReadToken
    <3>1. /\ lex' = Called(lex) /\ file' = file /\ yylexerrs' = yylexerrs /\ handed' = handed /\ yyparse = "shift"
          /\ lex.pc = "idle" /\ yychar = Empty
      BY <2>1 DEF ReadToken, Deciding
    <3>2. Pending(lex') = Pending(lex)
      BY <1>1, <3>1, PendingCalled
    <3>3. ~Parsed
      BY <3>1 DEF Parsed
    <3>4. Reads(handed).ok
      BY <3>1 DEF ParserInv, Opening, Completing, Reduced, Settled, Accepted, Refusing, Read, Ahead
    <3>5. QED
      BY <1>2, <3>1, <3>2, <3>3, <3>4, ExactQuiet
  <2>2. CASE Scan /\ UNCHANGED parseVars
    BY <2>2, ExactScan
  <2>3. CASE Shift \/ Default \/ Reduce \/ SyntaxError
    <3>1. UNCHANGED <<file, lex, yylexerrs, handed>> /\ ~Parsed
      BY <2>3 DEF Shift, Default, Reduce, SyntaxError, Deciding, scanVars, Parsed
    <3>2. QED
      BY <1>3, <3>1
  <2>4. QED
    BY <1>4, <2>1, <2>2, <2>3 DEF Parse
<1>5. CASE Analysed
  <2>1. /\ lex' = Destroyed(lex) /\ file' = file /\ yylexerrs' = yylexerrs /\ handed' = handed /\ Parsed /\ yyparse' = yyparse
    BY <1>5 DEF Analysed, parseVars
  <2>2. lex.pc = "idle"
    BY <2>1 DEF ScannerInv, Parsed
  <2>3. lex'.pc = "idle" /\ ~lex'.init
    BY <1>1, <2>1, <2>2, DestroyedKeeps DEF ScannerInv
  <2>4. Parsed'
    BY <2>1 DEF Parsed
  <2>5. QED
    BY <2>1, <2>3, <2>4, ExactQuiet
<1>6. CASE UNCHANGED <<scanVars, yyparse, rule, stack, stacksize, yynerrs>>
  BY <1>3, <1>6 DEF scanVars, Parsed
<1>7. CASE UNCHANGED vars
  <2>1. UNCHANGED scanVars /\ yyparse' = yyparse
    BY <1>7 DEF vars, parseVars
  <2>2. QED
    BY <1>3, <2>1 DEF scanVars, Parsed
<1>8. QED
  BY <1>4, <1>5, <1>6, <1>7, OtherSteps

\* The invariant is what ScannerExact says.
LEMMA ExactMeans ==
  ASSUME ScannerInv, ExactInv
  PROVE  ScannerExact
<1>1. PICK n \in Nat : ReadLexemes(n)
  BY DEF ExactInv
<1> DEFINE r == Lexed(file)[n]
           L == Len(file)
           x == Len(Unread(lex))
           c == lex.cp - lex.text
           p == r.pos
<1>2. Scanning(lex) /\ lex \in Lexers /\ file \in Seq(Chars) /\ file \in Texts /\ TailOf(Unread(lex), file)
  BY DEF ScannerInv, Scanning, Sound, ExactInv
<1>3. /\ n \in 0 .. L /\ (lex.init => Pending(lex) = SubSeq(file, p + 1, L))
      /\ handed = r.tokens \/ (handed = Append(r.tokens, EndToken) /\ p = L)
      /\ yylexerrs = r.errors /\ r.longest < YYLMAX
  BY <1>1 DEF ReadLexemes
<1>4. Lexings[file][n] = r
  BY <1>2 DEF Lexings
<1>5. p \in Nat /\ p <= L /\ L \in Nat
  <2>1. r \in LexRecs(file)
    BY <1>2, <1>3, LexedFacts
  <2>2. QED
    BY <1>2, <2>1 DEF LexRecs
<1>6. Unread(lex) \in Seq(Chars) /\ x \in 0 .. L
  BY <1>2, TailIs
<1>7. Len(SubSeq(file, p + 1, L)) = L - p
  <2> DEFINE f == file
  <2>1. f \in Seq(Chars) /\ p \in 0 .. Len(f)
    BY <1>2, <1>5
  <2> HIDE DEF f, p
  <2>2. QED
    BY <2>1, SplitSeq DEF f
<1>8. ASSUME lex.init PROVE p = Position(lex) + IF lex.pc = "idle" THEN c ELSE 0
  <2>1. Position(lex) = L - x
    BY DEF Position
  <2>2. CASE lex.pc = "idle"
    <3>1. c \in 0 .. x
      <4>1. Sound(lex) /\ lex.text <= lex.cp /\ lex.cp <= Len(lex.buf)
        BY <1>2, <2>2 DEF Scanning
      <4>2. QED
        BY <1>8, <4>1, StartedFacts
    <3>2. Len(SubSeq(Unread(lex), c + 1, x)) = x - c
      <4> DEFINE u == Unread(lex)
      <4>1. u \in Seq(Chars) /\ c \in 0 .. Len(u)
        BY <1>6, <3>1
      <4> HIDE DEF u, c
      <4>2. QED
        BY <4>1, SplitSeq DEF u
    <3>3. x - c = L - p
      BY <1>3, <1>7, <1>8, <2>2, <3>2 DEF Pending
    <3> HIDE DEF x, c, L, p
    <3>4. p = (L - x) + c
      BY <1>5, <1>6, <3>1, <3>3
    <3>5. QED
      BY <2>1, <2>2, <3>4
  <2>3. CASE lex.pc # "idle"
    <3>1. x = L - p
      BY <1>3, <1>7, <1>8, <2>3 DEF Pending
    <3> HIDE DEF x, c, L, p
    <3>2. p = (L - x) + 0
      BY <1>5, <1>6, <3>1
    <3>3. QED
      BY <2>1, <2>3, <3>2
  <2>4. QED
    BY <2>2, <2>3
<1>9. ASSUME lex.pc = "fatal" PROVE LongestAt(SubSeq(file, p + 1, L)) >= YYLMAX - 1
  <2>1. lex.init
    BY <1>2, <1>9 DEF Scanning
  <2>2. Unread(lex) = SubSeq(file, p + 1, L)
    BY <1>3, <1>9, <2>1 DEF Pending
  <2>3. QED
    BY <1>2, <1>9, <2>2, FatalIsLong
<1>10. EndToken = [kind |-> EOF, val |-> 0]
  BY DEF EndToken, EOF
<1> HIDE DEF r, c, x
<1>11. QED
  BY <1>3, <1>4, <1>8, <1>9, <1>10 DEF ScannerExact, L, p, c

\* For every file, size of the buffer and of the reads, and every YYLMAX of 6 or more:
\* yylex returns the tokens of the longest matches in their order with their values,
\* counts the errors in between, and gives up only on text that yytext has no room for.
\* The invariant ties the place in the file to the number of lexemes that were read.
THEOREM ScannerExactAlways == Spec => []ScannerExact
<1>1. (ScannerInv /\ ParserInv) /\ ExactInv /\ [Next]_vars => ExactInv'
  BY ExactStep
<1>2. Init => ExactInv
  BY ExactStart
<1>3. ScannerInv /\ ExactInv => ScannerExact
  BY ExactMeans
<1>4. QED
  BY <1>1, <1>2, <1>3, ParserAlways, PTL DEF Spec

-----------------------------------------------------------------------------
(* Instructions and PCBs as streams of words, and back.                    *)

\* What an instruction of a PCB is: COPY may have a torn value.
Ops == [icode : Codes, param0 : Nat, param1 : Int]
Words == Codes \cup Int

\* The words of a list of instructions.
LEMMA FoldFacts ==
  ASSUME NEW l \in Seq(Ops)
  PROVE  /\ InstructionsFold(l) \in Seq(Words) /\ Len(InstructionsFold(l)) = 3 * Len(l) + 1
         /\ InstructionsFold(l)[1] = Len(l)
         /\ \A i \in 1 .. Len(l) : /\ InstructionsFold(l)[3 * i - 1] = l[i].icode
                                   /\ InstructionsFold(l)[3 * i] = l[i].param0
                                   /\ InstructionsFold(l)[3 * i + 1] = l[i].param1
<1> DEFINE n == Len(l)
           w(k) == InstructionToStream(l[(k + 2) \div 3])[((k + 2) % 3) + 1]
           f == [k \in 1 .. 3 * n |-> w(k)]
           h == <<n>>
           s == h \o f
<1>1. n \in Nat /\ 3 * n \in Nat
  OBVIOUS
<1>2. ASSUME NEW i \in 1 .. n PROVE l[i] \in Ops
  OBVIOUS
<1>3. s = InstructionsFold(l)
  BY DEF InstructionsFold
<1> HIDE DEF n
<1>4. ASSUME NEW i \in 1 .. n
      PROVE  /\ InstructionToStream(l[i])[1] = l[i].icode /\ InstructionToStream(l[i])[2] = l[i].param0
             /\ InstructionToStream(l[i])[3] = l[i].param1
             /\ l[i].icode \in Words /\ l[i].param0 \in Words /\ l[i].param1 \in Words
  <2>1. l[i].icode \in Codes /\ l[i].param0 \in Nat /\ l[i].param1 \in Int
    BY <1>2 DEF Ops
  <2>2. QED
    BY <2>1 DEF InstructionToStream, Words
<1>5. ASSUME NEW k \in 1 .. 3 * n PROVE w(k) \in Words
  <2> DEFINE q == (k + 2) \div 3
             m == ((k + 2) % 3) + 1
  <2>1. q \in 1 .. n /\ m \in 1 .. 3
    BY <1>1
  <2> HIDE DEF q, m
  <2>2. m = 1 \/ m = 2 \/ m = 3
    BY <2>1
  <2>3. InstructionToStream(l[q])[m] \in Words
    BY <1>4, <2>1, <2>2
  <2>4. QED
    BY <2>3 DEF q, m
<1>6. \A i \in 1 .. n : /\ 3 * i - 2 \in 1 .. 3 * n /\ 3 * i - 1 \in 1 .. 3 * n /\ 3 * i \in 1 .. 3 * n
                        /\ ((3 * i - 2) + 2) \div 3 = i /\ ((3 * i - 2) + 2) % 3 = 0
                        /\ ((3 * i - 1) + 2) \div 3 = i /\ ((3 * i - 1) + 2) % 3 = 1
                        /\ (3 * i + 2) \div 3 = i /\ (3 * i + 2) % 3 = 2
  BY <1>1
<1>7. ASSUME NEW i \in 1 .. n
      PROVE  w(3 * i - 2) = l[i].icode /\ w(3 * i - 1) = l[i].param0 /\ w(3 * i) = l[i].param1
  <2>1. /\ w(3 * i - 2) = InstructionToStream(l[i])[0 + 1] /\ w(3 * i - 1) = InstructionToStream(l[i])[1 + 1]
        /\ w(3 * i) = InstructionToStream(l[i])[2 + 1]
    BY <1>6
  <2>2. QED
    BY <1>4, <2>1
<1> HIDE DEF w
<1>8. f \in [1 .. 3 * n -> Words] /\ \A k \in 1 .. 3 * n : f[k] = w(k)
  BY <1>5
<1> HIDE DEF f
<1>9. f \in Seq(Words) /\ Len(f) = 3 * n
  BY <1>1, <1>8, FunctionIsSeq
<1>10. h \in Seq(Words) /\ Len(h) = 1 /\ h[1] = n
  <2> DEFINE V == Words
  <2>1. n \in V
    BY <1>1 DEF Words
  <2> HIDE DEF V
  <2>2. <<n>> \in Seq(V) /\ Len(<<n>>) = 1 /\ <<n>>[1] = n
    BY <2>1
  <2>3. QED
    BY <2>2 DEF V
<1> HIDE DEF h
<1>11. /\ s \in Seq(Words) /\ Len(s) = Len(h) + Len(f) /\ \A i \in 1 .. Len(h) : s[i] = h[i]
       /\ \A i \in 1 .. Len(f) : s[Len(h) + i] = f[i]
  <2>1. h \in Seq(Words) /\ f \in Seq(Words)
    BY <1>9, <1>10
  <2> HIDE DEF f, h
  <2>2. h \o f \in Seq(Words) /\ Len(h \o f) = Len(h) + Len(f)
    BY <2>1, ConcatFacts
  <2>3. \A i \in 1 .. Len(h) : (h \o f)[i] = h[i]
    BY <2>1, ConcatFacts
  <2>4. \A i \in 1 .. Len(f) : (h \o f)[Len(h) + i] = f[i]
    BY <2>1, ConcatFacts
  <2>5. QED
    BY <2>2, <2>3, <2>4
<1> HIDE DEF s
<1>12. /\ s \in Seq(Words) /\ Len(s) = 3 * n + 1 /\ s[1] = n /\ \A i \in 1 .. 3 * n : s[1 + i] = w(i)
  BY <1>1, <1>8, <1>9, <1>10, <1>11
<1>13. ASSUME NEW i \in 1 .. n
       PROVE  s[3 * i - 1] = l[i].icode /\ s[3 * i] = l[i].param0 /\ s[3 * i + 1] = l[i].param1
  <2>1. 1 + (3 * i - 2) = 3 * i - 1 /\ 1 + (3 * i - 1) = 3 * i /\ 1 + 3 * i = 3 * i + 1
    BY <1>1
  <2>2. s[1 + (3 * i - 2)] = w(3 * i - 2) /\ s[1 + (3 * i - 1)] = w(3 * i - 1) /\ s[1 + 3 * i] = w(3 * i)
    BY <1>6, <1>12
  <2>3. QED
    BY <1>7, <2>1, <2>2
<1>14. QED
  BY <1>3, <1>12, <1>13 DEF n

\* Three words in the middle of a stream.
LEMMA ThreeWords ==
  ASSUME NEW S, NEW s \in Seq(S), NEW a \in Nat, a >= 1, a + 2 <= Len(s)
  PROVE  SubSeq(s, a, a + 2)[1] = s[a] /\ SubSeq(s, a, a + 2)[2] = s[a + 1] /\ SubSeq(s, a, a + 2)[3] = s[a + 2]
<1>1. \A j \in 1 .. 3 : SubSeq(s, a, a + 2)[j] = s[a + j - 1]
  OBVIOUS
<1>2. a + 1 - 1 = a /\ a + 2 - 1 = a + 1 /\ a + 3 - 1 = a + 2
  OBVIOUS
<1>3. SubSeq(s, a, a + 2)[1] = s[a + 1 - 1] /\ SubSeq(s, a, a + 2)[2] = s[a + 2 - 1] /\ SubSeq(s, a, a + 2)[3] = s[a + 3 - 1]
  BY <1>1
<1>4. QED
  BY <1>2, <1>3

\* Instructions come out of a stream as they went in.
LEMMA FoldRoundTrip ==
  ASSUME NEW l \in Seq(Ops)
  PROVE  InstructionListFrom(InstructionsFold(l)) = l
<1> DEFINE s == InstructionsFold(l)
           n == Len(l)
<1>1. /\ s \in Seq(Words) /\ Len(s) = 3 * n + 1 /\ s[1] = n
      /\ \A i \in 1 .. n : s[3 * i - 1] = l[i].icode /\ s[3 * i] = l[i].param0 /\ s[3 * i + 1] = l[i].param1
  BY FoldFacts
<1>2. n \in Nat /\ l = [i \in 1 .. n |-> l[i]] /\ \A i \in 1 .. n : l[i] \in Ops
  OBVIOUS
<1>3. InstructionListFrom(s) = [i \in 1 .. s[1] |-> InstructionFromStream(SubSeq(s, 3 * i - 1, 3 * i + 1))]
  BY DEF InstructionListFrom
<1> HIDE DEF s, n
<1>4. ASSUME NEW i \in 1 .. n PROVE InstructionFromStream(SubSeq(s, 3 * i - 1, 3 * i + 1)) = l[i]
  <2> DEFINE a == 3 * i - 1
  <2>1. a \in Nat /\ a >= 1 /\ a + 2 <= 3 * n + 1 /\ a + 1 = 3 * i /\ a + 2 = 3 * i + 1
    BY <1>2
  <2> HIDE DEF a
  <2>2. a + 2 <= Len(s)
    BY <1>1, <2>1
  <2> DEFINE t == SubSeq(s, a, a + 2)
  <2>3. t[1] = s[a] /\ t[2] = s[a + 1] /\ t[3] = s[a + 2]
    BY <1>1, <2>1, <2>2, ThreeWords
  <2>4. t[1] = l[i].icode /\ t[2] = l[i].param0 /\ t[3] = l[i].param1
    BY <1>1, <2>1, <2>3 DEF a
  <2>5. l[i] = [icode |-> l[i].icode, param0 |-> l[i].param0, param1 |-> l[i].param1]
    <3>1. l[i] \in Ops
      BY <1>2
    <3>2. QED
      BY <3>1 DEF Ops
  <2>6. t = SubSeq(s, 3 * i - 1, 3 * i + 1)
    BY <2>1 DEF a
  <2> HIDE DEF t
  <2>7. InstructionFromStream(t) = l[i]
    BY <2>4, <2>5 DEF InstructionFromStream, NewInstruction
  <2>8. QED
    BY <2>6, <2>7
<1>5. [i \in 1 .. n |-> InstructionFromStream(SubSeq(s, 3 * i - 1, 3 * i + 1))] = [i \in 1 .. n |-> l[i]]
  BY <1>4
<1>6. QED
  BY <1>1, <1>2, <1>3, <1>5 DEF s

\* A PCB comes out of a stream as it went in.
LEMMA PcbRoundTrip ==
  ASSUME NEW p, p.instructions \in Seq(Ops)
  PROVE  /\ PcbFromStream(PcbToStream(p)).pc = p.pc
         /\ PcbFromStream(PcbToStream(p)).instructions = p.instructions
<1> DEFINE W == Words \cup {p.id, p.status, p.size, p.pc}
           h == <<p.id, p.status, p.size, p.pc>>
           t == InstructionsFold(p.instructions)
           s == h \o t
<1>1. t \in Seq(Words)
  BY FoldFacts
<1>2. InstructionListFrom(t) = p.instructions
  BY FoldRoundTrip
<1>3. h \in Seq(W) /\ Len(h) = 4 /\ h[4] = p.pc
  OBVIOUS
<1>4. /\ PcbFromStream(s).pc = s[4] /\ PcbFromStream(s).instructions = InstructionListFrom(SubSeq(s, 4 + 1, Len(s)))
      /\ s = PcbToStream(p)
  BY DEF PcbFromStream, PcbToStream
<1> HIDE DEF h, t
<1>5. t \in Seq(W)
  <2> DEFINE V == Words
  <2>1. V \subseteq W
    OBVIOUS
  <2>2. t \in Seq(V)
    BY <1>1
  <2> HIDE DEF V, W
  <2>3. QED
    BY <2>1, <2>2
<1> HIDE DEF W
<1>6. s[4] = h[4]
  <2>1. 4 \in 1 .. Len(h)
    BY <1>3
  <2>2. \A i \in 1 .. Len(h) : s[i] = h[i]
    BY <1>3, <1>5, ConcatFacts, ZenonT(60)
  <2>3. QED
    BY <2>1, <2>2
<1>7. SubSeq(s, 4 + 1, Len(s)) = SubSeq(h, 4 + 1, Len(h)) \o t
  <2>1. 4 \in 0 .. Len(h)
    BY <1>3
  <2>2. QED
    BY <1>3, <1>5, <2>1, DropConcat, ZenonT(60)
<1>8. SubSeq(h, 4 + 1, Len(h)) = <<>>
  <2>1. SubSeq(h, 4 + 1, 4) \in Seq(W) /\ Len(SubSeq(h, 4 + 1, 4)) = 0
    BY <1>3, SplitSeq
  <2>2. QED
    BY <1>3, <2>1
<1>9. SubSeq(s, 4 + 1, Len(s)) = t
  <2>1. <<>> \o t = t
    BY <1>5
  <2> HIDE DEF s
  <2>2. QED
    BY <1>7, <1>8, <2>1
<1> HIDE DEF s
<1>10. QED
  BY <1>2, <1>3, <1>4, <1>6, <1>9

-----------------------------------------------------------------------------
(* Addresses.                                                              *)

\* The sizes of pages and words.
LEMMA PageFacts == PageSize \in Nat /\ PageSize > 0 /\ Word \in Nat /\ Word >= 1 /\ Word <= PageSize
                   /\ NoOfFrames \in Nat /\ NoOfFrames > 0
BY ProgramAssumption

\* A page number and an offset are of one address only.
LEMMA SplitUnique ==
  ASSUME NEW p \in Nat, p > 0, NEW a \in Int, NEW b \in Int, NEW i \in 0 .. p - 1, NEW j \in 0 .. p - 1,
         p * a + i = p * b + j
  PROVE  a = b /\ i = j
<1> DEFINE z == a - b
<1>1. z \in Int /\ p * z = j - i
  OBVIOUS
<1>2. a = b + z
  OBVIOUS
<1> HIDE DEF z
<1>3. z < 1
  <2>1. SUFFICES ASSUME z >= 1 PROVE FALSE
    BY <1>1
  <2>2. p * z >= p
    BY <1>1, <2>1
  <2>3. QED
    BY <1>1, <2>2
<1>4. z > -1
  <2>1. SUFFICES ASSUME z <= -1 PROVE FALSE
    BY <1>1
  <2>2. p * z <= -p
    BY <1>1, <2>1
  <2>3. QED
    BY <1>1, <2>2
<1>5. z = 0
  BY <1>1, <1>3, <1>4
<1>6. QED
  BY <1>1, <1>2, <1>5

\* A logical address is a page and an offset in it.
LEMMA AddressSplits ==
  ASSUME NEW a \in Nat
  PROVE  /\ PageNumber(a) \in Nat /\ Offset(a) \in 0 .. PageSize - 1
         /\ a = PageSize * PageNumber(a) + Offset(a)
<1> DEFINE d == a \div PageSize
           m == a % PageSize
<1>1. PageSize \in Nat /\ PageSize > 0
  BY PageFacts
<1>2. d \in Int /\ m \in 0 .. PageSize - 1 /\ a = PageSize * d + m
  BY <1>1
<1>3. PageNumber(a) = d /\ Offset(a) = a - PageSize * d
  BY DEF PageNumber, Offset
<1> HIDE DEF d, m
<1>4. d >= 0
  <2>1. SUFFICES ASSUME d <= -1 PROVE FALSE
    BY <1>2
  <2>2. PageSize * d <= -PageSize
    BY <1>1, <1>2, <2>1
  <2>3. QED
    BY <1>1, <1>2, <2>2
<1> DEFINE x == PageSize * d
<1>5. x \in Int /\ a = x + m
  BY <1>1, <1>2
<1> HIDE DEF x
<1>6. a - x = m
  BY <1>2, <1>5
<1>7. QED
  BY <1>2, <1>3, <1>4, <1>6 DEF x

\* Addresses are the addresses with a frame.
LEMMA AddressesAre ==
  ASSUME NEW a \in Nat
  PROVE  a \in Addresses <=> HasFrame(a)
<1> DEFINE k == PageNumber(a)
           o == Offset(a)
           n == Len(FrameOf)
<1>1. PageSize \in Nat /\ PageSize > 0 /\ n \in Nat
  BY PageFacts, ProgramAssumption
<1>2. k \in Nat /\ o \in 0 .. PageSize - 1 /\ a = PageSize * k + o
  BY AddressSplits
<1>3. (a \in Addresses <=> a < n * PageSize) /\ (HasFrame(a) <=> k < n)
  <2> DEFINE x == n * PageSize
  <2>1. x \in Int
    BY <1>1
  <2>2. Addresses = 0 .. x - 1
    BY DEF Addresses
  <2> HIDE DEF x
  <2>3. a \in Addresses <=> a < x
    BY <2>1, <2>2
  <2>4. HasFrame(a) <=> k < n
    BY DEF HasFrame
  <2>5. QED
    BY <2>3, <2>4 DEF x
<1> HIDE DEF k, o, n
<1>4. ASSUME k < n PROVE a < n * PageSize
  <2> DEFINE y == n - 1 - k
  <2>1. y \in Nat /\ n * PageSize = PageSize * k + PageSize + y * PageSize /\ y * PageSize >= 0
    BY <1>1, <1>2, <1>4
  <2>2. QED
    BY <1>1, <1>2, <2>1
<1>5. ASSUME k >= n PROVE a >= n * PageSize
  <2> DEFINE y == k - n
  <2>1. y \in Nat /\ PageSize * k = n * PageSize + y * PageSize /\ y * PageSize >= 0
    BY <1>1, <1>2, <1>5
  <2>2. QED
    BY <1>1, <1>2, <2>1
<1>6. QED
  BY <1>1, <1>2, <1>3, <1>4, <1>5

\* Where an address is in main memory.
LEMMA PhysicalFacts ==
  ASSUME NEW a \in Nat, HasFrame(a)
  PROVE  /\ FrameOf[PageNumber(a) + 1] \in 0 .. NoOfFrames - 1 /\ PageNumber(a) + 1 \in 1 .. Len(FrameOf)
         /\ PhysicalAddress(a) = PageSize * FrameOf[PageNumber(a) + 1] + Offset(a)
         /\ \A d \in 0 .. PageSize - 1 : Offset(a) + d < PageSize => PhysicalAddress(a) + d \in Cells
         /\ PhysicalAddress(a) \in Nat
<1> DEFINE k == PageNumber(a)
           o == Offset(a)
           n == Len(FrameOf)
           f == FrameOf[k + 1]
<1>1. PageSize \in Nat /\ PageSize > 0 /\ n \in Nat /\ NoOfFrames \in Nat /\ NoOfFrames > 0
  BY PageFacts, ProgramAssumption
<1>2. k \in Nat /\ o \in 0 .. PageSize - 1 /\ a = PageSize * k + o
  BY AddressSplits
<1>3. k < n /\ FrameOf \in Seq(0 .. NoOfFrames - 1)
  BY ProgramAssumption DEF HasFrame
<1>4. k + 1 \in 1 .. n
  <2> HIDE DEF k, n
  <2>1. QED
    BY <1>1, <1>2, <1>3
<1>5. f \in 0 .. NoOfFrames - 1
  <2> DEFINE S == 0 .. NoOfFrames - 1
             j == k + 1
  <2>1. FrameOf \in Seq(S) /\ j \in 1 .. Len(FrameOf)
    BY <1>3, <1>4
  <2> HIDE DEF S, j
  <2>2. FrameOf[j] \in S
    BY <2>1
  <2>3. QED
    BY <2>2 DEF S, j
<1>6. PhysicalAddress(a) = f * PageSize + o
  BY DEF PhysicalAddress
<1> DEFINE x == PageSize * f
<1>7. x \in Nat /\ x + PageSize <= NoOfFrames * PageSize /\ f * PageSize = x
  <2> HIDE DEF f
  <2> DEFINE y == NoOfFrames - 1 - f
  <2>1. y \in Nat /\ NoOfFrames * PageSize = PageSize * f + PageSize + y * PageSize /\ y * PageSize >= 0
    BY <1>1, <1>5
  <2>2. QED
    BY <1>1, <1>5, <2>1
<1> DEFINE c == NoOfFrames * PageSize
<1>8. Cells = 0 .. c - 1 /\ c \in Nat
  BY <1>1 DEF Cells
<1> HIDE DEF x, o, c
<1>9. \A d \in 0 .. PageSize - 1 : o + d < PageSize => (x + o) + d \in Cells
  BY <1>1, <1>2, <1>7, <1>8 DEF c
<1>10. x + o \in Nat
  BY <1>2, <1>7
<1>11. PhysicalAddress(a) = x + o
  BY <1>6, <1>7
<1>12. QED
  BY <1>4, <1>5, <1>9, <1>10, <1>11 DEF x, o

\* An access that does not cross ends in its page.
LEMMA CrossesIs ==
  ASSUME NEW a \in Nat, ~Crosses(a)
  PROVE  Offset(a) + Word <= PageSize
<1>1. Offset(a) \in 0 .. PageSize - 1 /\ PageSize \in Nat /\ Word \in Nat
  BY AddressSplits, PageFacts
<1>2. ~(Offset(a) + Word > PageSize)
  BY DEF Crosses
<1> DEFINE o == Offset(a)
<1> HIDE DEF o
<1>3. o + Word <= PageSize
  BY <1>1, <1>2 DEF o
<1>4. QED
  BY <1>3 DEF o

\* Two addresses with frames, the second less than Word behind the first in
\* main memory or in the address space.
LEMMA SamePage ==
  ASSUME NEW a \in Nat, HasFrame(a), ~Crosses(a), NEW b \in Nat, HasFrame(b), NEW d \in 0 .. Word - 1
  PROVE  PhysicalAddress(b) = PhysicalAddress(a) + d <=> b = a + d
<1> DEFINE ka == PageNumber(a)
           kb == PageNumber(b)
           oa == Offset(a)
           ob == Offset(b)
           fa == FrameOf[ka + 1]
           fb == FrameOf[kb + 1]
<1>1. PageSize \in Nat /\ PageSize > 0 /\ Word \in Nat
  BY PageFacts
<1>2. /\ ka \in Nat /\ oa \in 0 .. PageSize - 1 /\ a = PageSize * ka + oa
      /\ kb \in Nat /\ ob \in 0 .. PageSize - 1 /\ b = PageSize * kb + ob
  BY AddressSplits
<1>3. oa + Word <= PageSize
  BY CrossesIs
<1>4. /\ fa \in 0 .. NoOfFrames - 1 /\ PhysicalAddress(a) = PageSize * fa + oa /\ ka + 1 \in 1 .. Len(FrameOf)
  BY PhysicalFacts
<1>5. /\ fb \in 0 .. NoOfFrames - 1 /\ PhysicalAddress(b) = PageSize * fb + ob /\ kb + 1 \in 1 .. Len(FrameOf)
  BY PhysicalFacts
<1>6. fa = fb => ka = kb
  <2>1. ASSUME NEW i \in 1 .. Len(FrameOf), NEW j \in 1 .. Len(FrameOf), FrameOf[i] = FrameOf[j] PROVE i = j
    <3>1. i \in DOMAIN FrameOf /\ j \in DOMAIN FrameOf /\ IsInjective(FrameOf)
      BY ProgramAssumption
    <3>2. QED
      BY <2>1, <3>1 DEF IsInjective
  <2>2. fa = fb => ka + 1 = kb + 1
    BY <1>4, <1>5, <2>1
  <2> HIDE DEF ka, kb, fa, fb
  <2>3. QED
    BY <1>2, <2>2
<1>13. ka = kb => fa = fb
  OBVIOUS
<1> HIDE DEF ka, kb, oa, ob, fa, fb
<1>7. oa + d \in 0 .. PageSize - 1 /\ fa \in Int /\ fb \in Int
  BY <1>1, <1>2, <1>3, <1>4, <1>5
<1>8. ASSUME PhysicalAddress(b) = PhysicalAddress(a) + d PROVE b = a + d
  <2>1. PageSize * fb + ob = PageSize * fa + (oa + d)
    <3> DEFINE x == PageSize * fa
               y == PageSize * fb
    <3>1. x \in Int /\ y \in Int /\ y + ob = (x + oa) + d
      BY <1>1, <1>4, <1>5, <1>7, <1>8
    <3> HIDE DEF x, y
    <3>2. y + ob = x + (oa + d)
      BY <1>2, <1>7, <3>1
    <3>3. QED
      BY <3>2 DEF x, y
  <2>2. fb = fa /\ ob = oa + d
    BY <1>1, <1>2, <1>7, <2>1, SplitUnique
  <2>3. kb = ka
    BY <1>6, <2>2
  <2> DEFINE z == PageSize * ka
  <2>4. z \in Int /\ b = z + (oa + d) /\ a = z + oa
    BY <1>1, <1>2, <2>2, <2>3
  <2> HIDE DEF z
  <2>5. QED
    BY <1>2, <2>4
<1>9. ASSUME b = a + d PROVE PhysicalAddress(b) = PhysicalAddress(a) + d
  <2>1. PageSize * kb + ob = PageSize * ka + (oa + d)
    <3> DEFINE x == PageSize * ka
               y == PageSize * kb
    <3>1. x \in Int /\ y \in Int /\ y + ob = (x + oa) + d
      BY <1>1, <1>2, <1>9
    <3> HIDE DEF x, y
    <3>2. y + ob = x + (oa + d)
      BY <1>2, <1>7, <3>1
    <3>3. QED
      BY <3>2 DEF x, y
  <2>2. kb = ka /\ ob = oa + d
    BY <1>1, <1>2, <1>7, <2>1, SplitUnique
  <2>3. fb = fa
    BY <1>13, <2>2
  <2> DEFINE z == PageSize * fa
  <2>4. z \in Int /\ PhysicalAddress(b) = z + (oa + d) /\ PhysicalAddress(a) = z + oa
    BY <1>1, <1>4, <1>5, <1>7, <2>2, <2>3
  <2> HIDE DEF z
  <2>5. QED
    BY <1>2, <2>4
<1>10. QED
  BY <1>8, <1>9

\* The cells of an access that stays in its page.
LEMMA AccessIn ==
  ASSUME NEW a \in Nat, HasFrame(a), ~Crosses(a), NEW d \in 0 .. Word - 1
  PROVE  /\ a + d \in Nat /\ HasFrame(a + d) /\ a + d \in Addresses
         /\ PhysicalAddress(a) + d \in Cells /\ PhysicalAddress(a + d) = PhysicalAddress(a) + d
         /\ (PhysicalAddress(a) + d) \div PageSize \in Range(FrameOf)
<1> DEFINE k == PageNumber(a)
           o == Offset(a)
           f == FrameOf[k + 1]
<1>1. PageSize \in Nat /\ PageSize > 0 /\ Word \in Nat /\ Word <= PageSize
  BY PageFacts
<1>2. k \in Nat /\ o \in 0 .. PageSize - 1 /\ a = PageSize * k + o
  BY AddressSplits
<1>3. o + Word <= PageSize
  BY CrossesIs
<1>4. /\ f \in 0 .. NoOfFrames - 1 /\ PhysicalAddress(a) = PageSize * f + o /\ k + 1 \in 1 .. Len(FrameOf)
      /\ \A e \in 0 .. PageSize - 1 : o + e < PageSize => PhysicalAddress(a) + e \in Cells
      /\ PhysicalAddress(a) \in Nat
  BY PhysicalFacts
<1>5. HasFrame(a) <=> k < Len(FrameOf)
  BY DEF HasFrame
<1>15. HasFrame(a + d) <=> PageNumber(a + d) < Len(FrameOf)
  BY DEF HasFrame
<1>6. f \in Range(FrameOf)
  <2>1. k + 1 \in DOMAIN FrameOf
    BY <1>4, ProgramAssumption
  <2>2. QED
    BY <2>1 DEF Range
<1> HIDE DEF k, o, f
<1>7. a + d \in Nat /\ d \in 0 .. PageSize - 1 /\ o + d \in 0 .. PageSize - 1 /\ o + d < PageSize
  BY <1>1, <1>2, <1>3
<1>8. PageNumber(a + d) = k
  <2> DEFINE j == PageNumber(a + d)
             i == Offset(a + d)
  <2>1. j \in Nat /\ i \in 0 .. PageSize - 1 /\ a + d = PageSize * j + i
    BY <1>7, AddressSplits
  <2> HIDE DEF j, i
  <2> DEFINE x == PageSize * k
  <2>2. x \in Int /\ a = x + o
    BY <1>1, <1>2
  <2> HIDE DEF x
  <2>3. PageSize * j + i = x + (o + d)
    BY <1>2, <1>7, <2>1, <2>2
  <2>4. PageSize * j + i = PageSize * k + (o + d)
    BY <2>3 DEF x
  <2>5. j = k
    BY <1>1, <1>2, <1>7, <2>1, <2>4, SplitUnique
  <2>6. QED
    BY <2>5 DEF j
<1>9. HasFrame(a + d) /\ a + d \in Addresses
  BY <1>5, <1>15, <1>7, <1>8, AddressesAre
<1>10. PhysicalAddress(a + d) = PhysicalAddress(a) + d
  BY <1>7, <1>9, SamePage
<1>11. PhysicalAddress(a) + d \in Cells
  BY <1>4, <1>7
<1>12. (PhysicalAddress(a) + d) \div PageSize = f
  <2> DEFINE c == PhysicalAddress(a) + d
             q == c \div PageSize
             r == c % PageSize
             x == PageSize * f
  <2>1. x \in Int /\ PhysicalAddress(a) = x + o
    BY <1>1, <1>4
  <2>2. c \in Nat
    BY <1>4, <1>7
  <2> HIDE DEF x
  <2>3. c = x + (o + d)
    BY <1>2, <1>7, <2>1
  <2> HIDE DEF c
  <2>4. q \in Int /\ r \in 0 .. PageSize - 1 /\ c = PageSize * q + r
    BY <1>1, <2>2
  <2> HIDE DEF q, r
  <2>5. PageSize * q + r = PageSize * f + (o + d)
    BY <2>3, <2>4 DEF x
  <2>6. q = f
    BY <1>1, <1>4, <1>7, <2>4, <2>5, SplitUnique, SMTT(40)
  <2>7. QED
    BY <2>6 DEF q, c
<1>13. QED
  BY <1>6, <1>7, <1>9, <1>10, <1>11, <1>12

-----------------------------------------------------------------------------
(* Main memory and the process's address space.                            *)

\* Main memory, and an address space.
Mains == [Cells -> Int \X Int]
Spaces == [Addresses -> Int \X Int]

\* The pages of the process hold m, and the frames of others nothing.
Image(main, m) == \A a \in Addresses : main[PhysicalAddress(a)] = m[a]
Untouched(main) == \A c \in Cells : c \div PageSize \notin Range(FrameOf) => main[c] = <<0, 0>>

\* An address of the process has a frame and a cell.
LEMMA AddressFacts ==
  ASSUME NEW a \in Addresses
  PROVE  a \in Nat /\ HasFrame(a) /\ PhysicalAddress(a) \in Cells /\ PhysicalAddress(a) \in Nat
<1>1. a \in Nat
  BY DEF Addresses
<1>2. HasFrame(a)
  BY <1>1, AddressesAre
<1>3. /\ \A d \in 0 .. PageSize - 1 : Offset(a) + d < PageSize => PhysicalAddress(a) + d \in Cells
      /\ PhysicalAddress(a) \in Nat
  BY <1>1, <1>2, PhysicalFacts
<1>4. Offset(a) \in 0 .. PageSize - 1 /\ PageSize \in Nat /\ PageSize > 0
  BY <1>1, AddressSplits, PageFacts
<1>5. 0 \in 0 .. PageSize - 1 /\ Offset(a) + 0 < PageSize
  <2> DEFINE o == Offset(a)
  <2> HIDE DEF o
  <2>1. 0 \in 0 .. PageSize - 1 /\ o + 0 < PageSize
    BY <1>4 DEF o
  <2>2. QED
    BY <2>1 DEF o
<1>6. PhysicalAddress(a) + 0 \in Cells
  BY <1>3, <1>5
<1>7. PhysicalAddress(a) + 0 = PhysicalAddress(a)
  <2> DEFINE p == PhysicalAddress(a)
  <2> HIDE DEF p
  <2>1. p + 0 = p
    BY <1>3 DEF p
  <2>2. QED
    BY <2>1 DEF p
<1>8. QED
  BY <1>1, <1>2, <1>3, <1>6, <1>7

\* Address 0 has a frame if any has.
LEMMA ZeroFacts ==
  ASSUME NEW a \in Nat, HasFrame(a)
  PROVE  HasFrame(0) /\ ~Crosses(0) /\ 0 \in Addresses
<1> DEFINE k == PageNumber(0)
           o == Offset(0)
           j == PageNumber(a)
           n == Len(FrameOf)
<1>1. PageSize \in Nat /\ PageSize > 0 /\ Word \in Nat /\ Word <= PageSize /\ n \in Nat
  BY PageFacts, ProgramAssumption
<1>2. k \in Nat /\ o \in 0 .. PageSize - 1 /\ 0 = PageSize * k + o /\ j \in Nat
  BY AddressSplits
<1>3. (HasFrame(a) <=> j < n) /\ (HasFrame(0) <=> k < n) /\ (Crosses(0) <=> o + Word > PageSize)
  BY DEF HasFrame, Crosses
<1> HIDE DEF k, o, j, n
<1>4. PageSize * 0 + 0 = PageSize * k + o /\ 0 \in 0 .. PageSize - 1
  BY <1>1, <1>2
<1>5. k = 0 /\ o = 0
  BY <1>1, <1>2, <1>4, SplitUnique
<1>6. HasFrame(0) /\ ~Crosses(0)
  BY <1>1, <1>2, <1>3, <1>5
<1>7. QED
  BY <1>6, AddressesAre

\* A write keeps main memory a memory.
LEMMA WriteType ==
  ASSUME memory \in Mains, NEW p \in Int, NEW v \in Int
  PROVE  WriteValue(p, v) \in Mains
<1> DEFINE C == Cells
           M == Mains
           w(c) == IF c \in p .. p + Word - 1 THEN <<v, IF v = 0 THEN 0 ELSE c - p>> ELSE memory[c]
<1>1. WriteValue(p, v) = [c \in Cells |-> w(c)]
  BY DEF WriteValue
<1>2. ASSUME NEW c \in Cells PROVE w(c) \in Int \X Int
  <2>1. c \in Int
    BY DEF Cells
  <2>2. memory[c] \in Int \X Int
    BY DEF Mains
  <2>3. QED
    BY <2>1, <2>2
<1> HIDE DEF w
<1>3. QED
  BY <1>1, <1>2 DEF Mains

\* A read returns a value.
LEMMA ReadType ==
  ASSUME memory \in Mains, NEW p \in Cells
  PROVE  ReadValue(p) \in Int
<1>1. memory[p] \in Int \X Int
  BY DEF Mains
<1>2. memory[p][1] \in Int /\ Torn \in Int
  BY <1>1 DEF Torn
<1>3. ReadValue(p) = memory[p][1] \/ ReadValue(p) = Torn
  BY DEF ReadValue
<1>4. QED
  BY <1>2, <1>3

\* A value written to main memory is written to the address space.
LEMMA WriteImage ==
  ASSUME memory \in Mains, NEW m \in Spaces, Image(memory, m), Untouched(memory),
         NEW a \in Nat, HasFrame(a), ~Crosses(a), NEW v \in Int
  PROVE  /\ Image(WriteValue(PhysicalAddress(a), v), Stored(m, a, v))
         /\ Untouched(WriteValue(PhysicalAddress(a), v))
<1> DEFINE p == PhysicalAddress(a)
           w == WriteValue(p, v)
           s == Stored(m, a, v)
<1>1. p \in Nat /\ Word \in Nat
  BY PhysicalFacts, PageFacts
<1>2. w = [c \in Cells |-> IF c \in p .. p + Word - 1 THEN <<v, IF v = 0 THEN 0 ELSE c - p>> ELSE memory[c]]
  BY DEF WriteValue
<1>3. s = [c \in Addresses |-> IF c \in a .. a + Word - 1 THEN <<v, IF v = 0 THEN 0 ELSE c - a>> ELSE m[c]]
  BY DEF Stored
<1>4. ASSUME NEW d \in 0 .. Word - 1
      PROVE  a + d \in Addresses /\ PhysicalAddress(a + d) = p + d /\ (p + d) \div PageSize \in Range(FrameOf)
  BY AccessIn
<1>5. ASSUME NEW b \in Addresses, NEW d \in 0 .. Word - 1 PROVE PhysicalAddress(b) = p + d <=> b = a + d
  BY AddressFacts, SamePage
<1> HIDE DEF p, w, s
<1>6. ASSUME NEW b \in Addresses PROVE w[PhysicalAddress(b)] = s[b]
  <2> DEFINE c == PhysicalAddress(b)
  <2>1. b \in Nat /\ c \in Cells /\ c \in Nat
    BY AddressFacts
  <2>2. memory[c] = m[b]
    BY DEF Image
  <2>3. ASSUME NEW d \in 0 .. Word - 1 PROVE c = p + d <=> b = a + d
    BY <1>5
  <2> HIDE DEF c
  <2>4. CASE c \in p .. p + Word - 1
    <3> DEFINE d == c - p
    <3>1. d \in 0 .. Word - 1 /\ c = p + d
      BY <1>1, <2>1, <2>4
    <3>2. b = a + d
      BY <2>3, <3>1
    <3>3. b \in a .. a + Word - 1 /\ b - a = d
      <4> HIDE DEF d
      <4>1. QED
        BY <1>1, <3>1, <3>2
    <3>4. w[c] = <<v, IF v = 0 THEN 0 ELSE d>>
      BY <1>2, <2>1, <2>4
    <3>5. s[b] = <<v, IF v = 0 THEN 0 ELSE d>>
      <4> HIDE DEF d
      <4>1. s[b] = <<v, IF v = 0 THEN 0 ELSE b - a>>
        BY <1>3, <3>3
      <4>2. QED
        BY <3>3, <4>1
    <3>6. QED
      BY <3>4, <3>5 DEF c
  <2>5. CASE c \notin p .. p + Word - 1
    <3>1. b \notin a .. a + Word - 1
      <4>1. ASSUME b \in a .. a + Word - 1 PROVE FALSE
        <5> DEFINE d == b - a
        <5>1. d \in 0 .. Word - 1 /\ b = a + d
          BY <1>1, <2>1, <4>1
        <5>2. c = p + d
          BY <2>3, <5>1
        <5> HIDE DEF d
        <5>3. c \in p .. p + Word - 1
          BY <1>1, <5>1, <5>2
        <5>4. QED
          BY <2>5, <5>3
      <4>2. QED
        BY <4>1
    <3>2. w[c] = memory[c] /\ s[b] = m[b]
      BY <1>2, <1>3, <2>1, <2>5, <3>1
    <3>3. QED
      BY <2>2, <3>2 DEF c
  <2>6. QED
    BY <2>4, <2>5
<1>7. ASSUME NEW c \in Cells, c \div PageSize \notin Range(FrameOf) PROVE w[c] = <<0, 0>>
  <2>1. c \notin p .. p + Word - 1
    <3>1. ASSUME c \in p .. p + Word - 1 PROVE FALSE
      <4> DEFINE d == c - p
      <4>0. c \in Int
        BY DEF Cells
      <4>1. d \in 0 .. Word - 1 /\ c = p + d
        BY <1>1, <3>1, <4>0
      <4> HIDE DEF d
      <4>2. (p + d) \div PageSize \in Range(FrameOf)
        BY <1>4, <4>1
      <4>3. QED
        BY <1>7, <4>1, <4>2
    <3>2. QED
      BY <3>1
  <2>2. w[c] = memory[c]
    BY <1>2, <2>1
  <2>3. memory[c] = <<0, 0>>
    BY <1>7 DEF Untouched
  <2>4. QED
    BY <2>2, <2>3
<1>8. Image(w, s) /\ Untouched(w)
  BY <1>6, <1>7 DEF Image, Untouched
<1>9. QED
  BY <1>8 DEF w, s, p

\* A value read from main memory is that of the address space.
LEMMA ReadImage ==
  ASSUME memory \in Mains, NEW m \in Spaces, Image(memory, m), NEW a \in Nat, HasFrame(a), ~Crosses(a)
  PROVE  ReadValue(PhysicalAddress(a)) = Loaded(m, a)
<1> DEFINE p == PhysicalAddress(a)
           g(k) == <<m[a][1], IF m[a][1] = 0 THEN 0 ELSE k>>
<1>1. p \in Nat /\ Word \in Nat /\ Word >= 1
  BY PhysicalFacts, PageFacts
<1>2. ASSUME NEW d \in 0 .. Word - 1
      PROVE  a + d \in Addresses /\ p + d \in Cells /\ memory[p + d] = m[a + d]
  <2>1. a + d \in Addresses /\ PhysicalAddress(a + d) = p + d /\ p + d \in Cells
    BY AccessIn
  <2>2. memory[PhysicalAddress(a + d)] = m[a + d]
    BY <2>1 DEF Image
  <2>3. QED
    BY <2>1, <2>2
<1>3. memory[p] = m[a]
  BY AddressesAre DEF Image
<1> DEFINE A == \A c \in {c \in Cells : c \in p .. p + Word - 1} :
                   memory[c] = <<memory[p][1], IF memory[p][1] = 0 THEN 0 ELSE c - p>>
           B == \A k \in 0 .. Word - 1 : a + k \in Addresses /\ m[a + k] = g(k)
<1>4. ReadValue(p) = (IF A THEN memory[p][1] ELSE Torn) /\ Loaded(m, a) = (IF B THEN m[a][1] ELSE Torn)
  BY DEF ReadValue, Loaded
<1>5. A <=> \A c \in {c \in Cells : c \in p .. p + Word - 1} : memory[c] = g(c - p)
  BY <1>3
<1> HIDE DEF p, g, A
<1>6. ASSUME B, NEW c \in Cells, c \in p .. p + Word - 1 PROVE memory[c] = g(c - p)
  <2> DEFINE d == c - p
  <2>0. c \in Int
    BY DEF Cells
  <2>1. d \in 0 .. Word - 1 /\ c = p + d
    BY <1>1, <1>6, <2>0
  <2> HIDE DEF d
  <2>2. memory[p + d] = m[a + d] /\ m[a + d] = g(d)
    BY <1>2, <1>6, <2>1
  <2>3. memory[c] = g(d)
    BY <2>1, <2>2
  <2>4. QED
    BY <2>3 DEF d
<1>7. ASSUME A, NEW k \in 0 .. Word - 1 PROVE a + k \in Addresses /\ m[a + k] = g(k)
  <2> DEFINE c == p + k
  <2>1. c \in p .. p + Word - 1 /\ c - p = k
    BY <1>1
  <2>2. c \in Cells /\ memory[c] = m[a + k] /\ a + k \in Addresses
    BY <1>2
  <2> HIDE DEF c
  <2>3. memory[c] = g(c - p)
    BY <1>5, <1>7, <2>1, <2>2
  <2>4. QED
    BY <2>1, <2>2, <2>3
<1>8. A <=> B
  BY <1>5, <1>6, <1>7
<1> HIDE DEF B
<1>9. QED
  BY <1>3, <1>4, <1>8 DEF p

\* A store keeps an address space one.
LEMMA StoredType ==
  ASSUME NEW m \in Spaces, NEW a \in Nat, NEW v \in Int
  PROVE  Stored(m, a, v) \in Spaces
<1> DEFINE w(c) == IF c \in a .. a + Word - 1 THEN <<v, IF v = 0 THEN 0 ELSE c - a>> ELSE m[c]
<1>1. Stored(m, a, v) = [c \in Addresses |-> w(c)]
  BY DEF Stored
<1>2. ASSUME NEW c \in Addresses PROVE w(c) \in Int \X Int
  <2>1. c \in Int
    BY DEF Addresses
  <2>2. m[c] \in Int \X Int
    BY DEF Spaces
  <2>3. QED
    BY <2>1, <2>2
<1> HIDE DEF w
<1>3. QED
  BY <1>1, <1>2 DEF Spaces

\* A load returns a value.
LEMMA LoadedType ==
  ASSUME NEW m \in Spaces, NEW a \in Nat
  PROVE  Loaded(m, a) \in Int
<1> DEFINE B == \A k \in 0 .. Word - 1 : a + k \in Addresses /\ m[a + k] = <<m[a][1], IF m[a][1] = 0 THEN 0 ELSE k>>
<1>1. Loaded(m, a) = (IF B THEN m[a][1] ELSE Torn) /\ Torn \in Int
  BY DEF Loaded, Torn
<1>2. ASSUME B PROVE m[a][1] \in Int
  <2>1. 0 \in 0 .. Word - 1
    BY PageFacts
  <2>2. a + 0 \in Addresses
    BY <1>2, <2>1
  <2>3. a \in Addresses
    BY <2>2
  <2>4. m[a] \in Int \X Int
    BY <2>3 DEF Spaces
  <2>5. QED
    BY <2>4
<1> HIDE DEF B
<1>3. QED
  BY <1>1, <1>2

\* An instruction keeps an address space one.
LEMMA EffectType ==
  ASSUME NEW m \in Spaces, NEW i \in Instr
  PROVE  Effect(m, i) \in Spaces
<1>1. i.param0 \in Nat /\ i.param1 \in Nat /\ i.param1 \in Int
  BY DEF Instr
<1>2. Stored(m, i.param0, i.param1) \in Spaces
  BY <1>1, StoredType
<1>3. Loaded(m, i.param1) \in Int
  BY <1>1, LoadedType
<1>4. Stored(m, 0, Loaded(m, i.param1)) \in Spaces
  BY <1>3, StoredType
<1>5. /\ i.icode = "WRITE" => Effect(m, i) = Stored(m, i.param0, i.param1)
      /\ i.icode = "COPY" => Effect(m, i) = Stored(m, 0, Loaded(m, i.param1))
      /\ i.icode \notin {"WRITE", "COPY"} => Effect(m, i) = m
  BY DEF Effect
<1>6. QED
  BY <1>2, <1>4, <1>5

\* Nothing is stored.
EmptySpace == [a \in Addresses |-> <<0, 0>>]

\* The address space after the first instructions of a list.
LEMMA AfterFacts ==
  ASSUME NEW l \in Seq(Instr)
  PROVE  /\ After(l) \in [0 .. Len(l) -> Spaces] /\ After(l)[0] = EmptySpace
         /\ \A i \in 1 .. Len(l) : After(l)[i] = Effect(After(l)[i - 1], l[i])
<1> DEFINE n == Len(l)
           z == EmptySpace
           S == Spaces
           E(d) == [i \in 0 .. n |-> IF i = 0 THEN z ELSE Effect(d[i - 1], l[i])]
           g == [i \in 1 .. n |-> [s \in S |-> Effect(s, l[i])]]
           F == After(l)
<1>1. n \in Nat /\ z \in S
  BY DEF EmptySpace, Spaces
<1>2. ASSUME NEW s \in S, NEW i \in 1 .. n PROVE Effect(s, l[i]) \in S
  <2>1. l[i] \in Instr
    BY <1>2
  <2>2. QED
    BY <2>1, EffectType
<1>7. F = CHOOSE d : d = E(d)
  BY DEF After, EmptySpace
<1> HIDE DEF n, z, S
<1>3. g \in [1 .. n -> [S -> S]]
  BY <1>2
<1>4. PICK f \in [0 .. n -> S] : f[0] = z /\ \A i \in 1 .. n : f[i] = g[i][f[i - 1]]
  <2> HIDE DEF g
  <2>1. QED
    BY <1>1, <1>3, RecursionUpTo, SMTT(60)
<1>5. ASSUME NEW i \in 1 .. n PROVE f[i] = Effect(f[i - 1], l[i])
  <2>1. i - 1 \in 0 .. n
    BY <1>1
  <2>2. f[i - 1] \in S
    BY <2>1
  <2>3. QED
    BY <1>4, <2>2
<1>6. f = E(f)
  BY <1>4, <1>5
<1> HIDE DEF E, F
<1>8. F = E(F)
  BY <1>6, <1>7
<1>9. F = [i \in 0 .. n |-> IF i = 0 THEN z ELSE Effect(F[i - 1], l[i])]
  BY <1>8 DEF E
<1>10. F[0] = z /\ \A i \in 1 .. n : F[i] = Effect(F[i - 1], l[i])
  BY <1>1, <1>9
<1>11. \A i \in 0 .. n : F[i] \in S
  <2> DEFINE T == {i \in 0 .. n : F[i] \in S}
  <2>1. 0 \in T
    BY <1>1, <1>10
  <2>2. \A i \in 1 .. n : i - 1 \in T => i \in T
    BY <1>2, <1>10
  <2> HIDE DEF T
  <2>3. \A i \in 0 .. n : i \in T
    BY <1>1, <2>1, <2>2, UpToInduction
  <2>4. QED
    BY <2>3 DEF T
<1>12. F \in [0 .. n -> S]
  BY <1>9, <1>11
<1>13. QED
  BY <1>10, <1>12 DEF n, F, z, S

-----------------------------------------------------------------------------
(* A process that executes its program.                                    *)

\* The instructions of a PCB are those of the program, but for a COPY that was executed.
Follows(s, k, l) ==
  /\ Len(s) = Len(l)
  /\ \A i \in 1 .. Len(l) : s[i] = l[i] \/ (i <= k /\ s[i].icode = "COPY" /\ l[i].icode = "COPY")

\* Main memory after the first n instructions.
Effected(main, l, n) == ~CrossingIn(l, n) => Image(main, After(l)[n]) /\ Untouched(main)

\* An EXIT among the first n instructions was the last, and the process has ended.
Stopped(l, n, stage) == \A i \in 1 .. n : l[i].icode = "EXIT" => i = n /\ stage = "ended"

\* The instructions that were executed; the program counter may be beyond the last.
Done(k, l) == Min({k, Len(l)})

\* A PCB with instructions s and program counter k executes the program l.
Progress(s, k, l, main, stage) ==
  /\ s \in Seq(Ops) /\ l \in Seq(Instr) /\ k \in Nat /\ main \in Mains /\ Follows(s, k, l)
  /\ Effected(main, l, Done(k, l)) /\ Stopped(l, Done(k, l), stage)

\* The number of instructions that were executed.
LEMMA DoneIs ==
  ASSUME NEW k \in Nat, NEW l \in Seq(Instr)
  PROVE  /\ Done(k, l) \in Nat /\ Done(k, l) <= Len(l) /\ (k <= Len(l) => Done(k, l) = k) /\ (k >= Len(l) => Done(k, l) = Len(l))
<1> DEFINE n == Len(l)
           S == {k, n}
           d == Min(S)
<1>1. n \in Nat
  OBVIOUS
<1>2. S \in SUBSET Nat /\ S # {}
  BY <1>1
<1> HIDE DEF n
<1>3. d \in S /\ \A y \in S : d <= y
  BY <1>2, MinIsLeast
<1>4. Done(k, l) = d
  BY DEF Done, n
<1> HIDE DEF d
<1>5. d \in Nat /\ d <= n /\ (k <= n => d = k) /\ (k >= n => d = n)
  BY <1>1, <1>3
<1>6. QED
  BY <1>4, <1>5 DEF n

\* Every instruction of the program is one of a PCB.
LEMMA InstrOps == ASSUME NEW l \in Seq(Instr) PROVE l \in Seq(Ops)
<1>1. ASSUME NEW x \in Instr PROVE x \in Ops
  BY DEF Instr, Ops
<1> DEFINE A == Instr
           B == Ops
<1>2. A \subseteq B /\ l \in Seq(A)
  BY <1>1
<1> HIDE DEF A, B
<1>3. l \in Seq(B)
  BY <1>2
<1>4. QED
  BY <1>3 DEF B

\* A PCB starts with nothing executed.
LEMMA ProgressStart ==
  ASSUME NEW l \in Seq(Instr), NEW stage
  PROVE  Progress(l, 0, l, [c \in Cells |-> <<0, 0>>], stage)
<1> DEFINE main == [c \in Cells |-> <<0, 0>>]
<1>1. l \in Seq(Ops) /\ 0 \in Nat /\ Len(l) \in Nat
  BY InstrOps
<1>2. main \in Mains
  BY DEF Mains
<1>3. Follows(l, 0, l)
  BY DEF Follows
<1>4. Done(0, l) = 0
  <2>1. 0 <= Len(l)
    BY <1>1
  <2>2. QED
    BY <2>1, DoneIs
<1>5. Untouched(main)
  BY DEF Untouched
<1>6. Image(main, After(l)[0])
  <2>1. After(l)[0] = EmptySpace
    BY AfterFacts
  <2>2. ASSUME NEW a \in Addresses PROVE main[PhysicalAddress(a)] = EmptySpace[a]
    <3>1. PhysicalAddress(a) \in Cells
      BY AddressFacts
    <3>2. QED
      BY <3>1 DEF EmptySpace
  <2>3. QED
    BY <2>1, <2>2 DEF Image
<1>7. Effected(main, l, 0) /\ Stopped(l, 0, stage)
  BY <1>5, <1>6 DEF Effected, Stopped
<1> HIDE DEF main
<1>8. Progress(l, 0, l, main, stage)
  BY <1>1, <1>2, <1>3, <1>4, <1>7 DEF Progress
<1>9. QED
  BY <1>8 DEF main

\* A process that has not ended may be anywhere.
LEMMA ProgressStage ==
  ASSUME NEW s, NEW k, NEW l, NEW main, NEW stage, stage # "ended", Progress(s, k, l, main, stage), NEW other
  PROVE  Progress(s, k, l, main, other)
<1>1. Stopped(l, Done(k, l), other)
  BY DEF Progress, Stopped
<1>2. QED
  BY <1>1 DEF Progress

\* The next instruction of the PCB is that of the program.
LEMMA ProgressNext ==
  ASSUME NEW s, NEW k, NEW l, NEW main, NEW stage, Progress(s, k, l, main, stage), k < Len(s)
  PROVE  /\ s \in Seq(Ops) /\ l \in Seq(Instr) /\ k \in Nat /\ main \in Mains /\ Follows(s, k, l)
         /\ Len(s) = Len(l) /\ k + 1 \in 1 .. Len(l) /\ s[k + 1] = l[k + 1] /\ l[k + 1] \in Instr
         /\ Done(k, l) = k /\ Done(k + 1, l) = k + 1 /\ k \in 0 .. Len(l)
         /\ Effected(main, l, k) /\ Stopped(l, k, stage)
         /\ After(l)[k] \in Spaces /\ After(l)[k + 1] = Effect(After(l)[k], l[k + 1])
<1> DEFINE n == Len(l)
<1>1. s \in Seq(Ops) /\ l \in Seq(Instr) /\ k \in Nat /\ main \in Mains /\ Follows(s, k, l) /\ Len(s) = n
  BY DEF Progress, Follows
<1>2. n \in Nat
  BY <1>1
<1>3. k < n /\ k + 1 \in Nat
  BY <1>1
<1>0. \A i \in 1 .. n : s[i] = l[i] \/ i <= k
  BY <1>1 DEF Follows
<1>9. \A i \in 1 .. n : l[i] \in Instr
  BY <1>1
<1>10. /\ k <= n => Done(k, l) = k
       /\ k + 1 <= n => Done(k + 1, l) = k + 1
  BY <1>1, <1>3, DoneIs
<1>11. /\ After(l) \in [0 .. n -> Spaces] /\ \A i \in 1 .. n : After(l)[i] = Effect(After(l)[i - 1], l[i])
  BY <1>1, AfterFacts
<1> HIDE DEF n
<1>4. k + 1 \in 1 .. n /\ k \in 0 .. n /\ ~(k + 1 <= k) /\ (k + 1) - 1 = k /\ k + 1 <= n /\ k <= n
  BY <1>1, <1>2, <1>3
<1>5. s[k + 1] = l[k + 1] /\ l[k + 1] \in Instr
  BY <1>0, <1>4, <1>9
<1>6. Done(k, l) = k /\ Done(k + 1, l) = k + 1
  BY <1>4, <1>10
<1>7. Effected(main, l, k) /\ Stopped(l, k, stage)
  BY <1>6 DEF Progress
<1>8. After(l)[k] \in Spaces /\ After(l)[k + 1] = Effect(After(l)[k], l[k + 1])
  BY <1>4, <1>11
<1>12. QED
  BY <1>1, <1>4, <1>5, <1>6, <1>7, <1>8 DEF n

\* The instructions of the PCB stay those of the program when the counter goes on.
LEMMA FollowsOn ==
  ASSUME NEW s, NEW k \in Nat, NEW l, Follows(s, k, l), Len(l) \in Nat
  PROVE  Follows(s, k + 1, l)
<1>1. \A i \in 1 .. Len(l) : i <= k => i <= k + 1
  OBVIOUS
<1>2. QED
  BY <1>1 DEF Follows

\* The effect of one more instruction.
LEMMA EffectedOn ==
  ASSUME NEW l \in Seq(Instr), NEW k \in Nat, k + 1 \in 1 .. Len(l), memory \in Mains, NEW main,
         Effected(memory, l, k),
         ASSUME Image(memory, After(l)[k]), Untouched(memory),
                ~(l[k + 1].icode = "WRITE" /\ Crosses(l[k + 1].param0)),
                ~(l[k + 1].icode = "COPY" /\ Crosses(l[k + 1].param1))
         PROVE  Image(main, After(l)[k + 1]) /\ Untouched(main)
  PROVE  Effected(main, l, k + 1)
<1>1. SUFFICES ASSUME ~CrossingIn(l, k + 1) PROVE Image(main, After(l)[k + 1]) /\ Untouched(main)
  BY DEF Effected
<1>2. \A i \in 1 .. k + 1 : ~(l[i].icode = "WRITE" /\ Crosses(l[i].param0)) /\ ~(l[i].icode = "COPY" /\ Crosses(l[i].param1))
  BY <1>1 DEF CrossingIn
<1>3. k + 1 \in 1 .. k + 1 /\ \A i \in 1 .. k : i \in 1 .. k + 1
  OBVIOUS
<1>4. ~CrossingIn(l, k)
  BY <1>2, <1>3 DEF CrossingIn
<1>5. Image(memory, After(l)[k]) /\ Untouched(memory)
  BY <1>4 DEF Effected
<1>6. QED
  BY <1>2, <1>3, <1>5

\* A process that goes on has not executed an EXIT.
LEMMA StoppedOn ==
  ASSUME NEW l, NEW k \in Nat, NEW stage, stage # "ended", Stopped(l, k, stage), NEW other,
         l[k + 1].icode = "EXIT" => other = "ended"
  PROVE  Stopped(l, k + 1, other)
<1>1. \A i \in 1 .. k + 1 : i = k + 1 \/ i \in 1 .. k
  OBVIOUS
<1>2. \A i \in 1 .. k : l[i].icode # "EXIT"
  BY DEF Stopped
<1>3. QED
  BY <1>1, <1>2 DEF Stopped

\* An instruction that stores nothing makes progress.
LEMMA ProgressQuiet ==
  ASSUME NEW s, NEW k, NEW l, NEW stage, Progress(s, k, l, memory, stage), k < Len(s), stage # "ended",
         s[k + 1].icode \in Codes \ {"WRITE", "COPY"}, NEW other, s[k + 1].icode = "EXIT" => other = "ended"
  PROVE  Progress(s, k + 1, l, memory, other)
<1>1. /\ s \in Seq(Ops) /\ l \in Seq(Instr) /\ k \in Nat /\ memory \in Mains /\ Follows(s, k, l)
      /\ k + 1 \in 1 .. Len(l) /\ s[k + 1] = l[k + 1]
      /\ Done(k + 1, l) = k + 1 /\ Effected(memory, l, k) /\ Stopped(l, k, stage)
      /\ After(l)[k + 1] = Effect(After(l)[k], l[k + 1])
  BY ProgressNext
<1>2. Effect(After(l)[k], l[k + 1]) = After(l)[k]
  <2>1. l[k + 1].icode # "WRITE" /\ l[k + 1].icode # "COPY"
    BY <1>1
  <2>2. QED
    BY <2>1 DEF Effect
<1>3. Effected(memory, l, k + 1)
  BY <1>1, <1>2, EffectedOn
<1>4. Stopped(l, k + 1, other)
  BY <1>1, StoppedOn
<1>5. Follows(s, k + 1, l) /\ k + 1 \in Nat
  BY <1>1, FollowsOn
<1>6. QED
  BY <1>1, <1>3, <1>4, <1>5 DEF Progress

\* WRITE makes progress: it stores what the program says.
LEMMA ProgressWrite ==
  ASSUME NEW s, NEW k, NEW l, NEW stage, Progress(s, k, l, memory, stage), k < Len(s), stage # "ended",
         s[k + 1].icode = "WRITE", HasFrame(s[k + 1].param0)
  PROVE  Progress(s, k + 1, l, WriteValue(PhysicalAddress(s[k + 1].param0), s[k + 1].param1), stage)
<1> DEFINE x == l[k + 1]
           main == WriteValue(PhysicalAddress(x.param0), x.param1)
           m == After(l)[k]
<1>1. /\ s \in Seq(Ops) /\ l \in Seq(Instr) /\ k \in Nat /\ memory \in Mains /\ Follows(s, k, l)
      /\ k + 1 \in 1 .. Len(l) /\ s[k + 1] = x /\ x \in Instr
      /\ Done(k + 1, l) = k + 1 /\ Effected(memory, l, k) /\ Stopped(l, k, stage)
      /\ m \in Spaces /\ After(l)[k + 1] = Effect(m, x)
  BY ProgressNext
<1>2. x.param0 \in Nat /\ x.param1 \in Int /\ HasFrame(x.param0) /\ x.icode = "WRITE"
  BY <1>1 DEF Instr
<1>3. Effect(m, x) = Stored(m, x.param0, x.param1)
  BY <1>2 DEF Effect
<1>4. main \in Mains
  <2>1. PhysicalAddress(x.param0) \in Int
    BY <1>2, PhysicalFacts
  <2>2. QED
    BY <1>1, <1>2, <2>1, WriteType
<1>5. ASSUME Image(memory, m), Untouched(memory), ~(x.icode = "WRITE" /\ Crosses(x.param0))
      PROVE  Image(main, After(l)[k + 1]) /\ Untouched(main)
  <2>1. ~Crosses(x.param0)
    BY <1>2, <1>5
  <2>2. Image(main, Stored(m, x.param0, x.param1)) /\ Untouched(main)
    BY <1>1, <1>2, <1>5, <2>1, WriteImage
  <2>3. QED
    BY <1>1, <1>3, <2>2
<1>6. Effected(main, l, k + 1)
  BY <1>1, <1>5, EffectedOn
<1>7. Stopped(l, k + 1, stage)
  BY <1>1, <1>2, StoppedOn
<1>8. Follows(s, k + 1, l) /\ k + 1 \in Nat
  BY <1>1, FollowsOn
<1> HIDE DEF main
<1>9. Progress(s, k + 1, l, main, stage)
  BY <1>1, <1>4, <1>6, <1>7, <1>8 DEF Progress
<1>10. QED
  BY <1>1, <1>9 DEF main

\* COPY makes progress, and loses its operands.
LEMMA ProgressCopy ==
  ASSUME NEW s, NEW k, NEW l, NEW stage, Progress(s, k, l, memory, stage), k < Len(s), stage # "ended",
         s[k + 1].icode = "COPY", HasFrame(s[k + 1].param1), NEW v, v = ReadValue(PhysicalAddress(s[k + 1].param1))
  PROVE  /\ Progress([s EXCEPT ![k + 1] = NewInstruction("COPY", 0, v)], k + 1, l, WriteValue(PhysicalAddress(0), v), stage)
         /\ [s EXCEPT ![k + 1] = NewInstruction("COPY", 0, v)] # <<>>
<1> DEFINE x == l[k + 1]
           main == WriteValue(PhysicalAddress(0), v)
           m == After(l)[k]
           y == NewInstruction("COPY", 0, v)
           t == [s EXCEPT ![k + 1] = y]
<1>1. /\ s \in Seq(Ops) /\ l \in Seq(Instr) /\ k \in Nat /\ memory \in Mains /\ Follows(s, k, l)
      /\ k + 1 \in 1 .. Len(l) /\ s[k + 1] = x /\ x \in Instr /\ Len(s) = Len(l)
      /\ Done(k + 1, l) = k + 1 /\ Effected(memory, l, k) /\ Stopped(l, k, stage)
      /\ m \in Spaces /\ After(l)[k + 1] = Effect(m, x)
  BY ProgressNext
<1>2. x.param1 \in Nat /\ HasFrame(x.param1) /\ x.icode = "COPY" /\ v = ReadValue(PhysicalAddress(x.param1))
  BY <1>1 DEF Instr
<1>3. Effect(m, x) = Stored(m, 0, Loaded(m, x.param1))
  BY <1>2 DEF Effect
<1>4. HasFrame(0) /\ ~Crosses(0) /\ 0 \in Addresses
  BY <1>2, ZeroFacts
<1>5. v \in Int
  <2>1. x.param1 \in Addresses
    BY <1>2, AddressesAre
  <2>2. PhysicalAddress(x.param1) \in Cells
    BY <2>1, AddressFacts
  <2>3. QED
    BY <1>1, <1>2, <2>2, ReadType
<1>6. main \in Mains
  <2>1. PhysicalAddress(0) \in Int
    BY <1>4, AddressFacts
  <2>2. QED
    BY <1>1, <1>5, <2>1, WriteType
<1>7. ASSUME Image(memory, m), Untouched(memory), ~(x.icode = "COPY" /\ Crosses(x.param1))
      PROVE  Image(main, After(l)[k + 1]) /\ Untouched(main)
  <2>1. ~Crosses(x.param1)
    BY <1>2, <1>7
  <2>2. v = Loaded(m, x.param1)
    BY <1>1, <1>2, <1>7, <2>1, ReadImage
  <2>3. Image(main, Stored(m, 0, v)) /\ Untouched(main)
    BY <1>1, <1>4, <1>5, <1>7, WriteImage
  <2>4. QED
    BY <1>1, <1>3, <2>2, <2>3
<1>8. Effected(main, l, k + 1)
  BY <1>1, <1>7, EffectedOn
<1>9. Stopped(l, k + 1, stage)
  BY <1>1, <1>2, StoppedOn
<1>10. y \in Ops /\ y.icode = "COPY"
  BY <1>5 DEF NewInstruction, Ops, Codes
<1> HIDE DEF y
<1>11. t \in Seq(Ops) /\ Len(t) = Len(s) /\ t[k + 1] = y /\ \A i \in 1 .. Len(l) : i # k + 1 => t[i] = s[i]
  <2> DEFINE j == k + 1
             T == Ops
  <2>1. j \in 1 .. Len(s) /\ s \in Seq(T) /\ y \in T
    BY <1>1, <1>10
  <2>2. Len(s) = Len(l)
    BY <1>1
  <2> HIDE DEF j, T
  <2>3. [s EXCEPT ![j] = y] \in Seq(T) /\ Len([s EXCEPT ![j] = y]) = Len(s)
    BY <2>1
  <2>4. [s EXCEPT ![j] = y][j] = y /\ \A i \in 1 .. Len(s) : i # j => [s EXCEPT ![j] = y][i] = s[i]
    BY <2>1
  <2>5. QED
    BY <2>2, <2>3, <2>4 DEF j, T
<1> HIDE DEF t, main
<1>12. Follows(t, k + 1, l) /\ k + 1 \in Nat /\ Len(t) # 0
  <2>1. k + 1 <= k + 1 /\ k + 1 \in Nat /\ \A i \in 1 .. Len(l) : i <= k => i <= k + 1
    BY <1>1
  <2>2. ASSUME NEW i \in 1 .. Len(l) PROVE t[i] = l[i] \/ (i <= k + 1 /\ t[i].icode = "COPY" /\ l[i].icode = "COPY")
    <3>1. CASE i = k + 1
      BY <1>2, <1>10, <1>11, <2>1, <3>1
    <3>2. CASE i # k + 1
      <4>1. s[i] = l[i] \/ (i <= k /\ s[i].icode = "COPY" /\ l[i].icode = "COPY")
        BY <1>1 DEF Follows
      <4>2. QED
        BY <1>11, <2>1, <3>2, <4>1
    <3>3. QED
      BY <3>1, <3>2
  <2>3. Len(t) = Len(l)
    BY <1>1, <1>11
  <2>4. Len(l) # 0
    BY <1>1
  <2>5. QED
    BY <2>1, <2>2, <2>3, <2>4 DEF Follows
<1>13. Progress(t, k + 1, l, main, stage)
  BY <1>1, <1>6, <1>8, <1>9, <1>11, <1>12 DEF Progress
<1>14. t # <<>>
  BY <1>12
<1>15. QED
  BY <1>13, <1>14 DEF t, main, y

\* Nothing is fetched behind the last instruction.
LEMMA ProgressEnd ==
  ASSUME NEW s, NEW k, NEW l, NEW stage, Progress(s, k, l, memory, stage), k = Len(s)
  PROVE  Progress(s, k + 1, l, memory, stage)
<1> DEFINE n == Len(l)
<1>1. s \in Seq(Ops) /\ l \in Seq(Instr) /\ k \in Nat /\ memory \in Mains /\ Follows(s, k, l) /\ k = n
  BY DEF Progress, Follows
<1>2. n \in Nat
  BY <1>1
<1>3. (k >= n => Done(k, l) = n) /\ (k + 1 >= n => Done(k + 1, l) = n) /\ k + 1 \in Nat
  <2>1. k + 1 \in Nat
    BY <1>1
  <2>2. QED
    BY <1>1, <2>1, DoneIs
<1> HIDE DEF n
<1>4. k >= n /\ k + 1 >= n
  BY <1>1, <1>2
<1>5. Done(k + 1, l) = Done(k, l)
  BY <1>3, <1>4
<1>6. Follows(s, k + 1, l)
  BY <1>1, <1>2, FollowsOn DEF n
<1>7. QED
  BY <1>1, <1>3, <1>5, <1>6 DEF Progress

-----------------------------------------------------------------------------
(* The program on its way.                                                 *)

\* The types of console, PCB and CPU.
Places == {"main", "parse", "connect", "action", "instructions", "before_exit", "ended"}
ExitCodes == {"none", "NO_INPUT_FILE", "NO_PROCESS_SIZE", "EXIT_FAILURE", "crash", "YY_EXIT_FAILURE", "EXIT_SUCCESS", "SIGINT"}
Consoles == [pc : Places, code : ExitCodes]
Pcbs == [stage : {"ready", "running", "blocked", "ended"}, id : Nat, status : {"NONE"}, size : Nat, pc : Nat,
         instructions : Seq(Ops)]
Cpus == [busy : BOOLEAN, instructions : Seq(Ops), pc : Nat]

\* Main memory at the start.
EmptyMain == [c \in Cells |-> <<0, 0>>]

\* The two messages of the console.
SysMsg == [op |-> "SYS", data |-> AccionSerializar([code |-> "NEW_PROCESS", param |-> Size])]
CmdMsg == [op |-> "CMD", data |-> InstructionsFold(Programmed)]

\* The file is a program, and an instruction of it was sent.
Clean == WellFormed(handed) /\ yylexerrs = 0 /\ Programmed \in Seq(Instr) /\ Programmed # <<>>

\* No program has arrived in the kernel.
Fresh(w, p) == wire = w /\ pcb = p /\ cpu = NoCpu /\ memory = EmptyMain

\* The console has sent NEW_PROCESS, or the instructions too.
Sending == console.pc \in {"instructions", "ended"}
Sent == console.pc \in {"before_exit", "ended"} /\ Clean

\* The kernel or the CPU has the program.
Running ==
  /\ Sent /\ wire = <<>> /\ pcb \in Pcbs /\ cpu \in Cpus
  /\ (cpu.busy <=> pcb.stage = "running") /\ (~cpu.busy => cpu = NoCpu)
  /\ Progress(Instructions, Counter, Programmed, memory, pcb.stage)

\* Where the program is on its way: not sent, on the wire, in the kernel or with
\* the CPU.
Delivery ==
  \/ Fresh(<<>>, NoPcb) /\ console.pc # "instructions"
  \/ Fresh(<<SysMsg>>, NoPcb) /\ Sending
  \/ Fresh(<<SysMsg, CmdMsg>>, NoPcb) /\ Sent
  \/ Fresh(<<>>, NewPcb(0, Size)) /\ Sending
  \/ Fresh(<<CmdMsg>>, NewPcb(0, Size)) /\ Sent
  \/ Running

\* What the console has made sure of.
Checked ==
  /\ console \in Consoles
  /\ console.pc \in {"connect", "action", "instructions"} => yylexerrs = 0
  /\ console.pc \in {"action", "instructions"} => yyparse = "YYACCEPT" /\ list # <<>>

\* The invariant of the way from console to memory.
DeliverInv == Checked /\ Delivery

\* The invariant of the delivery holds at the start.
LEMMA DeliverStart == ASSUME Init PROVE DeliverInv
<1>1. console = [pc |-> "main", code |-> "none"] /\ wire = <<>> /\ pcb = NoPcb /\ cpu = NoCpu /\ memory = EmptyMain
  BY DEF Init, EmptyMain
<1>2. console \in Consoles /\ console.pc = "main"
  BY <1>1 DEF Consoles, Places, ExitCodes
<1>3. Checked
  BY <1>2 DEF Checked
<1>4. Fresh(<<>>, NoPcb) /\ console.pc # "instructions"
  BY <1>1, <1>2 DEF Fresh
<1>5. QED
  BY <1>3, <1>4 DEF DeliverInv, Delivery

\* Steps that leave what was scanned, the PCBs and the messages alone.
LEMMA SameMessages ==
  ASSUME UNCHANGED <<handed, yylexerrs>>
  PROVE  Programmed' = Programmed /\ CmdMsg' = CmdMsg /\ (Clean' <=> Clean) /\ SysMsg' = SysMsg
<1>1. Programmed' = Programmed
  BY DEF Programmed
<1>2. QED
  BY <1>1 DEF CmdMsg, Clean, SysMsg

\* A step of the console that sends nothing leaves the delivery as it is.
LEMMA SameDelivery ==
  ASSUME Delivery, UNCHANGED <<wire, systemVars>>, console'.pc # "instructions",
         console.pc \in {"instructions", "ended"} => console'.pc = "ended",
         console.pc = "before_exit" => console'.pc \in {"before_exit", "ended"},
         console.pc \in {"before_exit", "instructions", "ended"} => UNCHANGED <<handed, yylexerrs>>
  PROVE  Delivery'
<1>1. wire' = wire /\ pcb' = pcb /\ cpu' = cpu /\ memory' = memory
  BY DEF systemVars
<1>2. ASSUME NEW w, NEW p, Fresh(w, p) PROVE Fresh(w, p)'
  BY <1>1, <1>2 DEF Fresh, NoCpu, EmptyMain
<1>3. CASE Fresh(<<>>, NoPcb) /\ console.pc # "instructions"
  <2>1. Fresh(<<>>, NoPcb)'
    BY <1>1, <1>3 DEF Fresh
  <2>2. QED
    BY <2>1 DEF Delivery
<1>4. ASSUME Sending PROVE Sending' /\ SysMsg' = SysMsg
  BY <1>4 DEF Sending, SysMsg
<1>5. ASSUME Sent PROVE Sent' /\ SysMsg' = SysMsg /\ CmdMsg' = CmdMsg /\ Programmed' = Programmed
  BY <1>5, SameMessages DEF Sent
<1>6. CASE Fresh(<<SysMsg>>, NoPcb) /\ Sending
  <2>1. Fresh(<<SysMsg>>, NoPcb)'
    BY <1>1, <1>4, <1>6 DEF Fresh
  <2>2. QED
    BY <1>4, <1>6, <2>1 DEF Delivery
<1>7. CASE Fresh(<<SysMsg, CmdMsg>>, NoPcb) /\ Sent
  <2>1. Fresh(<<SysMsg, CmdMsg>>, NoPcb)'
    BY <1>1, <1>5, <1>7 DEF Fresh
  <2>2. QED
    BY <1>5, <1>7, <2>1 DEF Delivery
<1>8. CASE Fresh(<<>>, NewPcb(0, Size)) /\ Sending
  <2>1. Fresh(<<>>, NewPcb(0, Size))'
    BY <1>1, <1>8 DEF Fresh
  <2>2. QED
    BY <1>4, <1>8, <2>1 DEF Delivery
<1>9. CASE Fresh(<<CmdMsg>>, NewPcb(0, Size)) /\ Sent
  <2>1. Fresh(<<CmdMsg>>, NewPcb(0, Size))'
    BY <1>1, <1>5, <1>9 DEF Fresh
  <2>2. QED
    BY <1>5, <1>9, <2>1 DEF Delivery
<1>10. CASE Running
  <2>1. Sent' /\ Programmed' = Programmed
    BY <1>5, <1>10 DEF Running
  <2>2. Instructions' = Instructions /\ Counter' = Counter
    BY <1>1 DEF Instructions, Counter
  <2>3. Running'
    BY <1>1, <1>10, <2>1, <2>2 DEF Running
  <2>4. QED
    BY <2>3 DEF Delivery
<1>11. QED
  BY <1>3, <1>6, <1>7, <1>8, <1>9, <1>10 DEF Delivery

-----------------------------------------------------------------------------
(* The console.                                                            *)

\* A second message.
LEMMA PairAppend == ASSUME NEW x, NEW y PROVE Append(<<x>>, y) = <<x, y>>
<1> DEFINE S == {x, y}
           a == <<x>>
           b == <<x, y>>
           c == Append(a, y)
<1>1. a \in Seq(S) /\ Len(a) = 1 /\ a[1] = x /\ b \in Seq(S) /\ Len(b) = 2 /\ b[1] = x /\ b[2] = y /\ y \in S
  OBVIOUS
<1> HIDE DEF S, a, b
<1>2. c \in Seq(S) /\ Len(c) = Len(a) + 1 /\ c[Len(a) + 1] = y /\ \A i \in 1 .. Len(a) : c[i] = a[i]
  <2>1. a \in Seq(S) /\ y \in S
    BY <1>1
  <2>2. QED
    BY <2>1, AppendFacts
<1> HIDE DEF c
<1>3. Len(c) = 2 /\ c[2] = y /\ c[1] = x
  BY <1>1, <1>2
<1>4. \A i \in 1 .. 2 : c[i] = b[i]
  <2>1. \A i \in 1 .. 2 : i = 1 \/ i = 2
    OBVIOUS
  <2>2. QED
    BY <1>1, <1>3, <2>1
<1>5. c = b
  BY <1>1, <1>2, <1>3, <1>4, SameSequence
<1>6. QED
  BY <1>5 DEF a, b, c

\* The console goes on.
LEMMA GoesTo ==
  ASSUME console \in Consoles, NEW x \in Places, Goes(x)
  PROVE  console' \in Consoles /\ console'.pc = x
BY DEF Goes, Consoles

\* The console ends.
LEMMA EndsWith ==
  ASSUME NEW x \in ExitCodes, Ends(x)
  PROVE  console' \in Consoles /\ console'.pc = "ended"
BY DEF Ends, Consoles, Places

\* The console ends.
LEMMA EndKeeps ==
  ASSUME DeliverInv, NEW x \in ExitCodes, Ends(x), UNCHANGED <<wire, scanVars, systemVars>>
  PROVE  DeliverInv'
<1>1. console' \in Consoles /\ console'.pc = "ended"
  BY EndsWith
<1>2. Checked'
  BY <1>1 DEF Checked
<1>3. Delivery'
  <2>1. handed' = handed /\ yylexerrs' = yylexerrs
    BY DEF scanVars
  <2>2. Delivery /\ UNCHANGED <<wire, systemVars>>
    BY DEF DeliverInv
  <2>3. QED
    BY <1>1, <2>1, <2>2, SameDelivery
<1>4. QED
  BY <1>2, <1>3 DEF DeliverInv

\* Every step of the console, and SIGINT, keep the delivery.
LEMMA ConsoleKeeps ==
  ASSUME DeliverInv, ParserInv, Console \/ Sigint
  PROVE  DeliverInv'
<1>0. Checked /\ Delivery /\ console \in Consoles
  BY DEF DeliverInv, Checked
<1>1. CASE NoContext
  <2>1. Ends("NO_INPUT_FILE") \/ Ends("NO_PROCESS_SIZE")
    BY <1>1 DEF NoContext
  <2>2. UNCHANGED <<wire, scanVars, systemVars>>
    BY <1>1 DEF NoContext
  <2>3. QED
    BY <2>1, <2>2, EndKeeps DEF ExitCodes
<1>2. CASE CannotOpen \/ FatalError \/ OnBeforeExit \/ Sigint
  <2>1. Ends("crash") \/ Ends("YY_EXIT_FAILURE") \/ Ends("EXIT_SUCCESS") \/ Ends("SIGINT")
    BY <1>2 DEF CannotOpen, FatalError, OnBeforeExit, Sigint
  <2>2. UNCHANGED <<wire, scanVars, systemVars>>
    BY <1>2 DEF CannotOpen, FatalError, OnBeforeExit, Sigint
  <2>3. QED
    BY <2>1, <2>2, EndKeeps DEF ExitCodes
<1>3. CASE OnInit
  <2>1. UNCHANGED <<wire, scanVars, systemVars>> /\ console.pc = "main"
    BY <1>3 DEF OnInit, At
  <2>2. CASE Goes("parse")
    <3>1. console' \in Consoles /\ console'.pc = "parse"
      BY <1>0, <2>2, GoesTo DEF Places
    <3>2. Checked'
      BY <3>1 DEF Checked
    <3>3. Delivery'
      BY <1>0, <2>1, <3>1, SameDelivery
    <3>4. QED
      BY <3>2, <3>3 DEF DeliverInv
  <2>3. CASE Ends("EXIT_FAILURE")
    BY <2>1, <2>3, EndKeeps DEF ExitCodes
  <2>4. QED
    BY <1>3, <2>2, <2>3 DEF OnInit
<1>4. CASE ConsoleParses
  <2>1. console.pc = "parse" /\ console' = console /\ wire' = wire /\ UNCHANGED systemVars
    BY <1>4 DEF ConsoleParses, At, consoleVars
  <2>2. Checked'
    BY <1>0, <2>1 DEF Checked
  <2>3. Delivery'
    BY <1>0, <2>1, SameDelivery
  <2>4. QED
    BY <2>2, <2>3 DEF DeliverInv
<1>5. CASE Analysed
  <2>1. /\ console.pc = "parse" /\ UNCHANGED <<wire, systemVars>> /\ yylexerrs' = yylexerrs
        /\ IF yynerrs = 0 /\ yylexerrs = 0 THEN Goes("connect") ELSE Goes("before_exit")
    BY <1>5 DEF Analysed, At
  <2>2. \/ console' \in Consoles /\ console'.pc = "connect" /\ yylexerrs = 0
        \/ console' \in Consoles /\ console'.pc = "before_exit"
    <3>1. CASE yynerrs = 0 /\ yylexerrs = 0
      BY <1>0, <2>1, <3>1, GoesTo DEF Places
    <3>2. CASE ~(yynerrs = 0 /\ yylexerrs = 0)
      BY <1>0, <2>1, <3>2, GoesTo DEF Places
    <3>3. QED
      BY <3>1, <3>2
  <2>3. Checked'
    BY <2>1, <2>2 DEF Checked
  <2>4. Delivery'
    BY <1>0, <2>1, <2>2, SameDelivery
  <2>5. QED
    BY <2>3, <2>4 DEF DeliverInv
<1>6. CASE Connect
  <2>1. /\ console.pc = "connect" /\ UNCHANGED <<wire, systemVars>> /\ yylexerrs' = yylexerrs /\ yyparse' = yyparse
        /\ list' = list
        /\ IF yyparse = "YYACCEPT" /\ list # <<>> THEN Goes("action") ELSE Goes("before_exit")
    BY <1>6 DEF Connect, At, scanVars, parseVars
  <2>2. \/ console' \in Consoles /\ console'.pc = "action" /\ yyparse = "YYACCEPT" /\ list # <<>>
        \/ console' \in Consoles /\ console'.pc = "before_exit"
    <3>1. CASE yyparse = "YYACCEPT" /\ list # <<>>
      BY <1>0, <2>1, <3>1, GoesTo DEF Places
    <3>2. CASE ~(yyparse = "YYACCEPT" /\ list # <<>>)
      BY <1>0, <2>1, <3>2, GoesTo DEF Places
    <3>3. QED
      BY <3>1, <3>2
  <2>3. Checked'
    BY <1>0, <2>1, <2>2 DEF Checked
  <2>4. Delivery'
    BY <1>0, <2>1, <2>2, SameDelivery
  <2>5. QED
    BY <2>3, <2>4 DEF DeliverInv
<1>7. CASE SendAction
  <2>1. /\ console.pc = "action" /\ Goes("instructions") /\ wire' = Append(wire, SysMsg)
        /\ UNCHANGED <<scanVars, parseVars, systemVars>>
    BY <1>7 DEF SendAction, At, SysMsg
  <2>2. console' \in Consoles /\ console'.pc = "instructions"
    BY <1>0, <2>1, GoesTo DEF Places
  <2>3. Checked'
    <3>1. yylexerrs' = yylexerrs /\ yyparse' = yyparse /\ list' = list
      BY <2>1 DEF scanVars, parseVars
    <3>2. QED
      BY <1>0, <2>1, <2>2, <3>1 DEF Checked
  <2>4. Fresh(<<>>, NoPcb)
    BY <1>0, <2>1 DEF Delivery, Running, Sent, Sending
  <2>5. wire' = <<SysMsg>> /\ SysMsg' = SysMsg
    BY <2>1, <2>4 DEF Fresh, SysMsg
  <2>6. Fresh(<<SysMsg>>, NoPcb)' /\ Sending'
    BY <2>1, <2>2, <2>4, <2>5 DEF Fresh, Sending, systemVars
  <2>7. QED
    BY <2>3, <2>6 DEF DeliverInv, Delivery
<1>8. CASE SendInstructions
  <2>1. /\ console.pc = "instructions" /\ Goes("before_exit")
        /\ wire' = Append(wire, [op |-> "CMD", data |-> InstructionsFold(list)])
        /\ UNCHANGED <<scanVars, parseVars, systemVars>>
    BY <1>8 DEF SendInstructions, At
  <2>2. console' \in Consoles /\ console'.pc = "before_exit"
    BY <1>0, <2>1, GoesTo DEF Places
  <2>3. Checked'
    BY <2>2 DEF Checked
  <2>4. yyparse = "YYACCEPT" /\ list # <<>> /\ yylexerrs = 0
    BY <1>0, <2>1 DEF Checked
  <2>5. WellFormed(handed) /\ list = Programmed
    <3>1. Parsed
      BY <2>4 DEF Parsed
    <3>2. yyparse = (IF WellFormed(handed) THEN "YYACCEPT" ELSE "YYABORT") /\ list = Programmed
      BY <2>1, <3>1, ParsedMeans
    <3>3. QED
      BY <2>4, <3>2
  <2>6. Programmed \in Seq(Instr)
    <3>1. Reads(handed) \in Readings
      BY ReadsFacts DEF ParserInv, Typed
    <3>2. QED
      BY <3>1 DEF Readings, Programmed
  <2>7. Clean
    BY <2>4, <2>5, <2>6 DEF Clean
  <2>8. handed' = handed /\ yylexerrs' = yylexerrs
    BY <2>1 DEF scanVars
  <2>9. Clean' /\ CmdMsg' = CmdMsg /\ SysMsg' = SysMsg
    BY <2>7, <2>8, SameMessages
  <2>10. Sent'
    BY <2>2, <2>9 DEF Sent
  <2>11. wire' = Append(wire, CmdMsg)
    BY <2>1, <2>5 DEF CmdMsg
  <2>12. pcb' = pcb /\ cpu' = cpu /\ memory' = memory
    BY <2>1 DEF systemVars
  <2>13. Fresh(<<SysMsg>>, NoPcb) \/ Fresh(<<>>, NewPcb(0, Size))
    BY <1>0, <2>1 DEF Delivery, Running, Sent
  <2>14. CASE Fresh(<<SysMsg>>, NoPcb)
    <3>1. wire' = <<SysMsg, CmdMsg>>
      <4>1. ASSUME NEW x, NEW y PROVE Append(<<x>>, y) = <<x, y>>
        BY PairAppend
      <4>2. wire = <<SysMsg>>
        BY <2>14 DEF Fresh
      <4>3. QED
        BY <2>11, <4>1, <4>2
    <3>2. Fresh(<<SysMsg, CmdMsg>>, NoPcb)'
      BY <2>9, <2>12, <2>14, <3>1 DEF Fresh
    <3>3. QED
      BY <2>3, <2>10, <3>2 DEF DeliverInv, Delivery
  <2>15. CASE Fresh(<<>>, NewPcb(0, Size))
    <3>1. wire' = <<CmdMsg>>
      BY <2>11, <2>15 DEF Fresh
    <3>2. Fresh(<<CmdMsg>>, NewPcb(0, Size))'
      BY <2>9, <2>12, <2>15, <3>1 DEF Fresh
    <3>3. QED
      BY <2>3, <2>10, <3>2 DEF DeliverInv, Delivery
  <2>16. QED
    BY <2>13, <2>14, <2>15
<1>9. QED
  BY <1>1, <1>2, <1>3, <1>4, <1>5, <1>6, <1>7, <1>8 DEF Console

-----------------------------------------------------------------------------
(* The kernel.                                                             *)

\* What the console sends is what the kernel reads.
LEMMA MessageFacts ==
  /\ SysMsg.op = "SYS" /\ CmdMsg.op = "CMD" /\ CmdMsg.data = InstructionsFold(Programmed)
  /\ AccionFromStream(SysMsg.data).param = Size
BY DEF SysMsg, CmdMsg, AccionSerializar, AccionFromStream

\* The first of two messages.
LEMMA PairTail ==
  ASSUME NEW x, NEW y
  PROVE  /\ Head(<<x>>) = x /\ Tail(<<x>>) = <<>> /\ Head(<<x, y>>) = x /\ Tail(<<x, y>>) = <<y>>
<1>1. Head(<<x>>) = x /\ Head(<<x, y>>) = x
  OBVIOUS
<1>2. Tail(<<x>>) = <<>>
  OBVIOUS
<1>3. Tail(<<x, y>>) = <<y>>
  <2> DEFINE S == {x, y}
             a == <<x, y>>
             b == <<y>>
             c == Tail(a)
  <2>1. a \in Seq(S) /\ Len(a) = 2 /\ a[2] = y /\ b \in Seq(S) /\ Len(b) = 1 /\ b[1] = y
    OBVIOUS
  <2> HIDE DEF S, a, b
  <2>2. a # <<>>
    BY <2>1
  <2>3. c \in Seq(S) /\ Len(c) = Len(a) - 1 /\ \A i \in 1 .. Len(a) - 1 : c[i] = a[i + 1]
    BY <2>1, <2>2
  <2> HIDE DEF c
  <2>4. Len(c) = 1 /\ c[1] = y
    BY <2>1, <2>3
  <2>5. \A i \in 1 .. 1 : i = 1
    OBVIOUS
  <2>6. c = b
    BY <2>1, <2>3, <2>4, <2>5, SameSequence
  <2>7. QED
    BY <2>6 DEF a, b, c
<1>4. QED
  BY <1>1, <1>2, <1>3

\* A step of kernel or CPU leaves what the console has sent.
LEMMA SameConsole ==
  ASSUME Checked, UNCHANGED <<console, scanVars, parseVars>>
  PROVE  /\ Checked' /\ (Sent <=> Sent') /\ (Sending <=> Sending') /\ Programmed' = Programmed
         /\ CmdMsg' = CmdMsg /\ SysMsg' = SysMsg
<1>1. handed' = handed /\ yylexerrs' = yylexerrs /\ yyparse' = yyparse /\ list' = list /\ console' = console
  BY DEF scanVars, parseVars
<1>2. Programmed' = Programmed /\ CmdMsg' = CmdMsg /\ SysMsg' = SysMsg /\ (Clean' <=> Clean)
  BY <1>1, SameMessages
<1>3. QED
  BY <1>1, <1>2 DEF Checked, Sent, Sending

\* The kernel's handling of NEW_PROCESS keeps the delivery,
LEMMA SyscallKeeps ==
  ASSUME DeliverInv, HandleSyscall
  PROVE  DeliverInv'
<1>1. /\ wire # <<>> /\ Head(wire).op = "SYS" /\ wire' = Tail(wire) /\ cpu' = cpu /\ memory' = memory
      /\ pcb' = NewPcb(0, AccionFromStream(Head(wire).data).param)
      /\ UNCHANGED <<console, scanVars, parseVars>>
  BY DEF HandleSyscall
<1>2. /\ Checked' /\ (Sent <=> Sent') /\ (Sending <=> Sending') /\ CmdMsg' = CmdMsg
  BY <1>1, SameConsole DEF DeliverInv
<1>3. ASSUME NEW w, NEW p, Fresh(w, p) PROVE wire = w /\ cpu = NoCpu /\ memory = EmptyMain
  BY <1>3 DEF Fresh
<1>4. CASE Fresh(<<SysMsg>>, NoPcb) /\ Sending
  <2>1. Head(wire) = SysMsg /\ wire' = <<>>
    BY <1>1, <1>3, <1>4, PairTail
  <2>2. pcb' = NewPcb(0, Size)
    BY <1>1, <2>1, MessageFacts
  <2>3. Fresh(<<>>, NewPcb(0, Size))'
    BY <1>1, <1>3, <1>4, <2>1, <2>2 DEF Fresh
  <2>4. QED
    BY <1>2, <1>4, <2>3 DEF DeliverInv, Delivery
<1>5. CASE Fresh(<<SysMsg, CmdMsg>>, NoPcb) /\ Sent
  <2>1. Head(wire) = SysMsg /\ wire' = <<CmdMsg>>
    <3>1. wire = <<SysMsg, CmdMsg>>
      BY <1>3, <1>5
    <3>2. Head(<<SysMsg, CmdMsg>>) = SysMsg /\ Tail(<<SysMsg, CmdMsg>>) = <<CmdMsg>>
      BY PairTail, Zenon
    <3>3. QED
      BY <1>1, <3>1, <3>2, Zenon
  <2>2. pcb' = NewPcb(0, Size)
    BY <1>1, <2>1, MessageFacts
  <2>3. Fresh(<<CmdMsg>>, NewPcb(0, Size))'
    BY <1>1, <1>2, <1>3, <1>5, <2>1, <2>2 DEF Fresh
  <2>4. QED
    BY <1>2, <1>5, <2>3 DEF DeliverInv, Delivery
<1>6. CASE Fresh(<<CmdMsg>>, NewPcb(0, Size)) /\ Sent
  <2>1. Head(wire) = CmdMsg
    BY <1>3, <1>6, PairTail
  <2>2. QED
    BY <1>1, <2>1, MessageFacts
<1>7. CASE Fresh(<<>>, NoPcb) \/ Fresh(<<>>, NewPcb(0, Size)) \/ Running
  BY <1>1, <1>3, <1>7 DEF Running
<1>8. QED
  BY <1>4, <1>5, <1>6, <1>7 DEF DeliverInv, Delivery

\* and that of the instructions, which become the PCB's,
LEMMA InstructionsKeeps ==
  ASSUME DeliverInv, HandleInstructions
  PROVE  DeliverInv'
<1>1. /\ wire # <<>> /\ Head(wire).op = "CMD" /\ wire' = Tail(wire) /\ cpu' = cpu /\ memory' = memory
      /\ pcb' = [pcb EXCEPT !.stage = "ready", !.instructions = InstructionListFrom(Head(wire).data)]
      /\ UNCHANGED <<console, scanVars, parseVars>>
  BY DEF HandleInstructions
<1>2. /\ Checked' /\ (Sent <=> Sent') /\ Programmed' = Programmed
  BY <1>1, SameConsole DEF DeliverInv
<1>3. ASSUME NEW w, NEW p, Fresh(w, p) PROVE wire = w /\ pcb = p /\ cpu = NoCpu /\ memory = EmptyMain
  BY <1>3 DEF Fresh
<1>4. CASE Fresh(<<CmdMsg>>, NewPcb(0, Size)) /\ Sent
  <2>1. Head(wire) = CmdMsg /\ wire' = <<>> /\ pcb = NewPcb(0, Size) /\ cpu = NoCpu /\ memory = EmptyMain
    BY <1>1, <1>3, <1>4, PairTail
  <2>2. Programmed \in Seq(Instr)
    BY <1>4 DEF Sent, Clean
  <2>3. InstructionListFrom(Head(wire).data) = Programmed /\ Programmed \in Seq(Ops)
    BY <2>1, <2>2, InstrOps, FoldRoundTrip, MessageFacts
  <2>4. pcb' = [pcb EXCEPT !.stage = "ready", !.instructions = Programmed]
    BY <1>1, <2>3
  <2> DEFINE l == Programmed
  <2> HIDE DEF l
  <2>5. pcb' \in Pcbs /\ pcb'.stage = "ready" /\ pcb'.instructions = l /\ pcb'.pc = 0
    <3>1. l \in Seq(Ops) /\ pcb' = [pcb EXCEPT !.stage = "ready", !.instructions = l]
      BY <2>3, <2>4 DEF l
    <3>2. Size \in Nat
      BY ProgramAssumption
    <3>3. QED
      BY <2>1, <3>1, <3>2 DEF NewPcb, Pcbs
  <2>6. cpu' = NoCpu /\ cpu' \in Cpus /\ ~cpu'.busy
    <3>1. <<>> \in Seq(Ops)
      OBVIOUS
    <3>2. QED
      BY <1>1, <2>1, <3>1 DEF NoCpu, Cpus
  <2>7. Instructions' = l /\ Counter' = 0
    BY <2>5, <2>6 DEF Instructions, Counter
  <2>8. Progress(l, 0, l, EmptyMain, "ready")
    BY <2>2, ProgressStart DEF EmptyMain, l
  <2>9. Progress(Instructions', Counter', Programmed', memory', pcb'.stage)
    BY <1>1, <1>2, <2>1, <2>5, <2>7, <2>8 DEF l
  <2>10. Running'
    BY <1>2, <1>4, <2>1, <2>5, <2>6, <2>9 DEF Running
  <2>11. QED
    BY <1>2, <2>10 DEF DeliverInv, Delivery
<1>5. CASE Fresh(<<SysMsg>>, NoPcb) \/ Fresh(<<SysMsg, CmdMsg>>, NoPcb)
  <2>1. Head(wire) = SysMsg
    BY <1>3, <1>5, PairTail
  <2>2. QED
    BY <1>1, <2>1, MessageFacts
<1>6. CASE Fresh(<<>>, NoPcb) \/ Fresh(<<>>, NewPcb(0, Size)) \/ Running
  BY <1>1, <1>3, <1>6 DEF Running
<1>7. QED
  BY <1>4, <1>5, <1>6 DEF DeliverInv, Delivery

\* The CPU has the PCB.
LEMMA BusyRuns ==
  ASSUME DeliverInv, cpu.busy \/ pcb.stage \in {"ready", "blocked", "running", "ended"}
  PROVE  Running
<1>1. ASSUME NEW w, NEW p, Fresh(w, p) PROVE pcb = p /\ ~cpu.busy
  BY <1>1 DEF Fresh, NoCpu
<1>2. NoPcb.stage = "none" /\ NewPcb(0, Size).stage = "created"
  BY DEF NoPcb, NewPcb
<1>3. QED
  BY <1>1, <1>2 DEF DeliverInv, Delivery

\* and the dispatch, which sends the PCB to the CPU as a stream,
LEMMA DispatchKeeps ==
  ASSUME DeliverInv, Dispatch
  PROVE  DeliverInv'
<1>1. /\ pcb.stage = "ready" /\ pcb' = [pcb EXCEPT !.stage = "running"] /\ memory' = memory
      /\ cpu' = [busy |-> TRUE, instructions |-> PcbFromStream(PcbToStream(pcb)).instructions,
                 pc |-> PcbFromStream(PcbToStream(pcb)).pc]
      /\ UNCHANGED <<console, wire, scanVars, parseVars>>
  BY DEF Dispatch, consoleVars
<1>2. /\ Checked' /\ (Sent <=> Sent') /\ Programmed' = Programmed
  BY <1>1, SameConsole DEF DeliverInv
<1>3. Running
  BY <1>1, BusyRuns
<1>4. /\ Sent /\ wire = <<>> /\ pcb \in Pcbs /\ ~cpu.busy
      /\ Progress(Instructions, Counter, Programmed, memory, "ready")
  BY <1>1, <1>3 DEF Running
<1>5. pcb.instructions \in Seq(Ops) /\ pcb.pc \in Nat
  BY <1>4 DEF Pcbs
<1>6. cpu' = [busy |-> TRUE, instructions |-> pcb.instructions, pc |-> pcb.pc]
  BY <1>1, <1>5, PcbRoundTrip
<1>7. Instructions = pcb.instructions /\ Counter = pcb.pc
  BY <1>4 DEF Instructions, Counter
<1> DEFINE s == pcb.instructions
           k == pcb.pc
<1>8. pcb' \in Pcbs /\ pcb'.stage = "running"
  BY <1>1, <1>4 DEF Pcbs
<1> HIDE DEF s, k
<1>9. cpu' \in Cpus /\ cpu'.busy /\ cpu'.instructions = s /\ cpu'.pc = k
  BY <1>5, <1>6 DEF Cpus, s, k
<1>10. Instructions' = s /\ Counter' = k
  BY <1>9 DEF Instructions, Counter
<1>11. Progress(s, k, Programmed, memory, "running")
  BY <1>4, <1>7, ProgressStage DEF s, k
<1>12. Progress(Instructions', Counter', Programmed', memory', pcb'.stage)
  BY <1>1, <1>2, <1>8, <1>10, <1>11
<1>13. Running'
  BY <1>1, <1>2, <1>4, <1>8, <1>9, <1>12 DEF Running
<1>14. QED
  BY <1>2, <1>13 DEF DeliverInv, Delivery

\* and the end of an I/O,
LEMMA EndIoKeeps ==
  ASSUME DeliverInv, EndIo
  PROVE  DeliverInv'
<1>1. /\ pcb.stage = "blocked" /\ pcb' = [pcb EXCEPT !.stage = "ready"] /\ memory' = memory /\ cpu' = cpu
      /\ UNCHANGED <<console, wire, scanVars, parseVars>>
  BY DEF EndIo, consoleVars
<1>2. /\ Checked' /\ (Sent <=> Sent') /\ Programmed' = Programmed
  BY <1>1, SameConsole DEF DeliverInv
<1>3. Running
  BY <1>1, BusyRuns
<1>4. /\ Sent /\ wire = <<>> /\ pcb \in Pcbs /\ cpu \in Cpus /\ ~cpu.busy /\ cpu = NoCpu
      /\ Progress(Instructions, Counter, Programmed, memory, "blocked")
  BY <1>1, <1>3 DEF Running
<1>5. /\ pcb' \in Pcbs /\ pcb'.stage = "ready" /\ pcb'.instructions = pcb.instructions /\ pcb'.pc = pcb.pc
  BY <1>1, <1>4 DEF Pcbs
<1>6. Instructions' = Instructions /\ Counter' = Counter
  BY <1>1, <1>4, <1>5 DEF Instructions, Counter
<1>7. Progress(Instructions, Counter, Programmed, memory, "ready")
  BY <1>4, ProgressStage
<1>8. Progress(Instructions', Counter', Programmed', memory', pcb'.stage)
  BY <1>1, <1>2, <1>5, <1>6, <1>7
<1>9. Running'
  BY <1>1, <1>2, <1>4, <1>5, <1>8 DEF Running
<1>10. QED
  BY <1>2, <1>9 DEF DeliverInv, Delivery

\* The CPU goes on to the next instruction.
LEMMA StaysKeeps ==
  ASSUME DeliverInv, cpu.busy, NEW s, NEW m, Stays(s, m), Progress(s, cpu.pc + 1, Programmed, m, pcb.stage)
  PROVE  DeliverInv'
<1>1. /\ cpu' = [cpu EXCEPT !.pc = @ + 1, !.instructions = s] /\ memory' = m /\ pcb' = pcb
      /\ UNCHANGED <<console, wire, scanVars, parseVars>>
  BY DEF Stays, consoleVars
<1>2. /\ Checked' /\ (Sent <=> Sent') /\ Programmed' = Programmed
  BY <1>1, SameConsole DEF DeliverInv
<1>3. Running
  BY BusyRuns
<1>4. /\ Sent /\ wire = <<>> /\ pcb \in Pcbs /\ cpu \in Cpus /\ pcb.stage = "running"
  BY <1>3 DEF Running
<1>5. s \in Seq(Ops) /\ cpu.pc + 1 \in Nat
  BY DEF Progress
<1>6. cpu' \in Cpus /\ cpu'.busy /\ cpu'.instructions = s /\ cpu'.pc = cpu.pc + 1
  BY <1>1, <1>4, <1>5 DEF Cpus
<1>7. Instructions' = s /\ Counter' = cpu.pc + 1
  BY <1>6 DEF Instructions, Counter
<1>8. Progress(Instructions', Counter', Programmed', memory', pcb'.stage)
  BY <1>1, <1>2, <1>7
<1>9. Running'
  BY <1>1, <1>2, <1>4, <1>6, <1>8 DEF Running
<1>10. QED
  BY <1>2, <1>9 DEF DeliverInv, Delivery

\* The CPU returns the PCB.
LEMMA ReturnedKeeps ==
  ASSUME DeliverInv, cpu.busy, NEW stage \in {"ready", "blocked", "ended"}, NEW k \in Nat,
         Returned(stage, cpu.instructions, k), UNCHANGED <<memory, consoleVars, scanVars, parseVars>>,
         Progress(cpu.instructions, k, Programmed, memory, stage)
  PROVE  DeliverInv'
<1> DEFINE s == cpu.instructions
           q == [pcb EXCEPT !.pc = k, !.instructions = s]
           p == PcbFromStream(PcbToStream(q))
<1>1. /\ pcb' = [pcb EXCEPT !.stage = stage, !.pc = p.pc, !.instructions = p.instructions] /\ cpu' = NoCpu
      /\ UNCHANGED <<memory, console, wire, scanVars, parseVars>>
  BY DEF Returned, consoleVars
<1>2. /\ Checked' /\ (Sent <=> Sent') /\ Programmed' = Programmed
  BY <1>1, SameConsole DEF DeliverInv
<1>3. Running
  BY BusyRuns
<1>4. /\ Sent /\ wire = <<>> /\ pcb \in Pcbs /\ cpu \in Cpus
  BY <1>3 DEF Running
<1>5. s \in Seq(Ops)
  BY <1>4 DEF Cpus
<1>15. Progress(s, k, Programmed, memory, stage)
  OBVIOUS
<1> HIDE DEF s
<1>6. q.instructions = s /\ q.pc = k
  BY <1>4 DEF Pcbs
<1> HIDE DEF q
<1>7. p.pc = k /\ p.instructions = s
  BY <1>5, <1>6, PcbRoundTrip
<1> HIDE DEF p
<1>8. pcb' = [pcb EXCEPT !.stage = stage, !.pc = k, !.instructions = s]
  BY <1>1, <1>7
<1>9. pcb' \in Pcbs /\ pcb'.stage = stage /\ pcb'.instructions = s /\ pcb'.pc = k
  BY <1>4, <1>5, <1>8 DEF Pcbs
<1>10. cpu' = NoCpu /\ cpu' \in Cpus /\ ~cpu'.busy
  <2>1. <<>> \in Seq(Ops)
    OBVIOUS
  <2>2. QED
    BY <1>1, <2>1 DEF NoCpu, Cpus
<1>11. Instructions' = s /\ Counter' = k
  BY <1>9, <1>10 DEF Instructions, Counter
<1>12. Progress(Instructions', Counter', Programmed', memory', pcb'.stage)
  BY <1>1, <1>2, <1>9, <1>11, <1>15
<1>13. Running'
  BY <1>1, <1>2, <1>4, <1>9, <1>10, <1>12 DEF Running
<1>14. QED
  BY <1>2, <1>13 DEF DeliverInv, Delivery

-----------------------------------------------------------------------------
(* The CPU, and the theorems.                                              *)

\* The instruction that the CPU fetches.
LEMMA FetchedIs ==
  ASSUME DeliverInv, cpu.busy
  PROVE  /\ Progress(cpu.instructions, cpu.pc, Programmed, memory, pcb.stage) /\ pcb.stage = "running"
         /\ cpu.pc \in Nat /\ Len(cpu.instructions) \in Nat
         /\ Fetched.icode # "NULL" => cpu.pc < Len(cpu.instructions) /\ Fetched = cpu.instructions[cpu.pc + 1]
<1>1. Running
  BY BusyRuns
<1>2. cpu \in Cpus /\ Progress(cpu.instructions, cpu.pc, Programmed, memory, pcb.stage) /\ pcb.stage = "running"
  BY <1>1 DEF Running, Instructions, Counter
<1>3. cpu.pc \in Nat /\ cpu.instructions \in Seq(Ops)
  BY <1>2 DEF Cpus
<1>4. ASSUME ~(cpu.pc < Len(cpu.instructions)) PROVE Fetched.icode = "NULL"
  BY <1>4 DEF Fetched, NewInstruction
<1>5. cpu.pc < Len(cpu.instructions) => Fetched = cpu.instructions[cpu.pc + 1]
  BY DEF Fetched
<1>6. QED
  BY <1>2, <1>3, <1>4, <1>5

\* and the cycle of the CPU, whatever it executes, and an interrupt.
LEMMA CpuKeeps ==
  ASSUME DeliverInv, Cpu \/ Interrupted
  PROVE  DeliverInv'
<1> DEFINE s == cpu.instructions
           k == cpu.pc
           l == Programmed
<1>0. cpu.busy
  BY DEF Cpu, Interrupted, ExecuteNothing, ExecuteNoOp, ExecuteRead, ExecuteWrite, ExecuteCopy, ExecuteIo, ExecuteExit,
     Executes
<1>1. /\ Progress(s, k, l, memory, pcb.stage) /\ pcb.stage = "running" /\ k \in Nat /\ Len(s) \in Nat
      /\ Fetched.icode # "NULL" => k < Len(s) /\ Fetched = s[k + 1]
  BY <1>0, FetchedIs
<1>2. CASE ExecuteNothing
  <2>1. k = Len(s) /\ Stays(s, memory)
    BY <1>2 DEF ExecuteNothing
  <2>2. Progress(s, k + 1, l, memory, pcb.stage)
    BY <1>1, <2>1, ProgressEnd
  <2>3. QED
    BY <1>0, <2>1, <2>2, StaysKeeps
<1>3. CASE ExecuteNoOp \/ ExecuteRead
  <2>1. Fetched.icode \in {"NO_OP", "READ"} /\ Stays(s, memory)
    BY <1>3 DEF ExecuteNoOp, ExecuteRead, Executes
  <2>2. k < Len(s) /\ s[k + 1].icode \in {"NO_OP", "READ"}
    BY <1>1, <2>1
  <2>3. Progress(s, k + 1, l, memory, pcb.stage)
    BY <1>1, <2>2, ProgressQuiet DEF Codes
  <2>4. QED
    BY <1>0, <2>1, <2>3, StaysKeeps
<1>4. CASE ExecuteWrite
  <2>1. /\ Fetched.icode = "WRITE" /\ HasFrame(Fetched.param0)
        /\ Stays(s, WriteValue(PhysicalAddress(Fetched.param0), Fetched.param1))
    BY <1>4 DEF ExecuteWrite, Executes
  <2>2. k < Len(s) /\ Fetched = s[k + 1]
    BY <1>1, <2>1
  <2> DEFINE m == WriteValue(PhysicalAddress(s[k + 1].param0), s[k + 1].param1)
  <2>3. Stays(s, m)
    BY <2>1, <2>2
  <2>4. Progress(s, k + 1, l, m, pcb.stage)
    BY <1>1, <2>1, <2>2, ProgressWrite
  <2> HIDE DEF m
  <2>5. QED
    BY <1>0, <2>3, <2>4, StaysKeeps
<1>5. CASE ExecuteCopy
  <2> DEFINE v == ReadValue(PhysicalAddress(Fetched.param1))
             t == [s EXCEPT ![k + 1] = NewInstruction("COPY", 0, v)]
             m == WriteValue(PhysicalAddress(0), v)
  <2>1. Fetched.icode = "COPY" /\ HasFrame(Fetched.param1) /\ Stays(t, m)
    BY <1>5 DEF ExecuteCopy, Executes
  <2>2. k < Len(s) /\ Fetched = s[k + 1]
    BY <1>1, <2>1
  <2>3. v = ReadValue(PhysicalAddress(s[k + 1].param1)) /\ s[k + 1].icode = "COPY" /\ HasFrame(s[k + 1].param1)
    BY <2>1, <2>2
  <2> HIDE DEF v
  <2>4. Progress(t, k + 1, l, m, pcb.stage)
    BY <1>1, <2>2, <2>3, ProgressCopy
  <2> HIDE DEF t, m
  <2>5. QED
    BY <1>0, <2>1, <2>4, StaysKeeps
<1>6. CASE ExecuteIo
  <2>1. Fetched.icode = "IO" /\ Returned("blocked", s, k + 1) /\ UNCHANGED <<memory, consoleVars, scanVars, parseVars>>
    BY <1>6 DEF ExecuteIo, Executes
  <2>2. k < Len(s) /\ s[k + 1].icode = "IO"
    BY <1>1, <2>1
  <2>3. Progress(s, k + 1, l, memory, "blocked") /\ k + 1 \in Nat
    BY <1>1, <2>2, ProgressQuiet DEF Codes
  <2>4. QED
    BY <1>0, <2>1, <2>3, ReturnedKeeps
<1>7. CASE ExecuteExit
  <2>1. Fetched.icode = "EXIT" /\ Returned("ended", s, k + 1) /\ UNCHANGED <<memory, consoleVars, scanVars, parseVars>>
    BY <1>7 DEF ExecuteExit, Executes
  <2>2. k < Len(s) /\ s[k + 1].icode = "EXIT"
    BY <1>1, <2>1
  <2>3. Progress(s, k + 1, l, memory, "ended") /\ k + 1 \in Nat
    BY <1>1, <2>2, ProgressQuiet DEF Codes
  <2>4. QED
    BY <1>0, <2>1, <2>3, ReturnedKeeps
<1>8. CASE Interrupted
  <2>1. Returned("ready", s, k) /\ UNCHANGED <<memory, consoleVars, scanVars, parseVars>>
    BY <1>8 DEF Interrupted
  <2>2. Progress(s, k, l, memory, "ready")
    BY <1>1, ProgressStage
  <2>3. QED
    BY <1>0, <1>1, <2>1, <2>2, ReturnedKeeps
<1>9. QED
  BY <1>2, <1>3, <1>4, <1>5, <1>6, <1>7, <1>8 DEF Cpu

\* Every step keeps the delivery.
LEMMA DeliverStep ==
  ASSUME DeliverInv, ParserInv, [Next]_vars
  PROVE  DeliverInv'
<1>1. CASE Console \/ Sigint
  BY <1>1, ConsoleKeeps
<1>2. CASE Kernel
  BY <1>2, SyscallKeeps, InstructionsKeeps, DispatchKeeps, EndIoKeeps DEF Kernel
<1>3. CASE Cpu \/ Interrupted
  BY <1>3, CpuKeeps
<1>4. CASE UNCHANGED vars
  <2>1. UNCHANGED <<console, wire, scanVars, parseVars, systemVars>> /\ pcb' = pcb /\ cpu' = cpu /\ memory' = memory
    BY <1>4 DEF vars, consoleVars, systemVars
  <2>2. /\ Checked' /\ (Sent <=> Sent') /\ (Sending <=> Sending') /\ Programmed' = Programmed
        /\ CmdMsg' = CmdMsg /\ SysMsg' = SysMsg
    BY <2>1, SameConsole DEF DeliverInv
  <2>3. ASSUME NEW w, NEW p PROVE wire' = w /\ pcb' = p /\ cpu' = NoCpu /\ memory' = EmptyMain <=> Fresh(w, p)
    BY <2>1 DEF Fresh
  <2>4. Running => Running'
    BY <2>1, <2>2 DEF Running, Instructions, Counter
  <2>5. Delivery'
    <3>1. CASE Fresh(<<>>, NoPcb) /\ console.pc # "instructions"
      BY <2>1, <3>1 DEF Delivery, Fresh
    <3>2. CASE Fresh(<<SysMsg>>, NoPcb) /\ Sending
      BY <2>1, <2>2, <3>2 DEF Delivery, Fresh
    <3>3. CASE Fresh(<<SysMsg, CmdMsg>>, NoPcb) /\ Sent
      BY <2>1, <2>2, <3>3 DEF Delivery, Fresh
    <3>4. CASE Fresh(<<>>, NewPcb(0, Size)) /\ Sending
      BY <2>1, <2>2, <3>4 DEF Delivery, Fresh
    <3>5. CASE Fresh(<<CmdMsg>>, NewPcb(0, Size)) /\ Sent
      BY <2>1, <2>2, <3>5 DEF Delivery, Fresh
    <3>6. CASE Running
      BY <2>4, <3>6 DEF Delivery
    <3>7. QED
      BY <3>1, <3>2, <3>3, <3>4, <3>5, <3>6 DEF DeliverInv, Delivery
  <2>6. QED
    BY <2>2, <2>5 DEF DeliverInv
<1>5. QED
  BY <1>1, <1>2, <1>3, <1>4 DEF Next

\* The invariants of parser and delivery always hold.
LEMMA DeliverAlways == Spec => [](ParserInv /\ DeliverInv)
<1>1. ParserInv /\ DeliverInv /\ [Next]_vars => DeliverInv'
  BY DeliverStep
<1>2. Init => DeliverInv
  BY DeliverStart
<1>3. QED
  BY <1>1, <1>2, ParserAlways, PTL DEF Spec

\* If there are instructions, the kernel or the CPU has the program.
LEMMA InstructionsRun ==
  ASSUME DeliverInv, Instructions # <<>>
  PROVE  Running
<1>1. ASSUME NEW w, NEW p, Fresh(w, p), p.instructions = <<>> PROVE Instructions = <<>>
  <2>1. pcb = p /\ ~cpu.busy
    BY <1>1 DEF Fresh, NoCpu
  <2>2. QED
    BY <1>1, <2>1 DEF Instructions
<1>2. NoPcb.instructions = <<>> /\ NewPcb(0, Size).instructions = <<>>
  BY DEF NoPcb, NewPcb
<1>3. QED
  BY <1>1, <1>2 DEF DeliverInv, Delivery

\* For every file: only a file without any error becomes a program, and console,
\* kernel and CPU hand it on as it is in the file, through AccionSerializar,
\* instructions_fold and the streams of the PCB, whatever is interrupted or blocked;
\* only a COPY that was executed has lost its operands.
THEOREM DeliversProgramAlways == Spec => []DeliversProgram
<1>1. DeliverInv => DeliversProgram
  <2> SUFFICES ASSUME DeliverInv, Instructions # <<>>
               PROVE  /\ WellFormed(handed) /\ yylexerrs = 0
                      /\ Blind(Instructions) = Blind(Programmed)
                      /\ \A i \in Counter + 1 .. Len(Instructions) : Instructions[i] = Programmed[i]
    BY DEF DeliversProgram
  <2> DEFINE s == Instructions
             k == Counter
             l == Programmed
             n == Len(l)
  <2>1. Clean /\ Progress(s, k, l, memory, pcb.stage)
    BY InstructionsRun DEF Running, Sent
  <2>2. s \in Seq(Ops) /\ l \in Seq(Instr) /\ k \in Nat /\ Follows(s, k, l)
    BY <2>1 DEF Progress
  <2> HIDE DEF s, k, l
  <2>3. /\ Len(s) = n /\ n \in Nat
        /\ \A i \in 1 .. n : s[i] = l[i] \/ (i <= k /\ s[i].icode = "COPY" /\ l[i].icode = "COPY")
    BY <2>2 DEF Follows
  <2>4. DOMAIN s = 1 .. n /\ DOMAIN l = 1 .. n
    BY <2>2, <2>3
  <2> HIDE DEF n
  <2>5. Blind(s) = Blind(l)
    <3> DEFINE b(x) == IF x.icode = "COPY" THEN NewInstruction("COPY", 0, 0) ELSE x
    <3>1. Blind(s) = [i \in 1 .. n |-> b(s[i])] /\ Blind(l) = [i \in 1 .. n |-> b(l[i])]
      BY <2>4 DEF Blind
    <3>2. \A i \in 1 .. n : b(s[i]) = b(l[i])
      BY <2>3
    <3> HIDE DEF b
    <3>3. QED
      BY <3>1, <3>2
  <2>6. \A i \in k + 1 .. n : i \in 1 .. n /\ ~(i <= k)
    BY <2>2, <2>3
  <2>7. \A i \in k + 1 .. Len(s) : s[i] = l[i]
    BY <2>3, <2>6
  <2>8. QED
    BY <2>1, <2>5, <2>7 DEF Clean, s, k, l
<1>2. QED
  BY <1>1, DeliverAlways, PTL

\* For every file, size of pages and map of pages to frames: every instruction takes
\* effect once and in the program's order, in the frames of the process only, and an
\* EXIT is the last one.  The invariant relates what main memory holds to the program
\* of the file, by way of the program counter that travels with the PCB.
THEOREM MemoryAsProgrammedAlways == Spec => []MemoryAsProgrammed
<1>1. DeliverInv => MemoryAsProgrammed
  <2> SUFFICES ASSUME DeliverInv PROVE MemoryAsProgrammed
    OBVIOUS
  <2> DEFINE l == Programmed
             n == Min({Counter, Len(l)})
             m == After(l)[n]
             P == /\ ~CrossingIn(l, n) =>
                       /\ \A a \in Addresses : memory[PhysicalAddress(a)] = m[a]
                       /\ \A c \in Cells : c \div PageSize \notin Range(FrameOf) => memory[c] = <<0, 0>>
                  /\ \A i \in 1 .. n : l[i].icode = "EXIT" => i = n /\ pcb.stage = "ended"
  <2>1. ASSUME Instructions # <<>> PROVE P
    <3>1. Progress(Instructions, Counter, l, memory, pcb.stage)
      BY <2>1, InstructionsRun DEF Running
    <3>2. n = Done(Counter, l)
      BY DEF Done
    <3> HIDE DEF n, l
    <3>3. Effected(memory, l, n) /\ Stopped(l, n, pcb.stage)
      BY <3>1, <3>2 DEF Progress
    <3>4. QED
      BY <3>3 DEF Effected, Stopped, Image, Untouched
  <2>2. MemoryAsProgrammed <=> (Instructions # <<>> => P)
    BY DEF MemoryAsProgrammed
  <2>3. QED
    BY <2>1, <2>2
<1>2. QED
  BY <1>1, DeliverAlways, PTL
=============================================================================
