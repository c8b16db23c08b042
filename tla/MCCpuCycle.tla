------------------------------ MODULE MCCpuCycle ------------------------------
(* Model-checking instances of CpuCycle.                                   *)
EXTENDS CpuCycle, TLC

CONSTANTS p1, p2, p3

\* Three programs: one with I/O, one that exits at once, and one without EXIT.
MCProgram == p1 :> <<"MEMORY", "IO", "EXIT">> @@ p2 :> <<"EXIT", "IO">> @@ p3 :> <<"IO">>
=============================================================================
