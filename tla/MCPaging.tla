------------------------------- MODULE MCPaging -------------------------------
(* Model-checking instances of Paging.                                     *)
EXTENDS Paging

CONSTANTS p1, p2
=============================================================================
