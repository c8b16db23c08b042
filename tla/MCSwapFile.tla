------------------------------ MODULE MCSwapFile ------------------------------
(* Model-checking instance of SwapFile.                                    *)
EXTENDS SwapFile

\* A PCB whose pid is also a frame number, and that ends behind the frame number
\* of the second entry.
MCStreams == {<<1, 9, 9, 9, 9>>}
=============================================================================
