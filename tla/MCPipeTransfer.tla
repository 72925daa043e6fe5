--------------------------- MODULE MCPipeTransfer ---------------------------
(* Values for the constants of PipeTransfer.                               *)
EXTENDS PipeTransfer

\* Every size up to more than twice the modulus.
SizesAroundM == 0 .. 2 * M + 1
=============================================================================
