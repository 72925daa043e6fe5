------------------------- MODULE MCPreambleSearch -------------------------
(* Values for the constants of PreambleSearch: every preamble over two     *)
(* byte values.                                                            *)
EXTENDS PreambleSearch

TwoBytes == {0, 1}
=============================================================================
