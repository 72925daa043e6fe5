--------------------------- MODULE MCTestProgram ---------------------------
(* Values for the constants of HostLifecycle.                              *)
EXTENDS TestProgram

\* std::unordered_map promises no order.
AllOrders == {o \in [1 .. 3 -> Types] : \A t \in Types : \E i \in 1 .. 3 : o[i] = t}
=============================================================================
