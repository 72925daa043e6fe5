----------------------------- MODULE MCDllReader -----------------------------
(* Values for the constants of DllReader.                                   *)
EXTENDS DllReader

\* Headers alone, test data, raw bytes behind a header of size 0, a size that
\* announces less than follows, and one that announces more.
StreamPayloads ==
  { [size |-> 0, raw |-> 0],
    [size |-> 5, raw |-> 5],
    [size |-> 0, raw |-> 28],
    [size |-> 3, raw |-> 31],
    [size |-> 7, raw |-> 5] }
=============================================================================
