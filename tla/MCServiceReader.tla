--------------------------- MODULE MCServiceReader ---------------------------
(* Values for the constants of ServiceReader.                               *)
EXTENDS ServiceReader

\* Checkpoints and empty frames; test data of two lengths, one near the
\* buffer size; a packet header behind a Regular frame of size 0, without and
\* with data of odd length behind it.
WriterPayloads ==
  { [size |-> 0, raw |-> 0],
    [size |-> 5, raw |-> 5],
    [size |-> 60, raw |-> 60],
    [size |-> 0, raw |-> 28],
    [size |-> 0, raw |-> 31] }
=============================================================================
