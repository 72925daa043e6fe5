----------------------------- MODULE LossyFifo -----------------------------
(***************************************************************************)
(* What the reading end of a frame stream promises: frames are reported    *)
(* one at a time, in the order they were begun, none twice; a frame may be *)
(* reported as broken, or passed over in silence.                          *)
(***************************************************************************)
EXTENDS Naturals, Sequences

VARIABLES
  sent,  \* number of frames begun
  log    \* reports so far: [frame |-> index, ok |-> BOOLEAN]

Passed == IF log = <<>> THEN 0 ELSE log[Len(log)].frame

Init == sent = 0 /\ log = <<>>

Send ==
  /\ sent' = sent + 1
  /\ UNCHANGED log

Report ==
  /\ \E i \in Passed + 1 .. sent, ok \in BOOLEAN :
       log' = Append(log, [frame |-> i, ok |-> ok])
  /\ UNCHANGED sent

Next == Send \/ Report

Spec == Init /\ [][Next]_<<sent, log>>
=============================================================================
