-------------------------- MODULE MCCheckpointSync --------------------------
(* Values for the constants of CheckpointSync.                             *)
EXTENDS CheckpointSync

\* What the frame writers can put on the pipe within the sizes they know.
WriterFrames ==
  { [sig |-> "Regular", size |-> "empty"],
    [sig |-> "Test", size |-> "body"],
    [sig |-> "Other", size |-> "empty"] }

\* The same, and a header whose size the receiver refuses.
WriterFramesAndHuge == WriterFrames \cup {[sig |-> "Test", size |-> "huge"]}

NoSide == {}
BothSides == Side
=============================================================================
