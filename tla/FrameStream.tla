---------------------------- MODULE FrameStream ----------------------------
(***************************************************************************)
(* The bytes of one pipe direction: frames written one pipe write at a     *)
(* time (preamble, header, then the bytes that follow it).  Contents are   *)
(* abstracted to positions: a preamble is at the start of a frame and      *)
(* nowhere else, and bytes read as a header are a valid one only if they   *)
(* start where a header was written.                                       *)
(***************************************************************************)
EXTENDS Integers, Sequences

CONSTANTS
  P,         \* bytes of a preamble
  H,         \* bytes of a header
  Payloads,  \* what callers write: [size : DataSize, raw : bytes that follow]
  MaxFrames  \* bound: frames written

ASSUME StreamConstantsOK ==
  /\ P \in Nat \ {0}
  /\ H \in Nat \ {0}
  /\ P <= H
  /\ Payloads \subseteq [size : Nat, raw : Nat]
  /\ MaxFrames \in Nat

VARIABLES
  frames,   \* the frames begun so far: where they start and their payload
  written,  \* bytes written so far
  part      \* what the writer writes next of the current frame

streamVars == <<frames, written, part>>

StreamInit ==
  /\ frames = <<>>
  /\ written = 0
  /\ part = "preamble"

WritePreamble ==
  /\ part = "preamble"
  /\ Len(frames) < MaxFrames
  /\ \E p \in Payloads :
       frames' = Append(frames, [start |-> written, size |-> p.size, raw |-> p.raw])
  /\ written' = written + P
  /\ part' = "header"

Current == frames[Len(frames)]

WriteHeader ==
  /\ part = "header"
  /\ written' = written + H
  /\ part' = IF Current.raw = 0 THEN "preamble" ELSE "data"
  /\ UNCHANGED frames

WriteData ==
  /\ part = "data"
  /\ written' = written + Current.raw
  /\ part' = "preamble"
  /\ UNCHANGED frames

WriteStep == WritePreamble \/ WriteHeader \/ WriteData

StreamTypeOK ==
  /\ frames \in Seq([start : Nat, size : Nat, raw : Nat])
  /\ written \in Nat
  /\ part \in {"preamble", "header", "data"}
=============================================================================
