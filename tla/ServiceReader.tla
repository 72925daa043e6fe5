--------------------------- MODULE ServiceReader ---------------------------
(***************************************************************************)
(* How the service cuts the byte stream into frames:                       *)
(* FrameSession.RunAsyncInternal over PipeReader.  It takes P bytes at a   *)
(* time through a window of P bytes, then a header of H bytes, then skips  *)
(* the body with reads of a whole buffer.  The same thread answers a frame  *)
(* with a checkpoint, and reads nothing until the peer has taken it.       *)
(***************************************************************************)
EXTENDS FrameStream

CONSTANT BufferSize  \* bytes rented for one read of a body

ASSUME BufferOK == BufferSize \in Nat \ {0}

VARIABLES
  rd,       \* bytes taken from the pipe
  scan,     \* where the bytes pushed through the window since the last gap begin
  reading,  \* "preamble", "header", "write", "body" or, when the session ended, "over"
  need,     \* bytes of the body still to skip
  charged,  \* bytes ShrinkAvailable was asked for
  over,     \* history: bytes taken beyond the ends of bodies
  log       \* history: frames whose preamble was recognised, in order

readerVars == <<rd, scan, reading, need, charged, over, log>>
vars == <<frames, written, part, rd, scan, reading, need, charged, over, log>>

Init ==
  /\ StreamInit
  /\ rd = 0
  /\ scan = 0
  /\ reading = "preamble"
  /\ need = 0
  /\ charged = 0
  /\ over = 0
  /\ log = <<>>

\* Mutant: a preamble that ends with the chunk is not seen.
RecognisedEarly(n) ==
  {i \in DOMAIN frames :
     /\ frames[i].start >= scan
     /\ frames[i].start + P \in rd + 1 .. rd + n - 1}

\* Frames whose preamble ends among the next n bytes and lies in the window.
Recognised(n) ==
  {i \in DOMAIN frames :
     /\ frames[i].start >= scan
     /\ frames[i].start + P \in rd + 1 .. rd + n}

\* The frame whose preamble was recognised last.
Found == CHOOSE i \in DOMAIN frames :
           /\ frames[i].start >= scan
           /\ frames[i].start + P <= rd
           /\ \A j \in DOMAIN frames : j > i => frames[j].start + P > rd

\* Mutant: the chunk ends where the preamble ends.
ReadChunkToPreamble ==
  /\ reading = "preamble"
  /\ rd + P <= written
  /\ rd' = IF Recognised(P) # {}
            THEN frames[CHOOSE i \in Recognised(P) : TRUE].start + P ELSE rd + P
  /\ charged' = charged + rd' - rd
  /\ reading' = IF Recognised(P) # {} THEN "header" ELSE "preamble"
  /\ UNCHANGED <<scan, need, over, log>>
  /\ UNCHANGED streamVars

\* Mutant: preamble and header are awaited together.
ReadChunkWaits ==
  /\ reading = "preamble"
  /\ rd + P + H <= written
  /\ rd' = rd + P
  /\ charged' = charged + P
  /\ reading' = IF Recognised(P) # {} THEN "header" ELSE "preamble"
  /\ UNCHANGED <<scan, need, over, log>>
  /\ UNCHANGED streamVars

\* A whole chunk goes through the window even if the preamble ends before it.
ReadChunk ==
  /\ reading = "preamble"
  /\ rd + P <= written
  /\ rd' = rd + P
  /\ charged' = charged + P
  /\ reading' = IF Recognised(P) # {} THEN "header" ELSE "preamble"
  /\ UNCHANGED <<scan, need, over, log>>
  /\ UNCHANGED streamVars

\* The MAC accepts the bytes at hand only if they are the header of frame i from
\* its first byte on.
Validate(i) == frames[i].start + P = rd

\* Where reading goes on once a frame is answered.
AfterAnswer(n) == IF n = 0 THEN "preamble" ELSE "body"

\* Mutant: after a broken header the next bytes are tried as a header.
ReadHeaderAgain ==
  /\ reading = "header"
  /\ rd + H <= written
  /\ rd' = rd + H
  /\ scan' = scan
  /\ LET f == frames[Found]
         ok == Validate(Found)
     IN /\ log' = Append(log, [frame |-> Found, ok |-> ok])
        /\ need' = IF ok THEN f.size ELSE 0
        /\ charged' = charged + H + need'
        /\ reading' \in IF ok THEN {"write", AfterAnswer(need')} ELSE {"header"}
  /\ UNCHANGED over
  /\ UNCHANGED streamVars

\* A broken header is answered with a checkpoint, an accepted one by its handler,
\* which may write a checkpoint.
ReadHeader ==
  /\ reading = "header"
  /\ rd + H <= written
  /\ rd' = rd + H
  /\ scan' = rd'
  /\ LET f == frames[Found]
         ok == Validate(Found)
     IN /\ log' = Append(log, [frame |-> Found, ok |-> ok])
        /\ need' = IF ok THEN f.size ELSE 0
        /\ charged' = charged + H + need'
        /\ reading' \in IF ok THEN {"write", AfterAnswer(need')} ELSE {"write"}
  /\ UNCHANGED over
  /\ UNCHANGED streamVars

\* The peer has taken the checkpoint.
EndWrite ==
  /\ reading = "write"
  /\ reading' = AfterAnswer(need)
  /\ UNCHANGED <<rd, scan, need, charged, over, log>>
  /\ UNCHANGED streamVars

\* Mutant: what a read took is subtracted without a bound.
SkipBodyUnbounded ==
  /\ reading = "body"
  /\ rd < written
  /\ LET n == IF written - rd < BufferSize THEN written - rd ELSE BufferSize
     IN /\ rd' = rd + n
        /\ scan' = rd'
        /\ need' = need - n
        /\ over' = over
        /\ reading' = IF need' = 0 THEN "preamble" ELSE "body"
  /\ UNCHANGED <<charged, log>>
  /\ UNCHANGED streamVars

\* One read of SkipAsync: whatever is there, up to the buffer, wanted or not.
SkipBody ==
  /\ reading = "body"
  /\ rd < written
  /\ LET n == IF written - rd < BufferSize THEN written - rd ELSE BufferSize
     IN /\ rd' = rd + n
        /\ scan' = rd'
        /\ need' = IF n < need THEN need - n ELSE 0
        /\ over' = over + n - (need - need')
        /\ reading' = IF need' = 0 THEN "preamble" ELSE "body"
  /\ UNCHANGED <<charged, log>>
  /\ UNCHANGED streamVars

\* RunAsync catches what a read, a write or a handler throws: a stop, the end of
\* the stream, a peer gone, a size below 0.
EndSession ==
  /\ reading # "over"
  /\ reading' = "over"
  /\ UNCHANGED <<rd, scan, need, charged, over, log>>
  /\ UNCHANGED streamVars

ReadStep == ReadChunk \/ ReadHeader \/ SkipBody

Write == WriteStep /\ UNCHANGED readerVars

Next == Write \/ ReadStep \/ EndWrite \/ EndSession

\* The session thread polls until the bytes it waits for are there.  Nothing makes
\* the peer take a checkpoint.
Spec == Init /\ [][Next]_vars /\ WF_vars(ReadStep)

-----------------------------------------------------------------------------
TypeOK ==
  /\ StreamTypeOK
  /\ rd \in Nat
  /\ scan \in Nat
  /\ reading \in {"preamble", "header", "write", "body", "over"}
  /\ need \in Nat
  /\ charged \in Nat
  /\ over \in Nat
  /\ log \in Seq([frame : Nat, ok : BOOLEAN])

Fifo == INSTANCE LossyFifo WITH sent <- Len(frames)

(***************************************************************************)
(* However the reader is out of step, it reports no frame twice and none   *)
(* out of order.                                                           *)
(***************************************************************************)
ImplementsFifo == Fifo!Spec

\* Every frame begun announces what follows it.
Honest == \A i \in DOMAIN frames : frames[i].raw = frames[i].size

(***************************************************************************)
(* Skips that never took more than a body keep the reader in step with an  *)
(* honest writer: it accepts every frame it passes.                        *)
(***************************************************************************)
InStepAcceptsAll ==
  Honest /\ over = 0 =>
    \A k \in DOMAIN log : log[k] = [frame |-> k, ok |-> TRUE]

(***************************************************************************)
(* A reader at an odd distance from every preamble to come accepts nothing *)
(* and stays at an odd distance until somebody writes a frame of odd       *)
(* length: chunks, headers and plain frames are all even, so no number of  *)
(* checkpoints brings it back into step.                                   *)
(***************************************************************************)
EndOfCurrent ==
  CASE part = "preamble" -> written
    [] part = "header"   -> written + H + Current.raw
    [] part = "data"     -> written + Current.raw

OddSkew ==
  /\ reading # "body" /\ need = 0
  /\ (EndOfCurrent - rd) % 2 = 1
  /\ \A i \in DOMAIN frames :
       frames[i].start + P > rd => (frames[i].start + P - rd) % 2 = 1
  /\ reading = "header" => (frames[Found].start + P - rd) % 2 = 1

OddSkewStays ==
  [][OddSkew /\ (EndOfCurrent' - EndOfCurrent) % 2 = 0 =>
       /\ OddSkew'
       /\ log' # log => ~log'[Len(log')].ok]_vars

\* The thread stays in the write of a checkpoint nobody reads, or the session ends.
StopsReading == <>[](reading = "write") \/ <>(reading = "over")

(***************************************************************************)
(* Whatever is written, a reader whose own checkpoints are taken and whose *)
(* session goes on ends up with less than a header unread: that much it    *)
(* may leave waiting for ever, out of step, although the frame is          *)
(* complete.                                                               *)
(***************************************************************************)
CatchesUp == StopsReading \/ <>[](written - rd < H)

(***************************************************************************)
(* PipeReader.cs:50 refuses a read that "exceeds available bytes count":   *)
(* no more bytes leave the pipe than the reader was charged for.           *)
(***************************************************************************)
ReadsWithinBudget == rd <= charged
=============================================================================
