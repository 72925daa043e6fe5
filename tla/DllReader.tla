----------------------------- MODULE DllReader -----------------------------
(***************************************************************************)
(* How the DLL cuts the byte stream into frames: FrameReader over          *)
(* PipeReader, driven by Session::Run.  It searches the preamble byte by   *)
(* byte, reads a header of H bytes, and takes a body only for a test       *)
(* frame, exactly as long as the header says.  The same thread answers a   *)
(* frame with a checkpoint, and reads nothing until the peer has taken it. *)
(***************************************************************************)
EXTENDS FrameStream

VARIABLES
  rd,       \* bytes taken from the pipe
  reading,  \* "preamble", "header", "write", "body" or, when the session ended, "over"
  need,     \* bytes of the body still to read
  log       \* history: frames whose preamble was recognised, in order

readerVars == <<rd, reading, need, log>>
vars == <<frames, written, part, rd, reading, need, log>>

Init ==
  /\ StreamInit
  /\ rd = 0
  /\ reading = "preamble"
  /\ need = 0
  /\ log = <<>>

\* Mutant: the search goes on while bytes are there.
LastPreamble ==
  {i \in DOMAIN frames :
     /\ frames[i].start >= rd
     /\ frames[i].start + P <= written
     /\ i = Len(frames)}

\* Mutant: the search goes back over the header just read.
PreambleBehind ==
  {i \in DOMAIN frames :
     /\ frames[i].start + P + H >= rd
     /\ frames[i].start + P <= written
     /\ \A j \in DOMAIN frames : frames[j].start + P + H >= rd => i <= j}

\* The first preamble that begins after what was taken and is complete.
NextPreamble ==
  {i \in DOMAIN frames :
     /\ frames[i].start >= rd
     /\ frames[i].start + P <= written
     /\ \A j \in DOMAIN frames : frames[j].start >= rd => i <= j}

\* Bytes of no preamble are dropped on the way.
ReadUntilPreamble ==
  /\ reading = "preamble"
  /\ \E i \in NextPreamble : rd' = frames[i].start + P
  /\ reading' = "header"
  /\ UNCHANGED <<need, log>>
  /\ UNCHANGED streamVars

Found == CHOOSE i \in DOMAIN frames : frames[i].start + P = rd

\* Mutant: the size is taken for the length of header and body.
ReadHeaderShort ==
  /\ reading = "header"
  /\ rd + H <= written
  /\ rd' = rd + H
  /\ log' = Append(log, [frame |-> Found, ok |-> TRUE])
  /\ need' \in {0, frames[Found].size + H}
  /\ reading' \in IF need' = 0 THEN {"preamble", "write"} ELSE {"body"}
  /\ UNCHANGED streamVars

\* The header is where the preamble ends, so the MAC accepts it.  Only a test
\* frame has its body read; any other leaves it for the next search.  A checkpoint
\* is echoed unless it was awaited, and an unknown frame answered with one.
ReadHeader ==
  /\ reading = "header"
  /\ rd + H <= written
  /\ rd' = rd + H
  /\ log' = Append(log, [frame |-> Found, ok |-> TRUE])
  /\ need' \in {0, frames[Found].size}
  /\ reading' \in IF need' = 0 THEN {"preamble", "write"} ELSE {"body"}
  /\ UNCHANGED streamVars

\* The peer has taken the checkpoint.
EndWrite ==
  /\ reading = "write"
  /\ reading' = "preamble"
  /\ UNCHANGED <<rd, need, log>>
  /\ UNCHANGED streamVars

\* Mutant: a read takes whatever is there.
ReadBodyWhole ==
  /\ reading = "body"
  /\ rd < written
  /\ rd' = written
  /\ need' = need - (written - rd)
  /\ reading' = IF need' <= 0 THEN "preamble" ELSE "body"
  /\ UNCHANGED log
  /\ UNCHANGED streamVars

\* One ReadFile into what is left of the vector.
ReadBody ==
  /\ reading = "body"
  /\ rd < written
  /\ LET n == IF written - rd < need THEN written - rd ELSE need
     IN /\ rd' = rd + n
        /\ need' = need - n
  /\ reading' = IF need' = 0 THEN "preamble" ELSE "body"
  /\ UNCHANGED log
  /\ UNCHANGED streamVars

\* SessionService::Run catches what a read, a write or a handler throws: a stop, a
\* peer gone, a vector of a size that cannot be had.
EndSession ==
  /\ reading # "over"
  /\ reading' = "over"
  /\ UNCHANGED <<rd, need, log>>
  /\ UNCHANGED streamVars

ReadStep == ReadUntilPreamble \/ ReadHeader \/ ReadBody

Write == WriteStep /\ UNCHANGED readerVars

Next == Write \/ ReadStep \/ EndWrite \/ EndSession

\* The session thread polls until the bytes it waits for are there.  Nothing makes
\* the peer take a checkpoint.
Spec == Init /\ [][Next]_vars /\ WF_vars(ReadStep)

-----------------------------------------------------------------------------
TypeOK ==
  /\ StreamTypeOK
  /\ rd \in Nat
  /\ reading \in {"preamble", "header", "write", "body", "over"}
  /\ need \in Nat
  /\ log \in Seq([frame : Nat, ok : BOOLEAN])

\* No header announces more than follows it.
Covered == \A i \in DOMAIN frames : frames[i].size <= frames[i].raw

(***************************************************************************)
(* The DLL passes over no frame, whatever raw bytes lie between frames, as *)
(* long as no header announces more than follows it.                       *)
(***************************************************************************)
MissesNothing ==
  Covered => \A k \in DOMAIN log : log[k] = [frame |-> k, ok |-> TRUE]

(***************************************************************************)
(* Whatever sizes the headers announce, a body may swallow frames, but the *)
(* DLL reports frames in the order they were begun and none twice.         *)
(***************************************************************************)
Fifo == INSTANCE LossyFifo WITH sent <- Len(frames)
ImplementsFifo == Fifo!Spec

\* The thread stays in the write of a checkpoint nobody reads, or the session ends.
StopsReading == <>[](reading = "write") \/ <>(reading = "over")

HeaderComplete(n) == Len(frames) > n \/ (Len(frames) = n /\ part # "header")

(***************************************************************************)
(* A frame whose header is complete is reported, without waiting for       *)
(* anything written after it, by a thread whose own checkpoints are taken  *)
(* and whose session goes on.                                              *)
(***************************************************************************)
ReportsAll ==
  \/ StopsReading
  \/ \A n \in 1 .. MaxFrames :
       Covered /\ HeaderComplete(n) ~> ~Covered \/ Len(log) >= n
=============================================================================
