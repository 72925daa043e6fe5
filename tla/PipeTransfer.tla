---------------------------- MODULE PipeTransfer ----------------------------
(***************************************************************************)
(* One value crosses one pipe: the writer's loop hands its bytes to the    *)
(* pipe a part at a time, the reader's loop polls, takes what is there and *)
(* fills its buffer.  The DLL keeps its index and the lengths it passes to *)
(* the system in 32 bits although sizes have 64; the service does not.     *)
(***************************************************************************)
EXTENDS Naturals

CONSTANTS
  M,         \* 2^32, the modulus of a DWORD
  Sizes,     \* bytes of a value
  Capacity   \* bytes the pipe holds

ASSUME TransferConstantsOK ==
  /\ M \in Nat \ {0}
  /\ Sizes \subseteq Nat
  /\ Capacity \in Nat \ {0}

VARIABLES
  dest,     \* the end that reads: "dll" or "svc"
  size,     \* bytes of the reader's buffer
  total,    \* bytes of the writer's value
  rpc,      \* reader: "poll", "fetch", "returned", "stopped", "failed"
  rix,      \* reader: index of its loop
  buffer,   \* the reader's buffer: which byte of the stream is where
  wpc,      \* writer: "write", "returned", "failed"
  wix,      \* writer: index of its loop
  put,      \* bytes given to the pipe so far
  taken,    \* bytes taken from the pipe so far
  stop,     \* the reader was asked to stop
  closed    \* ends of the pipe that are gone

Source == IF dest = "dll" THEN "svc" ELSE "dll"

args == <<dest, size, total>>
reader == <<rpc, rix, buffer, taken>>
writer == <<wpc, wix, put>>
env == <<stop, closed>>
vars == <<args, reader, writer, env>>

\* What is left of n in the integers of the reading and of the writing end.
ReaderInt(n) == IF dest = "dll" THEN n % M ELSE n
WriterInt(n) == IF dest = "svc" THEN n % M ELSE n

\* The number of bytes of a view of memory: of 64 bits in the DLL, whatever it
\* was made from, an int in the service.
Lengths(end) == {n \in Sizes : end = "svc" => n < M}

\* A buffer the reader fills.  0: not filled.
Buffer(n) == [0 .. n - 1 -> Nat]

Init ==
  /\ dest \in {"dll", "svc"}
  /\ size \in Lengths(dest)
  /\ total \in Lengths(Source)
  /\ rpc = "poll"
  /\ rix = 0
  /\ buffer = [k \in 0 .. size - 1 |-> 0]
  /\ wpc = "write"
  /\ wix = 0
  /\ put = 0
  /\ taken = 0
  /\ stop = FALSE
  /\ closed = {}

-----------------------------------------------------------------------------
(* The reader.                                                             *)

Avail == put - taken

\* The loop is over, or the token is set, which wins even if all was read.
EndRead ==
  /\ rpc = "poll"
  /\ rix >= size \/ stop
  /\ rpc' = IF stop THEN "stopped" ELSE "returned"
  /\ UNCHANGED <<rix, buffer, taken>>

\* Mutant: a pipe that lost its writer is only empty.
PollBlind ==
  /\ rpc = "poll"
  /\ rix < size
  /\ ~stop
  /\ Avail > 0
  /\ rpc' = "fetch"
  /\ UNCHANGED <<rix, buffer, taken>>

\* PeekNamedPipe fails once the writer is gone and nothing is left.
Poll ==
  /\ rpc = "poll"
  /\ rix < size
  /\ ~stop
  /\ \/ /\ Avail > 0
        /\ rpc' = "fetch"
     \/ /\ Avail = 0
        /\ "writer" \in closed
        /\ rpc' = "failed"
  /\ UNCHANGED <<rix, buffer, taken>>

\* Mutant: every request is for the whole buffer.
RequestWhole == ReaderInt(size)

Request == ReaderInt(size - rix)

\* Mutant: the bytes go to the start of the buffer, whatever came before.
FillStart(n) ==
  [k \in DOMAIN buffer |-> IF k < n THEN taken + k + 1 ELSE buffer[k]]

Fill(n) ==
  [k \in DOMAIN buffer |->
     IF k \in rix .. rix + n - 1 THEN taken + (k - rix) + 1 ELSE buffer[k]]

\* ReadFile takes at most what was asked for.  Asked for nothing it takes
\* nothing, and the loop takes that for the end of the stream.
Fetch ==
  /\ rpc = "fetch"
  /\ \/ /\ stop \/ Request = 0
        /\ rpc' = IF stop THEN "stopped" ELSE "failed"
        /\ UNCHANGED <<rix, buffer, taken>>
     \/ /\ ~stop
        /\ \E n \in 1 .. Request :
             /\ n <= Avail
             /\ buffer' = Fill(n)
             /\ rix' = ReaderInt(rix + n)
             /\ taken' = taken + n
        /\ rpc' = "poll"

ReaderStep == (EndRead \/ Poll \/ Fetch) /\ UNCHANGED <<args, writer, env>>

-----------------------------------------------------------------------------
(* The writer.                                                             *)

\* WriteFile takes part of what is left.  Asked to write nothing it succeeds at
\* once, and the loop comes round again: nothing changes.
WritePart ==
  /\ wpc = "write"
  /\ wix < total
  /\ "reader" \notin closed
  /\ \E n \in 1 .. WriterInt(total - wix) :
       /\ Avail + n <= Capacity
       /\ wix' = WriterInt(wix + n)
       /\ put' = put + n
  /\ UNCHANGED wpc

\* Mutant: the loop ends when no 32-bit length is left.
EndWriteNarrow ==
  /\ wpc = "write"
  /\ WriterInt(total - wix) = 0
  /\ wpc' = "returned"
  /\ UNCHANGED <<wix, put>>

\* Mutant: a failing WriteFile is tried again.
EndWriteRetries ==
  /\ wpc = "write"
  /\ wix >= total
  /\ wpc' = "returned"
  /\ UNCHANGED <<wix, put>>

EndWrite ==
  /\ wpc = "write"
  /\ \/ wix >= total /\ wpc' = "returned"
     \/ wix < total /\ "reader" \in closed /\ wpc' = "failed"
  /\ UNCHANGED <<wix, put>>

WriterStep == (WritePart \/ EndWrite) /\ UNCHANGED <<args, reader, env>>

-----------------------------------------------------------------------------
(* Stop requests, and ends that go away: once their loop is over, or with  *)
(* their process in the middle of it.                                      *)

RequestStop ==
  /\ ~stop
  /\ stop' = TRUE
  /\ UNCHANGED <<args, reader, writer, closed>>

CloseWriter ==
  /\ "writer" \notin closed
  /\ closed' = closed \cup {"writer"}
  /\ wpc' = IF wpc = "write" THEN "failed" ELSE wpc
  /\ UNCHANGED <<args, reader, wix, put, stop>>

CloseReader ==
  /\ "reader" \notin closed
  /\ closed' = closed \cup {"reader"}
  /\ rpc' = IF rpc \in {"poll", "fetch"} THEN "failed" ELSE rpc
  /\ UNCHANGED <<args, rix, buffer, taken, writer, stop>>

Environment == RequestStop \/ CloseWriter \/ CloseReader

Next == ReaderStep \/ WriterStep \/ Environment

\* Both loops run on threads of their own.
Fairness == WF_vars(ReaderStep) /\ WF_vars(WriterStep)

Spec == Init /\ [][Next]_vars /\ Fairness

-----------------------------------------------------------------------------
TypeOK ==
  /\ dest \in {"dll", "svc"}
  /\ size \in Nat
  /\ total \in Nat
  /\ rpc \in {"poll", "fetch", "returned", "stopped", "failed"}
  /\ rix \in 0 .. size
  /\ buffer \in Buffer(size)
  /\ wpc \in {"write", "returned", "failed"}
  /\ wix \in 0 .. total
  /\ put \in Nat
  /\ taken \in 0 .. put
  /\ put <= taken + Capacity
  /\ stop \in BOOLEAN
  /\ closed \subseteq {"reader", "writer"}

(***************************************************************************)
(* However the value is cut, and although the index of the DLL has fewer   *)
(* bits than the size, no index ever wraps: the bytes taken fill the       *)
(* buffer from its start, in the order they were put.                      *)
(***************************************************************************)
FilledInOrder ==
  /\ rix = taken
  /\ wix = put
  /\ \A k \in DOMAIN buffer : buffer[k] = IF k < taken THEN k + 1 ELSE 0

(***************************************************************************)
(* A loop returns only when the whole value went across; a value of 2^32   *)
(* bytes or more never does on the DLL's side.                             *)
(***************************************************************************)
ReturnsMeanWhole ==
  /\ rpc = "returned" => taken = size /\ (dest = "dll" => size < M)
  /\ wpc = "returned" => put = total /\ (dest = "svc" => total < M)

InRead == rpc \in {"poll", "fetch"}

\* The DLL asks for the remainder of a size that needs more than 32 bits, and
\* fails on the byte that follows it.
EnoughToEnd == put >= IF ReaderInt(size) = size THEN size ELSE ReaderInt(size) + 1

(***************************************************************************)
(* A read ends, one way or the other, once enough is written, the token is *)
(* set or the writer is gone.                                              *)
(***************************************************************************)
ReadEnds == InRead /\ (EnoughToEnd \/ stop \/ "writer" \in closed) ~> ~InRead

(***************************************************************************)
(* A write ends, unless the pipe stays full or the size needs more than 32 *)
(* bits: then the DLL goes round its loop for ever, asking the system to   *)
(* write nothing.                                                          *)
(***************************************************************************)
WriteEnds ==
  \/ <>[](Avail = Capacity)
  \/ <>[](WriterInt(total) # total /\ put = WriterInt(total))
  \/ wpc = "write" ~> wpc # "write"
=============================================================================
