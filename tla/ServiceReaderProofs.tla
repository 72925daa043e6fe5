------------------------- MODULE ServiceReaderProofs -------------------------
(***************************************************************************)
(* Theorems about ServiceReader, for every length of preamble and header,  *)
(* every buffer, every set of payloads and any number of frames: frames    *)
(* are reported in order, none is broken while the reader is in step, what *)
(* exceeds the reader's budget, and how it may be out of step for good.    *)
(***************************************************************************)
EXTENDS ServiceReader, FrameStreamProofs

\* Frame i is the last one whose preamble lies in what was taken since scan.
LastSeen(i) ==
  /\ frames[i].start >= scan
  /\ frames[i].start + P <= rd
  /\ \A j \in DOMAIN frames : j > i => frames[j].start + P > rd

\* The window is behind the start of the frame reported last; a header is
\* looked for only where a preamble was seen.
InOrder ==
  /\ rd <= written
  /\ scan <= rd
  /\ Fifo!Passed \in 0 .. Len(frames)
  /\ Fifo!Passed # 0 => frames[Fifo!Passed].start < scan
  /\ reading = "header" => \E i \in DOMAIN frames : LastSeen(i)
  /\ reading \in {"preamble", "header"} => need = 0

\* Where the frame reported last ends.
ReportedEnd == IF log = <<>> THEN 0 ELSE FrameEnd(Len(log))

\* With an honest writer, until a skip takes too much, a reader that goes on stands
\* where a frame starts, where its preamble ends, or inside the body it announced.
InStep ==
  Honest /\ over = 0 =>
    /\ \A k \in DOMAIN log : log[k] = [frame |-> k, ok |-> TRUE]
    /\ reading \notin {"header", "over"} => rd + need = ReportedEnd
    /\ reading \in {"preamble", "write"} => scan = rd
    /\ reading = "header" => /\ Len(log) + 1 \in DOMAIN frames
                             /\ scan = frames[Len(log) + 1].start
                             /\ rd = scan + P

ReaderInv ==
  /\ TypeOK
  /\ StreamInv
  /\ InOrder
  /\ InStep

-----------------------------------------------------------------------------
LEMMA ReaderTypes ==
  ASSUME TypeOK
  PROVE  /\ StreamTypeOK /\ rd \in Nat /\ scan \in Nat /\ need \in Nat
         /\ charged \in Nat /\ over \in Nat
         /\ log \in Seq([frame : Nat, ok : BOOLEAN]) /\ Len(log) \in Nat
         /\ DOMAIN log = 1 .. Len(log)
         /\ Fifo!Passed \in Nat
         /\ log = <<>> <=> Len(log) = 0
         /\ log # <<>> => Len(log) \in DOMAIN log
  <1>1. log \in Seq([frame : Nat, ok : BOOLEAN])
    BY DEF TypeOK
  <1>2. /\ Len(log) \in Nat /\ DOMAIN log = 1 .. Len(log)
        /\ log = <<>> <=> Len(log) = 0
        /\ log # <<>> => Len(log) \in DOMAIN log /\ log[Len(log)] \in [frame : Nat, ok : BOOLEAN]
    BY <1>1, LastOfSeq
  <1>3. Fifo!Passed \in Nat
    BY <1>2 DEF Fifo!Passed
  <1> QED
    BY <1>1, <1>2, <1>3 DEF TypeOK

LEMMA FoundThere ==
  ASSUME TypeOK, StreamInv, NEW i \in DOMAIN frames, LastSeen(i)
  PROVE  Found = i
  <1>1. /\ \A j \in DOMAIN frames : j \in Nat /\ frames[j].start \in Nat
        /\ P \in Nat /\ rd \in Nat
    BY FrameTypes, ReaderTypes DEF StreamInv
  <1>2. ASSUME NEW j \in DOMAIN frames, LastSeen(j)
        PROVE  j = i
    BY <1>1, <1>2 DEF LastSeen
  <1>3. Found = CHOOSE j \in DOMAIN frames : LastSeen(j)
    BY DEF Found, LastSeen
  <1> QED
    BY <1>2, <1>3

\* The frame found is one that was not reported.
LEMMA FoundIsLater ==
  ASSUME ReaderInv, reading = "header"
  PROVE  Found \in DOMAIN frames /\ LastSeen(Found) /\ Found > Fifo!Passed
  <1>1. PICK i \in DOMAIN frames : LastSeen(i)
    BY DEF ReaderInv, InOrder
  <1>2. Found = i
    BY <1>1, FoundThere DEF ReaderInv
  <1>3. /\ DOMAIN frames = 1 .. Len(frames) /\ Len(frames) \in Nat
        /\ \A j \in DOMAIN frames : frames[j].start \in Nat
        /\ scan \in Nat /\ Fifo!Passed \in Nat
    BY FrameTypes, ReaderTypes DEF ReaderInv
  <1>4. i > Fifo!Passed
    <2>1. CASE Fifo!Passed = 0
      BY <1>3, <2>1
    <2>2. CASE Fifo!Passed # 0
      <3>1. Fifo!Passed \in DOMAIN frames /\ frames[Fifo!Passed].start < scan
        BY <1>3, <2>2 DEF ReaderInv, InOrder
      <3>2. frames[Fifo!Passed].start \in Nat /\ frames[i].start \in Nat /\ frames[i].start >= scan
        BY <1>1, <1>3, <3>1 DEF LastSeen
      <3>3. frames[Fifo!Passed].start < frames[i].start
        BY <1>3, <3>1, <3>2
      <3> QED
        BY <3>1, <3>3, FramesWritten DEF ReaderInv
    <2> QED
      BY <2>1, <2>2
  <1> QED
    BY <1>1, <1>2, <1>4

LEMMA PassedIsLength ==
  ASSUME ReaderInv, Honest, over = 0
  PROVE  /\ Fifo!Passed = Len(log)
         /\ log # <<>> => Len(log) \in DOMAIN frames
         /\ ReportedEnd \in Nat
  <1>1. log # <<>> => log[Len(log)] = [frame |-> Len(log), ok |-> TRUE]
    <2>1. log # <<>> => Len(log) \in DOMAIN log
      BY ReaderTypes DEF ReaderInv
    <2>2. \A k \in DOMAIN log : log[k] = [frame |-> k, ok |-> TRUE]
      BY DEF ReaderInv, InStep
    <2> QED
      BY <2>1, <2>2
  <1>2. Fifo!Passed = Len(log)
    BY <1>1, ReaderTypes DEF ReaderInv, Fifo!Passed
  <1>3. log # <<>> => Len(log) \in DOMAIN frames
    BY <1>2, ReaderTypes, FrameTypes DEF ReaderInv, InOrder
  <1> QED
    BY <1>2, <1>3, FrameTypes, ReaderTypes DEF ReaderInv, ReportedEnd

-----------------------------------------------------------------------------
(* The writer.                                                             *)

LEMMA ReaderWriteKeeps ==
  ASSUME ReaderInv, Write
  PROVE  ReaderInv'
  <1>0. WriteStep /\ StreamInv /\ UNCHANGED readerVars
    BY DEF Write, ReaderInv
  <1>1. /\ rd' = rd /\ scan' = scan /\ reading' = reading /\ need' = need
        /\ charged' = charged /\ over' = over /\ log' = log
        /\ Fifo!Passed' = Fifo!Passed
    BY <1>0 DEF readerVars, Fifo!Passed
  <1>2. /\ Len(frames) \in Nat /\ DOMAIN frames = 1 .. Len(frames)
        /\ Len(frames') \in {Len(frames), Len(frames) + 1}
        /\ \A i \in DOMAIN frames : i \in DOMAIN frames' /\ frames'[i] = frames[i]
        /\ written \in Nat /\ written' \in Nat /\ written <= written'
        /\ rd \in Nat /\ P \in Nat /\ 1 <= P
    BY <1>0, WriteEffect, FrameTypes, ReaderTypes, Zenon DEF ReaderInv
  <1>3. \A j \in DOMAIN frames' \ DOMAIN frames : frames'[j].start = written
    BY <1>0, WriteEffect, Zenon
  <1>4. StreamInv'
    BY <1>0, WriteKeeps
  <1>5. TypeOK'
    BY <1>1, <1>4 DEF ReaderInv, TypeOK, StreamInv
  <1>6. InOrder'
    <2>1. rd' <= written' /\ scan' <= rd'
      BY <1>1, <1>2 DEF ReaderInv, InOrder
    <2>2. Fifo!Passed' \in 0 .. Len(frames')
      BY <1>1, <1>2 DEF ReaderInv, InOrder
    <2>3. Fifo!Passed' # 0 => frames'[Fifo!Passed'].start < scan'
      BY <1>1, <1>2 DEF ReaderInv, InOrder
    <2>4. ASSUME NEW i \in DOMAIN frames, LastSeen(i)
          PROVE  i \in DOMAIN frames' /\ LastSeen(i)'
      <3>1. \A j \in DOMAIN frames' \ DOMAIN frames : frames'[j].start + P > rd
        BY <1>2, <1>3 DEF ReaderInv, InOrder
      <3> QED
        BY <1>1, <1>2, <2>4, <3>1 DEF LastSeen
    <2> QED
      BY <1>1, <2>1, <2>2, <2>3, <2>4 DEF ReaderInv, InOrder
  <1>7. InStep'
    <2> SUFFICES ASSUME Honest', over = 0
                 PROVE  InStep'
      BY <1>1 DEF InStep
    <2>1. Honest
      BY <1>2 DEF Honest
    <2>2. ReportedEnd' = ReportedEnd
      BY <1>1, <1>2, <2>1, PassedIsLength DEF ReportedEnd, FrameEnd
    <2> QED
      BY <1>1, <1>2, <2>1, <2>2 DEF ReaderInv, InStep
  <1> QED
    BY <1>4, <1>5, <1>6, <1>7 DEF ReaderInv

-----------------------------------------------------------------------------
(* The reader.                                                             *)

LEMMA StreamStays ==
  ASSUME StreamInv, UNCHANGED streamVars
  PROVE  /\ StreamInv' /\ frames' = frames /\ written' = written
         /\ Honest' <=> Honest
  BY DEF StreamInv, StreamTypeOK, EndToEnd, WrittenUpTo, FrameEnd, Current, streamVars, Honest

\* A chunk holds the end of one preamble at most, and is in step if the reader
\* is: the preamble is the chunk.
LEMMA ReadChunkKeeps ==
  ASSUME ReaderInv, ReadChunk
  PROVE  ReaderInv'
  <1>1. /\ reading = "preamble" /\ rd + P <= written /\ rd' = rd + P
        /\ charged' = charged + P
        /\ reading' = IF Recognised(P) # {} THEN "header" ELSE "preamble"
        /\ scan' = scan /\ need' = need /\ over' = over /\ log' = log
        /\ frames' = frames /\ written' = written
        /\ Fifo!Passed' = Fifo!Passed
        /\ StreamInv' /\ (Honest' <=> Honest)
    BY StreamStays DEF ReadChunk, ReaderInv, Fifo!Passed, streamVars
  <1>2. /\ \A j \in DOMAIN frames : /\ j \in Nat /\ 1 <= j /\ j <= Len(frames)
                                    /\ frames[j].start \in Nat /\ frames[j].raw \in Nat
        /\ P \in Nat /\ 1 <= P /\ H \in Nat /\ 1 <= H
        /\ rd \in Nat /\ scan \in Nat /\ need \in Nat /\ charged \in Nat /\ Len(frames) \in Nat
        /\ DOMAIN frames = 1 .. Len(frames) /\ Len(log) \in Nat /\ written \in Nat
    BY FrameTypes, ReaderTypes DEF ReaderInv
  <1>3. TypeOK'
    BY <1>1, <1>2 DEF ReaderInv, TypeOK, StreamInv
  <1>4. InOrder'
    <2>1. ASSUME NEW i \in Recognised(P)
          PROVE  i \in DOMAIN frames /\ LastSeen(i)'
      <3>1. /\ i \in DOMAIN frames /\ frames[i].start >= scan
            /\ frames[i].start + P >= rd + 1 /\ frames[i].start + P <= rd + P
        BY <1>2 DEF Recognised
      <3>2. ASSUME NEW j \in DOMAIN frames, j > i
            PROVE  frames[j].start + P > rd + P
        <4>1. frames[i].start + P + H + frames[i].raw <= frames[j].start
          BY <1>2, <3>1, <3>2 DEF ReaderInv, StreamInv, EndToEnd, FrameEnd
        <4>2. frames[j].start > rd
          <5>1. /\ frames[i].start \in Nat /\ frames[i].raw \in Nat /\ frames[j].start \in Nat
                /\ P \in Nat /\ H \in Nat /\ 1 <= H /\ rd \in Nat
            BY <1>2, <3>1, <3>2
          <5> QED
            BY <3>1, <4>1, <5>1
        <4> QED
          BY <1>2, <4>2
      <3> QED
        BY <1>1, <3>1, <3>2 DEF LastSeen
    <2>2. rd' <= written' /\ scan' <= rd'
      BY <1>1, <1>2 DEF ReaderInv, InOrder
    <2>3. reading' = "header" => \E i \in DOMAIN frames : LastSeen(i)'
      BY <1>1, <2>1
    <2> QED
      BY <1>1, <2>2, <2>3 DEF ReaderInv, InOrder
  <1>5. InStep'
    <2> SUFFICES ASSUME Honest, over = 0
                 PROVE  InStep'
      BY <1>1 DEF InStep
    <2> DEFINE k == Len(log) + 1
    <2>1. /\ need = 0 /\ rd = ReportedEnd /\ scan = rd
          /\ Fifo!Passed = Len(log)
          /\ log # <<>> => Len(log) \in DOMAIN frames
          /\ log = <<>> => ReportedEnd = 0
          /\ log # <<>> => ReportedEnd = FrameEnd(Len(log))
      BY <1>1, <1>2, PassedIsLength DEF ReaderInv, InStep, InOrder, ReportedEnd
    <2>2. k \in DOMAIN frames
      <3>1. CASE log = <<>>
        <4>1. frames # <<>> /\ Len(log) = 0
          BY <1>1, <1>2, <3>1, FramesWritten DEF ReaderInv
        <4> QED
          BY <1>2, <4>1, FrameTypes DEF ReaderInv, StreamInv
      <3>2. CASE log # <<>>
        <4>1. Len(log) # Len(frames)
          <5>1. ASSUME Len(log) = Len(frames)
                PROVE  FALSE
            <6>1. written <= FrameEnd(Len(frames)) /\ FrameEnd(Len(frames)) = rd
              BY <2>1, <3>2, <5>1, FramesWritten DEF ReaderInv
            <6> QED
              BY <1>1, <1>2, <6>1
          <5> QED
            BY <5>1
        <4> QED
          BY <1>2, <2>1, <3>2, <4>1
      <3> QED
        BY <3>1, <3>2
    <2>3. frames[k].start = rd
      <3>1. frames[k].start = IF k = 1 THEN 0 ELSE FrameEnd(k - 1)
        BY <2>2 DEF ReaderInv, StreamInv, EndToEnd
      <3>2. k - 1 = Len(log) /\ (k = 1 <=> log = <<>>)
        BY <1>2, ReaderTypes DEF ReaderInv
      <3> QED
        BY <2>1, <3>1, <3>2
    <2>4. k \in Recognised(P)
      BY <1>2, <2>1, <2>2, <2>3 DEF Recognised
    <2>5. reading' = "header"
      BY <1>1, <2>4
    <2> QED
      BY <1>1, <2>1, <2>2, <2>3, <2>5 DEF ReaderInv, InStep
  <1> QED
    BY <1>1, <1>3, <1>4, <1>5 DEF ReaderInv

\* What reading a header does to the log.
LEMMA ReadHeaderReports ==
  ASSUME ReaderInv, ReadHeader
  PROVE  /\ Found \in DOMAIN frames /\ LastSeen(Found) /\ Found > Fifo!Passed
         /\ Validate(Found) \in BOOLEAN
         /\ log' = Append(log, [frame |-> Found, ok |-> Validate(Found)])
         /\ log' \in Seq([frame : Nat, ok : BOOLEAN]) /\ log' # <<>>
         /\ Len(log') = Len(log) + 1 /\ DOMAIN log' = 1 .. Len(log) + 1
         /\ \A k \in DOMAIN log : log'[k] = log[k]
         /\ log'[Len(log')] = [frame |-> Found, ok |-> Validate(Found)]
         /\ Fifo!Passed' = Found
  <1>1. Found \in DOMAIN frames /\ LastSeen(Found) /\ Found > Fifo!Passed
    BY FoundIsLater DEF ReadHeader
  <1>2. Found \in Nat
    BY <1>1, FrameTypes DEF ReaderInv, StreamInv
  <1>3. Validate(Found) \in BOOLEAN
    BY DEF Validate
  <1> DEFINE r == [frame |-> Found, ok |-> Validate(Found)]
  <1>4. r \in [frame : Nat, ok : BOOLEAN] /\ r.frame = Found
    BY <1>2, <1>3
  <1>5. log' = Append(log, r)
    BY DEF ReadHeader
  <1>6. /\ log' \in Seq([frame : Nat, ok : BOOLEAN]) /\ log' # <<>>
        /\ Len(log') = Len(log) + 1
        /\ \A k \in DOMAIN log : log'[k] = log[k]
        /\ log'[Len(log) + 1] = r
    <2> HIDE DEF r
    <2> QED
      BY <1>4, <1>5, ReaderTypes, AppendToSeq DEF ReaderInv
  <1>7. DOMAIN log' = 1 .. Len(log) + 1
    BY <1>6, LastOfSeq
  <1>8. Fifo!Passed' = Found
    BY <1>4, <1>6 DEF Fifo!Passed
  <1> QED
    BY <1>1, <1>3, <1>5, <1>6, <1>7, <1>8

LEMMA ReadHeaderKeeps ==
  ASSUME ReaderInv, ReadHeader
  PROVE  ReaderInv'
  <1> DEFINE i == Found
             ok == Validate(Found)
  <1>1. /\ i \in DOMAIN frames /\ LastSeen(i) /\ ok \in BOOLEAN
        /\ log' \in Seq([frame : Nat, ok : BOOLEAN]) /\ log' # <<>>
        /\ Len(log') = Len(log) + 1 /\ DOMAIN log' = 1 .. Len(log) + 1
        /\ \A k \in DOMAIN log : log'[k] = log[k]
        /\ log'[Len(log) + 1] = [frame |-> i, ok |-> ok]
        /\ Fifo!Passed' = i
    BY ReadHeaderReports
  <1>2. /\ reading = "header" /\ rd + H <= written /\ rd' = rd + H /\ scan' = rd'
        /\ need' = IF ok THEN frames[i].size ELSE 0
        /\ charged' = charged + H + need'
        /\ reading' \in {"write", "preamble", "body"}
        /\ reading' = "preamble" => need' = 0
        /\ over' = over /\ frames' = frames /\ written' = written
        /\ StreamInv' /\ (Honest' <=> Honest)
    BY StreamStays DEF ReadHeader, AfterAnswer, ReaderInv, streamVars
  <1>3. /\ \A j \in DOMAIN frames :
              /\ j \in Nat /\ 1 <= j /\ j <= Len(frames)
              /\ frames[j].start \in Nat /\ frames[j].size \in Nat /\ frames[j].raw \in Nat
        /\ P \in Nat /\ H \in Nat /\ 1 <= P /\ 1 <= H
        /\ rd \in Nat /\ scan \in Nat /\ charged \in Nat /\ over \in Nat /\ Len(frames) \in Nat
        /\ DOMAIN frames = 1 .. Len(frames)
        /\ DOMAIN log = 1 .. Len(log) /\ Len(log) \in Nat
    BY FrameTypes, ReaderTypes DEF ReaderInv
  <1>4. frames[i].start + P <= rd /\ (ok <=> frames[i].start + P = rd)
    BY <1>1 DEF LastSeen, Validate
  <1> HIDE DEF i, ok
  <1>5. need' \in Nat /\ rd' \in Nat /\ charged' \in Nat
    <2>1. need' \in Nat
      BY <1>1, <1>2, <1>3
    <2> QED
      BY <1>2, <1>3, <2>1
  <1>6. TypeOK'
    BY <1>1, <1>2, <1>3, <1>5 DEF TypeOK, StreamInv
  <1>7. InOrder'
    <2>1. Fifo!Passed' \in 0 .. Len(frames)
      BY <1>1, <1>3
    <2>2. frames[i].start < scan'
      <3>1. /\ frames[i].start \in Nat /\ P \in Nat /\ rd \in Nat /\ 1 <= P /\ 1 <= H /\ H \in Nat
        BY <1>1, <1>3, Zenon
      <3>2. scan' = rd + H
        BY <1>2
      <3> QED
        BY <1>4, <3>1, <3>2
    <2>3. /\ reading' # "header" /\ (reading' = "preamble" => need' = 0)
          /\ rd' <= written' /\ scan' <= rd'
      BY <1>2, <1>5
    <2> QED
      BY <1>1, <1>2, <2>1, <2>2, <2>3 DEF InOrder
  <1>8. InStep'
    <2> SUFFICES ASSUME Honest, over = 0
                 PROVE  InStep'
      BY <1>2 DEF InStep
    <2> DEFINE k == Len(log) + 1
    <2>1. k \in DOMAIN frames /\ scan = frames[k].start /\ rd = frames[k].start + P
      BY <1>2 DEF ReaderInv, InStep
    <2>2. i = k
      <3>1. ASSUME NEW j \in DOMAIN frames, j > k
            PROVE  frames[j].start + P > rd
        <4>1. frames[k].start < frames[j].start
          BY <2>1, <3>1, FramesWritten DEF ReaderInv
        <4> QED
          BY <1>3, <2>1, <4>1
      <3>2. LastSeen(k)
        BY <1>3, <2>1, <3>1 DEF LastSeen
      <3> QED
        BY <2>1, <3>2, FoundThere DEF ReaderInv, i
    <2>3. ok = TRUE
      BY <1>1, <1>4, <2>1, <2>2
    <2>4. \A m \in DOMAIN log' : log'[m] = [frame |-> m, ok |-> TRUE]
      <3>1. \A m \in DOMAIN log : log[m] = [frame |-> m, ok |-> TRUE]
        BY DEF ReaderInv, InStep
      <3>2. \A m \in DOMAIN log' : m \in DOMAIN log \/ m = Len(log) + 1
        BY <1>1, <1>3
      <3> QED
        BY <1>1, <2>2, <2>3, <3>1, <3>2
    <2>5. rd' + need' = FrameEnd(i)
      <3>1. need' = frames[i].raw
        BY <1>1, <1>2, <2>3 DEF Honest
      <3> QED
        BY <1>1, <1>2, <1>3, <2>1, <2>2, <3>1 DEF FrameEnd
    <2>6. ReportedEnd' = FrameEnd(i)
      BY <1>1, <1>2, <2>2 DEF ReportedEnd, FrameEnd
    <2> QED
      BY <1>2, <2>4, <2>5, <2>6 DEF InStep
  <1> QED
    BY <1>2, <1>6, <1>7, <1>8 DEF ReaderInv

LEMMA SkipBodyKeeps ==
  ASSUME ReaderInv, SkipBody
  PROVE  ReaderInv'
  <1> DEFINE n == IF written - rd < BufferSize THEN written - rd ELSE BufferSize
  <1>1. /\ reading = "body" /\ rd < written /\ rd' = rd + n /\ scan' = rd'
        /\ need' = IF n < need THEN need - n ELSE 0
        /\ over' = over + n - (need - need')
        /\ reading' = IF need' = 0 THEN "preamble" ELSE "body"
        /\ charged' = charged /\ log' = log /\ frames' = frames /\ written' = written
        /\ Fifo!Passed' = Fifo!Passed
        /\ StreamInv' /\ (Honest' <=> Honest)
    BY StreamStays DEF SkipBody, ReaderInv, Fifo!Passed, streamVars
  <1>2. /\ rd \in Nat /\ scan \in Nat /\ need \in Nat /\ written \in Nat /\ over \in Nat
        /\ Fifo!Passed \in 0 .. Len(frames)
        /\ Fifo!Passed # 0 => frames[Fifo!Passed].start \in Nat
        /\ scan <= rd /\ BufferSize \in Nat
    BY ReaderTypes, FrameTypes, BufferOK DEF ReaderInv, InOrder
  <1>3. n \in Nat /\ rd + n <= written
    BY <1>1, <1>2
  <1> HIDE DEF n
  <1>4. /\ rd' \in Nat /\ need' \in Nat /\ rd' <= written /\ scan <= scan'
        /\ over' \in Nat /\ over <= over'
        /\ over' = over => rd' + need' = rd + need
    <2>1. rd' = rd + n /\ scan' = rd' /\ rd' \in Nat /\ rd' <= written /\ scan <= scan'
      BY <1>1, <1>2, <1>3
    <2>2. /\ need' \in Nat /\ over' \in Nat /\ over <= over'
          /\ over' = over => need' + n = need
      <3>1. CASE n < need
        <4>1. need' = need - n
          BY <1>1, <3>1
        <4>2. over' = over + n - (need - need')
          BY <1>1
        <4> QED
          BY <1>2, <1>3, <3>1, <4>1, <4>2
      <3>2. CASE ~(n < need)
        <4>1. need' = 0
          BY <1>1, <3>2
        <4>2. over' = over + n - (need - need')
          BY <1>1
        <4> QED
          BY <1>2, <1>3, <3>2, <4>1, <4>2
      <3> QED
        BY <3>1, <3>2
    <2>3. over' = over => rd' + need' = rd + need
      <3>1. rd \in Nat /\ n \in Nat /\ need' \in Nat /\ rd' = rd + n
        BY <1>2, <1>3, <2>1, <2>2
      <3>2. (rd + n) + need' = rd + (need' + n)
        BY <3>1
      <3> QED
        BY <2>2, <3>1, <3>2
    <2> QED
      BY <2>1, <2>2, <2>3
  <1>5. TypeOK'
    BY <1>1, <1>4 DEF ReaderInv, TypeOK, StreamInv
  <1>6. InOrder'
    <2>1. Fifo!Passed # 0 => frames[Fifo!Passed].start < scan'
      BY <1>1, <1>2, <1>4 DEF ReaderInv, InOrder
    <2> QED
      BY <1>1, <1>2, <1>4, <2>1 DEF InOrder
  <1>7. InStep'
    <2> SUFFICES ASSUME Honest, over' = 0
                 PROVE  InStep'
      BY <1>1 DEF InStep
    <2>1. over = 0 /\ rd' + need' = rd + need
      <3>1. over = 0
        BY <1>2, <1>4
      <3> QED
        BY <1>4, <3>1
    <2>2. ReportedEnd' = ReportedEnd
      BY <1>1 DEF ReportedEnd, FrameEnd
    <2> QED
      BY <1>1, <2>1, <2>2 DEF ReaderInv, InStep
  <1> QED
    BY <1>1, <1>5, <1>6, <1>7 DEF ReaderInv

\* Neither the end of a write nor the end of the session moves the reader.
LEMMA EndKeeps ==
  ASSUME ReaderInv, EndWrite \/ EndSession
  PROVE  ReaderInv'
  <1>1. /\ rd' = rd /\ scan' = scan /\ need' = need
        /\ charged' = charged /\ over' = over /\ log' = log
        /\ frames' = frames /\ written' = written
        /\ Fifo!Passed' = Fifo!Passed /\ ReportedEnd' = ReportedEnd
        /\ StreamInv' /\ (Honest' <=> Honest)
    BY StreamStays DEF EndWrite, EndSession, ReaderInv, Fifo!Passed, ReportedEnd, FrameEnd, streamVars
  <1>2. /\ reading' \in {"preamble", "body", "over"}
        /\ reading' = "preamble" => need = 0
        /\ reading' # "over" => reading = "write"
    BY DEF EndWrite, EndSession, AfterAnswer
  <1>3. TypeOK'
    BY <1>1, <1>2 DEF ReaderInv, TypeOK, StreamInv
  <1>4. InOrder'
    BY <1>1, <1>2 DEF ReaderInv, InOrder
  <1>5. InStep'
    BY <1>1, <1>2 DEF ReaderInv, InStep
  <1> QED
    BY <1>1, <1>3, <1>4, <1>5 DEF ReaderInv

-----------------------------------------------------------------------------
\* The invariant the theorems below are read off.
THEOREM ReaderInvariant == Spec => []ReaderInv
  <1>1. Init => ReaderInv
    <2> SUFFICES ASSUME Init
                 PROVE  ReaderInv
      OBVIOUS
    <2>1. /\ StreamInv /\ rd = 0 /\ scan = 0 /\ reading = "preamble" /\ need = 0
          /\ charged = 0 /\ over = 0 /\ log = <<>>
          /\ frames = <<>> /\ written = 0
      BY StreamStarts DEF Init, StreamInit
    <2>2. TypeOK
      BY <2>1 DEF TypeOK, StreamInv
    <2>3. InOrder
      BY <2>1 DEF InOrder, Fifo!Passed
    <2>4. InStep
      BY <2>1 DEF InStep, ReportedEnd
    <2> QED
      BY <2>1, <2>2, <2>3, <2>4 DEF ReaderInv
  <1>2. ReaderInv /\ [Next]_vars => ReaderInv'
    <2> SUFFICES ASSUME ReaderInv, [Next]_vars
                 PROVE  ReaderInv'
      OBVIOUS
    <2>1. CASE UNCHANGED vars
      BY <2>1 DEF vars, ReaderInv, TypeOK, StreamInv, StreamTypeOK, EndToEnd, WrittenUpTo, FrameEnd,
                  Current, InOrder, LastSeen, InStep, ReportedEnd, Honest, Fifo!Passed
    <2> QED
      BY <2>1, ReaderWriteKeeps, ReadChunkKeeps, ReadHeaderKeeps, SkipBodyKeeps, EndKeeps
         DEF Next, ReadStep
  <1> QED
    BY <1>1, <1>2, PTL DEF Spec

(***************************************************************************)
(* The stream and its reader keep their types; among them, a skip never    *)
(* leaves a negative number of bytes to skip.                              *)
(***************************************************************************)
THEOREM ServiceReaderWellTyped == Spec => []TypeOK
  BY ReaderInvariant, PTL DEF ReaderInv

(***************************************************************************)
(* Skips that never took more than a body keep the reader in step with an  *)
(* honest writer: it accepts every frame it passes, of whatever sizes.     *)
(***************************************************************************)
THEOREM ServiceReaderInStep == Spec => []InStepAcceptsAll
  <1>1. ReaderInv => InStepAcceptsAll
    BY DEF ReaderInv, InStep, InStepAcceptsAll
  <1> QED
    BY <1>1, ReaderInvariant, PTL

(***************************************************************************)
(* However the reader is out of step, it reports no frame twice and none   *)
(* out of order.                                                           *)
(***************************************************************************)
THEOREM ServiceReaderIsFifo == Spec => ImplementsFifo
  <1>1. Init => Fifo!Init
    BY DEF Init, StreamInit, Fifo!Init
  <1>2. ASSUME ReaderInv, [Next]_vars
        PROVE  [Fifo!Next]_<<Len(frames), log>>
    <2>1. CASE Write
      <3>1. Len(frames') \in {Len(frames), Len(frames) + 1} /\ log' = log
        BY <1>2, <2>1, WriteEffect, Zenon DEF Write, ReaderInv, readerVars
      <3> QED
        <4>1. CASE Len(frames') = Len(frames)
          BY <3>1, <4>1
        <4>2. CASE Len(frames') = Len(frames) + 1
          BY <3>1, <4>2 DEF Fifo!Next, Fifo!Send
        <4> QED
          BY <3>1, <4>1, <4>2
    <2>2. CASE ReadHeader
      <3>1. /\ Found \in DOMAIN frames /\ Found > Fifo!Passed /\ Validate(Found) \in BOOLEAN
            /\ log' = Append(log, [frame |-> Found, ok |-> Validate(Found)])
        BY <1>2, <2>2, ReadHeaderReports
      <3>2. Found \in Fifo!Passed + 1 .. Len(frames)
        BY <1>2, <3>1, ReaderTypes, FrameTypes DEF ReaderInv
      <3>3. UNCHANGED Len(frames)
        BY <2>2 DEF ReadHeader, streamVars
      <3> QED
        BY <3>1, <3>2, <3>3 DEF Fifo!Next, Fifo!Report
    <2>3. CASE ReadChunk \/ SkipBody \/ EndWrite \/ EndSession \/ UNCHANGED vars
      <3>1. UNCHANGED <<frames, log>>
        BY <2>3 DEF ReadChunk, SkipBody, EndWrite, EndSession, streamVars, vars
      <3> QED
        BY <3>1
    <2> QED
      BY <1>2, <2>1, <2>2, <2>3 DEF Next, ReadStep
  <1> QED
    BY <1>1, <1>2, ReaderInvariant, PTL DEF Spec, ImplementsFifo, Fifo!Spec
\* What was taken or is still to be skipped was charged, or is too much.
Budget == rd + need = charged + over

(***************************************************************************)
(* What SkipAsync takes beyond a body is exactly what ShrinkAvailable was  *)
(* not told of: the budget is exceeded as soon as, and only while, more    *)
(* was taken so than is still to be skipped.                               *)
(***************************************************************************)
THEOREM OnlySkipsExceedBudget ==
  Spec => [](Budget /\ (ReadsWithinBudget <=> over <= need))
  <1>1. Init => Budget
    BY DEF Init, Budget
  <1>2. ReaderInv /\ Budget /\ [Next]_vars => Budget'
    <2> SUFFICES ASSUME ReaderInv, Budget, [Next]_vars
                 PROVE  Budget'
      OBVIOUS
    <2>1. /\ rd \in Nat /\ need \in Nat /\ charged \in Nat /\ over \in Nat /\ written \in Nat
          /\ P \in Nat /\ H \in Nat /\ BufferSize \in Nat
          /\ rd + need = charged + over
      BY ReaderTypes, FrameTypes, BufferOK DEF ReaderInv, Budget
    <2>2. CASE ReadChunk
      BY <2>1, <2>2 DEF ReadChunk, Budget
    <2>3. CASE ReadHeader
      <3>1. need = 0 /\ rd' = rd + H /\ charged' = charged + H + need' /\ over' = over
        BY <2>3 DEF ReadHeader, ReaderInv, InOrder
      <3>2. need' \in Nat
        BY <2>3, ReadHeaderKeeps DEF ReaderInv, TypeOK
      <3> QED
        BY <2>1, <3>1, <3>2 DEF Budget
    <2>4. CASE SkipBody
      <3> DEFINE n == IF written - rd < BufferSize THEN written - rd ELSE BufferSize
      <3>1. /\ rd' = rd + n /\ over' = over + n - (need - need') /\ charged' = charged
            /\ rd < written
        BY <2>4 DEF SkipBody
      <3>2. n \in Nat
        BY <2>1, <3>1
      <3>3. need' \in Nat
        BY <2>4, SkipBodyKeeps DEF ReaderInv, TypeOK
      <3> HIDE DEF n
      <3>4. over' = over + n - (need - need') /\ charged' = charged /\ rd' = rd + n
        BY <3>1
      <3>5. (rd + n) + need' = charged + (over + n - (need - need'))
        BY <2>1, <3>2, <3>3
      <3> QED
        BY <3>4, <3>5 DEF Budget
    <2>5. CASE Write \/ EndWrite \/ EndSession \/ UNCHANGED vars
      BY <2>5 DEF Write, EndWrite, EndSession, readerVars, vars, Budget
    <2> QED
      BY <2>2, <2>3, <2>4, <2>5 DEF Next, ReadStep
  <1>3. TypeOK /\ Budget => (ReadsWithinBudget <=> over <= need)
    BY DEF TypeOK, Budget, ReadsWithinBudget
  <1>4. ReaderInv => TypeOK
    BY DEF ReaderInv
  <1> QED
    BY <1>1, <1>2, <1>3, <1>4, ReaderInvariant, PTL DEF Spec

-----------------------------------------------------------------------------
(* Out of step for good.                                                   *)

\* Preamble and header have an even number of bytes: 6 and 38.
EvenFraming == P % 2 = 0 /\ H % 2 = 0

\* Where the current frame ends or, between frames, the next one starts.
LEMMA EndTypes ==
  ASSUME StreamInv
  PROVE  EndOfCurrent \in Nat
  <1>1. /\ P \in Nat /\ H \in Nat /\ written \in Nat
        /\ frames # <<>> => Current.raw \in Nat
    BY FrameTypes DEF StreamInv, Current
  <1>2. CASE part = "preamble"
    BY <1>1, <1>2 DEF EndOfCurrent
  <1>3. CASE part = "header"
    BY <1>1, <1>3 DEF EndOfCurrent, StreamInv, WrittenUpTo
  <1>4. CASE part = "data"
    BY <1>1, <1>4 DEF EndOfCurrent, StreamInv, WrittenUpTo
  <1> QED
    BY <1>2, <1>3, <1>4 DEF StreamInv, StreamTypeOK

LEMMA OddAndEven ==
  ASSUME NEW a \in Int, NEW b \in Int, a % 2 = 1, b % 2 = 0
  PROVE  (a + b) % 2 = 1 /\ (a - b) % 2 = 1
  OBVIOUS

\* FoundThere, after a step.
LEMMA FoundThereNext ==
  ASSUME TypeOK', NEW i \in DOMAIN frames', LastSeen(i)'
  PROVE  Found' = i
  <1>1. frames' \in Seq(Frame) /\ rd' \in Nat /\ P \in Nat
    BY StreamConstantsOK DEF TypeOK, StreamTypeOK, Frame
  <1>2. DOMAIN frames' = 1 .. Len(frames') /\ Len(frames') \in Nat
    BY <1>1, LastOfSeq
  <1>3. \A j \in DOMAIN frames' : j \in Nat /\ frames'[j].start \in Nat
    <2>1. \A j \in DOMAIN frames' : j \in Nat /\ frames'[j] \in Frame
      BY <1>1, <1>2
    <2> QED
      BY <2>1 DEF Frame
  <1>4. ASSUME NEW j \in DOMAIN frames', LastSeen(j)'
        PROVE  j = i
    <2>1. /\ i \in Nat /\ frames'[i].start \in Nat
          /\ j \in Nat /\ frames'[j].start \in Nat
      BY <1>3
    <2>2. /\ frames'[i].start + P <= rd' /\ (j > i => frames'[j].start + P > rd')
          /\ frames'[j].start + P <= rd' /\ (i > j => frames'[i].start + P > rd')
      BY <1>4 DEF LastSeen
    <2> QED
      BY <1>1, <2>1, <2>2
  <1>5. Found' = CHOOSE j \in DOMAIN frames' : LastSeen(j)'
    BY DEF Found, LastSeen
  <1> QED
    BY <1>4, <1>5

\* A header or data ends where the frame said it would.
LEMMA OddSkewWrite ==
  ASSUME ReaderInv, EvenFraming, Write, OddSkew, (EndOfCurrent' - EndOfCurrent) % 2 = 0
  PROVE  OddSkew'
  <1>1. /\ rd' = rd /\ scan' = scan /\ reading' = reading /\ need' = need
        /\ WriteStep /\ StreamInv /\ StreamInv'
    BY WriteKeeps DEF Write, ReaderInv, readerVars
  <1>2. /\ \A i \in DOMAIN frames : /\ i \in DOMAIN frames' /\ frames'[i] = frames[i]
                                    /\ frames[i].start \in Nat
        /\ \A i \in DOMAIN frames' \ DOMAIN frames :
             frames'[i].start = written /\ part = "preamble"
        /\ rd \in Nat /\ P \in Nat /\ written \in Nat
        /\ EndOfCurrent \in Int /\ EndOfCurrent' \in Int
    <2>1. EndOfCurrent \in Nat
      BY <1>1, EndTypes
    <2>2. EndOfCurrent' \in Nat
      <3>1. /\ frames' \in Seq(Frame) /\ written' \in Nat /\ P \in Nat /\ H \in Nat
            /\ part' \in {"preamble", "header", "data"}
        BY <1>1, StreamConstantsOK DEF StreamInv, StreamTypeOK, Frame
      <3>2. frames' # <<>> => Current' \in Frame
        BY <3>1, LastOfSeq DEF Current
      <3>3. frames' # <<>> => Current'.raw \in Nat
        BY <3>2 DEF Frame
      <3>4. part' # "preamble" => frames' # <<>>
        BY <1>1, <3>1 DEF StreamInv, WrittenUpTo
      <3>5. CASE part' = "preamble"
        BY <3>1, <3>5 DEF EndOfCurrent
      <3>6. CASE part' = "header"
        BY <3>1, <3>3, <3>4, <3>6 DEF EndOfCurrent
      <3>7. CASE part' = "data"
        BY <3>1, <3>3, <3>4, <3>7 DEF EndOfCurrent
      <3> QED
        BY <3>1, <3>5, <3>6, <3>7
    <2>3. \A i \in DOMAIN frames : /\ i \in DOMAIN frames' /\ frames'[i] = frames[i]
                                   /\ frames[i].start \in Nat
      BY <1>1, WriteEffect, FrameTypes, Zenon DEF StreamInv
    <2>4. \A i \in DOMAIN frames' \ DOMAIN frames :
            frames'[i].start = written /\ part = "preamble"
      BY <1>1, WriteEffect, Zenon
    <2>5. rd \in Nat /\ P \in Nat /\ written \in Nat
      BY <1>1, FrameTypes, ReaderTypes DEF ReaderInv, StreamInv
    <2> QED
      BY <2>1, <2>2, <2>3, <2>4, <2>5
  <1>3. (EndOfCurrent' - rd) % 2 = 1
    <2>1. (EndOfCurrent - rd) % 2 = 1 /\ EndOfCurrent - rd \in Int
          /\ EndOfCurrent' - EndOfCurrent \in Int
      BY <1>2 DEF OddSkew
    <2>2. ((EndOfCurrent - rd) + (EndOfCurrent' - EndOfCurrent)) % 2 = 1
      BY <2>1, OddAndEven
    <2>3. (EndOfCurrent - rd) + (EndOfCurrent' - EndOfCurrent) = EndOfCurrent' - rd
      BY <1>2
    <2> QED
      BY <2>2, <2>3
  <1>4. ASSUME NEW i \in DOMAIN frames', frames'[i].start + P > rd
        PROVE  (frames'[i].start + P - rd) % 2 = 1
    <2>1. CASE i \in DOMAIN frames
      BY <1>2, <1>4, <2>1 DEF OddSkew
    <2>2. CASE i \notin DOMAIN frames
      <3>1. frames'[i].start = written /\ EndOfCurrent = written
        BY <1>2, <2>2 DEF EndOfCurrent
      <3>2. (written - rd) % 2 = 1 /\ P % 2 = 0 /\ written - rd \in Int /\ P \in Int
        BY <1>2, <3>1 DEF OddSkew, EvenFraming
      <3>3. ((written - rd) + P) % 2 = 1
        BY <3>2, OddAndEven
      <3>4. (written - rd) + P = written + P - rd
        BY <1>2
      <3> QED
        BY <3>1, <3>3, <3>4
    <2> QED
      BY <2>1, <2>2
  <1>5. ASSUME reading = "header"
        PROVE  (frames'[Found'].start + P - rd) % 2 = 1
    <2>1. PICK i \in DOMAIN frames : LastSeen(i)
      BY <1>5 DEF ReaderInv, InOrder
    <2>2. LastSeen(i) /\ (frames[i].start + P - rd) % 2 = 1
      <3>1. Found = i
        BY <2>1, FoundThere DEF ReaderInv
      <3> QED
        BY <1>5, <2>1, <3>1 DEF OddSkew
    <2>3. i \in DOMAIN frames' /\ frames'[i] = frames[i]
      BY <1>2, <2>2
    <2>4. \A j \in DOMAIN frames' : j > i => frames'[j].start + P > rd
      <3>1. rd < written + P
        BY <1>2, StreamConstantsOK DEF ReaderInv, InOrder
      <3> QED
        BY <1>2, <2>2, <3>1 DEF LastSeen
    <2>5. LastSeen(i)'
      BY <1>1, <2>2, <2>3, <2>4 DEF LastSeen
    <2>6. Found' = i
      <3>1. TypeOK'
        BY ReaderWriteKeeps DEF ReaderInv
      <3> QED
        BY <2>3, <2>5, <3>1, FoundThereNext
    <2> QED
      BY <2>2, <2>3, <2>6
  <1> QED
    BY <1>1, <1>3, <1>4, <1>5 DEF OddSkew

LEMMA OddSkewChunk ==
  ASSUME ReaderInv, EvenFraming, ReadChunk, OddSkew
  PROVE  OddSkew'
  <1>1. /\ rd' = rd + P /\ reading = "preamble" /\ scan' = scan
        /\ reading' = IF Recognised(P) # {} THEN "header" ELSE "preamble"
        /\ frames' = frames /\ EndOfCurrent' = EndOfCurrent /\ need' = need
    BY DEF ReadChunk, streamVars, EndOfCurrent, Current
  <1>2. /\ rd \in Nat /\ P \in Nat /\ 1 <= P /\ EndOfCurrent \in Nat
        /\ \A i \in DOMAIN frames : frames[i].start \in Nat
    BY EndTypes, FrameTypes, ReaderTypes DEF ReaderInv
  <1>3. ASSUME NEW x \in Nat, (x - rd) % 2 = 1
        PROVE  (x - rd') % 2 = 1
    <2>1. ((x - rd) - P) % 2 = 1
      BY <1>2, <1>3, OddAndEven DEF EvenFraming
    <2>2. (x - rd) - P = x - rd'
      BY <1>1, <1>2
    <2> QED
      BY <2>1, <2>2
  <1>4. ASSUME NEW i \in DOMAIN frames, frames[i].start + P > rd
        PROVE  (frames[i].start + P - rd') % 2 = 1
    <2>1. (frames[i].start + P - rd) % 2 = 1 /\ frames[i].start + P \in Nat
      BY <1>2, <1>4 DEF OddSkew
    <2> DEFINE x == frames[i].start + P
    <2>2. /\ x \in Nat
          /\ x - rd = frames[i].start + P - rd
          /\ x - rd' = frames[i].start + P - rd'
          /\ (x - rd) % 2 = 1
      <3>1. frames[i].start \in Nat /\ rd' \in Nat
        BY <1>1, <1>2
      <3>2. x \in Nat /\ x - rd = frames[i].start + P - rd /\ x - rd' = frames[i].start + P - rd'
        BY <1>2, <3>1
      <3> QED
        BY <2>1, <3>2
    <2> HIDE DEF x
    <2>3. (x - rd') % 2 = 1
      BY <1>3, <2>2
    <2> QED
      BY <2>2, <2>3
  <1>5. ASSUME reading' = "header"
        PROVE  (frames[Found'].start + P - rd') % 2 = 1
    <2>1. PICK i \in DOMAIN frames : LastSeen(i)'
      BY <1>1, <1>5, ReadChunkKeeps DEF ReaderInv, InOrder
    <2>2. Found' = i
      BY <1>1, <2>1, ReadChunkKeeps, FoundThereNext DEF ReaderInv
    <2>3. PICK r \in DOMAIN frames : frames[r].start >= scan /\ frames[r].start + P \in rd + 1 .. rd + P
      BY <1>1, <1>5 DEF Recognised
    <2>4. frames[i].start + P > rd
      <3>1. ~(r > i)
        BY <1>1, <1>2, <2>1, <2>3 DEF LastSeen
      <3>2. i \in Nat /\ r \in Nat /\ frames[i].start \in Nat /\ frames[r].start \in Nat
        BY FrameTypes DEF ReaderInv, StreamInv
      <3>3. i = r \/ r < i
        BY <3>1, <3>2
      <3>4. i = r \/ frames[r].start < frames[i].start
        BY <3>3, FramesWritten DEF ReaderInv
      <3> QED
        BY <1>2, <2>3, <3>2, <3>4
    <2> QED
      BY <1>4, <2>2, <2>4
  <1>6. (EndOfCurrent' - rd') % 2 = 1
    BY <1>1, <1>2, <1>3 DEF OddSkew
  <1>7. \A i \in DOMAIN frames : frames[i].start + P > rd' => frames[i].start + P > rd
    BY <1>1, <1>2
  <1> QED
    BY <1>1, <1>4, <1>5, <1>6, <1>7 DEF OddSkew

LEMMA OddSkewHeader ==
  ASSUME ReaderInv, EvenFraming, ReadHeader, OddSkew
  PROVE  OddSkew' /\ ~log'[Len(log')].ok
  <1>1. /\ rd' = rd + H /\ reading = "header"
        /\ ~Validate(Found) => reading' = "write"
        /\ need' = IF Validate(Found) THEN frames[Found].size ELSE 0
        /\ frames' = frames /\ EndOfCurrent' = EndOfCurrent
    BY DEF ReadHeader, streamVars, EndOfCurrent, Current
  <1>2. /\ rd \in Nat /\ H \in Nat /\ P \in Nat /\ EndOfCurrent \in Nat
        /\ \A i \in DOMAIN frames : frames[i].start \in Nat
    BY EndTypes, FrameTypes, ReaderTypes DEF ReaderInv
  <1>3. ~Validate(Found)
    <2>1. (frames[Found].start + P - rd) % 2 = 1
      BY <1>1 DEF OddSkew
    <2>2. ASSUME Validate(Found)
          PROVE  FALSE
      <3>1. frames[Found].start + P = rd /\ frames[Found].start \in Nat
        BY <1>1, <1>2, <2>2, FoundIsLater DEF Validate
      <3>2. frames[Found].start + P - rd = 0 /\ 0 % 2 = 0
        BY <1>2, <3>1
      <3> QED
        BY <2>1, <3>2
    <2> QED
      BY <2>2
  <1>4. reading' = "write" /\ need' = 0
    BY <1>1, <1>3
  <1>5. ~log'[Len(log')].ok
    <2> DEFINE ok == Validate(Found)
    <2>1. log'[Len(log')] = [frame |-> Found, ok |-> ok]
      BY ReadHeaderReports
    <2> HIDE DEF ok
    <2>2. log'[Len(log')].ok = ok
      BY <2>1
    <2> QED
      BY <1>3, <2>2 DEF ok
  <1>6. ASSUME NEW x \in Nat, (x - rd) % 2 = 1
        PROVE  (x - rd') % 2 = 1
    <2>1. ((x - rd) - H) % 2 = 1
      BY <1>2, <1>6, OddAndEven DEF EvenFraming
    <2>2. (x - rd) - H = x - rd'
      BY <1>1, <1>2
    <2> QED
      BY <2>1, <2>2
  <1>7. ASSUME NEW i \in DOMAIN frames, frames[i].start + P > rd'
        PROVE  (frames[i].start + P - rd') % 2 = 1
    <2>1. frames[i].start + P > rd /\ frames[i].start + P \in Nat
      BY <1>1, <1>2, <1>7
    <2>2. (frames[i].start + P - rd) % 2 = 1
      BY <2>1 DEF OddSkew
    <2> DEFINE x == frames[i].start + P
    <2>3. /\ x \in Nat
          /\ x - rd = frames[i].start + P - rd
          /\ x - rd' = frames[i].start + P - rd'
          /\ (x - rd) % 2 = 1
      <3>1. frames[i].start \in Nat /\ rd' \in Nat
        BY <1>1, <1>2
      <3>2. x \in Nat /\ x - rd = frames[i].start + P - rd /\ x - rd' = frames[i].start + P - rd'
        BY <1>2, <3>1
      <3> QED
        BY <2>2, <3>2
    <2> HIDE DEF x
    <2>4. (x - rd') % 2 = 1
      BY <1>6, <2>3
    <2> QED
      BY <2>3, <2>4
  <1>8. (EndOfCurrent' - rd') % 2 = 1
    BY <1>1, <1>2, <1>6 DEF OddSkew
  <1> QED
    BY <1>1, <1>4, <1>5, <1>7, <1>8 DEF OddSkew

LEMMA OddSkewEnd ==
  ASSUME EndWrite \/ EndSession, OddSkew
  PROVE  OddSkew'
  <1>1. /\ rd' = rd /\ need' = need /\ frames' = frames /\ EndOfCurrent' = EndOfCurrent
        /\ reading' # "header" /\ (need = 0 => reading' # "body")
    BY DEF EndWrite, EndSession, AfterAnswer, streamVars, EndOfCurrent, Current
  <1> QED
    BY <1>1 DEF OddSkew

(***************************************************************************)
(* A reader at an odd distance from every preamble to come accepts nothing *)
(* and stays at an odd distance until somebody writes a frame of odd       *)
(* length: no number of checkpoints brings RunAsyncInternal back into step.*)
(***************************************************************************)
THEOREM OddSkewIsForGood ==
  ASSUME EvenFraming
  PROVE  Spec => OddSkewStays
  <1> DEFINE Stays ==
        OddSkew /\ (EndOfCurrent' - EndOfCurrent) % 2 = 0 =>
          /\ OddSkew'
          /\ log' # log => ~log'[Len(log')].ok
  <1>1. ASSUME ReaderInv, [Next]_vars
        PROVE  [Stays]_vars
    <2> SUFFICES ASSUME OddSkew, (EndOfCurrent' - EndOfCurrent) % 2 = 0, ~ UNCHANGED vars
                 PROVE  /\ OddSkew'
                        /\ log' # log => ~log'[Len(log')].ok
      OBVIOUS
    <2>1. CASE Write
      BY <1>1, <2>1, OddSkewWrite DEF Write, readerVars
    <2>2. CASE ReadChunk
      BY <1>1, <2>2, OddSkewChunk DEF ReadChunk
    <2>3. CASE ReadHeader
      BY <1>1, <2>3, OddSkewHeader
    <2>4. CASE SkipBody
      BY <2>4 DEF SkipBody, OddSkew
    <2>5. CASE EndWrite \/ EndSession
      BY <2>5, OddSkewEnd DEF EndWrite, EndSession
    <2> QED
      BY <1>1, <2>1, <2>2, <2>3, <2>4, <2>5 DEF Next, ReadStep
  <1> QED
    BY <1>1, ReaderInvariant, PTL DEF Spec, OddSkewStays
=============================================================================
