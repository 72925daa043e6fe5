--------------------------- MODULE DllReaderProofs ---------------------------
(***************************************************************************)
(* Theorems about FrameReader.  First on positions (DllReader), for every  *)
(* length of preamble and header, every set of payloads and any number of  *)
(* frames: frames are reported in order, and none is missed while the      *)
(* headers keep to what follows them.  Then on bytes (PreambleSearch), for *)
(* every preamble, alphabet and text: the search for a preamble is exact,  *)
(* and agrees with the window of the service.                              *)
(***************************************************************************)
EXTENDS DllReader, PreambleSearch, FrameStreamProofs

\* The reader is behind the header of the frame it reported last; a header it
\* is about to read is that of a later frame.
InOrder ==
  /\ rd <= written
  /\ Fifo!Passed \in 0 .. Len(frames)
  /\ Fifo!Passed # 0 => frames[Fifo!Passed].start + P + H <= rd
  /\ reading = "header" => \E i \in DOMAIN frames : i > Fifo!Passed /\ frames[i].start + P = rd
  /\ reading \notin {"body", "over"} => need = 0

\* Where the frame reported last ends.
ReportedEnd == IF log = <<>> THEN 0 ELSE FrameEnd(Len(log))

\* As long as no header announces more than follows it, a reader that goes on never
\* leaves the frame it reported last without reporting the next one.
InStep ==
  Covered =>
    /\ \A k \in DOMAIN log : log[k] = [frame |-> k, ok |-> TRUE]
    /\ reading \notin {"header", "over"} => rd + need <= ReportedEnd
    /\ reading = "header" => /\ Len(log) + 1 \in DOMAIN frames
                             /\ rd = frames[Len(log) + 1].start + P

ReaderInv ==
  /\ TypeOK
  /\ StreamInv
  /\ InOrder
  /\ InStep

-----------------------------------------------------------------------------
LEMMA ReaderTypes ==
  ASSUME TypeOK
  PROVE  /\ StreamTypeOK /\ rd \in Nat /\ need \in Nat
         /\ log \in Seq([frame : Nat, ok : BOOLEAN]) /\ Len(log) \in Nat
         /\ DOMAIN log = 1 .. Len(log)
         /\ Fifo!Passed \in Nat
         /\ log = <<>> <=> Len(log) = 0
         /\ log # <<>> => Len(log) \in DOMAIN log
  <1>1. log \in Seq([frame : Nat, ok : BOOLEAN])
    BY DEF TypeOK
  <1>2. /\ Len(log) \in Nat /\ DOMAIN log = 1 .. Len(log)
        /\ log = <<>> <=> Len(log) = 0
        /\ log # <<>> => Len(log) \in DOMAIN log /\ log[Len(log)] \in [frame : Nat, ok : BOOLEAN]
    BY <1>1, LastOfSeq
  <1>3. Fifo!Passed \in Nat
    BY <1>2 DEF Fifo!Passed
  <1> QED
    BY <1>1, <1>2, <1>3 DEF TypeOK

\* A preamble ends at one place only.
LEMMA FoundThere ==
  ASSUME StreamInv, NEW i \in DOMAIN frames, frames[i].start + P = rd
  PROVE  Found = i
  <1>1. \A j \in DOMAIN frames : j \in Nat /\ frames[j].start \in Nat
    BY FrameTypes DEF StreamInv
  <1>2. P \in Nat
    BY StreamConstantsOK
  <1>3. ASSUME NEW j \in DOMAIN frames, frames[j].start + P = rd
        PROVE  j = i
    <2>1. frames[j].start = frames[i].start
      BY <1>1, <1>2, <1>3
    <2>2. ~(i < j) /\ ~(j < i)
      BY <1>1, <2>1, FramesWritten
    <2> QED
      BY <1>1, <2>2
  <1> QED
    BY <1>3 DEF Found

\* A frame reported in its turn is as far as the log is long.
LEMMA PassedIsLength ==
  ASSUME ReaderInv, Covered
  PROVE  /\ Fifo!Passed = Len(log)
         /\ log # <<>> => Len(log) \in DOMAIN frames
         /\ ReportedEnd \in Nat
  <1>1. log # <<>> => log[Len(log)] = [frame |-> Len(log), ok |-> TRUE]
    BY ReaderTypes DEF ReaderInv, InStep
  <1>2. Fifo!Passed = Len(log)
    BY <1>1, ReaderTypes DEF ReaderInv, Fifo!Passed
  <1>3. log # <<>> => Len(log) \in DOMAIN frames
    BY <1>2, ReaderTypes, FrameTypes DEF ReaderInv, InOrder
  <1> QED
    BY <1>2, <1>3, FrameTypes, ReaderTypes DEF ReaderInv, ReportedEnd

-----------------------------------------------------------------------------
(* The writer.                                                             *)

LEMMA ReaderWriteKeeps ==
  ASSUME ReaderInv, Write
  PROVE  ReaderInv'
  <1>0. WriteStep /\ StreamInv /\ UNCHANGED readerVars
    BY DEF Write, ReaderInv
  <1>1. /\ rd' = rd /\ reading' = reading /\ need' = need /\ log' = log
        /\ Fifo!Passed' = Fifo!Passed
    BY <1>0 DEF readerVars, Fifo!Passed
  <1>2. /\ Len(frames) \in Nat /\ Len(frames') \in Nat /\ Len(frames) <= Len(frames')
        /\ \A i \in DOMAIN frames : i \in DOMAIN frames' /\ frames'[i] = frames[i]
        /\ written \in Nat /\ written' \in Nat /\ written <= written'
        /\ rd \in Nat
        /\ DOMAIN frames = 1 .. Len(frames)
    <2>1. /\ Len(frames) \in Nat /\ DOMAIN frames = 1 .. Len(frames)
          /\ written \in Nat /\ rd \in Nat
      BY FrameTypes, ReaderTypes, Zenon DEF ReaderInv
    <2>2. /\ Len(frames') \in {Len(frames), Len(frames) + 1}
          /\ \A i \in DOMAIN frames : i \in DOMAIN frames' /\ frames'[i] = frames[i]
          /\ written' \in Nat /\ written <= written'
      BY <1>0, WriteEffect, Zenon
    <2> QED
      BY <2>1, <2>2
  <1>3. StreamInv'
    BY <1>0, WriteKeeps
  <1>4. TypeOK'
    BY <1>1, <1>3 DEF ReaderInv, TypeOK, StreamInv
  <1>5. InOrder'
    <2>1. rd' <= written'
      BY <1>1, <1>2 DEF ReaderInv, InOrder
    <2>2. Fifo!Passed' \in 0 .. Len(frames')
      BY <1>1, <1>2 DEF ReaderInv, InOrder
    <2>3. Fifo!Passed' # 0 => frames'[Fifo!Passed'].start + P + H <= rd'
      BY <1>1, <1>2 DEF ReaderInv, InOrder
    <2>4. reading' = "header" => \E i \in DOMAIN frames' :
                                   i > Fifo!Passed' /\ frames'[i].start + P = rd'
      BY <1>1, <1>2 DEF ReaderInv, InOrder
    <2> QED
      BY <1>1, <2>1, <2>2, <2>3, <2>4 DEF ReaderInv, InOrder
  <1>6. InStep'
    <2> SUFFICES ASSUME Covered'
                 PROVE  InStep'
      BY DEF InStep
    <2>1. Covered
      BY <1>2 DEF Covered
    <2>2. ReportedEnd' = ReportedEnd
      BY <1>1, <1>2, <2>1, PassedIsLength DEF ReportedEnd, FrameEnd
    <2> QED
      BY <1>1, <1>2, <2>1, <2>2 DEF ReaderInv, InStep
  <1> QED
    BY <1>3, <1>4, <1>5, <1>6 DEF ReaderInv

-----------------------------------------------------------------------------
(* The reader.                                                             *)

LEMMA StreamStays ==
  ASSUME StreamInv, UNCHANGED streamVars
  PROVE  /\ StreamInv' /\ frames' = frames /\ written' = written
         /\ Covered' <=> Covered
  BY DEF StreamInv, StreamTypeOK, EndToEnd, WrittenUpTo, FrameEnd, Current, streamVars, Covered

LEMMA ReadUntilPreambleKeeps ==
  ASSUME ReaderInv, ReadUntilPreamble
  PROVE  ReaderInv'
  <1>1. PICK i \in DOMAIN frames :
          /\ frames[i].start >= rd
          /\ frames[i].start + P <= written
          /\ \A j \in DOMAIN frames : frames[j].start >= rd => i <= j
          /\ rd' = frames[i].start + P
    BY DEF ReadUntilPreamble, NextPreamble
  <1>2. /\ reading = "preamble" /\ reading' = "header" /\ need' = need /\ log' = log
        /\ frames' = frames /\ written' = written
        /\ Fifo!Passed' = Fifo!Passed
        /\ StreamInv' /\ (Covered' <=> Covered)
    BY StreamStays DEF ReadUntilPreamble, ReaderInv, Fifo!Passed, streamVars
  <1>3. /\ \A j \in DOMAIN frames : /\ j \in Nat /\ 1 <= j /\ j <= Len(frames)
                                    /\ frames[j].start \in Nat /\ FrameEnd(j) \in Nat
        /\ P \in Nat /\ H \in Nat /\ 1 <= P /\ 1 <= H
        /\ rd \in Nat /\ need \in Nat /\ Fifo!Passed \in Nat /\ Len(frames) \in Nat
        /\ DOMAIN frames = 1 .. Len(frames) /\ Len(log) \in Nat
    BY FrameTypes, ReaderTypes DEF ReaderInv
  <1>4. TypeOK'
    BY <1>1, <1>2, <1>3 DEF ReaderInv, TypeOK, StreamInv
  <1>5. i > Fifo!Passed
    <2>1. CASE Fifo!Passed = 0
      BY <1>3, <2>1
    <2>2. CASE Fifo!Passed # 0
      <3>1. /\ Fifo!Passed \in DOMAIN frames
            /\ frames[Fifo!Passed].start + P + H <= rd
        BY <1>3, <2>2 DEF ReaderInv, InOrder
      <3>2. frames[Fifo!Passed].start < frames[i].start
        <4>1. frames[Fifo!Passed].start \in Nat /\ frames[i].start \in Nat
          BY <1>3, <3>1
        <4> QED
          BY <1>1, <1>3, <3>1, <4>1
      <3> QED
        BY <1>3, <3>1, <3>2, FramesWritten DEF ReaderInv
    <2> QED
      BY <2>1, <2>2
  <1>6. InOrder'
    <2>1. rd <= rd'
      BY <1>1, <1>3
    <2>2. Fifo!Passed # 0 => frames[Fifo!Passed].start + P + H <= rd'
      <3>1. Fifo!Passed # 0 => Fifo!Passed \in DOMAIN frames
        BY <1>3 DEF ReaderInv, InOrder
      <3>2. Fifo!Passed # 0 => frames[Fifo!Passed].start \in Nat
        BY <1>3, <3>1
      <3>3. rd' \in Nat
        BY <1>1, <1>3
      <3> QED
        BY <1>3, <2>1, <3>2, <3>3 DEF ReaderInv, InOrder
    <2> QED
      BY <1>1, <1>2, <1>5, <2>2 DEF ReaderInv, InOrder
  <1>7. InStep'
    <2> SUFFICES ASSUME Covered
                 PROVE  InStep'
      BY <1>2 DEF InStep
    <2>1. /\ Fifo!Passed = Len(log) /\ rd + need <= ReportedEnd
          /\ ReportedEnd \in Nat
          /\ log # <<>> => Len(log) \in DOMAIN frames
          /\ log = <<>> => ReportedEnd = 0
          /\ log # <<>> => ReportedEnd = FrameEnd(Len(log))
      BY <1>2, PassedIsLength DEF ReaderInv, InStep, ReportedEnd
    <2> DEFINE k == Len(log) + 1
    <2>2. k \in DOMAIN frames
      BY <1>3, <1>5, <2>1
    <2>3. frames[k].start >= ReportedEnd
      <3>1. CASE log = <<>>
        BY <1>3, <2>1, <2>2, <3>1
      <3>2. CASE log # <<>>
        BY <1>3, <2>1, <2>2, <3>2 DEF ReaderInv, StreamInv, EndToEnd
      <3> QED
        BY <3>1, <3>2
    <2>4. frames[k].start >= rd
      BY <1>3, <2>1, <2>2, <2>3
    <2>5. i = k
      BY <1>1, <1>3, <1>5, <2>1, <2>2, <2>4
    <2> QED
      BY <1>1, <1>2, <2>2, <2>5 DEF ReaderInv, InStep
  <1> QED
    BY <1>2, <1>4, <1>6, <1>7 DEF ReaderInv

\* What reading a header does: a frame later than all reported is reported.
LEMMA ReadHeaderReports ==
  ASSUME ReaderInv, ReadHeader
  PROVE  /\ Found \in DOMAIN frames /\ Found > Fifo!Passed
         /\ frames[Found].start + P = rd
         /\ log' = Append(log, [frame |-> Found, ok |-> TRUE])
         /\ log' \in Seq([frame : Nat, ok : BOOLEAN]) /\ log' # <<>>
         /\ Len(log') = Len(log) + 1
         /\ Fifo!Passed' = Found
  <1>1. PICK i \in DOMAIN frames : i > Fifo!Passed /\ frames[i].start + P = rd
    BY DEF ReaderInv, InOrder, ReadHeader
  <1>2. Found = i
    BY <1>1, FoundThere DEF ReaderInv
  <1>3. log' = Append(log, [frame |-> Found, ok |-> TRUE])
    BY DEF ReadHeader
  <1> DEFINE r == [frame |-> Found, ok |-> TRUE]
  <1>4. r \in [frame : Nat, ok : BOOLEAN] /\ r.frame = Found
    BY <1>2, FrameTypes DEF ReaderInv, StreamInv
  <1> HIDE DEF r
  <1>5. log' = Append(log, r)
    BY <1>3 DEF r
  <1>6. /\ log' \in Seq([frame : Nat, ok : BOOLEAN]) /\ log' # <<>>
        /\ Len(log') = Len(log) + 1 /\ log'[Len(log')] = r
    BY <1>4, <1>5, ReaderTypes DEF ReaderInv
  <1>7. Fifo!Passed' = Found
    BY <1>4, <1>6 DEF Fifo!Passed
  <1> QED
    BY <1>1, <1>2, <1>3, <1>6, <1>7

LEMMA ReadHeaderKeeps ==
  ASSUME ReaderInv, ReadHeader
  PROVE  ReaderInv'
  <1> DEFINE i == Found
  <1>1. /\ i \in DOMAIN frames /\ i > Fifo!Passed /\ frames[i].start + P = rd
        /\ log' = Append(log, [frame |-> i, ok |-> TRUE])
        /\ log' \in Seq([frame : Nat, ok : BOOLEAN]) /\ log' # <<>>
        /\ Len(log') = Len(log) + 1
        /\ Fifo!Passed' = i
    BY ReadHeaderReports
  <1>2. /\ reading = "header" /\ rd + H <= written /\ rd' = rd + H
        /\ need' \in {0, frames[i].size}
        /\ reading' \in {"preamble", "write", "body"}
        /\ reading' # "body" => need' = 0
        /\ frames' = frames /\ written' = written
        /\ StreamInv' /\ (Covered' <=> Covered)
    BY StreamStays DEF ReadHeader, ReaderInv, streamVars
  <1> HIDE DEF i
  <1>3. /\ \A j \in DOMAIN frames :
              /\ j \in Nat /\ 1 <= j /\ j <= Len(frames)
              /\ frames[j].start \in Nat /\ frames[j].size \in Nat /\ frames[j].raw \in Nat
        /\ P \in Nat /\ H \in Nat
        /\ rd \in Nat /\ need \in Nat /\ Fifo!Passed \in Nat /\ Len(frames) \in Nat
        /\ DOMAIN frames = 1 .. Len(frames) /\ Len(log) \in Nat
    BY FrameTypes, ReaderTypes DEF ReaderInv
  <1>4. TypeOK'
    <2>1. need' \in Nat /\ rd' \in Nat
      BY <1>1, <1>2, <1>3
    <2> QED
      BY <1>1, <1>2, <2>1 DEF TypeOK, StreamInv
  <1>5. InOrder'
    <2>1. Fifo!Passed' \in 0 .. Len(frames)
      BY <1>1, <1>3
    <2>2. frames[i].start + P + H <= rd'
      BY <1>1, <1>2, <1>3
    <2>3. reading' # "header" /\ (reading' # "body" => need' = 0) /\ rd' <= written'
      BY <1>2
    <2> QED
      BY <1>1, <1>2, <2>1, <2>2, <2>3 DEF InOrder
  <1>6. InStep'
    <2> SUFFICES ASSUME Covered
                 PROVE  InStep'
      BY <1>2 DEF InStep
    <2>1. /\ Len(log) + 1 \in DOMAIN frames
          /\ rd = frames[Len(log) + 1].start + P
      BY <1>2 DEF ReaderInv, InStep
    <2>2. i = Len(log) + 1
      BY <2>1, FoundThere DEF ReaderInv, i
    <2>3. \A k \in DOMAIN log' : log'[k] = [frame |-> k, ok |-> TRUE]
      <3>1. \A k \in DOMAIN log : log[k] = [frame |-> k, ok |-> TRUE]
        BY DEF ReaderInv, InStep
      <3>2. /\ DOMAIN log' = 1 .. Len(log) + 1 /\ DOMAIN log = 1 .. Len(log)
            /\ \A k \in 1 .. Len(log) : log'[k] = log[k]
            /\ log'[Len(log) + 1] = [frame |-> Len(log) + 1, ok |-> TRUE]
        <4> DEFINE r == [frame |-> i, ok |-> TRUE]
        <4>1. r \in [frame : Nat, ok : BOOLEAN]
          BY <1>1, <1>3
        <4> HIDE DEF r
        <4>2. log' = Append(log, r) /\ log \in Seq([frame : Nat, ok : BOOLEAN])
          BY <1>1, ReaderTypes DEF r, ReaderInv
        <4>3. /\ DOMAIN log' = 1 .. Len(log) + 1 /\ DOMAIN log = 1 .. Len(log)
              /\ \A k \in 1 .. Len(log) : log'[k] = log[k]
              /\ log'[Len(log) + 1] = r
          BY <4>1, <4>2
        <4> QED
          BY <2>2, <4>3 DEF r
      <3> QED
        BY <1>3, <3>1, <3>2
    <2>4. rd' + need' <= FrameEnd(i)
      <3>1. frames[i].size <= frames[i].raw
        BY <1>1 DEF Covered
      <3>2. FrameEnd(i) = frames[i].start + P + H + frames[i].raw
        BY DEF FrameEnd
      <3>3. need' <= frames[i].raw /\ need' \in Nat
        <4>1. frames[i].raw \in Nat /\ frames[i].size \in Nat
          BY <1>1, <1>3, Zenon
        <4>2. need' \in {0, frames[i].size}
          BY <1>2
        <4> QED
          BY <3>1, <4>1, <4>2
      <3> QED
        <4>1. frames[i].start \in Nat /\ frames[i].raw \in Nat /\ P \in Nat /\ H \in Nat
          BY <1>1, <1>3, Zenon
        <4>2. rd' = frames[i].start + P + H
          BY <1>1, <1>2, <4>1
        <4> QED
          BY <3>2, <3>3, <4>1, <4>2
    <2>5. ReportedEnd' = FrameEnd(i)
      BY <1>1, <1>2, <2>2 DEF ReportedEnd, FrameEnd
    <2> QED
      BY <1>2, <2>3, <2>4, <2>5 DEF InStep
  <1> QED
    BY <1>2, <1>4, <1>5, <1>6 DEF ReaderInv

LEMMA ReadBodyKeeps ==
  ASSUME ReaderInv, ReadBody
  PROVE  ReaderInv'
  <1> DEFINE n == IF written - rd < need THEN written - rd ELSE need
  <1>1. /\ reading = "body" /\ rd < written /\ rd' = rd + n /\ need' = need - n
        /\ reading' = IF need' = 0 THEN "preamble" ELSE "body"
        /\ log' = log /\ frames' = frames /\ written' = written
        /\ Fifo!Passed' = Fifo!Passed
        /\ StreamInv' /\ (Covered' <=> Covered)
    BY StreamStays DEF ReadBody, ReaderInv, Fifo!Passed, streamVars
  <1>2. /\ rd \in Nat /\ need \in Nat /\ written \in Nat /\ P \in Nat /\ H \in Nat
        /\ Fifo!Passed \in 0 .. Len(frames)
        /\ Fifo!Passed # 0 => frames[Fifo!Passed].start \in Nat
    BY ReaderTypes, FrameTypes DEF ReaderInv, InOrder
  <1>3. n \in Nat /\ n <= need /\ rd + n <= written
    BY <1>1, <1>2
  <1> HIDE DEF n
  <1>4. rd' \in Nat /\ need' \in Nat /\ rd <= rd' /\ rd' <= written /\ rd' + need' = rd + need
    BY <1>1, <1>2, <1>3
  <1>5. TypeOK'
    BY <1>1, <1>4 DEF ReaderInv, TypeOK, StreamInv
  <1>6. InOrder'
    <2>1. Fifo!Passed # 0 => frames[Fifo!Passed].start + P + H <= rd'
      BY <1>2, <1>4 DEF ReaderInv, InOrder
    <2> QED
      BY <1>1, <1>2, <1>4, <2>1 DEF InOrder
  <1>7. InStep'
    <2>1. ReportedEnd' = ReportedEnd
      BY <1>1 DEF ReportedEnd, FrameEnd
    <2> QED
      BY <1>1, <1>4, <2>1 DEF ReaderInv, InStep
  <1> QED
    BY <1>1, <1>5, <1>6, <1>7 DEF ReaderInv

\* Neither the end of a write nor the end of the session moves the reader.
LEMMA EndKeeps ==
  ASSUME ReaderInv, EndWrite \/ EndSession
  PROVE  ReaderInv'
  <1>1. /\ rd' = rd /\ need' = need /\ log' = log
        /\ frames' = frames /\ written' = written
        /\ Fifo!Passed' = Fifo!Passed /\ ReportedEnd' = ReportedEnd
        /\ StreamInv' /\ (Covered' <=> Covered)
    BY StreamStays DEF EndWrite, EndSession, ReaderInv, Fifo!Passed, ReportedEnd, FrameEnd, streamVars
  <1>2. /\ reading' \in {"preamble", "over"}
        /\ reading' = "preamble" => reading = "write"
    BY DEF EndWrite, EndSession
  <1>3. TypeOK'
    BY <1>1, <1>2 DEF ReaderInv, TypeOK, StreamInv
  <1>4. InOrder'
    BY <1>1, <1>2 DEF ReaderInv, InOrder
  <1>5. InStep'
    BY <1>1, <1>2 DEF ReaderInv, InStep
  <1> QED
    BY <1>1, <1>3, <1>4, <1>5 DEF ReaderInv

-----------------------------------------------------------------------------
\* The invariant the theorems below are read off.
THEOREM ReaderInvariant == Spec => []ReaderInv
  <1>1. Init => ReaderInv
    <2> SUFFICES ASSUME Init
                 PROVE  ReaderInv
      OBVIOUS
    <2>1. /\ StreamInv /\ rd = 0 /\ reading = "preamble" /\ need = 0 /\ log = <<>>
          /\ frames = <<>> /\ written = 0
      BY StreamStarts DEF Init, StreamInit
    <2>2. TypeOK
      BY <2>1 DEF TypeOK, StreamInv
    <2>3. InOrder
      BY <2>1 DEF InOrder, Fifo!Passed
    <2>4. InStep
      BY <2>1 DEF InStep, ReportedEnd
    <2> QED
      BY <2>1, <2>2, <2>3, <2>4 DEF ReaderInv
  <1>2. ReaderInv /\ [Next]_vars => ReaderInv'
    <2> SUFFICES ASSUME ReaderInv, [Next]_vars
                 PROVE  ReaderInv'
      OBVIOUS
    <2>1. CASE UNCHANGED vars
      BY <2>1 DEF vars, ReaderInv, TypeOK, StreamInv, StreamTypeOK, EndToEnd, WrittenUpTo, FrameEnd,
                  Current, InOrder, InStep, ReportedEnd, Covered, Fifo!Passed
    <2> QED
      BY <2>1, ReaderWriteKeeps, ReadUntilPreambleKeeps, ReadHeaderKeeps, ReadBodyKeeps, EndKeeps
         DEF Next, ReadStep
  <1> QED
    BY <1>1, <1>2, PTL DEF Spec

(***************************************************************************)
(* The stream and its reader keep their types; among them, a body never    *)
(* has a negative number of bytes to come.                                 *)
(***************************************************************************)
THEOREM DllReaderWellTyped == Spec => []TypeOK
  BY ReaderInvariant, PTL DEF ReaderInv

(***************************************************************************)
(* The DLL passes over no frame, whatever raw bytes lie between frames, as *)
(* long as no header announces more than follows it: for frames of any     *)
(* size and any number of them.                                            *)
(***************************************************************************)
THEOREM DllReaderMissesNothing == Spec => []MissesNothing
  <1>1. ReaderInv => MissesNothing
    BY DEF ReaderInv, InStep, MissesNothing
  <1> QED
    BY <1>1, ReaderInvariant, PTL

(***************************************************************************)
(* Whatever sizes the headers announce, the DLL reports frames in the      *)
(* order they were begun and none twice.                                   *)
(***************************************************************************)
THEOREM DllReaderIsFifo == Spec => ImplementsFifo
  <1>1. Init => Fifo!Init
    BY DEF Init, StreamInit, Fifo!Init
  <1>2. ASSUME ReaderInv, [Next]_vars
        PROVE  [Fifo!Next]_<<Len(frames), log>>
    <2>1. CASE Write
      <3>1. Len(frames') \in {Len(frames), Len(frames) + 1} /\ log' = log
        BY <1>2, <2>1, WriteEffect, Zenon DEF Write, ReaderInv, readerVars
      <3> QED
        BY <3>1 DEF Fifo!Next, Fifo!Send
    <2>2. CASE ReadHeader
      <3>1. /\ Found \in DOMAIN frames /\ Found > Fifo!Passed
            /\ log' = Append(log, [frame |-> Found, ok |-> TRUE])
        BY <1>2, <2>2, ReadHeaderReports
      <3>2. Found \in Fifo!Passed + 1 .. Len(frames) /\ TRUE \in BOOLEAN
        BY <1>2, <3>1, ReaderTypes, FrameTypes DEF ReaderInv
      <3>3. UNCHANGED Len(frames)
        BY <2>2 DEF ReadHeader, streamVars
      <3> QED
        BY <3>1, <3>2, <3>3 DEF Fifo!Next, Fifo!Report
    <2>3. CASE ReadUntilPreamble \/ ReadBody \/ EndWrite \/ EndSession \/ UNCHANGED vars
      <3>1. UNCHANGED <<frames, log>>
        BY <2>3 DEF ReadUntilPreamble, ReadBody, EndWrite, EndSession, streamVars, vars
      <3> QED
        BY <3>1
    <2> QED
      BY <1>2, <2>1, <2>2, <2>3 DEF Next, ReadStep
  <1> QED
    BY <1>1, <1>2, ReaderInvariant, PTL DEF Spec, ImplementsFifo, Fifo!Spec

-----------------------------------------------------------------------------
(***************************************************************************)
(* The search for a preamble, byte by byte.                                *)
(***************************************************************************)

\* Every match of k bytes that ends at place e of s, longer than m bytes, fails
\* with the next byte of s.
LongerFail(s, m, top, e) ==
  \A k \in m + 1 .. top : EndsAt(s, k, e) => kPreamble[k + 1] # s[e + 1]

\* Entry i is the longest proper end of the first i bytes that they begin with.
TableRight ==
  \A i \in 1 .. Len(kLps) :
    /\ kLps[i] < i
    /\ EndsAt(kPreamble, kLps[i], i)
    /\ \A k \in kLps[i] + 1 .. i - 1 : ~EndsAt(kPreamble, k, i)

\* What the loop that fills the table knows of its next entry.
FillInv ==
  /\ len < Len(kLps)
  /\ EndsAt(kPreamble, len, Len(kLps))
  /\ ~Filled => LongerFail(kPreamble, len, Len(kLps) - 1, Len(kLps))

\* What the search knows while it falls back over the last byte.
PendingInv ==
  pending =>
    /\ Filled /\ matched < N /\ text # <<>>
    /\ EndsAt(text, matched, Len(text) - 1)
    /\ LongerFail(text, matched, N - 1, Len(text) - 1)
    /\ \A e \in N .. Len(text) - 1 : ~EndsAt(text, N, e)

\* The window holds the last bytes, behind zeros at first.
WindowInv ==
  \A j \in 1 .. N :
    window[j] = IF Len(text) - N + j >= 1 THEN text[Len(text) - N + j] ELSE 0

\* The service has seen the preamble when it ends with the last byte, or the
\* DLL has found it and the chunk goes on.
SeenInv ==
  kPreamble[1] # 0 =>
    IF pending THEN seen <=> EndsAt(text, N, Len(text)) ELSE seen <=> matched = N

SearchInv ==
  /\ SearchTypeOK
  /\ TableRight
  /\ FillInv
  /\ PendingInv
  /\ DllSearchExact
  /\ WindowInv
  /\ SeenInv

-----------------------------------------------------------------------------
LEMMA SearchTypes ==
  ASSUME SearchTypeOK
  PROVE  /\ N \in Nat /\ 1 <= N /\ len \in Nat /\ matched \in Nat /\ matched <= N
         /\ Len(kLps) \in Nat /\ 1 <= Len(kLps) /\ Len(kLps) <= N
         /\ DOMAIN kLps = 1 .. Len(kLps)
         /\ Len(text) \in Nat /\ DOMAIN text = 1 .. Len(text)
         /\ text # <<>> => Len(text) - 1 \in Nat
         /\ \A i \in DOMAIN kLps : kLps[i] \in 0 .. N - 1
         /\ \A i \in 1 .. N : kPreamble[i] \in Bytes
  <1>1. N \in Nat /\ 1 <= N
    BY SearchConstantsOK
  <1>2. kLps \in Seq(0 .. N - 1) /\ Len(kLps) \in 1 .. N
    BY DEF SearchTypeOK
  <1>3. text \in Seq(Bytes)
    BY DEF SearchTypeOK
  <1> QED
    BY <1>1, <1>2, <1>3 DEF SearchTypeOK

-----------------------------------------------------------------------------
(* Matches inside matches.                                                 *)

\* What ends where a match ends, and is shorter, ends inside the preamble.
LEMMA ShorterMatch ==
  ASSUME NEW s, NEW e \in Nat, NEW m \in Nat, EndsAt(s, m, e), NEW k \in 0 .. m
  PROVE  EndsAt(s, k, e) <=> EndsAt(kPreamble, k, m)
  <1>1. \A j \in 1 .. k : /\ m - k + j \in 1 .. m
                          /\ e - m + (m - k + j) = e - k + j
    OBVIOUS
  <1>2. \A j \in 1 .. k : s[e - k + j] = kPreamble[m - k + j]
    <2>1. \A i \in 1 .. m : s[e - m + i] = kPreamble[i]
      BY DEF EndsAt
    <2> QED
      BY <1>1, <2>1
  <1>3. k <= m /\ k <= e
    BY DEF EndsAt
  <1> QED
    BY <1>2, <1>3 DEF EndsAt

\* A match one byte longer.
LEMMA LongerMatch ==
  ASSUME NEW s, NEW e \in Nat, NEW k \in Nat
  PROVE  EndsAt(s, k + 1, e + 1) <=> EndsAt(s, k, e) /\ s[e + 1] = kPreamble[k + 1]
  <1>1. k + 1 <= e + 1 <=> k <= e
    OBVIOUS
  <1>2. (e + 1) - (k + 1) + (k + 1) = e + 1 /\ k + 1 \in 1 .. k + 1
    OBVIOUS
  <1>3. \A j \in 1 .. k : j \in 1 .. k + 1 /\ (e + 1) - (k + 1) + j = e - k + j
    OBVIOUS
  <1>4. \A j \in 1 .. k + 1 : j \in 1 .. k \/ j = k + 1
    OBVIOUS
  <1>5. ASSUME EndsAt(s, k + 1, e + 1)
        PROVE  EndsAt(s, k, e) /\ s[e + 1] = kPreamble[k + 1]
    <2>1. \A j \in 1 .. k + 1 : s[(e + 1) - (k + 1) + j] = kPreamble[j]
      BY <1>5 DEF EndsAt
    <2>2. s[e + 1] = kPreamble[k + 1]
      BY <1>2, <2>1
    <2>3. \A j \in 1 .. k : s[e - k + j] = kPreamble[j]
      BY <1>3, <2>1
    <2> QED
      BY <1>1, <1>5, <2>2, <2>3 DEF EndsAt
  <1>6. ASSUME EndsAt(s, k, e), s[e + 1] = kPreamble[k + 1]
        PROVE  EndsAt(s, k + 1, e + 1)
    <2>1. \A j \in 1 .. k : s[(e + 1) - (k + 1) + j] = kPreamble[j]
      BY <1>3, <1>6 DEF EndsAt
    <2>2. \A j \in 1 .. k + 1 : s[(e + 1) - (k + 1) + j] = kPreamble[j]
      BY <1>2, <1>4, <1>6, <2>1
    <2> QED
      BY <1>1, <1>6, <2>2 DEF EndsAt
  <1> QED
    BY <1>5, <1>6

\* Falling back by the table skips no match that could go on.
LEMMA FallBackSkipsNone ==
  ASSUME SearchTypeOK, TableRight, NEW s, NEW e \in Nat, NEW top \in Nat,
         NEW m \in 1 .. Len(kLps), EndsAt(s, m, e), LongerFail(s, m, top, e),
         kPreamble[m + 1] # s[e + 1]
  PROVE  /\ kLps[m] \in Nat /\ kLps[m] < m
         /\ EndsAt(s, kLps[m], e)
         /\ LongerFail(s, kLps[m], top, e)
  <1>1. /\ kLps[m] \in 0 .. m
        /\ kLps[m] < m
        /\ EndsAt(kPreamble, kLps[m], m)
        /\ \A k \in kLps[m] + 1 .. m - 1 : ~EndsAt(kPreamble, k, m)
    <2>1. kLps[m] \in 0 .. N - 1
      BY SearchTypes
    <2>2. kLps[m] < m /\ EndsAt(kPreamble, kLps[m], m)
          /\ \A k \in kLps[m] + 1 .. m - 1 : ~EndsAt(kPreamble, k, m)
      BY DEF TableRight
    <2>3. kLps[m] \in 0 .. m
      BY <2>1, <2>2, SearchConstantsOK
    <2> QED
      BY <2>2, <2>3
  <1>2. m \in Nat /\ Len(kLps) \in Nat
    BY DEF SearchTypeOK
  <1>3. EndsAt(s, kLps[m], e)
    BY <1>1, <1>2, ShorterMatch
  <1>4. ASSUME NEW k \in kLps[m] + 1 .. top, EndsAt(s, k, e)
        PROVE  kPreamble[k + 1] # s[e + 1]
    <2>1. CASE k < m
      <3>1. k \in 0 .. m /\ k \in kLps[m] + 1 .. m - 1
        BY <1>1, <1>2, <2>1
      <3>2. EndsAt(kPreamble, k, m)
        BY <1>2, <1>4, <3>1, ShorterMatch
      <3> QED
        BY <1>1, <3>1, <3>2
    <2>2. CASE k = m
      BY <2>2
    <2>3. CASE k > m
      <3>1. k \in m + 1 .. top
        BY <1>2, <2>3
      <3> QED
        BY <1>4, <3>1 DEF LongerFail
    <2> QED
      BY <1>1, <1>2, <2>1, <2>2, <2>3
  <1> QED
    BY <1>1, <1>3, <1>4 DEF LongerFail

\* What the last step of either loop leaves is the longest match.
LEMMA ExtendedIsLongest ==
  ASSUME NEW s, NEW e \in Nat, NEW top \in Nat, NEW m \in Nat,
         EndsAt(s, m, e), LongerFail(s, m, top, e), ~Fails(m, s[e + 1])
  PROVE  /\ Extended(m, s[e + 1]) \in {m, m + 1}
         /\ EndsAt(s, Extended(m, s[e + 1]), e + 1)
         /\ \A k \in Extended(m, s[e + 1]) + 1 .. top + 1 : ~EndsAt(s, k, e + 1)
  <1>1. ASSUME NEW k \in m + 2 .. top + 1
        PROVE  ~EndsAt(s, k, e + 1)
    <2>1. k - 1 \in m + 1 .. top /\ k - 1 \in Nat /\ (k - 1) + 1 = k
      OBVIOUS
    <2>2. EndsAt(s, k, e + 1) <=> EndsAt(s, k - 1, e) /\ s[e + 1] = kPreamble[k]
      BY <2>1, LongerMatch
    <2>3. EndsAt(s, k - 1, e) => kPreamble[k] # s[e + 1]
      BY <2>1 DEF LongerFail
    <2> QED
      BY <2>2, <2>3
  <1>2. CASE s[e + 1] = kPreamble[m + 1]
    <2>1. Extended(m, s[e + 1]) = m + 1
      BY <1>2 DEF Extended
    <2>2. EndsAt(s, m + 1, e + 1)
      BY <1>2, LongerMatch
    <2>3. \A k \in (m + 1) + 1 .. top + 1 : k \in m + 2 .. top + 1
      OBVIOUS
    <2> QED
      BY <1>1, <2>1, <2>2, <2>3
  <1>3. CASE s[e + 1] # kPreamble[m + 1]
    <2>1. m = 0 /\ Extended(m, s[e + 1]) = 0
      BY <1>3 DEF Fails, Extended
    <2>2. EndsAt(s, 0, e + 1)
      BY DEF EndsAt
    <2>3. ~EndsAt(s, 1, e + 1)
      BY <1>3, <2>1, LongerMatch
    <2>4. \A k \in 0 + 1 .. top + 1 : k = 1 \/ k \in m + 2 .. top + 1
      BY <2>1
    <2> QED
      BY <1>1, <2>1, <2>2, <2>3, <2>4
  <1> QED
    BY <1>2, <1>3

-----------------------------------------------------------------------------
(* The steps.                                                              *)

\* The search and the service see nothing of the table being filled.
LEMMA FillSeesNoText ==
  ASSUME SearchInv, UNCHANGED <<kPreamble, matched, pending>>, UNCHANGED serviceVars, ~Filled
  PROVE  PendingInv' /\ DllSearchExact' /\ WindowInv' /\ SeenInv'
  <1>1. ~pending
    BY DEF SearchInv, PendingInv
  <1> QED
    BY <1>1 DEF SearchInv, PendingInv, DllSearchExact, WindowInv, SeenInv, Occurs, EndsAt, serviceVars

LEMMA FillFallBackKeeps ==
  ASSUME SearchInv, FillFallBack
  PROVE  SearchInv'
  <1> DEFINE L == Len(kLps)
  <1>1. /\ ~Filled /\ len > 0 /\ kPreamble[L + 1] # kPreamble[len + 1]
        /\ len' = kLps[len] /\ kPreamble' = kPreamble /\ kLps' = kLps
        /\ UNCHANGED <<matched, pending>> /\ UNCHANGED serviceVars
    BY DEF FillFallBack, Fails, NextOfPreamble
  <1>2. /\ L \in Nat /\ 1 <= L /\ L <= N /\ L - 1 \in Nat /\ N \in Nat
        /\ len < L /\ len \in 1 .. L
        /\ EndsAt(kPreamble, len, L)
        /\ LongerFail(kPreamble, len, L - 1, L)
    BY <1>1, SearchTypes DEF SearchInv, FillInv
  <1> HIDE DEF L
  <1>3. /\ len' \in Nat /\ len' < len
        /\ EndsAt(kPreamble, len', L)
        /\ LongerFail(kPreamble, len', L - 1, L)
    BY <1>1, <1>2, FallBackSkipsNone DEF SearchInv, L
  <1>4. SearchTypeOK'
    <2>1. len' \in 0 .. N - 1
      BY <1>2, <1>3
    <2> QED
      BY <1>1, <2>1 DEF SearchInv, SearchTypeOK, serviceVars
  <1>5. TableRight'
    BY <1>1 DEF SearchInv, TableRight, EndsAt
  <1>6. FillInv'
    <2>1. len' < L /\ L' = L
      BY <1>1, <1>2, <1>3 DEF L
    <2> QED
      BY <1>1, <1>3, <2>1 DEF FillInv, LongerFail, EndsAt, Filled, L
  <1> QED
    BY <1>1, <1>4, <1>5, <1>6, FillSeesNoText DEF SearchInv

LEMMA FillEntryKeeps ==
  ASSUME SearchInv, FillEntry
  PROVE  SearchInv'
  <1> DEFINE L == Len(kLps)
             x == Extended(len, kPreamble[L + 1])
  <1>1. /\ ~Filled /\ ~Fails(len, kPreamble[L + 1])
        /\ len' = x /\ kLps' = Append(kLps, x) /\ kPreamble' = kPreamble
        /\ UNCHANGED <<matched, pending>> /\ UNCHANGED serviceVars
    BY DEF FillEntry, NextOfPreamble
  <1>2. /\ L \in Nat /\ 1 <= L /\ L < N /\ L - 1 \in Nat /\ N \in Nat
        /\ len < L /\ len \in Nat
        /\ EndsAt(kPreamble, len, L)
        /\ LongerFail(kPreamble, len, L - 1, L)
        /\ kLps \in Seq(0 .. N - 1)
    BY <1>1, SearchTypes DEF SearchInv, FillInv, Filled, SearchTypeOK
  <1>3. /\ x \in {len, len + 1}
        /\ EndsAt(kPreamble, x, L + 1)
        /\ \A k \in x + 1 .. (L - 1) + 1 : ~EndsAt(kPreamble, k, L + 1)
    <2> HIDE DEF L
    <2> QED
      BY <1>1, <1>2, ExtendedIsLongest
  <1> HIDE DEF x
  <1>4. x \in 0 .. N - 1 /\ x < L + 1
    BY <1>2, <1>3
  <1>5. /\ kLps' \in Seq(0 .. N - 1) /\ Len(kLps') = L + 1
        /\ \A i \in 1 .. L : kLps'[i] = kLps[i]
        /\ kLps'[L + 1] = x
    BY <1>1, <1>2, <1>4
  <1>6. SearchTypeOK'
    BY <1>1, <1>2, <1>4, <1>5 DEF SearchInv, SearchTypeOK, serviceVars
  <1> HIDE DEF L
  <1>7. TableRight'
    <2> SUFFICES ASSUME NEW i \in 1 .. L + 1
                 PROVE  /\ kLps'[i] < i
                        /\ EndsAt(kPreamble, kLps'[i], i)
                        /\ \A k \in kLps'[i] + 1 .. i - 1 : ~EndsAt(kPreamble, k, i)
      BY <1>1, <1>5 DEF TableRight, EndsAt
    <2>1. CASE i \in 1 .. L
      BY <1>5, <2>1 DEF SearchInv, TableRight, L
    <2>2. CASE i = L + 1
      <3>1. (L + 1) - 1 = (L - 1) + 1
        BY <1>2
      <3> QED
        BY <1>3, <1>4, <1>5, <2>2, <3>1
    <2> QED
      BY <1>2, <2>1, <2>2
  <1>8. FillInv'
    <2>1. len' < Len(kLps') /\ EndsAt(kPreamble, len', Len(kLps'))
      BY <1>1, <1>3, <1>4, <1>5
    <2>2. \A k \in len' + 1 .. Len(kLps') - 1 : ~EndsAt(kPreamble, k, Len(kLps'))
      <3>1. Len(kLps') - 1 = (L - 1) + 1
        BY <1>2, <1>5
      <3> QED
        BY <1>1, <1>3, <1>5, <3>1
    <2> QED
      BY <1>1, <2>1, <2>2 DEF FillInv, LongerFail, EndsAt
  <1> QED
    BY <1>1, <1>6, <1>7, <1>8, FillSeesNoText DEF SearchInv

\* Matching a byte touches neither the table nor the service.
LEMMA TableStays ==
  ASSUME SearchInv, UNCHANGED tableVars
  PROVE  /\ TableRight' /\ FillInv'
         /\ kPreamble' = kPreamble /\ kLps' = kLps /\ len' = len
         /\ Filled' = Filled
  BY DEF SearchInv, TableRight, FillInv, LongerFail, EndsAt, Filled, tableVars

LEMMA FallBackKeeps ==
  ASSUME SearchInv, FallBack
  PROVE  SearchInv'
  <1> DEFINE e == Len(text) - 1
  <1>1. /\ pending /\ matched > 0 /\ LastByte # kPreamble[matched + 1]
        /\ matched' = kLps[matched] /\ pending' = pending
        /\ UNCHANGED tableVars /\ UNCHANGED serviceVars
    BY DEF FallBack, Fails
  <1>2. /\ Len(kLps) = N /\ matched < N /\ text # <<>>
        /\ EndsAt(text, matched, e)
        /\ LongerFail(text, matched, N - 1, e)
        /\ \A i \in N .. e : ~EndsAt(text, N, i)
    BY <1>1 DEF SearchInv, PendingInv, Filled
  <1>3. /\ e \in Nat /\ N \in Nat /\ N - 1 \in Nat /\ matched \in 1 .. Len(kLps)
        /\ LastByte = text[e + 1]
    BY <1>1, <1>2, SearchTypes DEF SearchInv, LastByte
  <1>4. /\ text' = text /\ window' = window /\ seen' = seen /\ kPreamble' = kPreamble
    BY <1>1 DEF serviceVars, tableVars
  <1> HIDE DEF e
  <1>5. /\ matched' \in Nat /\ matched' < matched
        /\ EndsAt(text, matched', e)
        /\ LongerFail(text, matched', N - 1, e)
    BY <1>1, <1>2, <1>3, FallBackSkipsNone DEF SearchInv
  <1>6. SearchTypeOK'
    <2>1. matched' \in 0 .. N
      BY <1>2, <1>3, <1>5
    <2> QED
      BY <1>1, <1>4, <2>1 DEF SearchInv, SearchTypeOK, tableVars
  <1>7. PendingInv'
    <2>1. matched' < N /\ Filled'
      BY <1>1, <1>2, <1>3, <1>5, TableStays DEF Filled
    <2> QED
      <3>1. text' # <<>> /\ EndsAt(text, matched, Len(text) - 1)'
        BY <1>2, <1>4, <1>5 DEF EndsAt, e
      <3>2. LongerFail(text, matched, N - 1, Len(text) - 1)'
        BY <1>4, <1>5 DEF LongerFail, EndsAt, e
      <3>3. \A g \in N .. Len(text') - 1 : ~EndsAt(text, N, g)'
        BY <1>2, <1>4 DEF EndsAt, e
      <3> QED
        BY <2>1, <3>1, <3>2, <3>3 DEF PendingInv
  <1>8. DllSearchExact' /\ WindowInv' /\ SeenInv'
    BY <1>1, <1>4 DEF SearchInv, DllSearchExact, WindowInv, SeenInv, EndsAt
  <1> QED
    BY <1>1, <1>6, <1>7, <1>8, TableStays DEF SearchInv

LEMMA MatchKeeps ==
  ASSUME SearchInv, Match
  PROVE  SearchInv'
  <1> DEFINE e == Len(text) - 1
             x == Extended(matched, text[e + 1])
  <1>1. /\ pending /\ pending' = FALSE
        /\ UNCHANGED tableVars /\ UNCHANGED serviceVars
    BY DEF Match
  <1>2. /\ Len(kLps) = N /\ matched < N /\ text # <<>>
        /\ EndsAt(text, matched, e)
        /\ LongerFail(text, matched, N - 1, e)
        /\ \A i \in N .. e : ~EndsAt(text, N, i)
    BY <1>1 DEF SearchInv, PendingInv, Filled
  <1>3. /\ e \in Nat /\ N \in Nat /\ 1 <= N /\ N - 1 \in Nat /\ matched \in Nat
        /\ LastByte = text[e + 1] /\ Len(text) = e + 1
    BY <1>2, SearchTypes DEF SearchInv, LastByte
  <1>4. matched' = x /\ ~Fails(matched, text[e + 1])
    BY <1>3 DEF Match
  <1>5. text' = text /\ window' = window /\ seen' = seen /\ kPreamble' = kPreamble
    BY <1>1 DEF serviceVars, tableVars
  <1> HIDE DEF e
  <1>6. /\ x \in {matched, matched + 1}
        /\ EndsAt(text, x, e + 1)
        /\ \A k \in x + 1 .. (N - 1) + 1 : ~EndsAt(text, k, e + 1)
    BY <1>2, <1>3, <1>4, ExtendedIsLongest
  <1> HIDE DEF x
  <1>7. x \in 0 .. N /\ (N - 1) + 1 = N
    BY <1>2, <1>3, <1>6
  <1>8. SearchTypeOK'
    BY <1>1, <1>4, <1>5, <1>7 DEF SearchInv, SearchTypeOK, tableVars
  <1>9. x = N <=> EndsAt(text, N, Len(text))
    <2>1. CASE x = N
      BY <1>3, <1>6, <2>1
    <2>2. CASE x # N
      <3>1. N \in x + 1 .. N
        BY <1>3, <1>7, <2>2
      <3> QED
        BY <1>3, <1>6, <1>7, <2>2, <3>1
    <2> QED
      BY <2>1, <2>2
  <1>10. DllSearchExact'
    <2>1. CASE x = N
      <3>1. EndsAt(text, N, Len(text)) /\ Len(text) \in N .. Len(text)
        BY <1>3, <1>9, <2>1 DEF EndsAt
      <3>2. Occurs'
        BY <1>5, <3>1 DEF Occurs, EndsAt
      <3> QED
        BY <1>4, <2>1, <3>2 DEF DllSearchExact
    <2>2. CASE x # N
      <3>1. \A i \in N .. Len(text) : ~EndsAt(text, N, i)
        <4>1. \A i \in N .. Len(text) : i \in N .. e \/ i = Len(text)
          BY <1>3
        <4> QED
          BY <1>2, <1>9, <2>2, <4>1
      <3>2. ~Occurs'
        BY <1>5, <3>1 DEF Occurs, EndsAt
      <3>3. EndsAt(text, x, Len(text)) /\ \A k \in x + 1 .. N - 1 : ~EndsAt(text, k, Len(text))
        BY <1>3, <1>6, <1>7
      <3> QED
        BY <1>4, <1>5, <2>2, <3>2, <3>3 DEF DllSearchExact, EndsAt
    <2> QED
      BY <2>1, <2>2
  <1>11. SeenInv'
    BY <1>1, <1>4, <1>5, <1>9 DEF SearchInv, SeenInv
  <1>12. PendingInv' /\ WindowInv'
    BY <1>1, <1>5 DEF SearchInv, PendingInv, WindowInv
  <1> QED
    BY <1>1, <1>8, <1>10, <1>11, <1>12, TableStays DEF SearchInv

\* A window with the last bytes of a text holds the preamble if the text ends
\* with it; the zeros of a fresh window are no part of one.
LEMMA WindowSees ==
  ASSUME N \in Nat, 1 <= N, kPreamble \in [1 .. N -> Bytes], kPreamble[1] # 0,
         NEW w \in [1 .. N -> Bytes], NEW t, NEW l \in Nat,
         \A j \in 1 .. N : w[j] = IF l - N + j >= 1 THEN t[l - N + j] ELSE 0
  PROVE  IsPreamble(w) <=> EndsAt(t, N, l)
  <1>1. IsPreamble(w) <=> \A j \in 1 .. N : w[j] = kPreamble[j]
    BY DEF IsPreamble
  <1>2. CASE N <= l
    <2>1. \A j \in 1 .. N : l - N + j >= 1
      BY <1>2
    <2>2. \A j \in 1 .. N : w[j] = t[l - N + j]
      BY <2>1
    <2> QED
      BY <1>1, <1>2, <2>2 DEF EndsAt
  <1>3. CASE ~(N <= l)
    <2>1. 1 \in 1 .. N /\ ~(l - N + 1 >= 1)
      BY <1>3
    <2>2. w[1] = 0
      BY <2>1
    <2> QED
      BY <1>1, <1>3, <2>1, <2>2 DEF EndsAt
  <1> QED
    BY <1>2, <1>3

LEMMA ReceiveKeeps ==
  ASSUME SearchInv, NEW b \in Bytes, Receive(b)
  PROVE  SearchInv'
  <1> DEFINE l == Len(text)
  <1>1. /\ Filled /\ ~pending /\ ~(ChunkStart /\ seen)
        /\ text' = Append(text, b)
        /\ pending' \in BOOLEAN /\ (pending' <=> matched < N)
        /\ window' = Push(window, b)
        /\ seen' \in BOOLEAN /\ (seen' <=> ((~ChunkStart /\ seen) \/ IsPreamble(window')))
        /\ matched' = matched
        /\ UNCHANGED tableVars
    <2>1. pending' \in BOOLEAN /\ (pending' <=> matched < N)
      <3> DEFINE less == matched < N
      <3>1. less \in BOOLEAN
        BY SearchTypes DEF SearchInv
      <3>2. pending' = less
        BY DEF Receive
      <3> HIDE DEF less
      <3>3. pending' \in BOOLEAN /\ (pending' <=> less)
        BY <3>1, <3>2
      <3> QED
        BY <3>3 DEF less
    <2>2. seen' \in BOOLEAN /\ (seen' <=> ((~ChunkStart /\ seen) \/ IsPreamble(window')))
      BY Zenon DEF Receive
    <2> QED
      BY <2>1, <2>2 DEF Receive
  <1>2. /\ l \in Nat /\ N \in Nat /\ 1 <= N /\ matched \in Nat /\ matched <= N
        /\ kPreamble' = kPreamble
        /\ kPreamble \in [1 .. N -> Bytes] /\ window \in [1 .. N -> Bytes]
    BY <1>1, SearchTypes DEF SearchInv, SearchTypeOK, tableVars
  <1>3. /\ text' \in Seq(Bytes) /\ Len(text') = l + 1 /\ text' # <<>>
        /\ \A i \in 1 .. l : text'[i] = text[i]
        /\ text'[l + 1] = b
    <2>1. text \in Seq(Bytes) /\ text' = Append(text, b)
      BY <1>1 DEF SearchInv, SearchTypeOK
    <2> QED
      BY <2>1
  <1> HIDE DEF l
  <1>4. /\ window' \in [1 .. N -> Bytes]
        /\ \A j \in 1 .. N : window'[j] = IF j < N THEN window[j + 1] ELSE b
    <2>1. window' = [j \in 1 .. N |-> IF j < N THEN window[j + 1] ELSE b]
      BY <1>1 DEF Push
    <2>2. \A j \in 1 .. N : j < N => window[j + 1] \in Bytes
      BY <1>2
    <2> QED
      BY <2>1, <2>2
  <1>5. SearchTypeOK'
    BY <1>1, <1>3, <1>4 DEF SearchInv, SearchTypeOK, tableVars
  <1>6. ASSUME NEW k \in Nat, NEW e \in 0 .. l
        PROVE  EndsAt(text', k, e) <=> EndsAt(text, k, e)
    <2>1. ASSUME k <= e
          PROVE  \A j \in 1 .. k : e - k + j \in 1 .. l
      BY <1>2, <2>1
    <2> QED
      BY <1>3, <2>1 DEF EndsAt
  <1>8. PendingInv'
    <2> SUFFICES ASSUME matched < N
                 PROVE  PendingInv'
      BY <1>1 DEF PendingInv
    <2>1. /\ \A e \in N .. l : ~EndsAt(text, N, e)
          /\ EndsAt(text, matched, l)
          /\ \A k \in matched + 1 .. N - 1 : ~EndsAt(text, k, l)
      BY <1>1, <1>2 DEF SearchInv, DllSearchExact, Occurs, l
    <2>2. Len(text') - 1 = l /\ l \in 0 .. l
      BY <1>2, <1>3
    <2>3. \A e \in N .. l : ~EndsAt(text', N, e)
      BY <1>2, <1>6, <2>1
    <2>4. EndsAt(text', matched, l)
      BY <1>2, <1>6, <2>1, <2>2
    <2>5. \A k \in matched + 1 .. N - 1 : ~EndsAt(text', k, l)
      BY <1>2, <1>6, <2>1, <2>2
    <2>6. Filled'
      BY <1>1, TableStays
    <2> QED
      BY <1>1, <1>2, <1>3, <2>2, <2>3, <2>4, <2>5, <2>6 DEF PendingInv, LongerFail, EndsAt
  <1>9. DllSearchExact'
    <2> SUFFICES ASSUME matched = N
                 PROVE  Occurs'
      BY <1>1, <1>2 DEF DllSearchExact
    <2>1. PICK e \in N .. l : EndsAt(text, N, e)
      BY <1>1 DEF SearchInv, DllSearchExact, Occurs, l
    <2>2. EndsAt(text', N, e) /\ e \in N .. Len(text')
      BY <1>2, <1>3, <1>6, <2>1
    <2> QED
      BY <1>2, <2>2 DEF Occurs, EndsAt
  <1>10. ASSUME NEW j \in 1 .. N
         PROVE  window'[j] = IF (l + 1) - N + j >= 1 THEN text'[(l + 1) - N + j] ELSE 0
    <2>1. CASE j < N
      <3>1. j + 1 \in 1 .. N /\ l - N + (j + 1) = (l + 1) - N + j
        BY <1>2, <2>1
      <3>2. window'[j] = IF (l + 1) - N + j >= 1 THEN text[(l + 1) - N + j] ELSE 0
        BY <1>4, <2>1, <3>1 DEF SearchInv, WindowInv, l
      <3>3. (l + 1) - N + j >= 1 => (l + 1) - N + j \in 1 .. l
        BY <1>2, <2>1
      <3> QED
        BY <1>3, <3>2, <3>3
    <2>2. CASE j = N
      <3>1. (l + 1) - N + j = l + 1 /\ l + 1 >= 1
        BY <1>2, <2>2
      <3> QED
        BY <1>3, <1>4, <2>2, <3>1
    <2> QED
      BY <1>2, <2>1, <2>2
  <1>11. WindowInv'
    BY <1>3, <1>10 DEF WindowInv
  <1>12. SeenInv'
    <2> SUFFICES ASSUME kPreamble[1] # 0
                 PROVE  SeenInv'
      BY <1>2 DEF SeenInv
    <2>1. seen <=> matched = N
      BY <1>1 DEF SearchInv, SeenInv
    <2>2. CASE matched = N
      <3>1. seen' /\ ~pending' /\ matched' = N
        BY <1>1, <1>2, <2>1, <2>2
      <3> QED
        BY <3>1 DEF SeenInv
    <2>3. CASE matched # N
      <3>1. pending' /\ (seen' <=> IsPreamble(window'))
        BY <1>1, <1>2, <2>1, <2>3
      <3>2. IsPreamble(window') <=> EndsAt(text', N, l + 1)
        <4> DEFINE m == l + 1
                   w == window'
                   t == text'
        <4>1. m \in Nat /\ w \in [1 .. N -> Bytes]
          BY <1>2, <1>4
        <4>2. \A j \in 1 .. N : w[j] = IF m - N + j >= 1 THEN t[m - N + j] ELSE 0
          BY <1>10
        <4> HIDE DEF m, w, t
        <4>3. IsPreamble(w) <=> EndsAt(t, N, m)
          BY <1>2, <4>1, <4>2, WindowSees
        <4> QED
          BY <4>3 DEF m, w, t
      <3>3. EndsAt(text, N, Len(text))' <=> EndsAt(text', N, l + 1)
        BY <1>2, <1>3 DEF EndsAt
      <3> QED
        BY <3>1, <3>2, <3>3 DEF SeenInv
    <2> QED
      BY <2>2, <2>3
  <1> QED
    BY <1>1, <1>5, <1>8, <1>9, <1>11, <1>12, TableStays DEF SearchInv

-----------------------------------------------------------------------------
\* The invariant the theorems below are read off.
THEOREM SearchInvariant == SearchSpec => []SearchInv
  <1>1. SearchInit => SearchInv
    <2> SUFFICES ASSUME SearchInit
                 PROVE  SearchInv
      OBVIOUS
    <2>1. /\ N \in Nat /\ 1 <= N /\ 0 \in Bytes
          /\ kPreamble \in [1 .. N -> Bytes] /\ len = 0 /\ matched = 0 /\ pending = FALSE
          /\ text = <<>> /\ Len(text) = 0 /\ seen = FALSE
          /\ window \in [1 .. N -> Bytes] /\ \A j \in 1 .. N : window[j] = 0
      BY SearchConstantsOK DEF SearchInit
    <2>2. kLps = <<0>> /\ Len(kLps) = 1 /\ kLps \in Seq(0 .. N - 1) /\ kLps[1] = 0
      BY <2>1 DEF SearchInit
    <2>3. SearchTypeOK
      <3>1. 0 \in 0 .. N - 1 /\ 0 \in 0 .. N /\ 1 \in 1 .. N
        BY <2>1
      <3>2. text \in Seq(Bytes)
        BY <2>1
      <3> QED
        BY <2>1, <2>2, <3>1, <3>2 DEF SearchTypeOK
    <2>4. \A s : \A e \in Nat : EndsAt(s, 0, e)
      BY DEF EndsAt
    <2>5. TableRight /\ FillInv
      BY <2>1, <2>2, <2>4 DEF TableRight, FillInv, LongerFail
    <2>6. DllSearchExact
      <3>1. ~Occurs /\ EndsAt(text, 0, Len(text))
        BY <2>1, <2>4 DEF Occurs
      <3>2. \A k \in 1 .. N - 1 : ~EndsAt(text, k, Len(text))
        BY <2>1 DEF EndsAt
      <3> QED
        BY <2>1, <3>1, <3>2 DEF DllSearchExact
    <2>7. WindowInv
      BY <2>1 DEF WindowInv
    <2>8. PendingInv /\ SeenInv
      BY <2>1 DEF PendingInv, SeenInv
    <2> QED
      BY <2>3, <2>5, <2>6, <2>7, <2>8 DEF SearchInv
  <1>2. SearchInv /\ [SearchNext]_searchVars => SearchInv'
    <2> SUFFICES ASSUME SearchInv, [SearchNext]_searchVars
                 PROVE  SearchInv'
      OBVIOUS
    <2>1. CASE UNCHANGED searchVars
      <3>1. SearchTypeOK'
        BY <2>1 DEF searchVars, SearchInv, SearchTypeOK
      <3>2. TableRight' /\ FillInv'
        BY <2>1, TableStays DEF searchVars, tableVars
      <3>3. PendingInv'
        BY <2>1 DEF searchVars, SearchInv, PendingInv, LongerFail, EndsAt, Filled
      <3>4. DllSearchExact'
        BY <2>1 DEF searchVars, SearchInv, DllSearchExact, Occurs, EndsAt
      <3>5. WindowInv' /\ SeenInv'
        BY <2>1 DEF searchVars, SearchInv, WindowInv, SeenInv, EndsAt
      <3> QED
        BY <3>1, <3>2, <3>3, <3>4, <3>5 DEF SearchInv
    <2> QED
      BY <2>1, FillFallBackKeeps, FillEntryKeeps, FallBackKeeps, MatchKeeps, ReceiveKeeps
         DEF SearchNext
  <1> QED
    BY <1>1, <1>2, PTL DEF SearchSpec

(***************************************************************************)
(* The table, the match and the window keep their types: no index of       *)
(* ReadUntilPreamble leaves the preamble or the table.                     *)
(***************************************************************************)
THEOREM SearchWellTyped == SearchSpec => []SearchTypeOK
  BY SearchInvariant, PTL DEF SearchInv

(***************************************************************************)
(* ReadUntilPreamble finds the preamble where it first ends, and never     *)
(* forgets the beginning of one, whatever the preamble and the bytes are.  *)
(***************************************************************************)
THEOREM DllSearchIsExact == SearchSpec => []DllSearchExact
  BY SearchInvariant, PTL DEF SearchInv

(***************************************************************************)
(* The window of the service finds what the search of the DLL finds, if    *)
(* the preamble does not begin with 0.                                     *)
(***************************************************************************)
THEOREM SearchesFindTheSame == SearchSpec => []SearchesAgree
  <1>1. SearchInv => SearchesAgree
    BY DEF SearchInv, SeenInv, SearchesAgree
  <1> QED
    BY <1>1, SearchInvariant, PTL

(***************************************************************************)
(* Neither inner loop of ReadUntilPreamble runs for ever: each turn makes  *)
(* the match shorter, until the byte is matched or the entry is filled.    *)
(***************************************************************************)
LoopsShrink ==
  [][/\ pending /\ pending' => matched' < matched
     /\ ~Filled /\ kLps' = kLps => len' < len]_searchVars

THEOREM SearchLoopsEnd == SearchSpec => LoopsShrink
  <1>1. SearchInv /\ [SearchNext]_searchVars =>
          [/\ pending /\ pending' => matched' < matched
           /\ ~Filled /\ kLps' = kLps => len' < len]_searchVars
    <2> SUFFICES ASSUME SearchInv, SearchNext
                 PROVE  /\ pending /\ pending' => matched' < matched
                        /\ ~Filled /\ kLps' = kLps => len' < len
      OBVIOUS
    <2>1. CASE FillFallBack
      <3>1. ~pending /\ len \in 1 .. Len(kLps) /\ len' = kLps[len]
        BY <2>1, SearchTypes
           DEF SearchInv, FillInv, PendingInv, FillFallBack, Fails
      <3> QED
        BY <3>1 DEF SearchInv, TableRight
    <2>2. CASE FillEntry
      <3>1. ~pending /\ kLps' = Append(kLps, len') /\ kLps \in Seq(0 .. N - 1)
        BY <2>2 DEF SearchInv, SearchTypeOK, PendingInv, FillEntry
      <3>2. kLps' # kLps
        <4> DEFINE x == len'
        <4>1. kLps' = Append(kLps, x) /\ kLps \in Seq(0 .. N - 1)
          BY <3>1
        <4> HIDE DEF x
        <4>2. Len(Append(kLps, x)) = Len(kLps) + 1 /\ Len(kLps) \in Nat
          BY <4>1
        <4> QED
          BY <4>1, <4>2
      <3> QED
        BY <3>1, <3>2
    <2>3. CASE FallBack
      <3>1. Filled /\ matched \in 1 .. Len(kLps) /\ matched' = kLps[matched]
        BY <2>3, SearchTypes DEF SearchInv, PendingInv, FallBack, Fails, Filled
      <3> QED
        BY <3>1 DEF SearchInv, TableRight
    <2>4. CASE Match
      BY <2>4 DEF Match, SearchInv, PendingInv
    <2>5. CASE \E b \in Bytes : Receive(b)
      BY <2>5 DEF Receive
    <2> QED
      BY <2>1, <2>2, <2>3, <2>4, <2>5 DEF SearchNext
  <1> QED
    BY <1>1, SearchInvariant, PTL DEF SearchSpec, LoopsShrink
=============================================================================
