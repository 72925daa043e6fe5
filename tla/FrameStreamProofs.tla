-------------------------- MODULE FrameStreamProofs --------------------------
(***************************************************************************)
(* Where the frames of a stream lie, for every length of preamble and      *)
(* header, every set of payloads and any number of frames.                 *)
(***************************************************************************)
EXTENDS FrameStream, TLAPS

Frame == [start : Nat, size : Nat, raw : Nat]
FrameEnd(i) == frames[i].start + P + H + frames[i].raw

\* Frames lie one behind the other, from the start of the stream on.
EndToEnd ==
  /\ \A i \in DOMAIN frames : frames[i].start = IF i = 1 THEN 0 ELSE FrameEnd(i - 1)
  /\ \A i, j \in DOMAIN frames : i < j => FrameEnd(i) <= frames[j].start

\* What is written ends where the current frame says.
WrittenUpTo ==
  /\ part = "preamble" => written = IF frames = <<>> THEN 0 ELSE FrameEnd(Len(frames))
  /\ part = "header" => frames # <<>> /\ written = Current.start + P
  /\ part = "data" => frames # <<>> /\ written = Current.start + P + H

StreamInv ==
  /\ StreamTypeOK
  /\ EndToEnd
  /\ WrittenUpTo

-----------------------------------------------------------------------------
\* The last element of a sequence.
LEMMA LastOfSeq ==
  ASSUME NEW S, NEW s \in Seq(S)
  PROVE  /\ Len(s) \in Nat /\ DOMAIN s = 1 .. Len(s)
         /\ s = <<>> <=> Len(s) = 0
         /\ s # <<>> => Len(s) \in DOMAIN s /\ s[Len(s)] \in S
  OBVIOUS

\* One element more.
LEMMA AppendToSeq ==
  ASSUME NEW S, NEW s \in Seq(S), NEW x \in S
  PROVE  /\ Append(s, x) \in Seq(S) /\ Append(s, x) # <<>>
         /\ Len(Append(s, x)) = Len(s) + 1
         /\ \A i \in DOMAIN s : Append(s, x)[i] = s[i]
         /\ Append(s, x)[Len(s) + 1] = x
  OBVIOUS

\* Frames and their parts are numbers.
LEMMA FrameTypes ==
  ASSUME StreamTypeOK
  PROVE  /\ frames \in Seq(Frame) /\ Len(frames) \in Nat /\ DOMAIN frames = 1 .. Len(frames)
         /\ \A i \in DOMAIN frames :
              /\ i \in Nat /\ 1 <= i /\ i <= Len(frames)
              /\ frames[i].start \in Nat /\ frames[i].size \in Nat /\ frames[i].raw \in Nat
              /\ FrameEnd(i) \in Nat
         /\ P \in Nat /\ 1 <= P /\ H \in Nat /\ 1 <= H /\ P <= H
         /\ written \in Nat
         /\ frames # <<>> => Len(frames) \in DOMAIN frames
  <1>1. frames \in Seq(Frame) /\ Len(frames) \in Nat /\ DOMAIN frames = 1 .. Len(frames)
    BY DEF StreamTypeOK, Frame
  <1>2. \A i \in DOMAIN frames : frames[i] \in Frame
    BY <1>1
  <1>3. P \in Nat /\ 1 <= P /\ H \in Nat /\ 1 <= H /\ P <= H
    BY StreamConstantsOK
  <1>4. \A i \in DOMAIN frames :
          /\ i \in Nat /\ 1 <= i /\ i <= Len(frames)
          /\ frames[i].start \in Nat /\ frames[i].size \in Nat /\ frames[i].raw \in Nat
    BY <1>1, <1>2 DEF Frame
  <1>5. frames # <<>> => Len(frames) \in DOMAIN frames
    BY <1>1
  <1>6. \A i \in DOMAIN frames : FrameEnd(i) \in Nat
    BY <1>3, <1>4 DEF FrameEnd
  <1>7. written \in Nat
    BY DEF StreamTypeOK
  <1> QED
    BY <1>1, <1>3, <1>4, <1>5, <1>6, <1>7

\* A complete preamble is written, and everything before the last frame is.
LEMMA FramesWritten ==
  ASSUME StreamInv
  PROVE  /\ \A i \in DOMAIN frames : frames[i].start + P <= written
         /\ \A i \in DOMAIN frames : i < Len(frames) => FrameEnd(i) + P <= written
         /\ frames = <<>> => written = 0
         /\ frames # <<>> => written <= FrameEnd(Len(frames))
         /\ part = "preamble" => \A i \in DOMAIN frames : FrameEnd(i) <= written
         /\ \A i, j \in DOMAIN frames : i < j <=> frames[i].start < frames[j].start
  <1> USE FrameTypes DEF StreamInv
  <1>1. ASSUME frames # <<>>
        PROVE  Current.start + P <= written /\ written <= FrameEnd(Len(frames))
    <2>1. /\ FrameEnd(Len(frames)) = Current.start + P + H + Current.raw
          /\ Current.start \in Nat /\ Current.raw \in Nat
          /\ P \in Nat /\ H \in Nat /\ written \in Nat
      BY <1>1 DEF Current, FrameEnd
    <2>2. part \in {"preamble", "header", "data"}
      BY DEF StreamTypeOK
    <2>3. \/ written = FrameEnd(Len(frames))
          \/ written = Current.start + P
          \/ written = Current.start + P + H
      BY <1>1, <2>2 DEF WrittenUpTo
    <2> QED
      BY <2>1, <2>3
  <1>2. \A i \in DOMAIN frames : i < Len(frames) => FrameEnd(i) <= Current.start
    BY DEF EndToEnd, Current
  <1>3. \A i \in DOMAIN frames : frames[i].start + P <= FrameEnd(i)
    BY DEF FrameEnd
  <1>4. \A i \in DOMAIN frames : i = Len(frames) \/ i < Len(frames)
    OBVIOUS
  <1>5. \A i \in DOMAIN frames : frames # <<>>
    OBVIOUS
  <1>6. /\ \A i \in DOMAIN frames : i < Len(frames) => FrameEnd(i) + P <= written
        /\ \A i \in DOMAIN frames : frames[i].start + P <= written
    <2>1. ASSUME NEW i \in DOMAIN frames, i < Len(frames)
          PROVE  FrameEnd(i) + P <= written
      <3>1. /\ FrameEnd(i) <= Current.start /\ Current.start + P <= written
            /\ Current.start \in Nat /\ FrameEnd(i) \in Nat /\ P \in Nat /\ written \in Nat
        BY <1>1, <1>2, <1>5, <2>1 DEF Current
      <3> QED
        BY <3>1
    <2>2. ASSUME NEW i \in DOMAIN frames
          PROVE  frames[i].start + P <= written
      <3>1. CASE i = Len(frames)
        BY <1>1, <1>5, <3>1 DEF Current
      <3>2. CASE i < Len(frames)
        <4>1. /\ FrameEnd(i) + P <= written /\ frames[i].start + P <= FrameEnd(i)
              /\ FrameEnd(i) \in Nat /\ P \in Nat /\ written \in Nat
              /\ frames[i].start \in Nat
          BY <1>3, <2>1, <3>2
        <4> QED
          BY <4>1
      <3> QED
        BY <1>4, <3>1, <3>2
    <2> QED
      BY <2>1, <2>2
  <1>7. part = "preamble" => \A i \in DOMAIN frames : FrameEnd(i) <= written
    BY <1>1, <1>2, <1>4, <1>5, <1>6 DEF WrittenUpTo
  <1>8. frames = <<>> => written = 0
    BY DEF WrittenUpTo, StreamTypeOK
  <1>9. \A i, j \in DOMAIN frames : i < j => frames[i].start < frames[j].start
    BY <1>3 DEF EndToEnd
  <1>10. \A i, j \in DOMAIN frames : i < j <=> frames[i].start < frames[j].start
    <2> HIDE FrameTypes
    <2>1. \A i \in DOMAIN frames : i \in Nat /\ frames[i].start \in Nat
      BY FrameTypes, Zenon
    <2> SUFFICES ASSUME NEW i \in DOMAIN frames, NEW j \in DOMAIN frames
                 PROVE  i < j <=> frames[i].start < frames[j].start
      OBVIOUS
    <2>2. /\ i \in Nat /\ frames[i].start \in Nat
          /\ j \in Nat /\ frames[j].start \in Nat
      BY <2>1
    <2>3. /\ i < j => frames[i].start < frames[j].start
          /\ j < i => frames[j].start < frames[i].start
      BY <1>9
    <2> QED
      BY <2>2, <2>3
  <1> QED
    BY <1>1, <1>6, <1>7, <1>8, <1>10

\* A write begins a frame behind everything written or leaves the frames alone.
LEMMA WriteEffect ==
  ASSUME StreamInv, WriteStep
  PROVE  /\ Len(frames') \in {Len(frames), Len(frames) + 1}
         /\ DOMAIN frames' = 1 .. Len(frames')
         /\ \A i \in DOMAIN frames : i \in DOMAIN frames' /\ frames'[i] = frames[i]
         /\ written' \in Nat /\ written <= written'
         /\ \A i \in DOMAIN frames' \ DOMAIN frames :
              /\ i = Len(frames) + 1 /\ frames'[i].start = written /\ part = "preamble"
              /\ frames'[i].size \in Nat /\ frames'[i].raw \in Nat
              /\ written' = written + P /\ part' = "header"
         /\ frames' = frames => part' # "header"
         /\ StreamTypeOK'
  <1> USE FrameTypes DEF StreamInv
  <1>1. CASE WritePreamble
    <2>1. PICK p \in Payloads :
            frames' = Append(frames, [start |-> written, size |-> p.size, raw |-> p.raw])
      BY <1>1 DEF WritePreamble
    <2> DEFINE f == [start |-> written, size |-> p.size, raw |-> p.raw]
    <2>2. p.size \in Nat /\ p.raw \in Nat
      BY StreamConstantsOK
    <2>3. f \in Frame /\ f.start = written /\ f.size \in Nat /\ f.raw \in Nat
      BY <2>2 DEF Frame
    <2> HIDE DEF f
    <2>4. /\ frames' \in Seq(Frame) /\ Len(frames') = Len(frames) + 1
          /\ DOMAIN frames' = 1 .. Len(frames')
          /\ \A i \in 1 .. Len(frames) : frames'[i] = frames[i]
          /\ frames'[Len(frames) + 1] = f
      BY <2>1, <2>3 DEF f
    <2>5. written' = written + P /\ part' = "header" /\ part = "preamble"
      BY <1>1 DEF WritePreamble
    <2>6. StreamTypeOK'
      BY <2>4, <2>5 DEF StreamTypeOK, Frame
    <2>7. frames' # frames
      BY <2>4
    <2>8. \A i \in DOMAIN frames' \ DOMAIN frames : i = Len(frames) + 1
      BY <2>4
    <2> QED
      BY <2>3, <2>4, <2>5, <2>6, <2>7, <2>8
  <1>2. CASE WriteHeader \/ WriteData
    <2>1. frames' = frames /\ frames # <<>> /\ part' \in {"preamble", "data"}
      BY <1>2 DEF WriteHeader, WriteData, WrittenUpTo
    <2>2. Current.raw \in Nat
      BY <2>1 DEF Current
    <2>3. written' \in Nat /\ written <= written'
      BY <1>2, <2>2 DEF WriteHeader, WriteData
    <2>4. StreamTypeOK'
      BY <2>1, <2>3 DEF StreamTypeOK
    <2> QED
      BY <2>1, <2>3, <2>4
  <1> QED
    BY <1>1, <1>2 DEF WriteStep

LEMMA StreamStarts ==
  ASSUME StreamInit
  PROVE  StreamInv
  <1>1. StreamTypeOK
    BY DEF StreamInit, StreamTypeOK
  <1>2. frames = <<>> /\ DOMAIN frames = {}
    BY DEF StreamInit
  <1> QED
    BY <1>1, <1>2 DEF StreamInit, StreamInv, EndToEnd, WrittenUpTo

LEMMA WriteKeeps ==
  ASSUME StreamInv, WriteStep
  PROVE  StreamInv'
  <1> USE FrameTypes DEF StreamInv
  <1>1. StreamTypeOK'
    BY WriteEffect, Zenon
  <1>2. CASE WritePreamble
    <2>1. /\ Len(frames') = Len(frames) + 1 /\ DOMAIN frames' = 1 .. Len(frames) + 1
          /\ \A i \in DOMAIN frames : frames'[i] = frames[i] /\ FrameEnd(i)' = FrameEnd(i)
          /\ frames'[Len(frames) + 1].start = written
          /\ written' = written + P /\ part = "preamble" /\ part' = "header"
      <3>1. part = "preamble" /\ part' = "header" /\ written' = written + P
        BY <1>2 DEF WritePreamble
      <3>2. Len(frames') = Len(frames) + 1
        BY <1>2 DEF WritePreamble
      <3>3. DOMAIN frames' = 1 .. Len(frames) + 1 /\ Len(frames) + 1 \notin DOMAIN frames
        <4>1. DOMAIN frames' = 1 .. Len(frames') /\ DOMAIN frames = 1 .. Len(frames)
          BY WriteEffect, Zenon
        <4>2. Len(frames) \in Nat
          BY Zenon
        <4> HIDE FrameTypes
        <4> QED
          BY <3>2, <4>1, <4>2
      <3>4. \A i \in DOMAIN frames : frames'[i] = frames[i]
        BY WriteEffect, Zenon
      <3>5. \A i \in DOMAIN frames : FrameEnd(i)' = FrameEnd(i)
        BY <3>4, Zenon DEF FrameEnd
      <3>6. frames'[Len(frames) + 1].start = written
        <4>1. Len(frames) + 1 \in DOMAIN frames' \ DOMAIN frames
          BY <3>3
        <4> QED
          BY <4>1, WriteEffect, Zenon
      <3> QED
        BY <3>1, <3>2, <3>3, <3>4, <3>5, <3>6
    <2>2. /\ \A i \in DOMAIN frames : FrameEnd(i) <= written
          /\ written = IF frames = <<>> THEN 0 ELSE FrameEnd(Len(frames))
      BY <2>1, FramesWritten DEF WrittenUpTo
    <2>3. EndToEnd'
      <3>1. ASSUME NEW i \in DOMAIN frames'
            PROVE  frames'[i].start = IF i = 1 THEN 0 ELSE FrameEnd(i - 1)'
        <4>1. CASE i \in DOMAIN frames
          <5>1. i = 1 \/ (i # 1 /\ i - 1 \in DOMAIN frames)
            BY <4>1
          <5>2. frames'[i].start = IF i = 1 THEN 0 ELSE FrameEnd(i - 1)
            BY <2>1, <4>1 DEF EndToEnd
          <5> QED
            BY <2>1, <5>1, <5>2
        <4>2. CASE i = Len(frames) + 1
          <5>1. CASE frames = <<>>
            <6>1. i = 1 /\ frames'[i].start = 0
              BY <2>1, <2>2, <4>2, <5>1
            <6> QED
              BY <6>1
          <5>2. CASE frames # <<>>
            <6>1. i # 1 /\ i - 1 = Len(frames) /\ Len(frames) \in DOMAIN frames
              BY <4>2, <5>2
            <6> QED
              BY <2>1, <2>2, <4>2, <5>2, <6>1
          <5> QED
            BY <5>1, <5>2
        <4> QED
          BY <2>1, <4>1, <4>2
      <3>2. \A i, j \in DOMAIN frames' : i < j => FrameEnd(i)' <= frames'[j].start
        <4>1. \A i, j \in DOMAIN frames' :
                i < j => i \in DOMAIN frames /\ (j \in DOMAIN frames \/ j = Len(frames) + 1)
          BY <2>1
        <4> QED
          BY <2>1, <2>2, <4>1 DEF EndToEnd
      <3> QED
        BY <3>1, <3>2 DEF EndToEnd
    <2>4. WrittenUpTo'
      <3>1. frames' # <<>> /\ Current' = frames'[Len(frames) + 1]
        BY <2>1 DEF Current
      <3> QED
        BY <2>1, <3>1 DEF WrittenUpTo
    <2> QED
      BY <1>1, <2>3, <2>4
  <1>3. CASE WriteHeader \/ WriteData
    <2>1. frames' = frames /\ frames # <<>>
      BY <1>3 DEF WriteHeader, WriteData, WrittenUpTo
    <2>2. EndToEnd'
      BY <2>1 DEF EndToEnd, FrameEnd
    <2>3. WrittenUpTo'
      <3>1. Current' = Current /\ FrameEnd(Len(frames))' = FrameEnd(Len(frames))
            /\ FrameEnd(Len(frames)) = Current.start + P + H + Current.raw
            /\ Current.start \in Nat /\ Current.raw \in Nat
        BY <2>1 DEF Current, FrameEnd
      <3>2. CASE WriteHeader
        BY <2>1, <3>1, <3>2 DEF WrittenUpTo, WriteHeader
      <3>3. CASE WriteData
        BY <2>1, <3>1, <3>3 DEF WrittenUpTo, WriteData
      <3> QED
        BY <1>3, <3>2, <3>3
    <2> QED
      BY <1>1, <2>2, <2>3
  <1> QED
    BY <1>2, <1>3 DEF WriteStep
=============================================================================
