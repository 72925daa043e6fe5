------------------------ MODULE CheckpointSyncProofs ------------------------
(* Proofs about CheckpointSync: types, the conservation of checkpoints, what *)
(* follows from it, and that CheckpointSync implements CheckpointTokens, for *)
(* every quota, every set of frames and every bound.                         *)
EXTENDS CheckpointSync, SequenceTheorems, FiniteSetTheorems, TLAPS

Frames == AppFrames \cup {CheckpointFrame}

\* The positions of the checkpoints in a queue.
TokenPos(q) == {i \in DOMAIN q : q[i].sig = "Checkpoint"}

-----------------------------------------------------------------------------
(* Counting checkpoints in queues.                                         *)

\* The positions counted by Tokens are finitely many, so the count is a number.
LEMMA TokensType ==
  ASSUME NEW S, NEW q \in Seq(S)
  PROVE  /\ TokenPos(q) \subseteq 1 .. Len(q)
         /\ IsFiniteSet(TokenPos(q))
         /\ Tokens(q) = Cardinality(TokenPos(q))
         /\ Tokens(q) \in Nat
  <1>1. Len(q) \in Nat /\ DOMAIN q = 1 .. Len(q)
    BY LenProperties
  <1>2. TokenPos(q) \subseteq 1 .. Len(q)
    BY <1>1 DEF TokenPos
  <1>3. IsFiniteSet(1 .. Len(q))
    BY <1>1, FS_Interval
  <1>4. IsFiniteSet(TokenPos(q))
    BY <1>2, <1>3, FS_Subset
  <1>5. Tokens(q) = Cardinality(TokenPos(q))
    BY DEF Tokens, TokenPos
  <1> QED
    BY <1>2, <1>4, <1>5, FS_CardinalityType

\* An empty queue holds no checkpoint.
LEMMA TokensEmpty == Tokens(<<>>) = 0
  <1>1. TokenPos(<<>>) = {}
    BY DEF TokenPos
  <1> QED
    BY <1>1, FS_EmptySet DEF Tokens, TokenPos

\* A queue of one frame holds a checkpoint exactly if the frame is one.
LEMMA TokensSingle ==
  ASSUME NEW f
  PROVE  Tokens(<<f>>) = IF f.sig = "Checkpoint" THEN 1 ELSE 0
  <1>1. TokenPos(<<f>>) = IF f.sig = "Checkpoint" THEN {1} ELSE {}
    BY DEF TokenPos
  <1> QED
    BY <1>1, FS_EmptySet, FS_Singleton DEF Tokens, TokenPos

\* Concatenated queues hold the checkpoints of both.
LEMMA TokensConcat ==
  ASSUME NEW S, NEW s \in Seq(S), NEW t \in Seq(S)
  PROVE  Tokens(s \o t) = Tokens(s) + Tokens(t)
  <1> DEFINE shifted == {i + Len(s) : i \in TokenPos(t)}
             shift == [i \in TokenPos(t) |-> i + Len(s)]
  <1>1. /\ s \o t \in Seq(S)
        /\ Len(s \o t) = Len(s) + Len(t)
        /\ \A i \in 1 .. Len(s) + Len(t) :
             (s \o t)[i] = IF i <= Len(s) THEN s[i] ELSE t[i - Len(s)]
    BY ConcatProperties
  <1>2. Len(s) \in Nat /\ Len(t) \in Nat
    BY LenProperties
  <1>3. /\ DOMAIN s = 1 .. Len(s)
        /\ DOMAIN t = 1 .. Len(t)
        /\ DOMAIN (s \o t) = 1 .. Len(s) + Len(t)
    BY <1>1, LenProperties
  <1>4. TokenPos(t) \subseteq 1 .. Len(t) /\ TokenPos(s) \subseteq 1 .. Len(s)
    BY TokensType
  <1>5. TokenPos(s \o t) = TokenPos(s) \cup shifted
    <2>1. ASSUME NEW i \in TokenPos(s \o t)
          PROVE  i \in TokenPos(s) \cup shifted
      <3>1. i \in 1 .. Len(s) + Len(t) /\ (s \o t)[i].sig = "Checkpoint"
        BY <1>3 DEF TokenPos
      <3>2. CASE i <= Len(s)
        BY <1>1, <1>2, <1>3, <3>1, <3>2 DEF TokenPos
      <3>3. CASE ~(i <= Len(s))
        <4>1. i - Len(s) \in 1 .. Len(t) /\ t[i - Len(s)].sig = "Checkpoint"
          BY <1>1, <1>2, <3>1, <3>3
        <4>2. i - Len(s) \in TokenPos(t) /\ i = (i - Len(s)) + Len(s)
          BY <1>2, <1>3, <3>1, <4>1 DEF TokenPos
        <4> QED
          BY <4>2
      <3> QED
        BY <3>2, <3>3
    <2>2. ASSUME NEW i \in TokenPos(s)
          PROVE  i \in TokenPos(s \o t)
      <3>1. i \in 1 .. Len(s) /\ s[i].sig = "Checkpoint"
        BY <1>3 DEF TokenPos
      <3>2. i \in 1 .. Len(s) + Len(t) /\ (s \o t)[i] = s[i]
        BY <1>1, <1>2, <3>1
      <3> QED
        BY <1>3, <3>1, <3>2 DEF TokenPos
    <2>3. ASSUME NEW i \in TokenPos(t)
          PROVE  i + Len(s) \in TokenPos(s \o t)
      <3>1. i \in 1 .. Len(t) /\ t[i].sig = "Checkpoint"
        BY <1>3 DEF TokenPos
      <3>2. /\ i + Len(s) \in 1 .. Len(s) + Len(t)
            /\ ~(i + Len(s) <= Len(s))
            /\ (i + Len(s)) - Len(s) = i
        BY <1>2, <3>1
      <3>3. (s \o t)[i + Len(s)] = t[i]
        BY <1>1, <3>2
      <3> QED
        BY <1>3, <3>1, <3>2, <3>3 DEF TokenPos
    <2> QED
      BY <2>1, <2>2, <2>3
  <1>6. /\ IsFiniteSet(shifted)
        /\ Cardinality(shifted) = Cardinality(TokenPos(t))
    <2>1. shift \in Bijection(TokenPos(t), shifted)
      <3>1. shift \in [TokenPos(t) -> shifted]
        OBVIOUS
      <3>2. ASSUME NEW i \in TokenPos(t), NEW j \in TokenPos(t), shift[i] = shift[j]
            PROVE  i = j
        BY <1>2, <1>4, <3>2
      <3>3. \A k \in shifted : \E i \in TokenPos(t) : shift[i] = k
        OBVIOUS
      <3> QED
        BY <3>1, <3>2, <3>3 DEF Bijection, Injection, IsInjective, Surjection
    <2>2. ExistsBijection(TokenPos(t), shifted)
      BY <2>1 DEF ExistsBijection
    <2> QED
      BY <2>2, TokensType, FS_Bijection
  <1>7. TokenPos(s) \cap shifted = {}
    BY <1>2, <1>4
  <1>8. Cardinality(TokenPos(s \o t)) = Cardinality(TokenPos(s)) + Cardinality(TokenPos(t))
    <2>1. IsFiniteSet(TokenPos(s)) /\ Cardinality(TokenPos(s)) \in Nat
      BY TokensType, FS_CardinalityType
    <2>2. IsFiniteSet(TokenPos(t)) /\ Cardinality(TokenPos(t)) \in Nat
      BY TokensType, FS_CardinalityType
    <2> HIDE DEF shifted
    <2>3. Cardinality(TokenPos(s) \cup shifted) =
            Cardinality(TokenPos(s)) + Cardinality(shifted) - Cardinality(TokenPos(s) \cap shifted)
      BY <1>6, <2>1, FS_Union
    <2>4. Cardinality(TokenPos(s) \cap shifted) = 0
      BY <1>7, FS_EmptySet
    <2>5. Cardinality(TokenPos(s \o t)) = Cardinality(TokenPos(s) \cup shifted)
      BY <1>5
    <2> QED
      BY <1>6, <2>1, <2>2, <2>3, <2>4, <2>5
  <1>9. /\ Tokens(s \o t) = Cardinality(TokenPos(s \o t))
        /\ Tokens(s) = Cardinality(TokenPos(s))
        /\ Tokens(t) = Cardinality(TokenPos(t))
    BY DEF Tokens, TokenPos
  <1> QED
    BY <1>8, <1>9

\* Appending a frame adds what the frame counts.
LEMMA TokensAppend ==
  ASSUME NEW S, NEW q \in Seq(S), NEW f \in S
  PROVE  Tokens(Append(q, f)) = Tokens(q) + Tokens(<<f>>)
  <1>1. Append(q, f) = q \o <<f>>
    BY AppendIsConcat
  <1>2. <<f>> \in Seq(S)
    OBVIOUS
  <1> QED
    BY <1>1, <1>2, TokensConcat

\* Removing the first frame removes what that frame counts.
LEMMA TokensTail ==
  ASSUME NEW S, NEW q \in Seq(S), q # <<>>
  PROVE  Tokens(q) = Tokens(<<Head(q)>>) + Tokens(Tail(q))
  <1>1. Len(q) \in Nat \ {0}
    BY EmptySeq
  <1>2. q = <<Head(q)>> \o Tail(q)
    <2>1. SubSeq(q, 1, Len(q)) = <<q[1]>> \o SubSeq(q, 2, Len(q))
      <3>1. 1 \in 1 .. Len(q) /\ Len(q) \in 1 .. Len(q)
        BY <1>1
      <3> QED
        BY <3>1, SubSeqRecursiveFirst
    <2>2. Head(q) = q[1]
      BY <1>1
    <2> QED
      BY <2>1, <2>2, SubSeqFull, TailIsSubSeq
  <1>3. <<Head(q)>> \in Seq(S) /\ Tail(q) \in Seq(S)
    BY HeadTailProperties
  <1> QED
    BY <1>2, <1>3, TokensConcat

\* Cutting a queue in two splits the count.
LEMMA TokensSplit ==
  ASSUME NEW S, NEW q \in Seq(S), NEW k \in 0 .. Len(q)
  PROVE  Tokens(q) = Tokens(SubSeq(q, 1, k)) + Tokens(SubSeq(q, k + 1, Len(q)))
  <1>1. Len(q) \in Nat
    BY LenProperties
  <1>2. SubSeq(q, 1, k) \o SubSeq(q, k + 1, Len(q)) = q
    <2>1. /\ 1 \in 1 .. Len(q) + 1
          /\ k \in 1 - 1 .. Len(q)
          /\ Len(q) \in k .. Len(q)
      BY <1>1
    <2> QED
      BY <2>1, ConcatAdjacentSubSeq, SubSeqFull
  <1>3. SubSeq(q, 1, k) \in Seq(S) /\ SubSeq(q, k + 1, Len(q)) \in Seq(S)
    <2>1. \A i \in 1 .. Len(q) : q[i] \in S
      BY ElementOfSeq
    <2>2. \A i \in 1 .. k : q[i] \in S
      BY <1>1, <2>1
    <2>3. \A i \in k + 1 .. Len(q) : q[i] \in S
      BY <1>1, <2>1
    <2> QED
      BY <1>1, <2>2, <2>3, SubSeqProperties
  <1> QED
    BY <1>2, <1>3, TokensConcat

-----------------------------------------------------------------------------
(* Type correctness.                                                       *)

\* What FinishWrite, StopSession, Close and PeerGone leave well-typed.
LEMMA TypeCommon ==
  ASSUME NEW s \in Side, TypeOK, Common(s)
  PROVE  TypeOK'
  <1>1. CASE FinishWrite(s)
    BY <1>1 DEF FinishWrite, TypeOK
  <1>2. CASE StopSession(s)
    BY <1>2 DEF StopSession, TypeOK
  <1>3. CASE Close(s)
    BY <1>3 DEF Close, TypeOK
  <1>4. CASE PeerGone(s)
    BY <1>4 DEF PeerGone, TypeOK
  <1> QED
    BY <1>1, <1>2, <1>3, <1>4 DEF Common

\* Reading a frame leaves queues of frames, and so does answering it.
LEMMA QueueTypes ==
  ASSUME NEW s \in Side, TypeOK, wire[s] # <<>>
  PROVE  /\ wire[s] \in Seq(Frames)
         /\ Head(wire[s]) \in Frames
         /\ Tail(wire[s]) \in Seq(Frames)
         /\ Tokens(<<Head(wire[s])>>) \in {0, 1}
         /\ Tokens(Tail(wire[s])) \in Nat
         /\ Append(wire[Peer(s)], CheckpointFrame) \in Seq(Frames)
         /\ Peer(s) \in Side
         /\ Peer(s) # s
  <1>1. /\ wire[s] \in Seq(Frames)
        /\ wire[Peer(s)] \in Seq(Frames)
        /\ Peer(s) \in Side
        /\ Peer(s) # s
    BY DEF TypeOK, Frames, Side, Peer
  <1>2. Head(wire[s]) \in Frames /\ Tail(wire[s]) \in Seq(Frames)
    BY <1>1, HeadTailProperties
  <1>3. Tokens(<<Head(wire[s])>>) \in {0, 1}
    BY TokensSingle
  <1>4. Append(wire[Peer(s)], CheckpointFrame) \in Seq(Frames)
    BY <1>1, AppendProperties DEF Frames
  <1>5. Tokens(Tail(wire[s])) \in Nat
    BY <1>2, TokensType
  <1> QED
    BY <1>1, <1>2, <1>3, <1>4, <1>5

\* Consuming the head frame leaves queues of frames.
LEMMA ConsumeType ==
  ASSUME NEW s \in Side, TypeOK, wire[s] # <<>>, Consume(s)
  PROVE  wire' \in [Side -> Seq(Frames)]
  <1>1. wire \in [Side -> Seq(Frames)]
    BY DEF TypeOK, Frames
  <1> QED
    BY <1>1, QueueTypes DEF Consume

\* Answering the head frame leaves queues of frames.
LEMMA WriteType ==
  ASSUME NEW s \in Side, TypeOK, wire[s] # <<>>,
         NEW next \in {"echo", "reset"}, WriteCheckpoint(s, next)
  PROVE  /\ wire' \in [Side -> Seq(Frames)]
         /\ phase' \in [Side -> {"read", "echo", "reset"}]
  <1>1. wire \in [Side -> Seq(Frames)] /\ phase \in [Side -> {"read", "echo", "reset"}]
    BY DEF TypeOK, Frames
  <1> QED
    BY <1>1, QueueTypes DEF WriteCheckpoint

\* The handlers both sides have.
LEMMA TypeCheckpoint ==
  ASSUME NEW s \in Side, TypeOK, RequestCheckpoint(s) \/ HandleCheckpoint(s)
  PROVE  TypeOK'
  <1>1. wire[s] # <<>>
    BY DEF RequestCheckpoint, HandleCheckpoint, Reading
  <1>2. CASE RequestCheckpoint(s)
    <2>1. WriteCheckpoint(s, "reset")
      BY <1>2 DEF RequestCheckpoint
    <2>2. wire' \in [Side -> Seq(Frames)] /\ phase' \in [Side -> {"read", "echo", "reset"}]
      BY <1>1, <2>1, WriteType
    <2>3. extra' \in Nat
      BY <1>2 DEF RequestCheckpoint, TypeOK, Unsynced
    <2>4. lost' \in Nat
      <3>1. Tokens(<<Head(wire[s])>>) \in {0, 1}
        BY <1>1, QueueTypes
      <3> QED
        BY <1>2, <3>1 DEF RequestCheckpoint, TypeOK
    <2> QED
      BY <1>2, <2>2, <2>3, <2>4 DEF RequestCheckpoint, TypeOK, Frames
  <1>3. CASE HandleCheckpoint(s)
    <2>1. CASE Consume(s) /\ base' = [base EXCEPT ![s] = "Ready"] /\ UNCHANGED phase
      <3>1. wire' \in [Side -> Seq(Frames)]
        BY <1>1, <2>1, ConsumeType
      <3> QED
        BY <1>3, <2>1, <3>1 DEF HandleCheckpoint, TypeOK, Frames
    <2>2. CASE WriteCheckpoint(s, "echo") /\ UNCHANGED base
      <3>1. wire' \in [Side -> Seq(Frames)] /\ phase' \in [Side -> {"read", "echo", "reset"}]
        BY <1>1, <2>2, WriteType
      <3> QED
        BY <1>3, <2>2, <3>1 DEF HandleCheckpoint, TypeOK, Frames
    <2> QED
      BY <1>3, <2>1, <2>2 DEF HandleCheckpoint
  <1> QED
    BY <1>2, <1>3

\* The handlers of the DLL.
LEMMA TypeDll ==
  ASSUME TypeOK, DllRegular \/ DllTest \/ DllInvalid
  PROVE  TypeOK'
  <1>1. wire["dll"] # <<>> /\ "dll" \in Side
    BY DEF DllRegular, DllTest, DllInvalid, Reading, Side
  <1>2. CASE DllRegular
    <2>1. wire' \in [Side -> Seq(Frames)]
      BY <1>1, <1>2, ConsumeType DEF DllRegular
    <2> QED
      BY <1>2, <2>1 DEF DllRegular, TypeOK, Frames
  <1>3. CASE DllTest
    <2>1. wire' \in [Side -> Seq(Frames)]
      BY <1>1, <1>3, ConsumeType DEF DllTest
    <2> QED
      BY <1>3, <2>1 DEF DllTest, TypeOK, Frames
  <1>4. CASE DllInvalid
    <2>1. wire' \in [Side -> Seq(Frames)] /\ phase' \in [Side -> {"read", "echo", "reset"}]
      BY <1>1, <1>4, WriteType DEF DllInvalid
    <2> QED
      BY <1>4, <2>1 DEF DllInvalid, TypeOK, Frames
  <1> QED
    BY <1>2, <1>3, <1>4

\* What a skip that reads too far swallows, and what it leaves.
LEMMA OverRead ==
  ASSUME TypeOK, SvcConsume
  PROVE  \E k \in 0 .. Len(Tail(wire["svc"])) :
           LET rest == Tail(wire["svc"])
               taken == SubSeq(rest, 1, k)
               left == SubSeq(rest, k + 1, Len(rest))
           IN /\ taken \in Seq(Frames)
              /\ left \in Seq(Frames)
              /\ Tokens(taken) \in Nat
              /\ Tokens(left) \in Nat
              /\ Tokens(rest) = Tokens(taken) + Tokens(left)
              /\ wire' = [wire EXCEPT !["svc"] = left]
              /\ lost' = lost + Tokens(taken)
  <1> DEFINE rest == Tail(wire["svc"])
             over == IF Head(wire["svc"]).size = "body" THEN Len(rest) ELSE 0
  <1>1. wire["svc"] # <<>> /\ "svc" \in Side
    BY DEF SvcConsume, Reading, Side
  <1>2. rest \in Seq(Frames)
    BY <1>1, QueueTypes
  <1>3. Len(rest) \in Nat
    BY <1>2, LenProperties
  <1>4. PICK k \in 0 .. over :
          /\ wire' = [wire EXCEPT !["svc"] = SubSeq(rest, k + 1, Len(rest))]
          /\ lost' = lost + Tokens(SubSeq(rest, 1, k))
    BY DEF SvcConsume
  <1>5. k \in 0 .. Len(rest)
    BY <1>3, <1>4
  <1> HIDE DEF rest, over
  <1>6. SubSeq(rest, k + 1, Len(rest)) \in Seq(Frames) /\ SubSeq(rest, 1, k) \in Seq(Frames)
    <2>1. \A i \in 1 .. Len(rest) : rest[i] \in Frames
      BY <1>2, ElementOfSeq
    <2>2. /\ \A i \in 1 .. k : rest[i] \in Frames
          /\ \A i \in k + 1 .. Len(rest) : rest[i] \in Frames
      BY <1>3, <1>5, <2>1
    <2> QED
      BY <1>3, <1>5, <2>2, SubSeqProperties
  <1>7. Tokens(rest) = Tokens(SubSeq(rest, 1, k)) + Tokens(SubSeq(rest, k + 1, Len(rest)))
    BY <1>2, <1>5, TokensSplit
  <1>8. Tokens(SubSeq(rest, 1, k)) \in Nat /\ Tokens(SubSeq(rest, k + 1, Len(rest))) \in Nat
    BY <1>6, TokensType
  <1> QED
    BY <1>4, <1>5, <1>6, <1>7, <1>8 DEF rest

\* The handlers of the service.
LEMMA TypeSvc ==
  ASSUME TypeOK, SvcMiss \/ SvcTooBig \/ SvcConsume
  PROVE  TypeOK'
  <1>1. wire["svc"] # <<>> /\ "svc" \in Side
    BY DEF SvcMiss, SvcTooBig, SvcConsume, Reading, Side
  <1>2. CASE SvcMiss
    <2>1. wire' \in [Side -> Seq(Frames)]
      BY <1>1, <1>2, ConsumeType DEF SvcMiss
    <2>2. lost' \in Nat
      <3>1. Tokens(<<Head(wire["svc"])>>) \in {0, 1}
        BY <1>1, QueueTypes
      <3> QED
        BY <1>2, <3>1 DEF SvcMiss, TypeOK
    <2> QED
      BY <1>2, <2>1, <2>2 DEF SvcMiss, TypeOK, Frames
  <1>3. CASE SvcTooBig
    <2>1. wire' \in [Side -> Seq(Frames)]
      BY <1>1, <1>3, ConsumeType DEF SvcTooBig
    <2> QED
      BY <1>3, <2>1 DEF SvcTooBig, TypeOK, Frames
  <1>4. CASE SvcConsume
    <2>1. wire \in [Side -> Seq(Frames)] /\ lost \in Nat
      BY DEF TypeOK, Frames
    <2>2. wire' \in [Side -> Seq(Frames)] /\ lost' \in Nat
      <3>1. PICK left \in Seq(Frames) : wire' = [wire EXCEPT !["svc"] = left]
        BY <1>4, OverRead
      <3>2. PICK n \in Nat : lost' = lost + n
        BY <1>4, OverRead
      <3>3. lost' \in Nat
        BY <2>1, <3>2
      <3>4. wire' \in [Side -> Seq(Frames)]
        BY <2>1, <3>1
      <3> QED
        BY <3>3, <3>4
    <2> QED
      BY <1>4, <2>2 DEF SvcConsume, TypeOK, Frames
  <1> QED
    BY <1>2, <1>3, <1>4

\* The callers of the frame writers, the stop requests and the deaths.
LEMMA TypeEnvironment ==
  ASSUME NEW s \in Side, TypeOK, AppWrite(s) \/ RequestStop(s) \/ Kill(s)
  PROVE  TypeOK'
  <1>1. CASE AppWrite(s)
    <2>1. PICK f \in AppFrames : wire' = [wire EXCEPT ![Peer(s)] = Append(@, f)]
      BY <1>1 DEF AppWrite
    <2>2. Peer(s) \in Side /\ wire[Peer(s)] \in Seq(Frames) /\ f \in Frames
      BY DEF TypeOK, Frames, Side, Peer
    <2>3. Append(wire[Peer(s)], f) \in Seq(Frames)
      BY <2>2, AppendProperties
    <2> QED
      BY <1>1, <2>1, <2>2, <2>3 DEF AppWrite, TypeOK, Frames
  <1>2. CASE RequestStop(s)
    BY <1>2 DEF RequestStop, TypeOK
  <1>3. CASE Kill(s)
    BY <1>3 DEF Kill, TypeOK
  <1> QED
    BY <1>1, <1>2, <1>3

(***************************************************************************)
(* Every state of the two sessions is well-typed: the queues hold frames   *)
(* somebody can write, and the counters never leave the naturals.          *)
(***************************************************************************)
THEOREM TypeCorrect == Spec => []TypeOK
  <1>1. Init => TypeOK
    BY DEF Init, TypeOK, Side
  <1>2. TypeOK /\ [Next]_vars => TypeOK'
    <2> SUFFICES ASSUME TypeOK, [Next]_vars
                 PROVE  TypeOK'
      OBVIOUS
    <2>1. CASE DllStep
      BY <2>1, TypeCommon, TypeCheckpoint, TypeDll DEF DllStep, DllBroken, DllCheckpoint, Side
    <2>2. CASE SvcStep
      BY <2>2, TypeCommon, TypeCheckpoint, TypeSvc DEF SvcStep, SvcBroken, SvcCheckpoint, Side
    <2>3. CASE Environment
      BY <2>3, TypeEnvironment DEF Environment
    <2>4. CASE UNCHANGED vars
      BY <2>4 DEF vars, TypeOK
    <2> QED
      BY <2>1, <2>2, <2>3, <2>4 DEF Next
  <1> QED
    BY <1>1, <1>2, PTL DEF Spec

-----------------------------------------------------------------------------
(* Conservation of checkpoints.                                            *)

\* The counts of a well-typed state, seen from either side.
LEMMA Counts ==
  ASSUME NEW s \in Side, TypeOK
  PROVE  /\ Peer(s) \in Side
         /\ Peer(s) # s
         /\ Tokens(wire[s]) \in Nat
         /\ Tokens(wire[Peer(s)]) \in Nat
         /\ InFlight = Tokens(wire[s]) + Tokens(wire[Peer(s)])
         /\ InFlight \in Nat
         /\ Unsynced(s) \in {0, 1}
         /\ Unsynced(Peer(s)) \in {0, 1}
         /\ UnsyncedCount = Unsynced(s) + Unsynced(Peer(s))
         /\ UnsyncedCount \in Nat
  <1>1. Peer(s) \in Side /\ Peer(s) # s /\ Side = {"dll", "svc"}
    BY DEF Side, Peer
  <1>2. \A r \in Side : wire[r] \in Seq(Frames)
    BY DEF TypeOK, Frames
  <1>3. \A r \in Side : Tokens(wire[r]) \in Nat
    BY <1>2, TokensType
  <1>4. InFlight = Tokens(wire[s]) + Tokens(wire[Peer(s)]) /\ InFlight \in Nat
    BY <1>1, <1>3 DEF InFlight
  <1>5. \A r \in Side : Unsynced(r) \in {0, 1}
    BY DEF Unsynced
  <1>6. UnsyncedCount = Unsynced(s) + Unsynced(Peer(s)) /\ UnsyncedCount \in Nat
    BY <1>1, <1>5 DEF UnsyncedCount
  <1> QED
    BY <1>1, <1>3, <1>4, <1>5, <1>6

\* Consuming the head frame takes what it counts out of the queues.
LEMMA ConsumeCount ==
  ASSUME NEW s \in Side, TypeOK, wire[s] # <<>>, Consume(s)
  PROVE  InFlight' = InFlight - Tokens(<<Head(wire[s])>>)
  <1>1. /\ wire'[s] = Tail(wire[s])
        /\ wire'[Peer(s)] = wire[Peer(s)]
    BY QueueTypes DEF Consume, TypeOK
  <1>2. Tokens(wire[s]) = Tokens(<<Head(wire[s])>>) + Tokens(Tail(wire[s]))
    BY QueueTypes, TokensTail
  <1>3. /\ Tokens(Tail(wire[s])) \in Nat
        /\ Tokens(<<Head(wire[s])>>) \in {0, 1}
    BY QueueTypes
  <1>4. InFlight' = Tokens(Tail(wire[s])) + Tokens(wire[Peer(s)])
    BY <1>1, <1>3, Counts DEF InFlight, Side, Peer
  <1> QED
    BY <1>2, <1>3, <1>4, Counts

\* Answering the head frame adds one checkpoint besides.
LEMMA WriteCount ==
  ASSUME NEW s \in Side, TypeOK, wire[s] # <<>>, NEW next, WriteCheckpoint(s, next)
  PROVE  InFlight' = InFlight - Tokens(<<Head(wire[s])>>) + 1
  <1>1. /\ wire'[s] = Tail(wire[s])
        /\ wire'[Peer(s)] = Append(wire[Peer(s)], CheckpointFrame)
    BY QueueTypes DEF WriteCheckpoint, TypeOK
  <1>2. Tokens(wire[s]) = Tokens(<<Head(wire[s])>>) + Tokens(Tail(wire[s]))
    BY QueueTypes, TokensTail
  <1>3. /\ Tokens(Tail(wire[s])) \in Nat
        /\ Tokens(<<Head(wire[s])>>) \in {0, 1}
    BY QueueTypes
  <1>4. Tokens(Append(wire[Peer(s)], CheckpointFrame)) = Tokens(wire[Peer(s)]) + 1
    <2>1. wire[Peer(s)] \in Seq(Frames) /\ CheckpointFrame \in Frames
      BY QueueTypes DEF TypeOK, Frames
    <2>2. Tokens(<<CheckpointFrame>>) = 1
      BY TokensSingle DEF CheckpointFrame
    <2> QED
      BY <2>1, <2>2, TokensAppend
  <1>5. InFlight' = Tokens(wire'[s]) + Tokens(wire'[Peer(s)])
    <2>1. Tokens(wire'[s]) \in Nat /\ Tokens(wire'[Peer(s)]) \in Nat
      BY <1>1, <1>3, <1>4, Counts
    <2> QED
      BY <2>1 DEF InFlight, Side, Peer
  <1> QED
    BY <1>1, <1>2, <1>3, <1>4, <1>5, Counts

\* Reading a frame that is no checkpoint takes no checkpoint out.
LEMMA PlainFrame ==
  ASSUME NEW s \in Side, TypeOK, wire[s] # <<>>, Head(wire[s]).sig # "Checkpoint",
         Consume(s)
  PROVE  InFlight' = InFlight
  <1>1. Tokens(<<Head(wire[s])>>) = 0
    BY TokensSingle
  <1> QED
    BY <1>1, ConsumeCount, Counts

\* The sync state of both sides survives a step that keeps base and phase.
LEMMA SyncKept ==
  ASSUME UNCHANGED <<base, phase>>
  PROVE  UnsyncedCount' = UnsyncedCount
  BY DEF UnsyncedCount, Unsynced, OutOfSync

\* The steps both sides have conserve checkpoints.
LEMMA BalanceCommon ==
  ASSUME NEW s \in Side, TypeOK, TokenBalance, Common(s)
  PROVE  TokenBalance'
  <1>1. CASE FinishWrite(s)
    <2>1. InFlight' = InFlight
      BY <1>1 DEF FinishWrite, InFlight
    <2>2. UnsyncedCount' = UnsyncedCount
      BY <1>1 DEF FinishWrite, TypeOK, UnsyncedCount, Unsynced, OutOfSync, Side
    <2> QED
      BY <1>1, <2>1, <2>2 DEF FinishWrite, TokenBalance
  <1>2. CASE StopSession(s) \/ Close(s) \/ PeerGone(s)
    <2>1. InFlight' = InFlight /\ UnsyncedCount' = UnsyncedCount
      BY <1>2, SyncKept DEF StopSession, Close, PeerGone, InFlight
    <2> QED
      BY <1>2, <2>1 DEF StopSession, Close, PeerGone, TokenBalance
  <1> QED
    BY <1>1, <1>2 DEF Common

\* The handlers both sides have conserve checkpoints.
LEMMA BalanceCheckpoint ==
  ASSUME NEW s \in Side, TypeOK, TokenBalance, RequestCheckpoint(s) \/ HandleCheckpoint(s)
  PROVE  TokenBalance'
  <1> DEFINE h == Tokens(<<Head(wire[s])>>)
  <1>1. /\ wire[s] # <<>>
        /\ phase[s] = "read"
        /\ extra \in Nat
        /\ lost \in Nat
    BY DEF RequestCheckpoint, HandleCheckpoint, Reading, TypeOK
  <1>2. h \in {0, 1}
    BY <1>1, QueueTypes
  <1>3. /\ Unsynced(Peer(s)) \in {0, 1}
        /\ Unsynced(s) \in {0, 1}
        /\ UnsyncedCount = Unsynced(s) + Unsynced(Peer(s))
        /\ UnsyncedCount \in Nat
        /\ InFlight \in Nat
    BY Counts
  <1>4. CASE RequestCheckpoint(s)
    <2>1. InFlight' = InFlight - h + 1
      BY <1>1, <1>4, WriteCount DEF RequestCheckpoint
    <2>2. UnsyncedCount' = 1 + Unsynced(Peer(s))
      BY <1>4 DEF RequestCheckpoint, WriteCheckpoint, TypeOK, UnsyncedCount, Unsynced,
                  OutOfSync, Side, Peer
    <2>3. lost' = lost + h /\ extra' = extra + Unsynced(s)
      BY <1>4 DEF RequestCheckpoint
    <2> HIDE DEF h
    <2> QED
      BY <1>1, <1>2, <1>3, <2>1, <2>2, <2>3 DEF TokenBalance
  <1>5. CASE HandleCheckpoint(s)
    <2>1. h = 1
      BY <1>5, TokensSingle DEF HandleCheckpoint
    <2>2. UNCHANGED <<extra, lost>>
      BY <1>5 DEF HandleCheckpoint
    <2>3. CASE base[s] = "None"
      <3>1. Consume(s) /\ base' = [base EXCEPT ![s] = "Ready"] /\ UNCHANGED phase
        BY <1>5, <2>3 DEF HandleCheckpoint
      <3>2. InFlight' = InFlight - 1
        BY <1>1, <2>1, <3>1, ConsumeCount
      <3>3. UnsyncedCount' = UnsyncedCount - 1
        BY <1>1, <2>3, <3>1 DEF TypeOK, UnsyncedCount, Unsynced, OutOfSync, Side
      <3> QED
        BY <1>1, <1>3, <2>2, <3>2, <3>3 DEF TokenBalance
    <2>4. CASE base[s] # "None"
      <3>1. WriteCheckpoint(s, "echo") /\ UNCHANGED base
        BY <1>5, <2>4 DEF HandleCheckpoint
      <3>2. InFlight' = InFlight
        BY <1>1, <1>3, <2>1, <3>1, WriteCount
      <3>3. UnsyncedCount' = UnsyncedCount
        BY <1>1, <2>4, <3>1 DEF WriteCheckpoint, TypeOK, UnsyncedCount, Unsynced, OutOfSync, Side
      <3> QED
        BY <2>2, <3>2, <3>3 DEF TokenBalance
    <2> QED
      BY <2>3, <2>4
  <1> QED
    BY <1>4, <1>5

\* The handlers of the DLL conserve checkpoints.
LEMMA BalanceDll ==
  ASSUME TypeOK, TokenBalance, DllRegular \/ DllTest \/ DllInvalid
  PROVE  TokenBalance'
  <1>1. wire["dll"] # <<>> /\ phase["dll"] = "read" /\ "dll" \in Side
    BY DEF DllRegular, DllTest, DllInvalid, Reading, Side
  <1>2. CASE DllRegular \/ DllTest
    <2>1. InFlight' = InFlight
      BY <1>1, <1>2, PlainFrame DEF DllRegular, DllTest
    <2>2. UnsyncedCount' = UnsyncedCount
      BY <1>2, SyncKept DEF DllRegular, DllTest
    <2> QED
      BY <1>2, <2>1, <2>2 DEF DllRegular, DllTest, TokenBalance
  <1>3. CASE DllInvalid
    <2>1. Tokens(<<Head(wire["dll"])>>) = 0
      BY <1>3, TokensSingle DEF DllInvalid
    <2>2. InFlight \in Nat /\ UnsyncedCount \in Nat /\ extra \in Nat /\ lost \in Nat
      BY <1>1, Counts DEF TypeOK
    <2>3. InFlight' = InFlight + 1
      BY <1>1, <1>3, <2>1, <2>2, WriteCount DEF DllInvalid
    <2>4. UnsyncedCount' = UnsyncedCount
      BY <1>1, <1>3 DEF DllInvalid, WriteCheckpoint, TypeOK, UnsyncedCount, Unsynced,
                        OutOfSync, Side
    <2> QED
      BY <1>3, <2>2, <2>3, <2>4 DEF DllInvalid, TokenBalance
  <1> QED
    BY <1>2, <1>3

\* The handlers of the service conserve checkpoints; what they miss or
\* swallow is counted in lost.
LEMMA BalanceSvc ==
  ASSUME TypeOK, TokenBalance, SvcMiss \/ SvcTooBig \/ SvcConsume
  PROVE  TokenBalance'
  <1>1. wire["svc"] # <<>> /\ "svc" \in Side
    BY DEF SvcMiss, SvcTooBig, SvcConsume, Reading, Side
  <1>2. UnsyncedCount' = UnsyncedCount
    BY SyncKept DEF SvcMiss, SvcTooBig, SvcConsume
  <1>3. InFlight \in Nat /\ UnsyncedCount \in Nat /\ extra \in Nat /\ lost \in Nat
    BY <1>1, Counts DEF TypeOK
  <1>4. CASE SvcMiss
    <2>1. InFlight' = InFlight - Tokens(<<Head(wire["svc"])>>)
      BY <1>1, <1>4, ConsumeCount DEF SvcMiss
    <2>2. Tokens(<<Head(wire["svc"])>>) \in {0, 1}
      BY <1>1, QueueTypes
    <2>3. lost' = lost + Tokens(<<Head(wire["svc"])>>) /\ extra' = extra
      BY <1>4 DEF SvcMiss
    <2> DEFINE h == Tokens(<<Head(wire["svc"])>>)
    <2> HIDE DEF h
    <2>4. InFlight' = InFlight - h /\ h \in {0, 1} /\ lost' = lost + h
      BY <2>1, <2>2, <2>3 DEF h
    <2> QED
      BY <1>2, <1>3, <2>3, <2>4 DEF TokenBalance
  <1>5. CASE SvcTooBig
    <2>1. Head(wire["svc"]).sig # "Checkpoint"
      <3>1. Head(wire["svc"]) \in Frames /\ Head(wire["svc"]).size = "huge"
        BY <1>1, <1>5, QueueTypes DEF SvcTooBig
      <3> QED
        BY <3>1, ConstantsOK DEF Frames, CheckpointFrame
    <2>2. InFlight' = InFlight
      BY <1>1, <1>5, <2>1, PlainFrame DEF SvcTooBig
    <2> QED
      BY <1>2, <1>5, <2>2 DEF SvcTooBig, TokenBalance
  <1>6. CASE SvcConsume
    <2> DEFINE rest == Tail(wire["svc"])
    <2>1. PICK k \in 0 .. Len(rest) :
            LET taken == SubSeq(rest, 1, k)
                left == SubSeq(rest, k + 1, Len(rest))
            IN /\ taken \in Seq(Frames)
               /\ left \in Seq(Frames)
               /\ Tokens(taken) \in Nat
               /\ Tokens(left) \in Nat
               /\ Tokens(rest) = Tokens(taken) + Tokens(left)
               /\ wire' = [wire EXCEPT !["svc"] = left]
               /\ lost' = lost + Tokens(taken)
      BY <1>6, OverRead
    <2> DEFINE taken == SubSeq(rest, 1, k)
               left == SubSeq(rest, k + 1, Len(rest))
    <2>2. /\ Tokens(taken) \in Nat
          /\ Tokens(left) \in Nat
          /\ Tokens(rest) = Tokens(taken) + Tokens(left)
          /\ lost' = lost + Tokens(taken)
      BY <2>1
    <2>3. wire'["svc"] = left /\ wire'["dll"] = wire["dll"]
      BY <2>1 DEF TypeOK, Side
    <2>4. Tokens(wire["svc"]) = Tokens(rest)
      <3>1. Tokens(<<Head(wire["svc"])>>) = 0
        BY <1>6, TokensSingle DEF SvcConsume
      <3>2. Tokens(wire["svc"]) = Tokens(<<Head(wire["svc"])>>) + Tokens(rest)
        BY <1>1, QueueTypes, TokensTail
      <3>3. Tokens(rest) \in Nat
        BY <1>1, QueueTypes
      <3> QED
        BY <3>1, <3>2, <3>3
    <2>5. Tokens(wire["dll"]) \in Nat
      BY Counts DEF Side
    <2> HIDE DEF rest, taken, left
    <2>6. InFlight' = InFlight - Tokens(taken)
      BY <2>2, <2>3, <2>4, <2>5 DEF InFlight
    <2>7. extra' = extra
      BY <1>6 DEF SvcConsume
    <2> DEFINE t == Tokens(taken)
    <2> HIDE DEF t
    <2>8. t \in Nat /\ InFlight' = InFlight - t /\ lost' = lost + t
      BY <2>2, <2>6 DEF t
    <2> QED
      BY <1>2, <1>3, <2>7, <2>8 DEF TokenBalance
  <1> QED
    BY <1>4, <1>5, <1>6

\* Callers write no checkpoints.
LEMMA BalanceEnvironment ==
  ASSUME NEW s \in Side, TypeOK, TokenBalance, AppWrite(s) \/ RequestStop(s) \/ Kill(s)
  PROVE  TokenBalance'
  <1>1. UnsyncedCount' = UnsyncedCount /\ UNCHANGED <<extra, lost>>
    BY SyncKept DEF AppWrite, RequestStop, Kill
  <1>2. CASE AppWrite(s)
    <2>1. PICK f \in AppFrames : wire' = [wire EXCEPT ![Peer(s)] = Append(@, f)]
      BY <1>2 DEF AppWrite
    <2>2. /\ wire'[s] = wire[s]
          /\ wire'[Peer(s)] = Append(wire[Peer(s)], f)
      BY <2>1, Counts DEF TypeOK
    <2>3. Tokens(Append(wire[Peer(s)], f)) = Tokens(wire[Peer(s)])
      <3>1. wire[Peer(s)] \in Seq(Frames) /\ f \in Frames
        BY Counts DEF TypeOK, Frames
      <3>2. Tokens(<<f>>) = 0
        BY ConstantsOK, TokensSingle
      <3>3. Tokens(Append(wire[Peer(s)], f)) = Tokens(wire[Peer(s)]) + Tokens(<<f>>)
        BY <3>1, TokensAppend
      <3> QED
        BY <3>2, <3>3, Counts
    <2>4. InFlight' = InFlight
      BY <2>2, <2>3 DEF InFlight, Side, Peer
    <2> QED
      BY <1>1, <2>4 DEF TokenBalance
  <1>3. CASE RequestStop(s) \/ Kill(s)
    BY <1>1, <1>3 DEF RequestStop, Kill, InFlight, TokenBalance
  <1> QED
    BY <1>2, <1>3

(***************************************************************************)
(* Checkpoints are conserved in every run: counting those in flight        *)
(* against the sides that wait for one shows every surplus and every loss. *)
(***************************************************************************)
THEOREM TokensConserved == Spec => []TokenBalance
  <1>1. Init => TokenBalance
    <2> SUFFICES ASSUME Init
                 PROVE  TokenBalance
      OBVIOUS
    <2>1. InFlight = 0
      BY TokensEmpty DEF Init, InFlight, Side
    <2>2. UnsyncedCount = 2
      BY DEF Init, UnsyncedCount, Unsynced, OutOfSync, Side
    <2> QED
      BY <2>1, <2>2 DEF Init, TokenBalance
  <1>2. TypeOK /\ TokenBalance /\ [Next]_vars => TokenBalance'
    <2> SUFFICES ASSUME TypeOK, TokenBalance, [Next]_vars
                 PROVE  TokenBalance'
      OBVIOUS
    <2>1. CASE DllStep
      BY <2>1, BalanceCommon, BalanceCheckpoint, BalanceDll
         DEF DllStep, DllBroken, DllCheckpoint, Side
    <2>2. CASE SvcStep
      BY <2>2, BalanceCommon, BalanceCheckpoint, BalanceSvc
         DEF SvcStep, SvcBroken, SvcCheckpoint, Side
    <2>3. CASE Environment
      BY <2>3, BalanceEnvironment DEF Environment
    <2>4. CASE UNCHANGED vars
      BY <2>4 DEF vars, TokenBalance, InFlight, UnsyncedCount, Unsynced, OutOfSync
    <2> QED
      BY <2>1, <2>2, <2>3, <2>4 DEF Next
  <1> QED
    BY <1>1, <1>2, TypeCorrect, PTL DEF Spec

-----------------------------------------------------------------------------
(* Mutual blocking.                                                        *)

End(q) == q[Len(q)]

\* A checkpoint that a session is still writing is the last frame of its
\* direction: nothing else is written on the handle in the meantime.
WriteAtEnd ==
  \A s \in Side :
    phase[s] # "read" /\ wire[Peer(s)] # <<>> => End(wire[Peer(s)]).sig = "Checkpoint"

\* Taking frames from the front of a queue keeps its last frame.
LEMMA EndTail ==
  ASSUME NEW S, NEW q \in Seq(S), q # <<>>, Tail(q) # <<>>
  PROVE  End(Tail(q)) = End(q)
  <1>1. Len(q) \in Nat \ {0} /\ Tail(q) \in Seq(S) /\ Len(Tail(q)) = Len(q) - 1
    BY EmptySeq, HeadTailProperties
  <1>2. Len(Tail(q)) \in Nat \ {0}
    BY <1>1, EmptySeq
  <1> QED
    BY <1>1, <1>2 DEF End

\* So does dropping any number of frames, as long as one is left.
LEMMA EndSuffix ==
  ASSUME NEW S, NEW q \in Seq(S), NEW k \in 0 .. Len(q),
         SubSeq(q, k + 1, Len(q)) # <<>>
  PROVE  q # <<>> /\ End(SubSeq(q, k + 1, Len(q))) = End(q)
  <1>1. Len(q) \in Nat
    BY LenProperties
  <1>2. k + 1 <= Len(q)
    BY <1>1, SubSeqEmpty
  <1>3. \A i \in k + 1 .. Len(q) : q[i] \in S
    BY <1>1, ElementOfSeq
  <1>4. /\ Len(SubSeq(q, k + 1, Len(q))) = Len(q) - k
        /\ SubSeq(q, k + 1, Len(q))[Len(q) - k] = q[Len(q)]
    BY <1>1, <1>2, <1>3, SubSeqProperties
  <1> QED
    BY <1>1, <1>2, <1>4, EmptySeq DEF End

\* The frame appended last is the last frame.
LEMMA EndAppend ==
  ASSUME NEW S, NEW q \in Seq(S), NEW f \in S
  PROVE  End(Append(q, f)) = f
  BY AppendProperties, LenProperties DEF End

\* Consuming a frame on one side, in a step that starts no write.
LEMMA WriteAtEndConsume ==
  ASSUME NEW a \in Side, TypeOK, WriteAtEnd, wire[a] # <<>>, phase[a] = "read",
         Consume(a), UNCHANGED phase
  PROVE  WriteAtEnd'
  <1> SUFFICES ASSUME NEW s \in Side, phase[s] # "read", wire'[Peer(s)] # <<>>
               PROVE  End(wire'[Peer(s)]).sig = "Checkpoint"
    BY DEF WriteAtEnd
  <1>1. Peer(s) = a
    BY DEF Side, Peer
  <1>2. wire'[a] = Tail(wire[a]) /\ wire[a] \in Seq(Frames)
    BY DEF Consume, TypeOK, Frames
  <1> QED
    BY <1>1, <1>2, EndTail DEF WriteAtEnd

\* Answering a frame with a checkpoint.
LEMMA WriteAtEndWrite ==
  ASSUME NEW a \in Side, TypeOK, WriteAtEnd, wire[a] # <<>>, phase[a] = "read",
         NEW next, WriteCheckpoint(a, next)
  PROVE  WriteAtEnd'
  <1> SUFFICES ASSUME NEW s \in Side, phase'[s] # "read", wire'[Peer(s)] # <<>>
               PROVE  End(wire'[Peer(s)]).sig = "Checkpoint"
    BY DEF WriteAtEnd
  <1>1. /\ wire'[a] = Tail(wire[a])
        /\ wire'[Peer(a)] = Append(wire[Peer(a)], CheckpointFrame)
        /\ wire[a] \in Seq(Frames)
        /\ wire[Peer(a)] \in Seq(Frames)
    BY QueueTypes DEF WriteCheckpoint, TypeOK, Frames
  <1>2. CASE s = a
    <2>1. End(Append(wire[Peer(a)], CheckpointFrame)) = CheckpointFrame
      BY <1>1, EndAppend DEF Frames
    <2>2. End(wire'[Peer(s)]) = CheckpointFrame
      BY <1>1, <1>2, <2>1
    <2>3. CheckpointFrame.sig = "Checkpoint"
      BY DEF CheckpointFrame
    <2> QED
      BY <2>2, <2>3
  <1>3. CASE s = Peer(a)
    <2>1. Peer(s) = a /\ s # a
      BY <1>3 DEF Side, Peer
    <2>2. phase[s] # "read"
      BY <2>1 DEF WriteCheckpoint, TypeOK
    <2> QED
      BY <1>1, <2>1, <2>2, EndTail DEF WriteAtEnd
  <1> QED
    BY <1>2, <1>3 DEF Side, Peer

\* The whole step relation keeps writes at the end of their queue.
LEMMA WriteAtEndStep ==
  ASSUME TypeOK, WriteAtEnd, [Next]_vars
  PROVE  WriteAtEnd'
  <1>1. ASSUME NEW s \in Side, Common(s) PROVE WriteAtEnd'
    <2>1. CASE FinishWrite(s)
      BY <2>1 DEF FinishWrite, WriteAtEnd, TypeOK
    <2>2. CASE StopSession(s) \/ Close(s) \/ PeerGone(s)
      BY <2>2 DEF StopSession, Close, PeerGone, WriteAtEnd
    <2> QED
      BY <1>1, <2>1, <2>2 DEF Common
  <1>2. ASSUME NEW s \in Side, RequestCheckpoint(s) \/ HandleCheckpoint(s) PROVE WriteAtEnd'
    <2>1. wire[s] # <<>> /\ phase[s] = "read"
      BY <1>2 DEF RequestCheckpoint, HandleCheckpoint, Reading
    <2>2. CASE RequestCheckpoint(s)
      BY <2>1, <2>2, WriteAtEndWrite DEF RequestCheckpoint
    <2>3. CASE HandleCheckpoint(s)
      BY <2>1, <2>3, WriteAtEndConsume, WriteAtEndWrite DEF HandleCheckpoint
    <2> QED
      BY <1>2, <2>2, <2>3
  <1>3. ASSUME DllRegular \/ DllTest \/ DllInvalid PROVE WriteAtEnd'
    <2>1. wire["dll"] # <<>> /\ phase["dll"] = "read" /\ "dll" \in Side
      BY <1>3 DEF DllRegular, DllTest, DllInvalid, Reading, Side
    <2>2. CASE DllRegular \/ DllTest
      BY <2>1, <2>2, WriteAtEndConsume DEF DllRegular, DllTest
    <2>3. CASE DllInvalid
      BY <2>1, <2>3, WriteAtEndWrite DEF DllInvalid
    <2> QED
      BY <1>3, <2>2, <2>3
  <1>4. ASSUME SvcMiss \/ SvcTooBig \/ SvcConsume PROVE WriteAtEnd'
    <2>1. wire["svc"] # <<>> /\ phase["svc"] = "read" /\ "svc" \in Side
      BY <1>4 DEF SvcMiss, SvcTooBig, SvcConsume, Reading, Side
    <2>2. CASE SvcMiss \/ SvcTooBig
      BY <2>1, <2>2, WriteAtEndConsume DEF SvcMiss, SvcTooBig
    <2>3. CASE SvcConsume
      <3> DEFINE rest == Tail(wire["svc"])
      <3>1. PICK k \in 0 .. Len(rest) :
              wire' = [wire EXCEPT !["svc"] = SubSeq(rest, k + 1, Len(rest))]
        BY <2>3, OverRead
      <3>2. UNCHANGED phase
        BY <2>3 DEF SvcConsume
      <3> SUFFICES ASSUME NEW s \in Side, phase[s] # "read", wire'[Peer(s)] # <<>>
                   PROVE  End(wire'[Peer(s)]).sig = "Checkpoint"
        BY <3>2 DEF WriteAtEnd
      <3>3. Peer(s) = "svc"
        BY <2>1 DEF Side, Peer
      <3>4. wire'["svc"] = SubSeq(rest, k + 1, Len(rest))
        BY <3>1 DEF TypeOK, Side
      <3>5. wire["svc"] \in Seq(Frames) /\ rest \in Seq(Frames)
        BY <2>1, QueueTypes
      <3>6. End(wire'["svc"]) = End(rest) /\ rest # <<>>
        BY <3>3, <3>4, <3>5, EndSuffix
      <3>7. End(rest) = End(wire["svc"])
        BY <2>1, <3>5, <3>6, EndTail
      <3> QED
        BY <2>1, <3>3, <3>6, <3>7 DEF WriteAtEnd
    <2> QED
      BY <1>4, <2>2, <2>3
  <1>5. ASSUME NEW a \in Side, AppWrite(a) PROVE WriteAtEnd'
    <2> SUFFICES ASSUME NEW s \in Side, phase[s] # "read", wire'[Peer(s)] # <<>>
                 PROVE  End(wire'[Peer(s)]).sig = "Checkpoint"
      BY <1>5 DEF AppWrite, WriteAtEnd
    <2>1. s # a
      BY <1>5 DEF AppWrite
    <2>2. wire'[Peer(s)] = wire[Peer(s)]
      BY <1>5, <2>1 DEF AppWrite, TypeOK, Side, Peer
    <2> QED
      BY <2>2 DEF WriteAtEnd
  <1>6. ASSUME NEW a \in Side, RequestStop(a) \/ Kill(a) PROVE WriteAtEnd'
    BY <1>6 DEF RequestStop, Kill, WriteAtEnd
  <1>7. CASE UNCHANGED vars
    BY <1>7 DEF vars, WriteAtEnd
  <1>8. CASE DllStep
    BY <1>1, <1>2, <1>3, <1>8 DEF DllStep, DllBroken, DllCheckpoint, Side
  <1>9. CASE SvcStep
    BY <1>1, <1>2, <1>4, <1>9 DEF SvcStep, SvcBroken, SvcCheckpoint, Side
  <1>10. CASE Environment
    BY <1>5, <1>6, <1>10 DEF Environment
  <1> QED
    BY <1>7, <1>8, <1>9, <1>10 DEF Next

\* A queue whose last frame is a checkpoint holds one.
LEMMA EndCounts ==
  ASSUME NEW S, NEW q \in Seq(S), q # <<>>, End(q).sig = "Checkpoint"
  PROVE  Tokens(q) >= 1
  <1>1. Len(q) \in Nat \ {0} /\ DOMAIN q = 1 .. Len(q)
    BY EmptySeq, LenProperties
  <1>2. Len(q) \in TokenPos(q)
    BY <1>1 DEF TokenPos, End
  <1>3. Tokens(q) # 0
    BY <1>2, TokensType, FS_EmptySet
  <1> QED
    BY <1>3, TokensType

(***************************************************************************)
(* Sessions deadlock in their own answers only after surplus checkpoints:  *)
(* for every quota, a mutual block with k sessions inside a checkpoint     *)
(* write shows k more checkpoints than synchronising the sides accounts    *)
(* for.                                                                    *)
(***************************************************************************)
THEOREM MutualBlockBound == Spec => []MutualBlockNeedsSurplus
  <1>1. Init => WriteAtEnd
    BY DEF Init, WriteAtEnd, Side
  <1>2. TypeOK /\ WriteAtEnd /\ [Next]_vars => WriteAtEnd'
    BY WriteAtEndStep
  <1>3. TypeOK /\ TokenBalance /\ WriteAtEnd => MutualBlockNeedsSurplus
    <2> SUFFICES ASSUME TypeOK, TokenBalance, WriteAtEnd, MutualBlock
                 PROVE  extra + UnsyncedCount >= lost + 2 + Cardinality(Writers)
      BY DEF MutualBlockNeedsSurplus
    <2> DEFINE in(s) == Tokens(wire[Peer(s)])
    <2>1. /\ in("dll") \in Nat
          /\ in("svc") \in Nat
          /\ InFlight = in("dll") + in("svc")
      BY Counts DEF Side, Peer
    <2>2. ASSUME NEW s \in Side, s \in Writers
          PROVE  in(s) >= 1
      <3>1. wire[Peer(s)] \in Seq(Frames)
        BY Counts DEF TypeOK, Frames
      <3>2. wire[Peer(s)] # <<>>
        BY ConstantsOK, EmptySeq DEF MutualBlock, Blocked
      <3>3. End(wire[Peer(s)]).sig = "Checkpoint"
        BY <2>2, <3>2 DEF WriteAtEnd, Writers
      <3> QED
        BY <3>1, <3>2, <3>3, EndCounts
    <2>3. Cardinality({}) = 0 /\ Cardinality({"dll"}) = 1 /\ Cardinality({"svc"}) = 1
      BY FS_EmptySet, FS_Singleton
    <2>4. Cardinality({"dll", "svc"}) = 2
      <3>1. IsFiniteSet({"dll"}) /\ {"dll"} \cup {"svc"} = {"dll", "svc"} /\ "svc" \notin {"dll"}
        BY FS_Singleton
      <3>2. Cardinality({"dll"} \cup {"svc"}) = Cardinality({"dll"}) + 1
        BY <3>1, FS_AddElement
      <3> QED
        BY <2>3, <3>1, <3>2
    <2> HIDE DEF in
    <2>5. InFlight >= Cardinality(Writers) /\ Cardinality(Writers) \in Nat
      <3>1. CASE Writers = {}
        BY <2>1, <2>3, <3>1
      <3>2. CASE Writers = {"dll"}
        BY <2>1, <2>2, <2>3, <3>2 DEF Side
      <3>3. CASE Writers = {"svc"}
        BY <2>1, <2>2, <2>3, <3>3 DEF Side
      <3>4. CASE Writers = {"dll", "svc"}
        <4>1. in("dll") >= 1 /\ in("svc") >= 1
          BY <2>2, <3>4 DEF Side
        <4> QED
          BY <2>1, <2>4, <3>4, <4>1
      <3>5. Writers \subseteq {"dll", "svc"}
        BY DEF Writers, Side
      <3> QED
        BY <3>1, <3>2, <3>3, <3>4, <3>5
    <2>6. /\ UnsyncedCount \in Nat
          /\ InFlight \in Nat
          /\ extra \in Nat
          /\ lost \in Nat
      BY Counts DEF TypeOK, Side
    <2> QED
      BY <2>5, <2>6 DEF TokenBalance
  <1> QED
    BY <1>1, <1>2, <1>3, TypeCorrect, TokensConserved, PTL DEF Spec

(***************************************************************************)
(* Both sides are synchronised only after two surplus checkpoints that     *)
(* were not lost, and from the third on a checkpoint is always in flight:  *)
(* the echoes never end.                                                   *)
(***************************************************************************)
THEOREM SurplusDecides ==
  Spec => [](/\ UnsyncedCount = 0 => extra >= lost + 2
             /\ extra > lost + 2 => InFlight > 0)
  <1>1. TypeOK /\ TokenBalance => /\ UnsyncedCount = 0 => extra >= lost + 2
                                  /\ extra > lost + 2 => InFlight > 0
    <2> SUFFICES ASSUME TypeOK, TokenBalance
                 PROVE  /\ UnsyncedCount = 0 => extra >= lost + 2
                        /\ extra > lost + 2 => InFlight > 0
      OBVIOUS
    <2>1. UnsyncedCount \in Nat /\ InFlight \in Nat /\ extra \in Nat /\ lost \in Nat
      BY Counts DEF TypeOK, Side
    <2> QED
      BY <2>1 DEF TokenBalance
  <1> QED
    BY <1>1, TypeCorrect, TokensConserved, PTL

-----------------------------------------------------------------------------
(* Each step of the two loops, of their callers and of the environment is    *)
(* one step of the tokens, or none.                                          *)

ringVars == <<Waiting, Flight, extra, lost>>

\* What the head frame of a queue counts.
HeadTokens(s) == Tokens(<<Head(wire[s])>>)

-----------------------------------------------------------------------------
(* What reading, answering and writing a frame does to the tokens.         *)

LEMMA RingTypes ==
  ASSUME TypeOK
  PROVE  /\ Waiting \subseteq Side
         /\ Flight \in [Side -> Nat]
         /\ \A s \in Side : Flight[s] = Tokens(wire[s])
         /\ extra \in Nat
         /\ lost \in Nat
  BY Counts DEF Waiting, Flight, TypeOK

LEMMA FlightConsume ==
  ASSUME NEW s \in Side, TypeOK, wire[s] # <<>>, Consume(s)
  PROVE  /\ HeadTokens(s) \in {0, 1}
         /\ HeadTokens(s) <= Flight[s]
         /\ Flight' = [Flight EXCEPT ![s] = @ - HeadTokens(s)]
  <1>1. /\ Tokens(wire[s]) = HeadTokens(s) + Tokens(Tail(wire[s]))
        /\ HeadTokens(s) \in {0, 1}
        /\ Tokens(Tail(wire[s])) \in Nat
    BY QueueTypes, TokensTail DEF HeadTokens
  <1>2. Tokens(Tail(wire[s])) = Tokens(wire[s]) - HeadTokens(s)
    BY <1>1
  <1>3. wire' = [wire EXCEPT ![s] = Tail(@)] /\ wire \in [Side -> Seq(Frames)]
    BY DEF Consume, TypeOK, Frames
  <1>4. \A r \in Side : Tokens(wire'[r]) = IF r = s THEN Tokens(wire[s]) - HeadTokens(s)
                                                   ELSE Tokens(wire[r])
    BY <1>2, <1>3
  <1>5. Flight' = [r \in Side |-> Tokens(wire'[r])]
    BY DEF Flight
  <1>6. Flight' = [Flight EXCEPT ![s] = @ - HeadTokens(s)]
    BY <1>4, <1>5 DEF Flight
  <1>7. HeadTokens(s) <= Tokens(wire[s]) /\ Flight[s] = Tokens(wire[s])
    <2>1. ASSUME NEW h \in Nat, NEW t \in Nat, NEW n, n = h + t PROVE h <= n
      BY <2>1
    <2> QED
      BY <1>1, <2>1 DEF Flight
  <1> QED
    BY <1>1, <1>6, <1>7

LEMMA FlightWrite ==
  ASSUME NEW s \in Side, TypeOK, wire[s] # <<>>, NEW next, WriteCheckpoint(s, next)
  PROVE  /\ HeadTokens(s) \in {0, 1}
         /\ HeadTokens(s) <= Flight[s]
         /\ Flight' = [Flight EXCEPT ![s] = @ - HeadTokens(s), ![Peer(s)] = @ + 1]
  <1>1. /\ Tokens(wire[s]) = HeadTokens(s) + Tokens(Tail(wire[s]))
        /\ HeadTokens(s) \in {0, 1}
        /\ Tokens(Tail(wire[s])) \in Nat
        /\ Peer(s) \in Side /\ Peer(s) # s
    BY QueueTypes, TokensTail DEF HeadTokens
  <1>2. Tokens(Tail(wire[s])) = Tokens(wire[s]) - HeadTokens(s)
    BY <1>1
  <1>3. Tokens(Append(wire[Peer(s)], CheckpointFrame)) = Tokens(wire[Peer(s)]) + 1
    <2>1. wire[Peer(s)] \in Seq(Frames) /\ CheckpointFrame \in Frames
      BY QueueTypes DEF TypeOK, Frames
    <2>2. Tokens(<<CheckpointFrame>>) = 1
      BY TokensSingle DEF CheckpointFrame
    <2> QED
      BY <2>1, <2>2, TokensAppend
  <1>4. /\ wire' = [wire EXCEPT ![s] = Tail(@), ![Peer(s)] = Append(@, CheckpointFrame)]
        /\ wire \in [Side -> Seq(Frames)]
    BY DEF WriteCheckpoint, TypeOK, Frames
  <1>5. \A r \in Side : r = s \/ r = Peer(s)
    BY DEF Side, Peer
  <1>6. /\ wire'[s] = Tail(wire[s])
        /\ wire'[Peer(s)] = Append(wire[Peer(s)], CheckpointFrame)
    BY <1>1, <1>4
  <1>7. \A r \in Side : Tokens(wire'[r]) = IF r = s THEN Tokens(wire[s]) - HeadTokens(s)
                                                   ELSE Tokens(wire[r]) + 1
    BY <1>2, <1>3, <1>5, <1>6
  <1>8. Flight' = [r \in Side |-> Tokens(wire'[r])]
    BY DEF Flight
  <1> QED
    BY <1>1, <1>5, <1>7, <1>8 DEF Flight

\* A frame that is no checkpoint leaves the tokens where they are.
LEMMA FlightPlain ==
  ASSUME NEW s \in Side, TypeOK, wire[s] # <<>>, Consume(s), Head(wire[s]).sig # "Checkpoint"
  PROVE  Flight' = Flight
  <1>1. HeadTokens(s) = 0
    BY TokensSingle DEF HeadTokens
  <1>2. Flight' = [Flight EXCEPT ![s] = @ - 0] /\ Flight \in [Side -> Nat]
    BY <1>1, FlightConsume, RingTypes
  <1> QED
    BY <1>2

\* Who waits for a token depends on base and phase alone.
LEMMA WaitingKept ==
  ASSUME UNCHANGED <<base, phase>>
  PROVE  Waiting' = Waiting
  BY DEF Waiting, OutOfSync

-----------------------------------------------------------------------------
(* Every step is a step of the tokens, or none.                             *)

LEMMA RingCommon ==
  ASSUME NEW s \in Side, TypeOK, Common(s)
  PROVE  UNCHANGED ringVars
  <1>1. CASE FinishWrite(s)
    <2>1. Flight' = Flight
      BY <1>1 DEF FinishWrite, Flight
    <2>2. \A r \in Side : OutOfSync(r)' <=> OutOfSync(r)
      BY <1>1 DEF FinishWrite, TypeOK, OutOfSync
    <2>3. Waiting' = Waiting
      BY <2>2 DEF Waiting
    <2> QED
      BY <1>1, <2>1, <2>3 DEF FinishWrite, ringVars
  <1>2. CASE StopSession(s) \/ Close(s) \/ PeerGone(s)
    BY <1>2, WaitingKept DEF StopSession, Close, PeerGone, ringVars, Flight
  <1> QED
    BY <1>1, <1>2 DEF Common

\* A broken header asks for a token, and may have been one.
LEMMA RingRequest ==
  ASSUME NEW s \in Side, TypeOK, RequestCheckpoint(s)
  PROVE  Ring!Ask(s)
  <1>1. wire[s] # <<>> /\ phase[s] = "read" /\ WriteCheckpoint(s, "reset")
    BY DEF RequestCheckpoint, Reading
  <1>2. /\ HeadTokens(s) \in {0, 1}
        /\ HeadTokens(s) <= Flight[s]
        /\ Flight' = [Flight EXCEPT ![s] = @ - HeadTokens(s), ![Peer(s)] = @ + 1]
    BY <1>1, FlightWrite
  <1>3. lost' = lost + HeadTokens(s)
    BY DEF RequestCheckpoint, HeadTokens
  <1>4. extra' = IF s \in Waiting THEN extra + 1 ELSE extra
    BY DEF RequestCheckpoint, Unsynced, Waiting, TypeOK
  <1>5. \A r \in Side : OutOfSync(r)' <=> (r = s \/ OutOfSync(r))
    BY <1>1 DEF RequestCheckpoint, WriteCheckpoint, OutOfSync, TypeOK
  <1>6. Waiting' = Waiting \cup {s}
    BY <1>5 DEF Waiting
  <1>7. Ring!Peer(s) = Peer(s)
    BY DEF Peer, Ring!Peer
  <1> QED
    BY <1>2, <1>3, <1>4, <1>6, <1>7 DEF Ring!Ask

\* A checkpoint is kept by a side that waits, and returned by any other.
LEMMA RingCheckpoint ==
  ASSUME NEW s \in Side, TypeOK, HandleCheckpoint(s)
  PROVE  Ring!Keep(s) \/ Ring!Return(s)
  <1>1. wire[s] # <<>> /\ phase[s] = "read" /\ UNCHANGED <<extra, lost>>
    BY DEF HandleCheckpoint, Reading
  <1>2. HeadTokens(s) = 1
    BY TokensSingle DEF HandleCheckpoint, HeadTokens
  <1>3. s \in Waiting <=> base[s] = "None"
    BY <1>1 DEF Waiting, OutOfSync
  <1>4. Flight \in [Side -> Nat]
    BY RingTypes
  <1>5. CASE Consume(s) /\ base[s] = "None" /\ base' = [base EXCEPT ![s] = "Ready"]
             /\ UNCHANGED phase
    <2>1. 1 <= Flight[s] /\ Flight' = [Flight EXCEPT ![s] = @ - 1]
      BY <1>1, <1>2, <1>5, FlightConsume
    <2>2. \A r \in Side : OutOfSync(r)' <=> (r # s /\ OutOfSync(r))
      BY <1>1, <1>5 DEF OutOfSync, TypeOK
    <2>3. Waiting' = Waiting \ {s}
      BY <2>2 DEF Waiting
    <2> QED
      BY <1>1, <1>3, <1>4, <1>5, <2>1, <2>3 DEF Ring!Keep
  <1>6. CASE WriteCheckpoint(s, "echo") /\ base[s] # "None" /\ UNCHANGED base
    <2>1. 1 <= Flight[s] /\ Flight' = [Flight EXCEPT ![s] = @ - 1, ![Peer(s)] = @ + 1]
      BY <1>1, <1>2, <1>6, FlightWrite
    <2>2. \A r \in Side : OutOfSync(r)' <=> OutOfSync(r)
      BY <1>1, <1>6 DEF WriteCheckpoint, OutOfSync, TypeOK
    <2>3. Waiting' = Waiting
      BY <2>2 DEF Waiting
    <2>4. Ring!Peer(s) = Peer(s)
      BY DEF Peer, Ring!Peer
    <2> QED
      BY <1>1, <1>3, <1>4, <1>6, <2>1, <2>3, <2>4 DEF Ring!Return
  <1> QED
    BY <1>5, <1>6 DEF HandleCheckpoint

\* Of the frames of callers the DLL answers only those it does not know.
LEMMA RingDll ==
  ASSUME TypeOK, DllRegular \/ DllTest \/ DllInvalid
  PROVE  UNCHANGED ringVars \/ Ring!Answer
  <1>1. wire["dll"] # <<>> /\ phase["dll"] = "read" /\ "dll" \in Side
    BY DEF DllRegular, DllTest, DllInvalid, Reading, Side
  <1>2. CASE DllRegular \/ DllTest
    BY <1>1, <1>2, FlightPlain, WaitingKept DEF DllRegular, DllTest, ringVars
  <1>3. CASE DllInvalid
    <2>1. HeadTokens("dll") = 0
      BY <1>3, TokensSingle DEF DllInvalid, HeadTokens
    <2>2. /\ Flight \in [Side -> Nat]
          /\ Flight' = [Flight EXCEPT !["dll"] = @ - 0, !["svc"] = @ + 1]
      BY <1>1, <1>3, <2>1, FlightWrite, RingTypes DEF DllInvalid, Peer
    <2>3. \A r \in Side : OutOfSync(r)' <=> OutOfSync(r)
      BY <1>1, <1>3 DEF DllInvalid, WriteCheckpoint, OutOfSync, TypeOK
    <2>4. Waiting' = Waiting
      BY <2>3 DEF Waiting
    <2>5. Flight' = [Flight EXCEPT !["svc"] = @ + 1]
      <3>1. [Flight EXCEPT !["dll"] = @ - 0] = Flight
        BY <1>1, <2>2
      <3>2. Flight' = [[Flight EXCEPT !["dll"] = @ - 0] EXCEPT !["svc"] = @ + 1]
        BY <2>2
      <3> QED
        BY <3>1, <3>2
    <2> QED
      BY <1>3, <2>4, <2>5 DEF DllInvalid, Ring!Answer
  <1> QED
    BY <1>2, <1>3

\* What the service misses or swallows is passed over.
LEMMA RingSvc ==
  ASSUME TypeOK, SvcMiss \/ SvcTooBig \/ SvcConsume
  PROVE  UNCHANGED ringVars \/ Ring!PassOver
  <1>1. wire["svc"] # <<>> /\ "svc" \in Side
    BY DEF SvcMiss, SvcTooBig, SvcConsume, Reading, Side
  <1>2. Waiting' = Waiting
    BY WaitingKept DEF SvcMiss, SvcTooBig, SvcConsume
  <1>3. Flight \in [Side -> Nat] /\ extra \in Nat /\ lost \in Nat
    BY RingTypes
  <1>4. ASSUME NEW n \in Nat, n <= Flight["svc"], lost' = lost + n, extra' = extra,
               Flight' = [Flight EXCEPT !["svc"] = @ - n]
        PROVE  UNCHANGED ringVars \/ Ring!PassOver
    <2>1. CASE n = 0
      BY <1>1, <1>2, <1>3, <1>4, <2>1 DEF ringVars
    <2>2. CASE n # 0
      <3>1. n \in 1 .. Flight["svc"]
        BY <1>1, <1>3, <1>4, <2>2
      <3> QED
        BY <1>2, <1>4, <3>1 DEF Ring!PassOver
    <2> QED
      BY <2>1, <2>2
  <1>5. CASE SvcMiss
    <2> DEFINE h == HeadTokens("svc")
    <2>1. h \in Nat /\ h <= Flight["svc"] /\ Flight' = [Flight EXCEPT !["svc"] = @ - h]
      BY <1>1, <1>5, FlightConsume DEF SvcMiss
    <2>2. lost' = lost + h /\ extra' = extra
      BY <1>5 DEF SvcMiss, HeadTokens
    <2> HIDE DEF h
    <2> QED
      BY <1>4, <2>1, <2>2
  <1>6. CASE SvcTooBig
    <2>1. Head(wire["svc"]).sig # "Checkpoint"
      <3>1. Head(wire["svc"]) \in Frames /\ Head(wire["svc"]).size = "huge"
        BY <1>1, <1>6, QueueTypes DEF SvcTooBig
      <3> QED
        BY <3>1, ConstantsOK DEF Frames, CheckpointFrame
    <2> QED
      BY <1>1, <1>2, <1>6, <2>1, FlightPlain DEF SvcTooBig, ringVars
  <1>7. CASE SvcConsume
    <2>1. PICK k \in 0 .. Len(Tail(wire["svc"])) :
            LET rest == Tail(wire["svc"])
                taken == SubSeq(rest, 1, k)
                left == SubSeq(rest, k + 1, Len(rest))
            IN /\ taken \in Seq(Frames)
               /\ left \in Seq(Frames)
               /\ Tokens(taken) \in Nat
               /\ Tokens(left) \in Nat
               /\ Tokens(rest) = Tokens(taken) + Tokens(left)
               /\ wire' = [wire EXCEPT !["svc"] = left]
               /\ lost' = lost + Tokens(taken)
      BY <1>7, OverRead
    <2> DEFINE rest == Tail(wire["svc"])
               n == Tokens(SubSeq(rest, 1, k))
               left == SubSeq(rest, k + 1, Len(rest))
    <2>2. /\ n \in Nat /\ Tokens(left) \in Nat /\ Tokens(rest) = n + Tokens(left)
          /\ wire' = [wire EXCEPT !["svc"] = left]
          /\ lost' = lost + n
      BY <2>1
    <2>3. Tokens(wire["svc"]) = Tokens(rest)
      <3>1. Tokens(<<Head(wire["svc"])>>) = 0
        BY <1>7, TokensSingle DEF SvcConsume
      <3>2. Tokens(wire["svc"]) = Tokens(<<Head(wire["svc"])>>) + Tokens(rest)
        BY <1>1, QueueTypes, TokensTail
      <3>3. Tokens(rest) \in Nat
        BY <1>1, QueueTypes
      <3> HIDE DEF rest
      <3> QED
        BY <3>1, <3>2, <3>3
    <2> HIDE DEF rest, n, left
    <2>4. n <= Flight["svc"] /\ Tokens(left) = Flight["svc"] - n
      BY <1>1, <2>2, <2>3, RingTypes
    <2>5. Flight' = [Flight EXCEPT !["svc"] = @ - n]
      <3>1. wire \in [Side -> Seq(Frames)]
        BY DEF TypeOK, Frames
      <3>2. \A r \in Side : Tokens(wire'[r]) = IF r = "svc" THEN Flight["svc"] - n
                                                           ELSE Tokens(wire[r])
        BY <2>2, <2>4, <3>1
      <3>3. Flight' = [r \in Side |-> Tokens(wire'[r])]
        BY DEF Flight
      <3> QED
        BY <1>1, <3>2, <3>3 DEF Flight
    <2>6. extra' = extra
      BY <1>7 DEF SvcConsume
    <2> QED
      BY <1>4, <2>2, <2>4, <2>5, <2>6
  <1> QED
    BY <1>5, <1>6, <1>7

\* Callers of the frame writers put in no tokens.
LEMMA RingEnvironment ==
  ASSUME NEW s \in Side, TypeOK, AppWrite(s) \/ RequestStop(s) \/ Kill(s)
  PROVE  UNCHANGED ringVars
  <1>1. CASE AppWrite(s)
    <2>1. PICK f \in AppFrames : wire' = [wire EXCEPT ![Peer(s)] = Append(@, f)]
      BY <1>1 DEF AppWrite
    <2>2. /\ Peer(s) \in Side /\ f \in Frames /\ f.sig # "Checkpoint"
          /\ wire \in [Side -> Seq(Frames)]
      BY ConstantsOK DEF TypeOK, Frames, Side, Peer
    <2>3. Tokens(Append(wire[Peer(s)], f)) = Tokens(wire[Peer(s)])
      <3>1. Tokens(<<f>>) = 0
        BY <2>2, TokensSingle
      <3>2. Tokens(wire[Peer(s)]) \in Nat
        BY Counts
      <3>3. Tokens(Append(wire[Peer(s)], f)) = Tokens(wire[Peer(s)]) + Tokens(<<f>>)
        BY <2>2, TokensAppend
      <3> QED
        BY <3>1, <3>2, <3>3
    <2>4. \A r \in Side : Tokens(wire'[r]) = Tokens(wire[r])
      BY <2>1, <2>2, <2>3
    <2>5. Flight' = Flight
      BY <2>4 DEF Flight
    <2> QED
      BY <1>1, <2>5, WaitingKept DEF AppWrite, ringVars
  <1>2. CASE RequestStop(s) \/ Kill(s)
    BY <1>2, WaitingKept DEF RequestStop, Kill, ringVars, Flight
  <1> QED
    BY <1>1, <1>2

-----------------------------------------------------------------------------
(***************************************************************************)
(* The session loops, Session::Run and FrameSession.RunAsync, implement    *)
(* the tokens, whatever is written between the checkpoints and however     *)
(* much a skip swallows.                                                   *)
(***************************************************************************)
THEOREM TokensImplemented == Spec => ImplementsTokens
  <1>1. Init => Ring!Init
    <2> SUFFICES ASSUME Init PROVE Ring!Init
      OBVIOUS
    <2>1. Waiting = Side
      BY DEF Init, Waiting, OutOfSync
    <2>2. \A s \in Side : Tokens(wire[s]) = 0
      BY TokensEmpty DEF Init
    <2>3. Flight = [s \in Side |-> 0]
      BY <2>2 DEF Flight
    <2> QED
      BY <2>1, <2>3 DEF Init, Ring!Init, Ring!Side, Side
  <1>2. TypeOK /\ [Next]_vars => [Ring!Next]_ringVars
    <2> SUFFICES ASSUME TypeOK, [Next]_vars
                 PROVE  Ring!Next \/ UNCHANGED ringVars
      OBVIOUS
    <2>1. CASE \E s \in Side : Common(s)
      BY <2>1, RingCommon
    <2>2. CASE \E s \in Side : RequestCheckpoint(s) \/ HandleCheckpoint(s)
      BY <2>2, RingRequest, RingCheckpoint DEF Ring!Next, Ring!Side, Side
    <2>3. CASE DllRegular \/ DllTest \/ DllInvalid
      BY <2>3, RingDll DEF Ring!Next
    <2>4. CASE SvcMiss \/ SvcTooBig \/ SvcConsume
      BY <2>4, RingSvc DEF Ring!Next
    <2>5. CASE Environment
      BY <2>5, RingEnvironment DEF Environment
    <2>6. CASE UNCHANGED vars
      BY <2>6, WaitingKept DEF vars, ringVars, Flight
    <2> QED
      BY <2>1, <2>2, <2>3, <2>4, <2>5, <2>6
      DEF Next, DllStep, SvcStep, DllBroken, DllCheckpoint, SvcBroken, SvcCheckpoint, Side
  <1> QED
    BY <1>1, <1>2, TypeCorrect, PTL DEF Spec, ImplementsTokens, Ring!Spec, ringVars
=============================================================================
