------------------------- MODULE PipeTransferProofs -------------------------
(***************************************************************************)
(* Theorems about PipeTransfer, for every modulus, set of sizes and        *)
(* capacity: the loops keep their types, no index wraps, and a loop that   *)
(* returns has carried the whole value.                                    *)
(***************************************************************************)
EXTENDS PipeTransfer, TLAPS

(***************************************************************************)
(* Taking no more than the remainder of a away leaves the rest of the      *)
(* remainder: the request of a loop in the integers of its end.            *)
(***************************************************************************)
LEMMA ModMinus ==
  ASSUME NEW a \in Nat, NEW m \in Nat \ {0}, NEW i \in Nat, i <= a % m
  PROVE  (a - i) % m = (a % m) - i
  <1> DEFINE q == a \div m
             r == a % m
  <1>1. q \in Nat /\ r \in 0 .. m - 1 /\ a = m * q + r
    BY SMTT(20)
  <1>2. a - i = m * q + (r - i) /\ r - i \in 0 .. m - 1
    BY <1>1, SMTT(20)
  <1>3. ASSUME NEW x \in Nat, NEW b \in 0 .. m - 1
        PROVE  (m * x + b) % m = b
    OBVIOUS
  <1> QED
    BY <1>1, <1>2, <1>3

-----------------------------------------------------------------------------
(* The integers of the two ends.                                           *)

\* An end's integer never exceeds the number it stands for, and has less than
\* the modulus if it has a modulus.
LEMMA IntBounds ==
  ASSUME NEW n \in Nat
  PROVE  /\ ReaderInt(n) \in 0 .. n
         /\ WriterInt(n) \in 0 .. n
         /\ dest = "dll" => ReaderInt(n) < M
         /\ dest = "svc" => WriterInt(n) < M
  <1>1. n % M \in 0 .. M - 1 /\ n % M <= n
    <2>1. n % M \in 0 .. M - 1 /\ n \div M \in Nat /\ n = M * (n \div M) + (n % M)
      BY TransferConstantsOK
    <2>2. M * (n \div M) \in Nat
      BY <2>1, TransferConstantsOK
    <2> QED
      BY <2>1, <2>2, TransferConstantsOK
  <1> QED
    BY <1>1, TransferConstantsOK DEF ReaderInt, WriterInt

\* Below what an end's integer shows of a size, the remainder of the size is
\* computed without a carry, and so is the next index.
LEMMA IntSteps ==
  ASSUME NEW a \in Nat, NEW i \in Nat
  PROVE  /\ i <= ReaderInt(a) => ReaderInt(a - i) = ReaderInt(a) - i
         /\ i <= WriterInt(a) => WriterInt(a - i) = WriterInt(a) - i
  BY ModMinus, TransferConstantsOK DEF ReaderInt, WriterInt

\* A number below an end's integer of a size is its own integer.
LEMMA IntSmall ==
  ASSUME NEW a \in Nat, NEW j \in Nat
  PROVE  /\ j <= ReaderInt(a) => ReaderInt(j) = j
         /\ j <= WriterInt(a) => WriterInt(j) = j
  <1>1. /\ ReaderInt(a) \in 0 .. a /\ (dest = "dll" => ReaderInt(a) < M)
        /\ WriterInt(a) \in 0 .. a /\ (dest = "svc" => WriterInt(a) < M)
    BY IntBounds
  <1>2. j < M => j % M = j
    BY TransferConstantsOK
  <1> QED
    BY <1>1, <1>2, TransferConstantsOK DEF ReaderInt, WriterInt

-----------------------------------------------------------------------------
(* The inductive invariant: what an end has of its value never exceeds     *)
(* what its integers can show of the size, so that no sum wraps.           *)

NoWrap ==
  /\ rix <= ReaderInt(size)
  /\ wix <= WriterInt(total)

IInv == TypeOK /\ FilledInOrder /\ ReturnsMeanWhole /\ NoWrap

LEMMA InitIInv == Init => IInv
  <1> SUFFICES ASSUME Init PROVE IInv
    OBVIOUS
  <1>1. size \in Nat /\ total \in Nat
    BY TransferConstantsOK DEF Init, Lengths
  <1>2. ReaderInt(size) >= 0 /\ WriterInt(total) >= 0
    BY <1>1, IntBounds
  <1>3. TypeOK
    <2>1. buffer \in Buffer(size)
      BY <1>1 DEF Init, Buffer
    <2>2. /\ rix \in 0 .. size /\ wix \in 0 .. total /\ put \in Nat
          /\ taken \in 0 .. put /\ put <= taken + Capacity
      BY <1>1, TransferConstantsOK DEF Init
    <2>3. /\ dest \in {"dll", "svc"} /\ rpc = "poll" /\ wpc = "write"
          /\ stop \in BOOLEAN /\ closed \subseteq {"reader", "writer"}
      BY DEF Init
    <2> QED
      BY <1>1, <2>1, <2>2, <2>3 DEF TypeOK
  <1>4. FilledInOrder
    BY <1>1 DEF Init, FilledInOrder
  <1>5. ReturnsMeanWhole /\ NoWrap
    BY <1>1, <1>2 DEF Init, ReturnsMeanWhole, NoWrap
  <1> QED
    BY <1>3, <1>4, <1>5 DEF IInv

\* The reader takes at most what is left of its value, in bounds and in order.
LEMMA FetchIInv ==
  ASSUME IInv, Fetch, UNCHANGED <<args, writer, env>>
  PROVE  IInv'
  <1> USE DEF args, writer, env
  <1>1. CASE UNCHANGED <<rix, buffer, taken>> /\ rpc' \in {"stopped", "failed"}
    BY <1>1 DEF IInv, TypeOK, FilledInOrder, ReturnsMeanWhole, NoWrap, ReaderInt, WriterInt, Buffer
  <1>2. ASSUME NEW n \in 1 .. Request, n <= Avail, buffer' = Fill(n),
               rix' = ReaderInt(rix + n), taken' = taken + n, rpc' = "poll"
        PROVE  IInv'
    <2>1. /\ size \in Nat /\ rix \in 0 .. size /\ rix <= ReaderInt(size)
          /\ taken \in Nat /\ rix = taken /\ put \in Nat /\ total \in Nat
      BY DEF IInv, TypeOK, FilledInOrder, NoWrap
    <2>2. ReaderInt(size) \in 0 .. size /\ Request = ReaderInt(size) - rix
      BY <2>1, IntBounds, IntSteps DEF Request
    <2>3. n \in Nat /\ rix + n \in Nat /\ rix + n <= ReaderInt(size)
      BY <1>2, <2>1, <2>2
    <2>4. rix' = rix + n
      BY <1>2, <2>1, <2>3, IntSmall
    <2>5. taken + n <= put
      BY <1>2, <2>1, <2>3 DEF Avail
    <2>6. buffer' = [k \in 0 .. size - 1 |->
                       IF k \in rix .. rix + n - 1 THEN taken + (k - rix) + 1
                                                   ELSE buffer[k]]
      BY <1>2 DEF Fill, IInv, TypeOK, Buffer
    <2>7. buffer' \in Buffer(size)
      BY <2>1, <2>3, <2>6 DEF IInv, TypeOK, Buffer
    <2>8. TypeOK'
      <3>1. rix' \in 0 .. size /\ taken' \in 0 .. put
        BY <1>2, <2>1, <2>2, <2>3, <2>4, <2>5
      <3>2. put <= taken' + Capacity
        BY <1>2, <2>1, <2>3, TransferConstantsOK DEF IInv, TypeOK
      <3> QED
        BY <1>2, <2>7, <3>1, <3>2 DEF IInv, TypeOK, Buffer
    <2>9. \A k \in DOMAIN buffer' : buffer'[k] = IF k < taken' THEN k + 1 ELSE 0
      <3>1. \A k \in 0 .. size - 1 : buffer[k] = IF k < taken THEN k + 1 ELSE 0
        BY DEF IInv, TypeOK, Buffer, FilledInOrder
      <3> QED
        BY <1>2, <2>1, <2>3, <2>6, <3>1
    <2>10. FilledInOrder'
      BY <1>2, <2>1, <2>4, <2>9 DEF IInv, FilledInOrder
    <2>11. ReturnsMeanWhole' /\ NoWrap'
      BY <1>2, <2>3, <2>4 DEF IInv, ReturnsMeanWhole, NoWrap, ReaderInt, WriterInt
    <2> QED
      BY <2>8, <2>10, <2>11 DEF IInv
  <1> QED
    BY <1>1, <1>2 DEF Fetch

\* The writer gives at most what is left of its value.
LEMMA WritePartIInv ==
  ASSUME IInv, WritePart, UNCHANGED <<args, reader, env>>
  PROVE  IInv'
  <1> USE DEF args, reader, env
  <1>1. PICK n \in 1 .. WriterInt(total - wix) :
          Avail + n <= Capacity /\ wix' = WriterInt(wix + n) /\ put' = put + n
    BY DEF WritePart
  <1>2. /\ total \in Nat /\ wix \in 0 .. total /\ wix <= WriterInt(total)
        /\ put \in Nat /\ wix = put /\ taken \in 0 .. put
    BY DEF IInv, TypeOK, FilledInOrder, NoWrap
  <1>3. WriterInt(total) \in 0 .. total /\ WriterInt(total - wix) = WriterInt(total) - wix
    BY <1>2, IntBounds, IntSteps
  <1>4. n \in Nat /\ wix + n \in Nat /\ wix + n <= WriterInt(total)
    BY <1>1, <1>2, <1>3
  <1>5. wix' = wix + n
    BY <1>1, <1>2, <1>4, IntSmall
  <1>6. put' <= taken + Capacity
    BY <1>1, <1>2, <1>4, TransferConstantsOK DEF Avail
  <1>7. TypeOK'
    <2>1. wix' \in 0 .. total /\ put' \in Nat /\ taken \in 0 .. put'
      BY <1>1, <1>2, <1>3, <1>4, <1>5
    <2> QED
      BY <1>6, <2>1 DEF IInv, TypeOK, WritePart, Buffer
  <1>8. FilledInOrder'
    BY <1>1, <1>2, <1>5 DEF IInv, FilledInOrder
  <1>9. ReturnsMeanWhole' /\ NoWrap'
    BY <1>4, <1>5 DEF IInv, ReturnsMeanWhole, NoWrap, ReaderInt, WriterInt, WritePart
  <1> QED
    BY <1>7, <1>8, <1>9 DEF IInv

\* A loop that comes to its end has carried all of its value, and so the value
\* has a size its integers can show.
LEMMA EndsIInv ==
  ASSUME IInv,
         \/ (EndRead \/ Poll) /\ UNCHANGED <<args, writer, env>>
         \/ EndWrite /\ UNCHANGED <<args, reader, env>>
  PROVE  IInv'
  <1> USE DEF args, reader, writer, env
  <1>1. /\ size \in Nat /\ total \in Nat
        /\ ReaderInt(size) \in 0 .. size /\ (dest = "dll" => ReaderInt(size) < M)
        /\ WriterInt(total) \in 0 .. total /\ (dest = "svc" => WriterInt(total) < M)
    BY IntBounds DEF IInv, TypeOK
  <1>2. TypeOK' /\ FilledInOrder' /\ NoWrap'
    BY DEF IInv, TypeOK, FilledInOrder, NoWrap, ReaderInt, WriterInt, Buffer,
           EndRead, Poll, EndWrite
  <1>3. ReturnsMeanWhole'
    BY <1>1, TransferConstantsOK
    DEF IInv, TypeOK, FilledInOrder, NoWrap, ReturnsMeanWhole, EndRead, Poll, EndWrite
  <1> QED
    BY <1>2, <1>3 DEF IInv

\* Stop requests and ends that go away touch no index.
LEMMA EnvironmentIInv ==
  ASSUME IInv, Environment
  PROVE  IInv'
  <1>1. TypeOK'
    BY DEF IInv, TypeOK, Environment, RequestStop, CloseWriter, CloseReader,
           args, reader, writer, Buffer
  <1>2. FilledInOrder' /\ ReturnsMeanWhole' /\ NoWrap'
    BY DEF IInv, FilledInOrder, ReturnsMeanWhole, NoWrap, ReaderInt, WriterInt,
           Environment, RequestStop, CloseWriter, CloseReader, args, reader, writer
  <1> QED
    BY <1>1, <1>2 DEF IInv

LEMMA NextIInv == IInv /\ [Next]_vars => IInv'
  <1> SUFFICES ASSUME IInv, [Next]_vars PROVE IInv'
    OBVIOUS
  <1>1. CASE ReaderStep
    BY <1>1, FetchIInv, EndsIInv DEF ReaderStep
  <1>2. CASE WriterStep
    BY <1>2, WritePartIInv, EndsIInv DEF WriterStep
  <1>3. CASE Environment
    BY <1>3, EnvironmentIInv
  <1>4. CASE UNCHANGED vars
    BY <1>4 DEF vars, args, reader, writer, env, IInv, TypeOK, FilledInOrder,
                ReturnsMeanWhole, NoWrap, ReaderInt, WriterInt, Buffer
  <1> QED
    BY <1>1, <1>2, <1>3, <1>4 DEF Next

LEMMA InvariantHolds == Spec => []IInv
  BY InitIInv, NextIInv, PTL DEF Spec

-----------------------------------------------------------------------------
(***************************************************************************)
(* The loops of PipeReader, PipeWriter and PipeStreamExtension keep their  *)
(* types, whatever the width of a DWORD and the size of the value.         *)
(***************************************************************************)
THEOREM TransferTypeCorrect == Spec => []TypeOK
  <1>1. IInv => TypeOK
    BY DEF IInv
  <1> QED
    BY <1>1, InvariantHolds, PTL

(***************************************************************************)
(* The index of PipeReader.cpp:19 and of PipeWriter.cpp:18, which has 32   *)
(* bits for a size of 64, never wraps: the bytes taken are the first bytes *)
(* of the buffer, in the order they were written.                          *)
(***************************************************************************)
THEOREM BytesInOrder == Spec => []FilledInOrder
  <1>1. IInv => FilledInOrder
    BY DEF IInv
  <1> QED
    BY <1>1, InvariantHolds, PTL

(***************************************************************************)
(* A loop that returns has carried the whole value; the DLL's loops return *)
(* for no value of 2^32 bytes or more.                                     *)
(***************************************************************************)
THEOREM WholeOrNotAtAll == Spec => []ReturnsMeanWhole
  <1>1. IInv => ReturnsMeanWhole
    BY DEF IInv
  <1> QED
    BY <1>1, InvariantHolds, PTL
=============================================================================
