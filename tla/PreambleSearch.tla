--------------------------- MODULE PreambleSearch ---------------------------
(***************************************************************************)
(* The two preamble searches on the same bytes: FrameReader::              *)
(* ReadUntilPreamble of the DLL (Knuth-Morris-Pratt, with the loop that    *)
(* fills its table and one step for each turn of a loop) and the sliding   *)
(* window of the service (Preamble.Push, tested after every byte, acted    *)
(* upon after every chunk of as many bytes as the preamble has).           *)
(***************************************************************************)
EXTENDS Integers, Sequences

CONSTANTS
  Bytes,   \* byte values; 0 is the value of a fresh window
  N,       \* Preamble.Size
  MaxText  \* bound: bytes received

ASSUME SearchConstantsOK ==
  /\ 0 \in Bytes
  /\ N \in Nat \ {0}
  /\ MaxText \in Nat

VARIABLES
  kPreamble,  \* the preamble, fixed when the programs are built
  kLps,       \* entry i, for a match of i bytes, as far as the table is filled
  len,        \* bytes of the preamble matched inside itself
  text,       \* bytes received since the search began
  matched,    \* DLL: bytes of the preamble matched
  pending,    \* DLL: the last byte is not matched yet
  window,     \* service: the last bytes pushed
  seen        \* service: foundPreamble of the current chunk

tableVars == <<kPreamble, kLps, len>>
serviceVars == <<text, window, seen>>
searchVars == <<kPreamble, kLps, len, text, matched, pending, window, seen>>

SearchInit ==
  /\ kPreamble \in [1 .. N -> Bytes]
  /\ kLps = <<0>>
  /\ len = 0
  /\ text = <<>>
  /\ matched = 0
  /\ pending = FALSE
  /\ window = [i \in 1 .. N |-> 0]
  /\ seen = FALSE

-----------------------------------------------------------------------------
(* The DLL: the table is filled, then bytes are matched with it.           *)

\* Byte b does not go on with a match of k bytes, and there is a shorter one.
Fails(k, b) == k > 0 /\ b # kPreamble[k + 1]

Extended(k, b) == IF b = kPreamble[k + 1] THEN k + 1 ELSE k

Filled == Len(kLps) = N
NextOfPreamble == kPreamble[Len(kLps) + 1]

FillFallBack ==
  /\ ~Filled
  /\ Fails(len, NextOfPreamble)
  /\ len' = kLps[len]
  /\ UNCHANGED <<kPreamble, kLps, matched, pending>>
  /\ UNCHANGED serviceVars

FillEntry ==
  /\ ~Filled
  /\ ~Fails(len, NextOfPreamble)
  /\ len' = Extended(len, NextOfPreamble)
  /\ kLps' = Append(kLps, len')
  /\ UNCHANGED <<kPreamble, matched, pending>>
  /\ UNCHANGED serviceVars

LastByte == text[Len(text)]

\* Mutant: a match that fails is given up.
FallBackToStart ==
  /\ pending
  /\ Fails(matched, LastByte)
  /\ matched' = 0
  /\ UNCHANGED pending
  /\ UNCHANGED tableVars
  /\ UNCHANGED serviceVars

FallBack ==
  /\ pending
  /\ Fails(matched, LastByte)
  /\ matched' = kLps[matched]
  /\ UNCHANGED pending
  /\ UNCHANGED tableVars
  /\ UNCHANGED serviceVars

Match ==
  /\ pending
  /\ ~Fails(matched, LastByte)
  /\ matched' = Extended(matched, LastByte)
  /\ pending' = FALSE
  /\ UNCHANGED tableVars
  /\ UNCHANGED serviceVars

-----------------------------------------------------------------------------
(* Bytes arrive, and the service pushes them through its window.           *)

\* Mutant: the oldest byte is kept.
PushGrows(w, b) == Append(w, b)

Push(w, b) == [i \in 1 .. N |-> IF i < N THEN w[i + 1] ELSE b]

IsPreamble(w) == w = kPreamble

ChunkStart == Len(text) % N = 0

\* Mutant: a later byte of the chunk overwrites what an earlier one found.
ReceiveLastOnly(b) ==
  /\ Filled
  /\ ~pending
  /\ Len(text) < MaxText
  /\ ~(ChunkStart /\ seen)
  /\ text' = Append(text, b)
  /\ pending' = (matched < N)
  /\ window' = Push(window, b)
  /\ seen' = IsPreamble(window')
  /\ UNCHANGED matched
  /\ UNCHANGED tableVars

\* One byte for either search; each ends when it has found the preamble.
Receive(b) ==
  /\ Filled
  /\ ~pending
  /\ Len(text) < MaxText
  /\ ~(ChunkStart /\ seen)
  /\ text' = Append(text, b)
  /\ pending' = (matched < N)
  /\ window' = Push(window, b)
  /\ seen' = ((~ChunkStart /\ seen) \/ IsPreamble(window'))
  /\ UNCHANGED matched
  /\ UNCHANGED tableVars

SearchNext ==
  \/ FillFallBack \/ FillEntry \/ FallBack \/ Match
  \/ \E b \in Bytes : Receive(b)

SearchSpec == SearchInit /\ [][SearchNext]_searchVars

-----------------------------------------------------------------------------
SearchTypeOK ==
  /\ kPreamble \in [1 .. N -> Bytes]
  /\ kLps \in Seq(0 .. N - 1) /\ Len(kLps) \in 1 .. N
  /\ len \in 0 .. N - 1
  /\ text \in Seq(Bytes)
  /\ matched \in 0 .. N
  /\ pending \in BOOLEAN
  /\ window \in [1 .. N -> Bytes]
  /\ seen \in BOOLEAN

\* The first k bytes of the preamble end at place e of s.
EndsAt(s, k, e) ==
  /\ k <= e
  /\ \A j \in 1 .. k : s[e - k + j] = kPreamble[j]

Occurs == \E e \in N .. Len(text) : EndsAt(text, N, e)

(***************************************************************************)
(* The DLL's search is exact: it has ended if and only if the preamble     *)
(* occurs in what was received, and until then it remembers the longest    *)
(* end of the text that may still become one.                              *)
(***************************************************************************)
DllSearchExact ==
  ~pending =>
    IF matched = N THEN Occurs
    ELSE /\ ~Occurs
         /\ EndsAt(text, matched, Len(text))
         /\ \A k \in matched + 1 .. N - 1 : ~EndsAt(text, k, Len(text))

(***************************************************************************)
(* Between two chunks the service has found the preamble if and only if    *)
(* the DLL's search has; unless the preamble begins with 0, which a fresh  *)
(* window holds before anything was received.                              *)
(***************************************************************************)
SearchesAgree ==
  ChunkStart /\ ~pending /\ kPreamble[1] # 0 => (seen <=> matched = N)
=============================================================================
