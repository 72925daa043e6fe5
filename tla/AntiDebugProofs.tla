--------------------------- MODULE AntiDebugProofs ---------------------------
(***************************************************************************)
(* Theorems about AntiDebug, for a heap of any size and any room for       *)
(* buffers: what an answer of a check says of the facts it looks for.      *)
(***************************************************************************)
EXTENDS AntiDebug, TLAPS

\* The facts of the moment held at some moment, and whatever held all through
\* the call holds now.
HistoryBrackets == held \subseteq facts /\ facts \subseteq seen

\* A question the check is past was left unanswered, or its fact did not hold
\* all through the call.
PassedShowsNothing ==
  verdict = "none" =>
    \A w \in Watches[check] : w[1] < ask => w[2] \notin held \/ w[1] \in missed

CheckInv ==
  /\ TypeOK
  /\ HistoryBrackets
  /\ PassedShowsNothing
  /\ BadHasCause
  /\ OkayMissesNothing

-----------------------------------------------------------------------------
(* The questions of a check.                                               *)

Numbers(c) == {w[1] : w \in Watches[c]}

\* Question n of check c shows fact f and no other; it is the last one or is
\* followed by the next number.
Shows(c, n, f, last) ==
  /\ c \in Checks
  /\ n \in Numbers(c)
  /\ <<n, f>> \in Watches[c]
  /\ \A w \in Watches[c] : w[1] = n => w[2] = f
  /\ last => \A w \in Watches[c] : w[1] <= n
  /\ ~last => n + 1 \in Numbers(c)

\* What each check asks, as the actions of AntiDebug ask it.
LEMMA Questions ==
  /\ Shows("IsDebuggerPresent", 1, "debugger", TRUE)
  /\ Shows("CheckRemoteDebuggerPresent", 1, "debugger", TRUE)
  /\ Shows("CheckNtQuery", 1, "debugger", FALSE)
  /\ Shows("CheckNtQuery", 2, "debugger", FALSE)
  /\ Shows("CheckNtQuery", 3, "debugger", TRUE)
  /\ Shows("CheckEbs", 1, "debugger", FALSE)
  /\ Shows("CheckEbs", 2, "heapChecks", TRUE)
  /\ Shows("RtlQueryProcessDebugInformation", 1, "heapChecks", TRUE)
  /\ Shows("CheckHeapProtection", 1, "heapChecks", TRUE)
  /\ Shows("CheckKuserSharedData", 1, "kernel", TRUE)
  BY DEF Shows, Numbers, Watches, Checks

\* Question numbers are positive, every check has a first question, and every
\* fact looked for is one there is.
LEMMA WatchesTypes ==
  ASSUME NEW c \in Checks
  PROVE  /\ 1 \in Numbers(c)
         /\ \A w \in Watches[c] : w[1] \in Nat /\ w[1] >= 1 /\ w[2] \in Facts
  <1>1. \E w \in Watches[c] : w[1] = 1
    <2>1. <<1, "debugger">>[1] = 1 /\ <<1, "heapChecks">>[1] = 1 /\ <<1, "kernel">>[1] = 1
      OBVIOUS
    <2>2. \/ <<1, "debugger">> \in Watches[c]
          \/ <<1, "heapChecks">> \in Watches[c]
          \/ <<1, "kernel">> \in Watches[c]
      BY DEF Watches, Checks
    <2> QED
      BY <2>1, <2>2
  <1>2. \A w \in Watches[c] : w \in (1 .. 3) \X Facts
    BY DEF Watches, Checks, Facts
  <1> QED
    BY <1>1, <1>2 DEF Numbers

-----------------------------------------------------------------------------
(* One question, answered or not.                                          *)

\* An answer is BAD only on a fact that holds now, and passes over a fact only
\* if it does not hold now.
LEMMA AnswerKeeps ==
  ASSUME CheckInv,
         NEW c, NEW n, NEW f, NEW last \in BOOLEAN, Shows(c, n, f, last),
         At(c, n), Answer(f, last),
         UNCHANGED <<env, heap>>, buffers' \in 0 .. MaxBuffers
  PROVE  CheckInv'
  <1> USE DEF At, Answer, Shows, Numbers, env, heap
  <1>1. /\ check' = c /\ missed' = missed
        /\ \A w \in Watches[c] : w[1] \in Nat
        /\ n \in Nat
    BY WatchesTypes
  <1>2. TypeOK'
    <2>1. ask' \in Numbers(c)
      BY <1>1
    <2>2. verdict' \in {"none", "okay", "bad"}
      OBVIOUS
    <2> QED
      BY <1>1, <2>1, <2>2 DEF CheckInv, TypeOK
  <1>3. HistoryBrackets'
    BY DEF CheckInv, HistoryBrackets
  <1>4. \A w \in Watches[c] : w[1] < n => w[2] \notin held \/ w[1] \in missed
    BY DEF CheckInv, PassedShowsNothing
  <1>5. verdict' # "bad" => f \notin held
    BY DEF CheckInv, HistoryBrackets
  <1>6. \A w \in Watches[c] :
          verdict' # "bad" /\ w[1] <= n => w[2] \notin held \/ w[1] \in missed
    BY <1>1, <1>4, <1>5
  <1>7. PassedShowsNothing'
    BY <1>1, <1>6 DEF PassedShowsNothing
  <1>8. OkayMissesNothing'
    BY <1>1, <1>6 DEF OkayMissesNothing
  <1>9. BadHasCause'
    <2>1. verdict' = "bad" => f \in seen
      BY DEF CheckInv, HistoryBrackets
    <2>2. <<n, f>>[2] = f
      OBVIOUS
    <2> QED
      BY <1>1, <2>1, <2>2 DEF BadHasCause
  <1> QED
    BY <1>2, <1>3, <1>7, <1>8, <1>9 DEF CheckInv

\* A question that fails is recorded; it may decide BAD only where a cause
\* other than a fact is at hand.
LEMMA MissKeeps ==
  ASSUME CheckInv,
         NEW c, NEW n, NEW f, NEW last \in BOOLEAN, Shows(c, n, f, last),
         NEW v \in {"none", "okay", "bad"}, v = "none" => ~last, v = "okay" => last,
         v = "bad" => (c = "CheckNtQuery" /\ n = 2) \/ block = "changed",
         At(c, n), Miss(v),
         UNCHANGED <<env, heap>>, buffers' \in 0 .. MaxBuffers
  PROVE  CheckInv'
  <1> USE DEF At, Miss, Shows, Numbers, env, heap
  <1>1. /\ check' = c /\ missed' = missed \cup {n} /\ verdict' = v
        /\ \A w \in Watches[c] : w[1] \in Nat
        /\ n \in Nat
    BY WatchesTypes
  <1>2. TypeOK'
    <2>1. ask' \in Numbers(c)
      BY <1>1
    <2>2. missed' \subseteq Numbers(c)
      BY <1>1 DEF CheckInv, TypeOK
    <2> QED
      BY <1>1, <2>1, <2>2 DEF CheckInv, TypeOK
  <1>3. HistoryBrackets'
    BY DEF CheckInv, HistoryBrackets
  <1>4. \A w \in Watches[c] : w[1] < n => w[2] \notin held \/ w[1] \in missed
    BY DEF CheckInv, PassedShowsNothing
  <1>5. \A w \in Watches[c] : w[1] <= n => w[2] \notin held \/ w[1] \in missed'
    BY <1>1, <1>4
  <1>6. PassedShowsNothing'
    BY <1>1, <1>5 DEF PassedShowsNothing
  <1>7. OkayMissesNothing'
    BY <1>1, <1>5 DEF OkayMissesNothing
  <1>8. BadHasCause'
    BY <1>1 DEF BadHasCause
  <1> QED
    BY <1>2, <1>3, <1>6, <1>7, <1>8 DEF CheckInv

-----------------------------------------------------------------------------
(* The steps.                                                              *)

LEMMA InitKeeps ==
  ASSUME Init
  PROVE  CheckInv
  <1>1. TypeOK
    <2>1. 1 \in Numbers(check)
      BY WatchesTypes DEF Init
    <2> QED
      BY <2>1, AntiDebugConstantsOK DEF Init, TypeOK, Numbers
  <1>2. HistoryBrackets /\ BadHasCause /\ OkayMissesNothing
    BY DEF Init, HistoryBrackets, BadHasCause, OkayMissesNothing
  <1>3. PassedShowsNothing
    BY WatchesTypes DEF Init, PassedShowsNothing
  <1> QED
    BY <1>1, <1>2, <1>3 DEF CheckInv

LEMMA CallKeeps ==
  ASSUME CheckInv, Call
  PROVE  CheckInv'
  <1>1. TypeOK'
    <2>1. 1 \in Numbers(check')
      BY WatchesTypes DEF Call
    <2> QED
      BY <2>1, AntiDebugConstantsOK DEF CheckInv, Call, TypeOK, Numbers
  <1>2. HistoryBrackets' /\ BadHasCause' /\ OkayMissesNothing'
    BY DEF Call, HistoryBrackets, BadHasCause, OkayMissesNothing
  <1>3. PassedShowsNothing'
    BY WatchesTypes DEF Call, PassedShowsNothing
  <1> QED
    BY <1>1, <1>2, <1>3 DEF CheckInv

LEMMA ChangeKeeps ==
  ASSUME CheckInv, Change
  PROVE  CheckInv'
  <1> USE DEF Change, call, heap
  <1>1. TypeOK'
    BY DEF CheckInv, TypeOK, Facts
  <1>2. HistoryBrackets'
    BY DEF HistoryBrackets
  <1>3. PassedShowsNothing' /\ OkayMissesNothing'
    BY DEF CheckInv, PassedShowsNothing, OkayMissesNothing
  <1>4. BadHasCause'
    BY DEF CheckInv, BadHasCause
  <1> QED
    BY <1>1, <1>2, <1>3, <1>4 DEF CheckInv

\* A step of the walk that asks nothing.
LEMMA QuietKeeps ==
  ASSUME CheckInv, UNCHANGED <<call, env, buffers>>, walked' \in 0 .. HeapEntries,
         block' \in {"none", "found", "changed"}, block = "changed" => block' = "changed"
  PROVE  CheckInv'
  <1> USE DEF call, env
  <1>1. TypeOK'
    BY DEF CheckInv, TypeOK
  <1>2. HistoryBrackets' /\ PassedShowsNothing' /\ OkayMissesNothing'
    BY DEF CheckInv, HistoryBrackets, PassedShowsNothing, OkayMissesNothing
  <1>3. BadHasCause'
    BY DEF CheckInv, BadHasCause
  <1> QED
    BY <1>1, <1>2, <1>3 DEF CheckInv

LEMMA CheckStepKeeps ==
  ASSUME CheckInv, CheckStep
  PROVE  CheckInv'
  <1>0. /\ buffers \in 0 .. MaxBuffers /\ walked \in 0 .. HeapEntries
        /\ TRUE \in BOOLEAN /\ FALSE \in BOOLEAN
    BY DEF CheckInv, TypeOK
  <1>1. CASE IsDebuggerPresent
    BY <1>0, <1>1, Questions, AnswerKeeps DEF IsDebuggerPresent
  <1>2. CASE CheckRemoteDebuggerPresent
    <2>1. At("CheckRemoteDebuggerPresent", 1) /\ UNCHANGED <<env, heap, buffers>>
      BY <1>2 DEF CheckRemoteDebuggerPresent
    <2>2. CASE Answer("debugger", TRUE)
      BY <1>0, <2>1, <2>2, Questions, AnswerKeeps
    <2>3. CASE Miss("okay")
      BY <1>0, <2>1, <2>3, Questions, MissKeeps
    <2> QED
      BY <1>2, <2>2, <2>3 DEF CheckRemoteDebuggerPresent
  <1>3. CASE CheckNtQuery
    <2>1. UNCHANGED <<env, heap, buffers>>
      BY <1>3 DEF CheckNtQuery
    <2>2. CASE At("CheckNtQuery", 1) /\ Answer("debugger", FALSE)
      BY <1>0, <2>1, <2>2, Questions, AnswerKeeps
    <2>3. CASE At("CheckNtQuery", 1) /\ Miss("none")
      BY <1>0, <2>1, <2>3, Questions, MissKeeps
    <2>4. CASE At("CheckNtQuery", 2) /\ Answer("debugger", FALSE)
      BY <1>0, <2>1, <2>4, Questions, AnswerKeeps
    <2>5. CASE At("CheckNtQuery", 2) /\ Miss("bad")
      BY <1>0, <2>1, <2>5, Questions, MissKeeps
    <2>6. CASE At("CheckNtQuery", 3) /\ Answer("debugger", TRUE)
      BY <1>0, <2>1, <2>6, Questions, AnswerKeeps
    <2>7. CASE At("CheckNtQuery", 3) /\ Miss("okay")
      BY <1>0, <2>1, <2>7, Questions, MissKeeps
    <2> QED
      BY <1>3, <2>2, <2>3, <2>4, <2>5, <2>6, <2>7 DEF CheckNtQuery
  <1>4. CASE CheckEbs
    <2>1. UNCHANGED <<env, heap, buffers>>
      BY <1>4 DEF CheckEbs
    <2>2. CASE At("CheckEbs", 1) /\ Answer("debugger", FALSE)
      BY <1>0, <2>1, <2>2, Questions, AnswerKeeps
    <2>3. CASE At("CheckEbs", 2) /\ Answer("heapChecks", TRUE)
      BY <1>0, <2>1, <2>3, Questions, AnswerKeeps
    <2> QED
      BY <1>4, <2>2, <2>3 DEF CheckEbs
  <1>5. CASE RtlQueryProcessDebugInformation
    <2>1. /\ At("RtlQueryProcessDebugInformation", 1)
          /\ UNCHANGED <<env, heap>>
          /\ buffers' \in 0 .. MaxBuffers
      <3>1. buffers' = buffers \/ (buffers < MaxBuffers /\ buffers' = buffers + 1)
        BY <1>5 DEF RtlQueryProcessDebugInformation
      <3>2. buffers' \in 0 .. MaxBuffers
        BY <1>0, <3>1, AntiDebugConstantsOK
      <3> QED
        BY <1>5, <3>2 DEF RtlQueryProcessDebugInformation
    <2>2. CASE Answer("heapChecks", TRUE)
      BY <1>0, <2>1, <2>2, Questions, AnswerKeeps
    <2>3. CASE Miss("okay")
      BY <1>0, <2>1, <2>3, Questions, MissKeeps
    <2> QED
      BY <1>5, <2>2, <2>3 DEF RtlQueryProcessDebugInformation
  <1>6. CASE CheckHeapProtection
    <2>1. CASE EndWalk
      BY <1>0, <2>1, Questions, MissKeeps DEF EndWalk
    <2>2. CASE WalkHeap
      <3>1. /\ walked' \in 0 .. HeapEntries
            /\ block' \in {"none", "found", "changed"}
            /\ block = "changed" => block' = "changed"
        BY <1>0, <2>2, AntiDebugConstantsOK DEF WalkHeap
      <3> QED
        BY <2>2, <3>1, QuietKeeps DEF WalkHeap
    <2>3. CASE ReadTail
      <3>1. At("CheckHeapProtection", 1) /\ UNCHANGED <<env, heap, buffers>>
        BY <2>3 DEF ReadTail
      <3>2. CASE Answer("heapChecks", TRUE)
        BY <1>0, <3>1, <3>2, Questions, AnswerKeeps
      <3>3. CASE block = "changed" /\ \E v \in {"okay", "bad"} : Miss(v)
        <4>1. PICK v \in {"okay", "bad"} : Miss(v)
          BY <3>3
        <4> QED
          BY <1>0, <3>1, <3>3, <4>1, Questions, MissKeeps
      <3> QED
        BY <2>3, <3>2, <3>3 DEF ReadTail
    <2> QED
      BY <1>6, <2>1, <2>2, <2>3 DEF CheckHeapProtection
  <1>7. CASE CheckKuserSharedData
    BY <1>0, <1>7, Questions, AnswerKeeps DEF CheckKuserSharedData
  <1> QED
    BY <1>1, <1>2, <1>3, <1>4, <1>5, <1>6, <1>7 DEF CheckStep

LEMMA NextKeeps ==
  ASSUME CheckInv, [Next]_vars
  PROVE  CheckInv'
  <1>0. walked \in 0 .. HeapEntries /\ block \in {"none", "found", "changed"}
    BY DEF CheckInv, TypeOK
  <1>1. CASE Call
    BY <1>1, CallKeeps
  <1>2. CASE Change
    BY <1>2, ChangeKeeps
  <1>3. CASE ChangeBlock
    BY <1>0, <1>3, QuietKeeps DEF ChangeBlock
  <1>4. CASE CheckStep
    BY <1>4, CheckStepKeeps
  <1>5. CASE UNCHANGED vars
    BY <1>0, <1>5, QuietKeeps DEF vars, heap
  <1> QED
    BY <1>1, <1>2, <1>3, <1>4, <1>5 DEF Next

-----------------------------------------------------------------------------
\* The invariant the three theorems below are read off.
THEOREM CheckInvariant == Spec => []CheckInv
  <1>1. Init => CheckInv
    BY InitKeeps
  <1>2. CheckInv /\ [Next]_vars => CheckInv'
    BY NextKeeps
  <1> QED
    BY <1>1, <1>2, PTL DEF Spec

(***************************************************************************)
(* Every check stays at one of its own questions, whatever the heap holds  *)
(* and however many buffers there is room for.                             *)
(***************************************************************************)
THEOREM ChecksWellTyped == Spec => []TypeOK
  BY CheckInvariant, PTL DEF CheckInv

(***************************************************************************)
(* BAD has a cause: a fact the check looks for held at some moment of the  *)
(* call, or the debug object could not be queried, or the heap changed     *)
(* under the walk.                                                         *)
(***************************************************************************)
THEOREM BadAlwaysHasCause == Spec => []BadHasCause
  BY CheckInvariant, PTL DEF CheckInv

(***************************************************************************)
(* OKAY passes nothing over: if a fact the check looks for held all        *)
(* through the call, every question that shows it was left unanswered.     *)
(***************************************************************************)
THEOREM OkayNeverMisses == Spec => []OkayMissesNothing
  BY CheckInvariant, PTL DEF CheckInv
=============================================================================
