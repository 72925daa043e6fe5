----------------------------- MODULE AntiDebug -----------------------------
(***************************************************************************)
(* The seven checks of Module/AntiDebug.cpp.  Each asks the system a few   *)
(* questions in order and answers OKAY or BAD; the process and the system  *)
(* may change between two questions, and a question may fail.              *)
(*                                                                         *)
(* What the system answers is external: a question shows one fact, the     *)
(* presence of a debugger, heap checking (set up as the process starts),   *)
(* or kernel debugging.                                                    *)
(***************************************************************************)
EXTENDS Naturals

CONSTANTS
  HeapEntries,  \* entries of the process heap
  MaxBuffers    \* query buffers the address space has room for

ASSUME AntiDebugConstantsOK == HeapEntries \in Nat /\ MaxBuffers \in Nat

Facts == {"debugger", "heapChecks", "kernel"}

\* The questions of each check, numbered in order, and the fact each shows.
Watches ==
  [ IsDebuggerPresent |-> {<<1, "debugger">>},
    CheckRemoteDebuggerPresent |-> {<<1, "debugger">>},
    CheckNtQuery |-> {<<1, "debugger">>, <<2, "debugger">>, <<3, "debugger">>},
    CheckEbs |-> {<<1, "debugger">>, <<2, "heapChecks">>},
    RtlQueryProcessDebugInformation |-> {<<1, "heapChecks">>},
    CheckHeapProtection |-> {<<1, "heapChecks">>},
    CheckKuserSharedData |-> {<<1, "kernel">>} ]

Checks == DOMAIN Watches

VARIABLES
  facts,    \* what holds of the process and the system
  check,    \* the check called last
  ask,      \* the question it is at
  verdict,  \* "none" while it runs, then "okay" or "bad"
  walked,   \* heap entries passed by the walk
  block,    \* the walk: "none", "found", "changed" by another thread since
  buffers,  \* query buffers created; nothing releases them
  seen,     \* history: facts that held at some moment of the call
  held,     \* history: facts that held all through the call
  missed    \* history: questions of the call that got no answer

call == <<check, ask, verdict, missed>>
env == <<facts, seen, held>>
heap == <<walked, block>>
vars == <<call, env, heap, buffers>>

Init ==
  /\ facts \in SUBSET Facts
  /\ check \in Checks
  /\ ask = 1
  /\ verdict = "none"
  /\ walked = 0
  /\ block = "none"
  /\ buffers = 0
  /\ seen = facts
  /\ held = facts
  /\ missed = {}

\* Mutant: the next check starts where the last one ended.
CallGoesOn ==
  /\ verdict # "none"
  /\ check' \in Checks
  /\ ask' = ask
  /\ verdict' = "none"
  /\ walked' = 0
  /\ block' = "none"
  /\ seen' = facts
  /\ held' = facts
  /\ missed' = {}
  /\ UNCHANGED <<facts, buffers>>

\* The dispatcher the checks are registered with calls one after the other.
Call ==
  /\ verdict # "none"
  /\ check' \in Checks
  /\ ask' = 1
  /\ verdict' = "none"
  /\ walked' = 0
  /\ block' = "none"
  /\ seen' = facts
  /\ held' = facts
  /\ missed' = {}
  /\ UNCHANGED <<facts, buffers>>

\* A debugger comes or goes, at any time.
Change ==
  /\ \E f \in {"debugger", "kernel"} :
       facts' = IF f \in facts THEN facts \ {f} ELSE facts \cup {f}
  /\ seen' = seen \cup facts'
  /\ held' = held \cap facts'
  /\ UNCHANGED <<call, heap, buffers>>

\* The heap is walked without being locked.
ChangeBlock ==
  /\ block = "found"
  /\ block' = "changed"
  /\ UNCHANGED <<call, env, walked, buffers>>

-----------------------------------------------------------------------------
At(c, n) == check = c /\ ask = n /\ verdict = "none"

\* The question is answered: BAD if it shows its fact, else on to the next,
\* and OKAY after the last.
Answer(f, last) ==
  /\ verdict' = IF f \in facts THEN "bad" ELSE IF last THEN "okay" ELSE "none"
  /\ ask' = IF verdict' = "none" THEN ask + 1 ELSE ask
  /\ UNCHANGED <<check, missed>>

\* The question fails, and that decides v ("none": nothing).
Miss(v) ==
  /\ verdict' = v
  /\ ask' = IF v = "none" THEN ask + 1 ELSE ask
  /\ missed' = missed \cup {ask}
  /\ UNCHANGED check

IsDebuggerPresent ==
  /\ At("IsDebuggerPresent", 1)
  /\ Answer("debugger", TRUE)
  /\ UNCHANGED <<env, heap, buffers>>

CheckRemoteDebuggerPresent ==
  /\ At("CheckRemoteDebuggerPresent", 1)
  /\ Answer("debugger", TRUE) \/ Miss("okay")
  /\ UNCHANGED <<env, heap, buffers>>

\* Mutant: a failing question ends the check.
CheckNtQueryGivesUp ==
  /\ \/ At("CheckNtQuery", 1) /\ (Answer("debugger", FALSE) \/ Miss("okay"))
     \/ At("CheckNtQuery", 2) /\ (Answer("debugger", FALSE) \/ Miss("bad"))
     \/ At("CheckNtQuery", 3) /\ (Answer("debugger", TRUE) \/ Miss("okay"))
  /\ UNCHANGED <<env, heap, buffers>>

\* Debug port, debug object and debug flags.  For the second, "port not set"
\* is the answer of a process without a debugger; any other failure is BAD.
CheckNtQuery ==
  /\ \/ At("CheckNtQuery", 1) /\ (Answer("debugger", FALSE) \/ Miss("none"))
     \/ At("CheckNtQuery", 2) /\ (Answer("debugger", FALSE) \/ Miss("bad"))
     \/ At("CheckNtQuery", 3) /\ (Answer("debugger", TRUE) \/ Miss("okay"))
  /\ UNCHANGED <<env, heap, buffers>>

\* BeingDebugged and NtGlobalFlag, read from the process' own block.
CheckEbs ==
  /\ \/ At("CheckEbs", 1) /\ Answer("debugger", FALSE)
     \/ At("CheckEbs", 2) /\ Answer("heapChecks", TRUE)
  /\ UNCHANGED <<env, heap, buffers>>

\* The buffer is created first, and kept whatever comes after.
RtlQueryProcessDebugInformation ==
  /\ At("RtlQueryProcessDebugInformation", 1)
  /\ \/ /\ Miss("okay")
        /\ UNCHANGED buffers
     \/ /\ buffers < MaxBuffers
        /\ buffers' = buffers + 1
        /\ Answer("heapChecks", TRUE) \/ Miss("okay")
  /\ UNCHANGED <<env, heap>>

-----------------------------------------------------------------------------
(* CheckHeapProtection: HeapWalk up to the first entry in use.              *)

\* Mutant: only an entry in use ends the walk.
EndWalkNever ==
  /\ At("CheckHeapProtection", 1)
  /\ block = "found"
  /\ UNCHANGED vars

\* The walk fails, or is at the end of the heap.
EndWalk ==
  /\ At("CheckHeapProtection", 1)
  /\ block = "none"
  /\ Miss("okay")
  /\ UNCHANGED <<env, heap, buffers>>

WalkHeap ==
  /\ At("CheckHeapProtection", 1)
  /\ block = "none"
  /\ walked < HeapEntries
  /\ walked' = walked + 1
  /\ block' \in {"none", "found"}
  /\ UNCHANGED <<call, env, buffers>>

\* Mutant: whatever entry the walk is at is taken.
ReadTailOfAny ==
  /\ At("CheckHeapProtection", 1)
  /\ walked > 0
  /\ IF block = "found" THEN Answer("heapChecks", TRUE)
                        ELSE \E v \in {"okay", "bad"} : Miss(v)
  /\ UNCHANGED <<env, heap, buffers>>

\* The fill pattern behind the block; a block that changed may hold anything.
ReadTail ==
  /\ At("CheckHeapProtection", 1)
  /\ \/ block = "found" /\ Answer("heapChecks", TRUE)
     \/ block = "changed" /\ \E v \in {"okay", "bad"} : Miss(v)
  /\ UNCHANGED <<env, heap, buffers>>

CheckHeapProtection == EndWalk \/ WalkHeap \/ ReadTail

CheckKuserSharedData ==
  /\ At("CheckKuserSharedData", 1)
  /\ Answer("kernel", TRUE)
  /\ UNCHANGED <<env, heap, buffers>>

CheckStep ==
  \/ IsDebuggerPresent \/ CheckRemoteDebuggerPresent \/ CheckNtQuery \/ CheckEbs
  \/ RtlQueryProcessDebugInformation \/ CheckHeapProtection \/ CheckKuserSharedData

Next == Call \/ Change \/ ChangeBlock \/ CheckStep

Spec == Init /\ [][Next]_vars /\ WF_vars(CheckStep)

-----------------------------------------------------------------------------
TypeOK ==
  /\ facts \subseteq Facts
  /\ check \in Checks
  /\ ask \in {w[1] : w \in Watches[check]}
  /\ verdict \in {"none", "okay", "bad"}
  /\ walked \in 0 .. HeapEntries
  /\ block \in {"none", "found", "changed"}
  /\ buffers \in 0 .. MaxBuffers
  /\ held \subseteq seen
  /\ seen \subseteq Facts
  /\ missed \subseteq {w[1] : w \in Watches[check]}

(***************************************************************************)
(* BAD has a cause: a fact the check looks for held at some moment of the  *)
(* call, or the debug object could not be queried, or the heap changed     *)
(* under the walk.                                                         *)
(***************************************************************************)
BadHasCause ==
  verdict = "bad" =>
    \/ \E w \in Watches[check] : w[2] \in seen
    \/ check = "CheckNtQuery" /\ 2 \in missed
    \/ block = "changed"

(***************************************************************************)
(* OKAY passes nothing over: if a fact the check looks for held all        *)
(* through the call, every question that shows it was left unanswered.     *)
(***************************************************************************)
OkayMissesNothing ==
  verdict = "okay" =>
    \A w \in Watches[check] : w[2] \in held => w[1] \in missed

(***************************************************************************)
(* Every check comes to its answer, on a heap without an entry in use too. *)
(***************************************************************************)
ChecksEnd == verdict = "none" ~> verdict # "none"
=============================================================================
