--------------------------- MODULE HostLifecycle ---------------------------
(***************************************************************************)
(* The life of the DLL's objects: Enable and Disable of DllMain.cpp, the   *)
(* registry of Host.hpp, the worker thread of each SessionService, and the *)
(* static destructor of host at process exit.                              *)
(*                                                                         *)
(* An object is identified by its type and the Enable call that made it.   *)
(* A worker is reduced to the objects it touches: Comm when it reads or    *)
(* writes, State when it checks or signs a header or changes Base.         *)
(***************************************************************************)
EXTENDS Naturals

CONSTANTS
  MaxEnables,  \* bound: calls of Enable
  Orders       \* orders in which the registry may be iterated

Types == {"State", "Comm", "SessionService"}

ASSUME HostConstantsOK ==
  /\ MaxEnables \in Nat \ {0}
  /\ Orders \subseteq {o \in [1 .. 3 -> Types] : \A t \in Types : \E i \in 1 .. 3 : o[i] = t}

Rounds == 1 .. MaxEnables

\* A checkpoint is sealed and written as an "Echo" or before a "Reset" of Base.
Reads == {"preamble", "header", "body"}
Writes == {"writeEcho", "writeReset"}
Running == Reads \cup Writes \cup
  {"starting", "null", "validate", "handle", "sealEcho", "sealReset", "reset"}

VARIABLES
  pc,        \* where the thread that calls Enable, Disable and exit is
  round,     \* calls of Enable so far
  live,      \* objects constructed and not deleted, per type
  reg,       \* _registered: the object of each type, 0 if there is none
  hAlg,      \* crypto providers opened and not closed, by the State of the round
  nullMade,  \* the static header of FrameHeader::Null is constructed
  worker,    \* the worker of each SessionService
  comm,      \* the Comm each worker's Session refers to
  order,     \* the order in which the registry is iterated
  todo,      \* registered types the destructor has still to delete
  stopReq,   \* _ss was asked to stop
  torn,      \* times the members of host were destroyed
  exited,    \* the process is exiting
  dangling   \* history: workers that touched a deleted object or registry

caller == <<pc, round, live, reg, hAlg, order, todo, stopReq, torn, exited>>
workers == <<worker, comm, nullMade, dangling>>
vars == <<caller, workers>>

Alive == {w \in Rounds : worker[w] \in Running}

Init ==
  /\ pc = "idle"
  /\ round = 0
  /\ live = [t \in Types |-> {}]
  /\ reg = [t \in Types |-> 0]
  /\ hAlg = {}
  /\ nullMade = FALSE
  /\ worker = [w \in Rounds |-> "none"]
  /\ comm = [w \in Rounds |-> 0]
  /\ order \in Orders
  /\ todo = {}
  /\ stopReq = FALSE
  /\ torn = 0
  /\ exited = FALSE
  /\ dangling = {}

-----------------------------------------------------------------------------
(* Enable: Add<State>, Add<Comm>, Add<SessionService>.  A later Enable      *)
(* overwrites the registry's entries and leaves the old objects alive.      *)

CallEnable ==
  /\ pc = "idle"
  /\ torn = 0
  /\ round < MaxEnables
  /\ round' = round + 1
  /\ pc' = "State"
  /\ UNCHANGED <<live, reg, hAlg, order, todo, stopReq, torn, exited>>
  /\ UNCHANGED workers

Register(t) == reg' = [reg EXCEPT ![t] = round]
Construct(t) == live' = [live EXCEPT ![t] = @ \cup {round}]

\* The provider may not open, or refuse the key and stay open: the destructor
\* of a half-made cipher does not run.  Enable then returns FALSE, as it does
\* in the next two steps, and undoes nothing.
AddState ==
  /\ pc = "State"
  /\ \/ /\ Construct("State")
        /\ Register("State")
        /\ hAlg' = hAlg \cup {round}
        /\ pc' = "Comm"
     \/ /\ hAlg' \in {hAlg, hAlg \cup {round}}
        /\ pc' = "idle"
        /\ UNCHANGED <<live, reg>>
  /\ UNCHANGED <<round, order, todo, stopReq, torn, exited>>
  /\ UNCHANGED workers

\* Opening the pipe may fail.
AddComm ==
  /\ pc = "Comm"
  /\ \/ /\ Construct("Comm")
        /\ Register("Comm")
        /\ pc' = "Session"
     \/ /\ pc' = "idle"
        /\ UNCHANGED <<live, reg>>
  /\ UNCHANGED <<round, hAlg, order, todo, stopReq, torn, exited>>
  /\ UNCHANGED workers

\* The constructor starts the worker before the registry knows the object; or
\* the system has no thread to give.
StartSession ==
  /\ pc = "Session"
  /\ \/ /\ Construct("SessionService")
        /\ worker' = [worker EXCEPT ![round] = "starting"]
        /\ pc' = "insert"
     \/ /\ pc' = "idle"
        /\ UNCHANGED <<live, worker>>
  /\ UNCHANGED <<round, reg, hAlg, order, todo, stopReq, torn, exited>>
  /\ UNCHANGED <<comm, nullMade, dangling>>

RegisterSession ==
  /\ pc = "insert"
  /\ Register("SessionService")
  /\ pc' = "idle"
  /\ UNCHANGED <<round, live, hAlg, order, todo, stopReq, torn, exited>>
  /\ UNCHANGED workers

-----------------------------------------------------------------------------
(* ~Host: called by Disable, and again as the static destructor.            *)

Registered == {t \in Types : reg[t] # 0}

\* The iteration comes to t next.
ComesFirst(t) ==
  /\ t \in todo
  /\ \A i, j \in 1 .. 3 : order[i] = t /\ order[j] \in todo => i <= j

\* Mutant: the stop source is left alone.
CallDisableSilently ==
  /\ pc = "idle"
  /\ torn = 0
  /\ todo' = Registered
  /\ pc' = "delete"
  /\ UNCHANGED <<round, live, reg, hAlg, order, stopReq, torn, exited>>
  /\ UNCHANGED workers

CallDisable ==
  /\ pc = "idle"
  /\ torn = 0
  /\ stopReq' = TRUE
  /\ todo' = Registered
  /\ pc' = "delete"
  /\ UNCHANGED <<round, live, reg, hAlg, order, torn, exited>>
  /\ UNCHANGED workers

\* Mutant: the destructor of the cipher closes its key only.
DestroyKeyOnly(t) ==
  /\ live' = [live EXCEPT ![t] = @ \ {reg[t]}]
  /\ UNCHANGED hAlg

\* What the destructor of the registered object of type t takes away.
Destroy(t) ==
  /\ live' = [live EXCEPT ![t] = @ \ {reg[t]}]
  /\ hAlg' = IF t = "State" THEN hAlg \ {reg[t]} ELSE hAlg

\* Mutant: the worker is detached instead of joined.
DeleteWithoutJoin ==
  /\ pc = "delete"
  /\ \E t \in todo :
       /\ ComesFirst(t)
       /\ Destroy(t)
       /\ todo' = todo \ {t}
  /\ UNCHANGED <<pc, round, reg, order, stopReq, torn, exited>>
  /\ UNCHANGED workers

\* Deleting the SessionService joins its worker.
DeleteNext ==
  /\ pc = "delete"
  /\ \E t \in todo :
       /\ ComesFirst(t)
       /\ t = "SessionService" => reg["SessionService"] \notin Alive
       /\ Destroy(t)
       /\ todo' = todo \ {t}
  /\ UNCHANGED <<pc, round, reg, order, stopReq, torn, exited>>
  /\ UNCHANGED workers

\* Mutant: the end of the process is not told from Disable.
FinishDisposeStays ==
  /\ pc = "delete"
  /\ todo = {}
  /\ torn' = torn + 1
  /\ pc' = "idle"
  /\ UNCHANGED <<round, live, reg, hAlg, order, todo, stopReq, exited>>
  /\ UNCHANGED workers

\* The body of the destructor is over; now the members are destroyed.
FinishDispose ==
  /\ pc = "delete"
  /\ todo = {}
  /\ torn' = torn + 1
  /\ pc' = IF exited THEN "exit" ELSE "idle"
  /\ UNCHANGED <<round, live, reg, hAlg, order, todo, stopReq, exited>>
  /\ UNCHANGED workers

\* Process exit terminates the other threads, then destroys host.  The early
\* return for a disposed host does not keep its members from being destroyed.
Exit ==
  /\ pc = "idle"
  /\ exited' = TRUE
  /\ worker' = [w \in Rounds |-> IF w \in Alive THEN "killed" ELSE worker[w]]
  /\ stopReq' = TRUE
  /\ todo' = IF torn > 0 THEN {} ELSE Registered
  /\ pc' = "delete"
  /\ UNCHANGED <<round, live, reg, hAlg, order, torn, comm, nullMade, dangling>>

-----------------------------------------------------------------------------
(* The worker: SessionService::Run and Session::Run.                        *)

Go(w, next) == worker' = [worker EXCEPT ![w] = next]
Touch(w, ok) == dangling' = IF ok THEN dangling ELSE dangling \cup {w}
CommLive(c) == c \in live["Comm"]
StateLive == torn = 0 /\ reg["State"] \in live["State"]

\* The first SessionService is inserted while its worker runs: a lookup of that
\* worker may then fail, which ends it.
LookupMayFail == pc = "insert" /\ reg["SessionService"] = 0

StartWorker(w) ==
  /\ worker[w] = "starting"
  /\ \/ /\ Go(w, "preamble")
        /\ comm' = [comm EXCEPT ![w] = reg["Comm"]]
        /\ Touch(w, torn = 0 /\ CommLive(reg["Comm"]))
     \/ /\ LookupMayFail
        /\ Go(w, "ended")
        /\ UNCHANGED <<comm, dangling>>
  /\ UNCHANGED nullMade
  /\ UNCHANGED caller

\* What is read arrives, or the read throws.
AfterRead == [preamble |-> "null", header |-> "validate", body |-> "preamble"]
Read(w) ==
  /\ worker[w] \in Reads
  /\ ~stopReq
  /\ Go(w, AfterRead[worker[w]]) \/ Go(w, "ended")
  /\ Touch(w, CommLive(comm[w]))
  /\ UNCHANGED <<comm, nullMade>>
  /\ UNCHANGED caller

\* The token is tested by the loop, before the pipe is touched, and by the
\* read, after it was.
SeeStop(w) ==
  /\ worker[w] \in Reads
  /\ stopReq
  /\ Go(w, "ended")
  /\ \E touched \in BOOLEAN : Touch(w, touched => CommLive(comm[w]))
  /\ UNCHANGED <<comm, nullMade>>
  /\ UNCHANGED caller

\* The cipher of the registered State signs, or throws.
Signed(w, next) ==
  /\ Go(w, next) \/ Go(w, "ended")
  /\ Touch(w, StateLive)

\* The system has no random bytes to give.
NoNonce(w) == Go(w, "ended") /\ UNCHANGED dangling

\* A new header takes a nonce and is signed.
NewHeader(w, next) == NoNonce(w) \/ Signed(w, next)

\* Before the first header is read the static null header is made, like any
\* other; if that throws, the next read tries again.
MakeNull(w) ==
  /\ worker[w] = "null"
  /\ IF nullMade THEN Go(w, "header") /\ UNCHANGED dangling
                 ELSE NewHeader(w, "header")
  /\ nullMade' = (worker'[w] = "header")
  /\ UNCHANGED comm
  /\ UNCHANGED caller

\* A copy of the header is signed and compared with it.
Validate(w) ==
  /\ worker[w] = "validate"
  /\ \E next \in {"handle", "sealReset"} : Signed(w, next)
  /\ UNCHANGED <<comm, nullMade>>
  /\ UNCHANGED caller

\* A checkpoint looks at Base.  A regular frame does nothing, an unknown one is
\* answered, a test frame is read into a buffer unless its size throws.
Handle(w) ==
  /\ worker[w] = "handle"
  /\ \/ /\ \E next \in {"preamble", "sealEcho"} : Go(w, next)
        /\ Touch(w, StateLive)
     \/ /\ \E next \in {"preamble", "sealEcho", "body", "ended"} : Go(w, next)
        /\ UNCHANGED dangling
  /\ UNCHANGED <<comm, nullMade>>
  /\ UNCHANGED caller

Seal(w) ==
  /\ \/ worker[w] = "sealEcho" /\ NewHeader(w, "writeEcho")
     \/ worker[w] = "sealReset" /\ NewHeader(w, "writeReset")
  /\ UNCHANGED <<comm, nullMade>>
  /\ UNCHANGED caller

\* A write returns when the service reads, fails, or lasts for ever.
EndWrite(w) ==
  /\ \/ worker[w] = "writeEcho" /\ Go(w, "preamble")
     \/ worker[w] = "writeReset" /\ Go(w, "reset")
     \/ worker[w] \in Writes /\ Go(w, "ended")
  /\ Touch(w, CommLive(comm[w]))
  /\ UNCHANGED <<comm, nullMade>>
  /\ UNCHANGED caller

\* Base := None, after the write.
Reset(w) ==
  /\ worker[w] = "reset"
  /\ Go(w, "preamble") \/ (LookupMayFail /\ Go(w, "ended"))
  /\ Touch(w, StateLive)
  /\ UNCHANGED <<comm, nullMade>>
  /\ UNCHANGED caller

-----------------------------------------------------------------------------
CallerStep ==
  \/ AddState \/ AddComm \/ StartSession \/ RegisterSession
  \/ DeleteNext \/ FinishDispose

WorkerStep(w) ==
  \/ StartWorker(w) \/ SeeStop(w) \/ MakeNull(w) \/ Validate(w)
  \/ Handle(w) \/ Seal(w) \/ Reset(w)

Next ==
  \/ CallEnable \/ CallDisable \/ Exit
  \/ CallerStep
  \/ \E w \in Rounds : WorkerStep(w) \/ Read(w) \/ EndWrite(w)

\* Threads that can run do run.  Nothing makes frames arrive, writes return
\* or anybody call Enable or Disable.
Fairness == WF_vars(CallerStep) /\ \A w \in Rounds : WF_vars(WorkerStep(w))

Spec == Init /\ [][Next]_vars /\ Fairness

-----------------------------------------------------------------------------
TypeOK ==
  /\ pc \in {"idle", "State", "Comm", "Session", "insert", "delete", "exit"}
  /\ round \in 0 .. MaxEnables
  /\ live \in [Types -> SUBSET Rounds]
  /\ reg \in [Types -> 0 .. MaxEnables]
  /\ hAlg \subseteq Rounds
  /\ nullMade \in BOOLEAN
  /\ worker \in [Rounds -> Running \cup {"none", "ended", "killed"}]
  /\ comm \in [Rounds -> 0 .. MaxEnables]
  /\ order \in Orders
  /\ todo \subseteq Types
  /\ stopReq \in BOOLEAN
  /\ torn \in 0 .. 2
  /\ exited \in BOOLEAN
  /\ dangling \subseteq Rounds

Leaked(w) == w # reg["SessionService"]

(***************************************************************************)
(* A worker touches a deleted object only if the registry was iterated     *)
(* with State or Comm before the SessionService, or if a later Enable took *)
(* its SessionService out of the registry, so that nobody joins it.        *)
(***************************************************************************)
DanglingNeedsCause ==
  \A w \in dangling : order[1] # "SessionService" \/ Leaked(w)

(***************************************************************************)
(* When Disable has returned, the only workers still running are those     *)
(* whose SessionService a later Enable took out of the registry.           *)
(***************************************************************************)
DisableJoins ==
  pc = "idle" /\ torn > 0 => \A w \in Alive : Leaked(w)

(***************************************************************************)
(* What outlives the destructor of host was taken out of the registry by a *)
(* later Enable, or is the provider of a cipher whose key was refused.     *)
(***************************************************************************)
DisposeLeavesOnlyLeaks ==
  pc \in {"idle", "exit"} /\ torn > 0 =>
    /\ \A t \in Types : \A r \in live[t] : r < reg[t]
    /\ reg["State"] \notin hAlg

(***************************************************************************)
(* Disable and process exit come to an end, unless a worker stays inside a *)
(* write for ever.                                                         *)
(***************************************************************************)
DisposeReturns ==
  \/ \E w \in Rounds : <>[](worker[w] \in Writes)
  \/ pc = "delete" ~> pc # "delete"

(***************************************************************************)
(* DllMain.cpp:32, before the explicit call of a destructor that runs      *)
(* again at exit: "dispose twice is intended".  What is disposed twice is  *)
(* also destroyed twice.                                                   *)
(***************************************************************************)
MembersDestroyedOnce == torn <= 1
=============================================================================
