-------------------------- MODULE TestProgramProofs --------------------------
(***************************************************************************)
(* Theorems about HostLifecycle and TestProgram, for any number of calls   *)
(* of Enable and any set of iteration orders: which objects a worker may   *)
(* outlive, what Disable joins, and what disposing leaves behind.          *)
(***************************************************************************)
EXTENDS TestProgram, TLAPS

\* Inside Enable.
Enabling == {"State", "Comm", "Session", "insert"}

\* The destructor of host has run or is running; it has deleted nothing yet.
Disposing == pc = "delete" \/ torn > 0
Untouched == torn = 0 /\ (pc = "delete" => todo = Registered)

\* The registry knows the SessionService of w, or is about to.
Held(w) == w = reg["SessionService"] \/ (pc = "insert" /\ w = round)

\* The host is disposed by Disable, or by the exit, or by both in this order,
\* and by neither inside Enable.
CallOrder ==
  /\ pc \in Enabling => torn = 0 /\ ~exited /\ round > 0
  /\ pc = "idle" => torn <= 1 /\ ~exited
  /\ pc = "delete" => torn <= 1 /\ (exited \/ torn = 0)
  /\ pc # "delete" \/ torn > 0 => todo = {}
  /\ todo \subseteq Registered

\* The registry holds the objects of the latest rounds that made any.
LatestRegistered ==
  /\ \A t \in Types : reg[t] <= round
  /\ \A t \in Types : \A r \in live[t] :
       r <= reg[t] \/ (t = "SessionService" /\ pc = "insert" /\ r = round)
  /\ \A w \in Rounds : worker[w] # "none" =>
       w <= round /\ (w = round => Held(w))
  /\ pc \in Enabling => reg["SessionService"] < round
  /\ pc \in {"Comm", "Session", "insert"} => reg["State"] = round
  /\ pc \in {"Session", "insert"} => reg["Comm"] = round

\* A worker has a State and a Comm to start with, and has its Comm from then on.
Equipped ==
  \A w \in Rounds :
    /\ worker[w] # "none" => reg["State"] # 0 /\ reg["Comm"] # 0
    /\ worker[w] \in Running \ {"starting"} => comm[w] # 0

\* Until the destructor deletes something, what is referred to is alive.
Intact ==
  Untouched =>
    /\ \A t \in Registered : reg[t] \in live[t]
    /\ \A w \in Rounds : comm[w] # 0 => comm[w] \in live["Comm"]
    /\ pc = "insert" => round \in live["SessionService"]

\* The worker of the registered SessionService runs until that is deleted; it
\* is deleted before anything else if it comes first.
JoinedOnDelete ==
  /\ Disposing /\ reg["SessionService"] \in Alive => "SessionService" \in todo
  /\ order[1] = "SessionService" => \A w \in Alive : Held(w) => Untouched

\* Only workers that nobody will join meet a deleted object.
OnlyLeakedDangle ==
  \A w \in dangling :
    /\ worker[w] # "none"
    /\ order[1] = "SessionService" => ~Held(w)

\* What the destructor is done with is gone, but for what it did not know.
Cleared ==
  Disposing =>
    /\ \A t \in Types \ todo : \A r \in live[t] : r < reg[t]
    /\ "State" \notin todo => reg["State"] \notin hAlg

HostInv ==
  /\ TypeOK
  /\ CallOrder
  /\ LatestRegistered
  /\ Equipped
  /\ Intact
  /\ JoinedOnDelete
  /\ OnlyLeakedDangle
  /\ Cleared

-----------------------------------------------------------------------------
(* The worker.                                                             *)

\* Everything a worker at w may touch is there.
AllThere(w) ==
  /\ StateLive
  /\ CommLive(reg["Comm"])
  /\ worker[w] # "starting" => CommLive(comm[w])

\* What the steps of a worker have in common.
WorkerMove(w) ==
  /\ UNCHANGED caller
  /\ worker[w] \in Running
  /\ \E next \in (Running \ {"starting"}) \cup {"ended"} :
       worker' = [worker EXCEPT ![w] = next]
  /\ \/ comm' = comm /\ (worker[w] = "starting" => worker'[w] = "ended")
     \/ comm' = [comm EXCEPT ![w] = reg["Comm"]]
  /\ nullMade' \in BOOLEAN
  /\ dangling' = dangling \/ (dangling' = dangling \cup {w} /\ ~AllThere(w))

LEMMA WorkerMoves ==
  ASSUME TypeOK, NEW w \in Rounds, WorkerStep(w) \/ Read(w) \/ EndWrite(w)
  PROVE  WorkerMove(w)
  <1> USE DEF WorkerMove, Go, Touch, AllThere, StateLive, Running, Reads, Writes
  <1>0. /\ nullMade \in BOOLEAN
        /\ \A next : worker' = [worker EXCEPT ![w] = next] => worker'[w] = next
    BY DEF TypeOK
  <1>1. CASE StartWorker(w)
    BY <1>0, <1>1 DEF StartWorker
  <1>2. CASE SeeStop(w)
    BY <1>0, <1>2 DEF SeeStop
  <1>3. CASE MakeNull(w)
    <2>1. nullMade' \in BOOLEAN
      BY <1>3 DEF MakeNull
    <2> QED
      BY <1>0, <1>3, <2>1 DEF MakeNull, NewHeader, NoNonce, Signed
  <1>4. CASE Validate(w)
    BY <1>0, <1>4 DEF Validate, Signed
  <1>5. CASE Handle(w)
    BY <1>0, <1>5 DEF Handle
  <1>6. CASE Seal(w)
    BY <1>0, <1>6 DEF Seal, NewHeader, NoNonce, Signed
  <1>7. CASE Reset(w)
    BY <1>0, <1>7 DEF Reset
  <1>8. CASE Read(w)
    <2>1. AfterRead[worker[w]] \in {"null", "validate", "preamble"}
      BY <1>8 DEF Read, AfterRead
    <2> QED
      BY <1>0, <1>8, <2>1 DEF Read
  <1>9. CASE EndWrite(w)
    BY <1>0, <1>9 DEF EndWrite
  <1> QED
    BY <1>1, <1>2, <1>3, <1>4, <1>5, <1>6, <1>7, <1>8, <1>9 DEF WorkerStep

\* A worker that will be joined finds everything it touches while the
\* SessionService is the first to go.
LEMMA HeldFindsAll ==
  ASSUME HostInv, NEW w \in Alive, Held(w), order[1] = "SessionService"
  PROVE  AllThere(w)
  <1>1. Untouched /\ w \in Rounds /\ worker[w] \in Running
    BY DEF HostInv, JoinedOnDelete, Alive
  <1>2. reg["State"] # 0 /\ reg["Comm"] # 0 /\ (worker[w] # "starting" => comm[w] # 0)
    BY <1>1 DEF HostInv, Equipped, Running, Reads, Writes
  <1>3. /\ reg["State"] \in live["State"] /\ reg["Comm"] \in live["Comm"]
        /\ comm[w] # 0 => comm[w] \in live["Comm"]
    BY <1>1, <1>2 DEF HostInv, Intact, Registered, Types
  <1> QED
    BY <1>1, <1>2, <1>3 DEF AllThere, StateLive, CommLive, Untouched

LEMMA WorkerKeeps ==
  ASSUME HostInv, NEW w \in Rounds, WorkerMove(w)
  PROVE  HostInv'
  <1>1. PICK next \in (Running \ {"starting"}) \cup {"ended"} :
          worker' = [worker EXCEPT ![w] = next]
    BY DEF WorkerMove
  <1>2. /\ \A v \in Rounds : worker'[v] = IF v = w THEN next ELSE worker[v]
        /\ worker[w] \in Running
        /\ \A v \in Rounds : v # w => comm'[v] = comm[v]
        /\ comm'[w] = reg["Comm"] \/ (comm'[w] = comm[w] /\ (worker[w] = "starting" => next = "ended"))
    BY <1>1 DEF HostInv, TypeOK, WorkerMove
  <1>3. /\ "none" \notin Running /\ "ended" \notin Running
        /\ next # "none"
    BY DEF Running, Reads, Writes
  <1>4. UNCHANGED <<pc, round, live, reg, hAlg, order, todo, stopReq, torn, exited>>
    BY DEF WorkerMove, caller
  <1>5. TypeOK'
    <2>1. worker' \in [Rounds -> Running \cup {"none", "ended", "killed"}]
      BY <1>1 DEF HostInv, TypeOK
    <2>2. comm' \in [Rounds -> 0 .. MaxEnables]
      BY DEF HostInv, TypeOK, WorkerMove, Types
    <2>3. dangling' \subseteq Rounds /\ nullMade' \in BOOLEAN
      BY DEF HostInv, TypeOK, WorkerMove
    <2> QED
      BY <1>4, <2>1, <2>2, <2>3 DEF HostInv, TypeOK
  <1>6. CallOrder'
    BY <1>4 DEF HostInv, CallOrder, Registered
  <1>7. LatestRegistered'
    BY <1>2, <1>3, <1>4 DEF HostInv, LatestRegistered, Held
  <1>8. Equipped'
    BY <1>2, <1>3, <1>4 DEF HostInv, Equipped
  <1>9. Untouched' <=> Untouched
    BY <1>4 DEF Untouched, Registered
  <1>10. Intact'
    <2>1. Untouched /\ reg["Comm"] # 0 => reg["Comm"] \in live["Comm"]
      BY DEF HostInv, Intact, Registered, Types
    <2> QED
      BY <1>2, <1>4, <1>9, <2>1 DEF HostInv, Intact, Registered
  <1>11. Alive' \subseteq Alive
    BY <1>2, <1>3 DEF Alive
  <1>12. JoinedOnDelete'
    BY <1>4, <1>9, <1>11 DEF HostInv, JoinedOnDelete, Disposing, Held
  <1>13. OnlyLeakedDangle'
    <2>1. ASSUME dangling' # dangling, order[1] = "SessionService"
          PROVE  ~Held(w)
      <3>1. w \in Alive /\ ~AllThere(w)
        BY <1>2, <2>1 DEF WorkerMove, Alive
      <3> QED
        BY <2>1, <3>1, HeldFindsAll
    <2>2. dangling' = dangling \/ dangling' = dangling \cup {w}
      BY DEF WorkerMove
    <2>3. dangling \subseteq Rounds
      BY DEF HostInv, TypeOK
    <2> QED
      BY <1>2, <1>3, <1>4, <2>1, <2>2, <2>3 DEF HostInv, OnlyLeakedDangle, Held
  <1>14. Cleared'
    BY <1>4 DEF HostInv, Cleared, Disposing
  <1> QED
    BY <1>5, <1>6, <1>7, <1>8, <1>10, <1>12, <1>13, <1>14 DEF HostInv

-----------------------------------------------------------------------------
(* Enable.                                                                 *)

\* Outside of the destructor nothing has been deleted.
LEMMA EnablingUntouched ==
  ASSUME HostInv, pc \in Enabling
  PROVE  /\ Untouched /\ ~Disposing /\ torn = 0 /\ ~exited /\ todo = {}
         /\ round \in Rounds
         /\ \A t \in Types : reg[t] <= round
  BY HostConstantsOK DEF HostInv, CallOrder, TypeOK, Untouched, Disposing, Enabling, Rounds,
                         LatestRegistered

LEMMA CallEnableKeeps ==
  ASSUME HostInv, CallEnable
  PROVE  HostInv'
  <1> USE DEF CallEnable, workers
  <1>0. round \in Nat /\ round' \in 1 .. MaxEnables
    BY HostConstantsOK DEF HostInv, TypeOK
  <1>1. TypeOK'
    BY <1>0 DEF HostInv, TypeOK
  <1>2. CallOrder'
    BY <1>0 DEF HostInv, CallOrder, Registered, Enabling
  <1>3. LatestRegistered'
    <2>1. /\ \A t \in Types : reg[t] \in Nat /\ \A r \in live[t] : r \in Nat
          /\ \A w \in Rounds : w \in Nat
          /\ "SessionService" \in Types
      BY HostConstantsOK DEF HostInv, TypeOK, Rounds, Types
    <2> QED
      BY <1>0, <2>1 DEF HostInv, LatestRegistered, Enabling
  <1>4. Equipped' /\ Intact' /\ Cleared'
    BY DEF HostInv, Equipped, Intact, Untouched, Cleared, Disposing, Registered
  <1>5. \A w : Held(w)' => Held(w)
    BY DEF Held
  <1>6. JoinedOnDelete'
    BY <1>5 DEF HostInv, JoinedOnDelete, Disposing, Untouched, Alive
  <1>7. OnlyLeakedDangle'
    BY <1>5 DEF HostInv, OnlyLeakedDangle
  <1> QED
    BY <1>1, <1>2, <1>3, <1>4, <1>6, <1>7 DEF HostInv

\* Enable returns early.
LEMMA GiveUpKeeps ==
  ASSUME HostInv, pc \in {"State", "Comm", "Session"}, pc' = "idle", hAlg' \subseteq Rounds,
         UNCHANGED <<round, live, reg, order, todo, stopReq, torn, exited>>,
         UNCHANGED workers
  PROVE  HostInv'
  <1> USE DEF workers
  <1>0. /\ pc \in Enabling /\ Untouched /\ ~Disposing /\ torn = 0 /\ ~exited
        /\ ~Disposing'
        /\ \A w : Held(w)' <=> Held(w)
    BY EnablingUntouched DEF Enabling, Disposing, Held
  <1>1. TypeOK'
    BY DEF HostInv, TypeOK
  <1>2. CallOrder'
    BY <1>0 DEF HostInv, CallOrder, Registered, Enabling
  <1>3. LatestRegistered'
    BY <1>0 DEF HostInv, LatestRegistered, Enabling
  <1>4. Equipped' /\ Intact' /\ Cleared'
    BY <1>0 DEF HostInv, Equipped, Intact, Cleared, Registered
  <1>5. JoinedOnDelete'
    BY <1>0 DEF HostInv, JoinedOnDelete, Untouched, Alive
  <1>6. OnlyLeakedDangle'
    BY <1>0 DEF HostInv, OnlyLeakedDangle
  <1> QED
    BY <1>1, <1>2, <1>3, <1>4, <1>5, <1>6 DEF HostInv

\* State and Comm are constructed and registered in one go.
LEMMA AddKeeps ==
  ASSUME HostInv, NEW t \in {"State", "Comm"}, pc = t, Construct(t), Register(t),
         pc' = IF t = "State" THEN "Comm" ELSE "Session",
         hAlg' \in {hAlg, hAlg \cup {round}},
         UNCHANGED <<round, order, todo, stopReq, torn, exited>>,
         UNCHANGED workers
  PROVE  HostInv'
  <1> USE DEF workers, Construct, Register
  <1>0. /\ pc \in Enabling /\ Untouched /\ torn = 0 /\ ~exited /\ todo = {}
        /\ round \in Rounds /\ round \in Nat /\ round # 0
        /\ ~Disposing' /\ pc' \in Enabling
        /\ t \in Types /\ "SessionService" \in Types /\ t # "SessionService"
        /\ Rounds \subseteq Nat
    BY EnablingUntouched, HostConstantsOK DEF Enabling, Disposing, Rounds, Types
  <1>1. /\ \A u \in Types : /\ reg'[u] = IF u = t THEN round ELSE reg[u]
                            /\ live'[u] = IF u = t THEN live[u] \cup {round} ELSE live[u]
        /\ \A u \in Types : reg[u] \in Nat
        /\ \A w : Held(w)' <=> Held(w)
    <2>1. \A u \in Types : /\ reg'[u] = IF u = t THEN round ELSE reg[u]
                           /\ live'[u] = IF u = t THEN live[u] \cup {round} ELSE live[u]
      <3>1. reg \in [Types -> 0 .. MaxEnables] /\ live \in [Types -> SUBSET Rounds]
        BY DEF HostInv, TypeOK
      <3>2. reg' = [reg EXCEPT ![t] = round] /\ live' = [live EXCEPT ![t] = @ \cup {round}]
        OBVIOUS
      <3> QED
        BY <1>0, <3>1, <3>2
    <2>2. \A u \in Types : reg[u] \in Nat
      BY DEF HostInv, TypeOK
    <2>3. reg'["SessionService"] = reg["SessionService"] /\ pc # "insert" /\ pc' # "insert"
      BY <1>0, <2>1
    <2> QED
      <3>1. \A w : Held(w)' <=> Held(w)
        BY <2>3, Zenon DEF Held
      <3> QED
        BY <2>1, <2>2, <3>1
  <1>2. TypeOK'
    <2>1. live' \in [Types -> SUBSET Rounds] /\ reg' \in [Types -> 0 .. MaxEnables]
      BY <1>0 DEF HostInv, TypeOK, Rounds
    <2>2. hAlg' \subseteq Rounds
      BY <1>0 DEF HostInv, TypeOK
    <2> QED
      BY <2>1, <2>2 DEF HostInv, TypeOK
  <1>3. CallOrder'
    BY <1>0 DEF HostInv, CallOrder, Enabling
  <1>4. LatestRegistered'
    <2>1. /\ \A u \in Types : reg'[u] <= round
          /\ \A u \in Types : \A r \in live'[u] : r <= reg'[u]
      <3>1. \A u \in Types : \A r \in live[u] : r <= reg[u] /\ r \in Nat
        BY <1>0 DEF HostInv, LatestRegistered, TypeOK
      <3>2. \A u \in Types : reg[u] <= round
        BY DEF HostInv, LatestRegistered
      <3> QED
        BY <1>0, <1>1, <3>1, <3>2
    <2>2. \A w \in Rounds : worker'[w] # "none" => w <= round /\ (w = round => Held(w)')
      BY <1>1 DEF HostInv, LatestRegistered
    <2>3. reg'["SessionService"] < round
      BY <1>0, <1>1 DEF HostInv, LatestRegistered
    <2>4. /\ pc' \in {"Comm", "Session", "insert"} => reg'["State"] = round
          /\ pc' \in {"Session", "insert"} => reg'["Comm"] = round
      BY <1>0, <1>1 DEF HostInv, LatestRegistered, Types
    <2> QED
      BY <2>1, <2>2, <2>3, <2>4 DEF LatestRegistered
  <1>5. Equipped'
    BY <1>0, <1>1 DEF HostInv, Equipped, Types
  <1>6. Intact'
    <2>1. \A u \in Types : reg'[u] # 0 => reg'[u] \in live'[u]
      <3>1. \A u \in Types : reg[u] # 0 => reg[u] \in live[u]
        BY <1>0 DEF HostInv, Intact, Registered
      <3> QED
        BY <1>1, <3>1
    <2>2. \A w \in Rounds : comm'[w] # 0 => comm'[w] \in live'["Comm"]
      BY <1>0, <1>1 DEF HostInv, Intact, Types
    <2> QED
      BY <2>1, <2>2 DEF Intact, Registered
  <1>7. JoinedOnDelete'
    BY <1>0, <1>1 DEF HostInv, JoinedOnDelete, Untouched, Disposing, Alive
  <1>8. OnlyLeakedDangle' /\ Cleared'
    BY <1>0, <1>1 DEF HostInv, OnlyLeakedDangle, Cleared
  <1> QED
    BY <1>2, <1>3, <1>4, <1>5, <1>6, <1>7, <1>8 DEF HostInv

\* The worker runs before the registry knows it, and is held already.
LEMMA StartSessionKeeps ==
  ASSUME HostInv, pc = "Session", Construct("SessionService"), pc' = "insert",
         worker' = [worker EXCEPT ![round] = "starting"],
         UNCHANGED <<round, reg, hAlg, order, todo, stopReq, torn, exited>>,
         UNCHANGED <<comm, nullMade, dangling>>
  PROVE  HostInv'
  <1> USE DEF Construct
  <1>0. /\ pc \in Enabling /\ Untouched /\ torn = 0 /\ ~exited /\ todo = {}
        /\ round \in Rounds /\ round \in Nat /\ round # 0
        /\ ~Disposing' /\ pc' \in Enabling
        /\ "SessionService" \in Types /\ "Comm" \in Types /\ "State" \in Types
        /\ Rounds \subseteq Nat
        /\ reg["SessionService"] \in Nat /\ reg["SessionService"] < round
        /\ reg["State"] = round /\ reg["Comm"] = round
    BY EnablingUntouched, HostConstantsOK
       DEF Enabling, Disposing, Rounds, Types, HostInv, TypeOK, LatestRegistered
  <1>1. /\ \A u \in Types : live'[u] = IF u = "SessionService" THEN live[u] \cup {round}
                                                             ELSE live[u]
        /\ \A w \in Rounds : worker'[w] = IF w = round THEN "starting" ELSE worker[w]
        /\ worker[round] = "none"
        /\ \A w : Held(w)' <=> Held(w) \/ w = round
    <2>1. ~Held(round)
      BY <1>0 DEF Held
    <2> QED
      BY <1>0, <2>1 DEF HostInv, TypeOK, Held, LatestRegistered
  <1>2. TypeOK'
    <2>1. /\ live' \in [Types -> SUBSET Rounds]
          /\ worker' \in [Rounds -> Running \cup {"none", "ended", "killed"}]
      BY <1>0 DEF HostInv, TypeOK, Running
    <2> QED
      BY <2>1 DEF HostInv, TypeOK
  <1>3. CallOrder'
    BY <1>0 DEF HostInv, CallOrder, Enabling, Registered
  <1>4. LatestRegistered'
    BY <1>0, <1>1 DEF HostInv, LatestRegistered
  <1>5. Equipped'
    BY <1>0, <1>1 DEF HostInv, Equipped
  <1>6. Intact'
    BY <1>0, <1>1 DEF HostInv, Intact, Registered
  <1>7. JoinedOnDelete'
    BY <1>0 DEF JoinedOnDelete, Untouched
  <1>8. OnlyLeakedDangle'
    BY <1>1 DEF HostInv, OnlyLeakedDangle, TypeOK
  <1>9. Cleared'
    BY <1>0 DEF Cleared
  <1> QED
    BY <1>2, <1>3, <1>4, <1>5, <1>6, <1>7, <1>8, <1>9 DEF HostInv

LEMMA RegisterSessionKeeps ==
  ASSUME HostInv, RegisterSession
  PROVE  HostInv'
  <1> USE DEF RegisterSession, Register, workers
  <1>0. /\ pc \in Enabling /\ Untouched /\ torn = 0 /\ ~exited /\ todo = {}
        /\ round \in Rounds /\ round \in Nat /\ round # 0
        /\ ~Disposing' /\ pc' = "idle"
        /\ "SessionService" \in Types
        /\ Rounds \subseteq Nat
        /\ reg["SessionService"] \in Nat /\ reg["SessionService"] < round
    <2>1. pc \in Enabling /\ pc = "insert"
      BY DEF Enabling
    <2>2. /\ Untouched /\ torn = 0 /\ ~exited /\ todo = {} /\ ~Disposing /\ round \in Rounds
      BY <2>1, EnablingUntouched, Zenon
    <2>3. round \in Nat /\ round # 0 /\ Rounds \subseteq Nat
      BY <2>2, HostConstantsOK DEF Rounds
    <2>4. /\ "SessionService" \in Types /\ reg["SessionService"] \in Nat
          /\ reg["SessionService"] < round
      BY <2>1 DEF Types, HostInv, TypeOK, LatestRegistered
    <2>5. ~Disposing' /\ pc' = "idle"
      BY <2>2 DEF Disposing
    <2> QED
      BY <2>1, <2>2, <2>3, <2>4, <2>5
  <1>1. /\ \A u \in Types : reg'[u] = IF u = "SessionService" THEN round ELSE reg[u]
        /\ \A w : Held(w)' => Held(w)
        /\ Held(round)'
    BY <1>0 DEF HostInv, TypeOK, Held
  <1>2. TypeOK'
    <2>1. reg' \in [Types -> 0 .. MaxEnables]
      BY <1>0 DEF HostInv, TypeOK, Rounds
    <2> QED
      BY <2>1 DEF HostInv, TypeOK
  <1>3. CallOrder'
    BY <1>0 DEF HostInv, CallOrder, Enabling, Registered
  <1>4. LatestRegistered'
    <2>1. \A t \in Types : \A r \in live[t] : r \in Nat
      BY <1>0 DEF HostInv, TypeOK
    <2> QED
      BY <1>0, <1>1, <2>1 DEF HostInv, LatestRegistered, Enabling
  <1>5. Equipped'
    BY <1>0, <1>1 DEF HostInv, Equipped, Types
  <1>6. Intact'
    <2>1. round \in live["SessionService"]
      BY <1>0 DEF HostInv, Intact
    <2> QED
      BY <1>0, <1>1, <2>1 DEF HostInv, Intact, Registered
  <1>7. JoinedOnDelete'
    BY <1>0 DEF JoinedOnDelete, Untouched
  <1>8. OnlyLeakedDangle'
    BY <1>1 DEF HostInv, OnlyLeakedDangle
  <1>9. Cleared'
    BY <1>0 DEF Cleared
  <1> QED
    BY <1>2, <1>3, <1>4, <1>5, <1>6, <1>7, <1>8, <1>9 DEF HostInv

-----------------------------------------------------------------------------
(* The destructor of host.                                                 *)

\* What the registry knows is to be deleted, unless that was done before; an
\* exit has killed the workers.
LEMMA BeginDisposeKeeps ==
  ASSUME HostInv, pc = "idle", pc' = "delete",
         todo' = IF torn > 0 THEN {} ELSE Registered,
         \/ torn = 0 /\ exited' = exited /\ worker' = worker
         \/ /\ exited' = TRUE
            /\ worker' = [w \in Rounds |-> IF w \in Alive THEN "killed" ELSE worker[w]],
         stopReq' = TRUE,
         UNCHANGED <<round, live, reg, hAlg, order, torn, comm, nullMade, dangling>>
  PROVE  HostInv'
  <1>0. /\ torn \in 0 .. 1 /\ ~exited /\ todo = {}
        /\ \A t \in Types : reg[t] \in Nat
        /\ Rounds \subseteq Nat /\ 0 \notin Rounds
        /\ Registered \subseteq Types
        /\ \A w : Held(w)' <=> Held(w)
    BY HostConstantsOK DEF HostInv, CallOrder, TypeOK, Rounds, Registered, Held
  <1>1. \A w \in Rounds : /\ worker'[w] \in {worker[w], "killed"}
                          /\ worker[w] = "none" <=> worker'[w] = "none"
                          /\ worker[w] = "none" => worker'[w] = worker[w]
    BY DEF Alive, Running, Reads, Writes
  <1>2. "killed" \notin Running /\ "none" \notin Running
    BY DEF Running, Reads, Writes
  <1>3. Alive' = Alive \/ Alive' = {}
    BY <1>2 DEF Alive
  <1>4. torn > 0 => Alive' = {}
    BY <1>2 DEF Alive
  <1>5. TypeOK'
    <2>1. worker' \in [Rounds -> Running \cup {"none", "ended", "killed"}]
      BY <1>1 DEF HostInv, TypeOK
    <2>2. todo' \subseteq Types /\ stopReq' \in BOOLEAN /\ exited' \in BOOLEAN
      BY <1>0 DEF HostInv, TypeOK
    <2> QED
      BY <2>1, <2>2 DEF HostInv, TypeOK
  <1>6. CallOrder'
    BY <1>0 DEF CallOrder, Registered, Enabling
  <1>7. LatestRegistered'
    BY <1>0, <1>1 DEF HostInv, LatestRegistered, Enabling
  <1>8. Equipped'
    BY <1>1, <1>2 DEF HostInv, Equipped
  <1>9. Intact'
    BY <1>0 DEF HostInv, Intact, Untouched, Registered
  <1>10. JoinedOnDelete'
    <2>1. torn = 0 => Untouched'
      BY DEF Untouched, Registered
    <2>2. reg["SessionService"] \in Alive => "SessionService" \in Registered
      BY <1>0 DEF Registered, Types, Alive
    <2> QED
      BY <1>0, <1>3, <1>4, <2>1, <2>2 DEF JoinedOnDelete
  <1>11. OnlyLeakedDangle'
    BY <1>0, <1>1 DEF HostInv, OnlyLeakedDangle, TypeOK
  <1>12. Cleared'
    <2>1. CASE torn > 0
      BY <1>0, <2>1 DEF HostInv, Cleared, Disposing
    <2>2. CASE torn = 0
      <3>1. \A t \in Types \ Registered : live[t] = {}
        <4>1. ASSUME NEW t \in Types \ Registered, NEW r \in live[t]
              PROVE  FALSE
          <5>1. r \in Rounds /\ reg[t] = 0 /\ r <= reg[t]
            BY <4>1 DEF HostInv, TypeOK, LatestRegistered, Registered
          <5> QED
            BY <1>0, <5>1
        <4> QED
          BY <4>1
      <3>2. "State" \notin Registered => reg["State"] \notin hAlg
        BY <1>0 DEF HostInv, TypeOK, Registered, Types
      <3> QED
        BY <2>2, <3>1, <3>2 DEF Cleared
    <2> QED
      BY <1>0, <2>1, <2>2
  <1> QED
    BY <1>5, <1>6, <1>7, <1>8, <1>9, <1>10, <1>11, <1>12 DEF HostInv

\* Deleting the SessionService waits for its worker; if it comes first, nothing
\* else was deleted while that worker ran.
LEMMA DeleteNextKeeps ==
  ASSUME HostInv, DeleteNext
  PROVE  HostInv'
  <1> USE DEF workers
  <1>1. PICK t \in todo : /\ ComesFirst(t)
                          /\ t = "SessionService" => reg["SessionService"] \notin Alive
                          /\ Destroy(t)
                          /\ todo' = todo \ {t}
    BY DEF DeleteNext
  <1>2. /\ pc = "delete"
        /\ UNCHANGED <<pc, round, reg, order, stopReq, torn, exited>>
        /\ UNCHANGED <<worker, comm, nullMade, dangling>>
    BY DEF DeleteNext
  <1>3. /\ t \in Types /\ t \in Registered /\ torn = 0
        /\ \A u \in Types : live'[u] = IF u = t THEN live[u] \ {reg[u]} ELSE live[u]
        /\ hAlg' = IF t = "State" THEN hAlg \ {reg[t]} ELSE hAlg
        /\ \A w : Held(w)' <=> Held(w)
        /\ Alive' = Alive /\ Registered' = Registered
    <2>1. t \in Types /\ t \in Registered /\ torn = 0
      BY <1>1 DEF HostInv, TypeOK, CallOrder
    <2>2. /\ \A u \in Types : live'[u] = IF u = t THEN live[u] \ {reg[u]} ELSE live[u]
          /\ hAlg' = IF t = "State" THEN hAlg \ {reg[t]} ELSE hAlg
      BY <1>1 DEF HostInv, TypeOK, Destroy
    <2>3. /\ \A w : Held(w)' <=> Held(w)
          /\ Alive' = Alive /\ Registered' = Registered
      BY <1>2 DEF Held, Alive, Registered
    <2> QED
      BY <2>1, <2>2, <2>3
  <1>4. TypeOK'
    <2>1. live' \in [Types -> SUBSET Rounds] /\ hAlg' \subseteq Rounds
      BY <1>1, <1>3 DEF HostInv, TypeOK, Destroy
    <2> QED
      BY <1>1, <1>2, <2>1 DEF HostInv, TypeOK
  <1>5. CallOrder'
    BY <1>1, <1>2, <1>3 DEF HostInv, CallOrder, Enabling
  <1>6. LatestRegistered'
    <2>1. \A u \in Types : live'[u] \subseteq live[u]
      BY <1>3
    <2> QED
      BY <1>2, <1>3, <2>1 DEF HostInv, LatestRegistered
  <1>7. Equipped'
    BY <1>2 DEF HostInv, Equipped
  <1>8. ~Untouched'
    <2>1. todo' # Registered'
      BY <1>1, <1>3
    <2> QED
      BY <1>2, <2>1 DEF Untouched
  <1>9. Intact'
    BY <1>8 DEF Intact
  <1>10. JoinedOnDelete'
    <2>1. ASSUME Disposing', reg'["SessionService"] \in Alive'
          PROVE  "SessionService" \in todo'
      BY <1>1, <1>2, <1>3, <2>1 DEF HostInv, JoinedOnDelete, Disposing
    <2>2. ASSUME order[1] = "SessionService", NEW w \in Alive, Held(w)
          PROVE  FALSE
      <3>1. Untouched /\ w = reg["SessionService"]
        BY <1>2, <2>2 DEF HostInv, JoinedOnDelete, Held
      <3>2. "SessionService" \in todo
        BY <1>2, <2>2, <3>1 DEF HostInv, JoinedOnDelete, Disposing
      <3>3. t # "SessionService"
        BY <1>1, <2>2, <3>1
      <3>4. PICK i \in 1 .. 3 : order[i] = t
        BY <1>3, HostConstantsOK DEF HostInv, TypeOK
      <3>5. i <= 1
        BY <1>1, <2>2, <3>2, <3>4 DEF ComesFirst
      <3>6. i = 1
        BY <3>4, <3>5
      <3> QED
        BY <2>2, <3>3, <3>4, <3>6
    <2> QED
      BY <1>2, <1>3, <2>1, <2>2 DEF JoinedOnDelete
  <1>11. OnlyLeakedDangle'
    BY <1>2, <1>3 DEF HostInv, OnlyLeakedDangle
  <1>12. Cleared'
    <2>1. \A r \in live[t] : r <= reg[t] /\ r \in Nat /\ reg[t] \in Nat
      BY <1>2, <1>3, HostConstantsOK DEF HostInv, LatestRegistered, TypeOK, Rounds
    <2>2. \A r \in live'[t] : r < reg[t]
      <3>1. live'[t] = live[t] \ {reg[t]}
        BY <1>3
      <3> QED
        BY <2>1, <3>1
    <2>3. \A u \in Types \ todo : \A r \in live[u] : r < reg[u]
      BY <1>2 DEF HostInv, Cleared, Disposing
    <2>4. \A u \in Types \ todo' : \A r \in live'[u] : r < reg[u]
      BY <1>1, <1>3, <2>2, <2>3
    <2>5. "State" \notin todo' => reg["State"] \notin hAlg'
      BY <1>1, <1>2, <1>3 DEF HostInv, Cleared, Disposing
    <2> QED
      BY <1>2, <2>4, <2>5 DEF Cleared
  <1> QED
    BY <1>4, <1>5, <1>6, <1>7, <1>9, <1>10, <1>11, <1>12 DEF HostInv

LEMMA FinishDisposeKeeps ==
  ASSUME HostInv, FinishDispose
  PROVE  HostInv'
  <1> USE DEF FinishDispose, workers
  <1>0. /\ torn \in 0 .. 1 /\ torn' \in 1 .. 2 /\ pc' \in {"idle", "exit"}
        /\ ~exited => torn = 0
        /\ Disposing /\ ~Untouched'
        /\ \A w : Held(w)' <=> Held(w)
    BY DEF HostInv, TypeOK, CallOrder, Disposing, Untouched, Held
  <1>1. TypeOK'
    BY <1>0 DEF HostInv, TypeOK
  <1>2. CallOrder'
    BY <1>0 DEF HostInv, CallOrder, Enabling, Registered
  <1>3. LatestRegistered'
    BY <1>0 DEF HostInv, LatestRegistered, Enabling
  <1>4. Equipped' /\ Intact'
    BY <1>0 DEF HostInv, Equipped, Intact
  <1>5. reg["SessionService"] \notin Alive /\ Alive' = Alive
    BY <1>0 DEF HostInv, JoinedOnDelete, Alive
  <1>6. \A w \in Alive : ~Held(w)
    BY <1>5 DEF Held
  <1>7. JoinedOnDelete'
    BY <1>0, <1>5, <1>6 DEF JoinedOnDelete
  <1>8. OnlyLeakedDangle' /\ Cleared'
    BY <1>0 DEF HostInv, OnlyLeakedDangle, Cleared
  <1> QED
    BY <1>1, <1>2, <1>3, <1>4, <1>7, <1>8 DEF HostInv

-----------------------------------------------------------------------------
(* Every behaviour of the host.                                            *)

LEMMA InitKeeps ==
  ASSUME Init
  PROVE  HostInv
  <1> USE DEF Init
  <1>1. TypeOK
    <2>1. /\ live \in [Types -> SUBSET Rounds]
          /\ worker \in [Rounds -> Running \cup {"none", "ended", "killed"}]
      BY DEF Running
    <2>2. /\ reg \in [Types -> 0 .. MaxEnables]
          /\ comm \in [Rounds -> 0 .. MaxEnables]
          /\ round \in 0 .. MaxEnables
      BY HostConstantsOK
    <2>3. stopReq \in BOOLEAN /\ exited \in BOOLEAN /\ nullMade \in BOOLEAN
      OBVIOUS
    <2> QED
      BY <2>1, <2>2, <2>3 DEF TypeOK
  <1>2. CallOrder /\ LatestRegistered
    BY DEF CallOrder, LatestRegistered, Enabling
  <1>3. Equipped /\ Intact
    BY DEF Equipped, Intact, Running, Reads, Writes, Registered
  <1>4. JoinedOnDelete /\ OnlyLeakedDangle /\ Cleared
    BY DEF JoinedOnDelete, OnlyLeakedDangle, Cleared, Disposing, Alive, Running, Reads, Writes
  <1> QED
    BY <1>1, <1>2, <1>3, <1>4 DEF HostInv

LEMMA CallerKeeps ==
  ASSUME HostInv, CallerStep
  PROVE  HostInv'
  <1>0. round \in Nat /\ hAlg \subseteq Rounds /\ (pc \in Enabling => round \in Rounds)
    BY EnablingUntouched, HostConstantsOK DEF HostInv, TypeOK
  <1>1. CASE AddState
    <2>1. CASE pc' = "Comm"
      BY <1>1, <2>1, AddKeeps DEF AddState
    <2>2. CASE pc' = "idle"
      <3>1. hAlg' \subseteq Rounds
        BY <1>0, <1>1 DEF AddState, Enabling
      <3> QED
        BY <1>1, <2>2, <3>1, GiveUpKeeps DEF AddState
    <2> QED
      BY <1>1, <2>1, <2>2 DEF AddState
  <1>2. CASE AddComm
    <2>1. CASE pc' = "Session"
      BY <1>2, <2>1, AddKeeps DEF AddComm
    <2>2. CASE pc' = "idle"
      BY <1>0, <1>2, <2>2, GiveUpKeeps DEF AddComm
    <2> QED
      BY <1>2, <2>1, <2>2 DEF AddComm
  <1>3. CASE StartSession
    <2>1. CASE pc' = "insert"
      BY <1>3, <2>1, StartSessionKeeps DEF StartSession
    <2>2. CASE pc' = "idle"
      BY <1>0, <1>3, <2>2, GiveUpKeeps DEF StartSession, workers
    <2> QED
      BY <1>3, <2>1, <2>2 DEF StartSession
  <1>4. CASE RegisterSession
    BY <1>4, RegisterSessionKeeps
  <1>5. CASE DeleteNext
    BY <1>5, DeleteNextKeeps
  <1>6. CASE FinishDispose
    BY <1>6, FinishDisposeKeeps
  <1> QED
    BY <1>1, <1>2, <1>3, <1>4, <1>5, <1>6 DEF CallerStep

LEMMA NextKeeps ==
  ASSUME HostInv, [Next]_vars
  PROVE  HostInv'
  <1>1. CASE CallEnable
    BY <1>1, CallEnableKeeps
  <1>2. CASE CallDisable
    <2>1. todo' = IF torn > 0 THEN {} ELSE Registered
      BY <1>2 DEF CallDisable
    <2> QED
      BY <1>2, <2>1, BeginDisposeKeeps DEF CallDisable, workers
  <1>3. CASE Exit
    BY <1>3, BeginDisposeKeeps DEF Exit
  <1>4. CASE CallerStep
    BY <1>4, CallerKeeps
  <1>5. ASSUME NEW w \in Rounds, WorkerStep(w) \/ Read(w) \/ EndWrite(w)
        PROVE  HostInv'
    BY <1>5, WorkerMoves, WorkerKeeps DEF HostInv
  <1>6. CASE UNCHANGED vars
    BY <1>6 DEF HostInv, TypeOK, CallOrder, LatestRegistered, Equipped, Intact, JoinedOnDelete,
                OnlyLeakedDangle, Cleared, Untouched, Disposing, Held, Registered, Alive,
                vars, caller, workers
  <1> QED
    BY <1>1, <1>2, <1>3, <1>4, <1>5, <1>6 DEF Next

LEMMA HostInvariant == Init /\ [][Next]_vars => []HostInv
  <1>1. Init => HostInv
    BY InitKeeps
  <1>2. HostInv /\ [Next]_vars => HostInv'
    BY NextKeeps
  <1> QED
    BY <1>1, <1>2, PTL

\* What the invariant says of the three properties of the host.
LEMMA HostInvImplies ==
  ASSUME HostInv
  PROVE  DanglingNeedsCause /\ DisableJoins /\ DisposeLeavesOnlyLeaks
  <1>1. DanglingNeedsCause
    BY DEF HostInv, OnlyLeakedDangle, Held, DanglingNeedsCause, Leaked
  <1>2. ASSUME pc \in {"idle", "exit"}, torn > 0
        PROVE  todo = {} /\ Disposing
    BY <1>2 DEF HostInv, CallOrder, Disposing
  <1>3. DisableJoins
    BY <1>2 DEF HostInv, JoinedOnDelete, DisableJoins, Leaked
  <1>4. DisposeLeavesOnlyLeaks
    BY <1>2 DEF HostInv, Cleared, DisposeLeavesOnlyLeaks
  <1> QED
    BY <1>1, <1>3, <1>4

-----------------------------------------------------------------------------
(* The clients.                                                            *)

\* The test program calls Enable once, before anything else.
EnablesOnce ==
  /\ prog \in {"load", "enable"} => round = 0
  /\ prog # "other" => round <= 1

ClientInv ==
  /\ HostInv
  /\ ClientTypeOK
  /\ EnablesOnce

\* A client does nothing the host would not do for some client.
LEMMA ClientStepsAreSteps ==
  ASSUME [ClientNext]_clientVars
  PROVE  [Next]_vars
  <1>1. CASE Other \/ Library
    BY <1>1 DEF Other, Library, Next
  <1>2. CASE Load \/ ReadZero
    BY <1>2 DEF Load, ReadZero
  <1>3. CASE MainStep
    BY <1>3 DEF MainStep, EnableAc, EnableReturns, DisableAc, DisableReturns, Return, Next
  <1>4. CASE UNCHANGED clientVars
    BY <1>4 DEF clientVars
  <1> QED
    BY <1>1, <1>2, <1>3, <1>4 DEF ClientNext

\* Only CallEnable counts the rounds.
LEMMA RoundKept ==
  ASSUME CallDisable \/ Exit \/ CallerStep \/ UNCHANGED vars
           \/ \E w \in Rounds : WorkerStep(w) \/ Read(w) \/ EndWrite(w)
  PROVE  round' = round
  <1>1. CASE CallDisable \/ Exit \/ UNCHANGED vars
    BY <1>1 DEF CallDisable, Exit, vars, caller
  <1>2. CASE CallerStep
    BY <1>2 DEF CallerStep, AddState, AddComm, StartSession, RegisterSession, DeleteNext,
                FinishDispose
  <1>3. ASSUME NEW w \in Rounds, WorkerStep(w) \/ Read(w) \/ EndWrite(w)
        PROVE  round' = round
    BY <1>3 DEF WorkerStep, StartWorker, SeeStop, MakeNull, Validate, Handle, Seal, Reset,
                Read, EndWrite, caller
  <1> QED
    BY <1>1, <1>2, <1>3

LEMMA ClientKeeps ==
  ASSUME ClientInv, [ClientNext]_clientVars
  PROVE  ClientInv'
  <1>1. HostInv'
    BY ClientStepsAreSteps, NextKeeps DEF ClientInv
  <1>2. ClientTypeOK'
    <2>1. TypeOK'
      BY <1>1 DEF HostInv
    <2>2. prog' \in {"other", "load", "enable", "enabling", "idle", "disable",
                     "disabling", "return", "gone"}
      BY DEF ClientInv, ClientTypeOK, ClientNext, Other, Load, ReadZero, Library, MainStep,
             EnableAc, EnableReturns, DisableAc, DisableReturns, Return, clientVars
    <2> QED
      BY <2>1, <2>2 DEF ClientTypeOK
  <1>3. EnablesOnce'
    <2>1. CASE EnableAc
      BY <2>1 DEF EnableAc, CallEnable, ClientInv, EnablesOnce
    <2>2. CASE Other
      BY <2>2 DEF Other, EnablesOnce
    <2>3. CASE Library
      <3>1. round' = round /\ prog' = prog
        BY <2>3, RoundKept DEF Library
      <3> QED
        BY <3>1 DEF ClientInv, EnablesOnce
    <2>4. CASE Load \/ ReadZero \/ EnableReturns \/ DisableAc \/ DisableReturns \/ Return
                 \/ UNCHANGED clientVars
      <3>1. round' = round
        BY <2>4, RoundKept DEF Load, ReadZero, EnableReturns, DisableAc, DisableReturns, Return,
                               clientVars
      <3>2. /\ prog' # "other" => prog # "other"
            /\ prog' \in {"load", "enable"} => prog \in {"load", "enable"}
        BY <2>4 DEF Load, ReadZero, EnableReturns, DisableAc, DisableReturns, Return, clientVars
      <3> QED
        BY <3>1, <3>2 DEF ClientInv, EnablesOnce
    <2> QED
      BY <2>1, <2>2, <2>3, <2>4 DEF ClientNext, MainStep
  <1> QED
    BY <1>1, <1>2, <1>3 DEF ClientInv

\* The invariant the theorems below are read off.
THEOREM ClientInvariant == ClientSpec => []ClientInv
  <1>1. ClientInit => ClientInv
    <2>1. ClientInit => HostInv /\ TypeOK
      BY InitKeeps DEF ClientInit, HostInv
    <2>2. ClientInit => round = 0 /\ prog \in {"load", "other"}
      BY DEF ClientInit, Init
    <2> QED
      BY <2>1, <2>2 DEF ClientInv, ClientTypeOK, EnablesOnce
  <1>2. ClientInv /\ [ClientNext]_clientVars => ClientInv'
    BY ClientKeeps
  <1> QED
    BY <1>1, <1>2, PTL DEF ClientSpec

(***************************************************************************)
(* Host, workers and client keep their types: among them, the members of   *)
(* host are destroyed twice at most.                                       *)
(***************************************************************************)
THEOREM ClientWellTyped == ClientSpec => []ClientTypeOK
  BY ClientInvariant, PTL DEF ClientInv

(***************************************************************************)
(* A worker touches a deleted object only if State or Comm came before the *)
(* SessionService in the registry, or if a later Enable took its           *)
(* SessionService out of it: for any number of calls of Enable.            *)
(***************************************************************************)
THEOREM DanglingHasCause == ClientSpec => []DanglingNeedsCause
  BY ClientInvariant, HostInvImplies, PTL DEF ClientInv

(***************************************************************************)
(* When Disable has returned, the only workers still running are those     *)
(* whose SessionService a later Enable took out of the registry.           *)
(***************************************************************************)
THEOREM DisableJoinsRegistered == ClientSpec => []DisableJoins
  BY ClientInvariant, HostInvImplies, PTL DEF ClientInv

(***************************************************************************)
(* What outlives the destructor of host was taken out of the registry by a *)
(* later Enable, or is the provider of a cipher whose key was refused.     *)
(***************************************************************************)
THEOREM DisposeClears == ClientSpec => []DisposeLeavesOnlyLeaks
  BY ClientInvariant, HostInvImplies, PTL DEF ClientInv

(***************************************************************************)
(* The test program, which enables the library once, meets a deleted       *)
(* object only if the registry was iterated in an unlucky order.           *)
(***************************************************************************)
THEOREM TestProgramNeedsOrder == ClientSpec => []OnceEnabledNeedsOrder
  <1>1. ASSUME ClientInv, prog # "other", NEW w \in dangling, order[1] = "SessionService"
        PROVE  FALSE
    <2>1. w \in Rounds /\ worker[w] # "none" /\ ~Held(w)
      BY <1>1 DEF ClientInv, HostInv, OnlyLeakedDangle, TypeOK
    <2>2. w <= round /\ w # round /\ round <= 1
      BY <1>1, <2>1 DEF ClientInv, HostInv, LatestRegistered, EnablesOnce
    <2> QED
      BY <1>1, <2>1, <2>2, HostConstantsOK DEF ClientInv, HostInv, TypeOK, Rounds
  <1>2. ClientInv => OnceEnabledNeedsOrder
    BY <1>1 DEF OnceEnabledNeedsOrder
  <1> QED
    BY <1>2, ClientInvariant, PTL
=============================================================================
