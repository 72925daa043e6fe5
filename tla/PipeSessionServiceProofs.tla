---------------------- MODULE PipeSessionServiceProofs ----------------------
(***************************************************************************)
(* Theorems about PipeSessionService, for any number of threads and        *)
(* clients: an instance is given away once, a thread that has served waits *)
(* in vain, and what StopAsync leaves.                                     *)
(***************************************************************************)
EXTENDS PipeSessionService, TLAPS

\* Where a thread is when it has not created its pipe, and when it serves.
Unborn == {"created", "started"}
InSession == {"serving", "writing", "over"}

\* The instance exists from CreatePipe on, and is closed for ever at the end.
PipeFollowsThread ==
  \A t \in Threads :
    /\ pipe[t] = "none" <=> thread[t] \in Unborn
    /\ pipe[t] = "closed" <=> thread[t] \in {"exited", "dead"}

\* A stream that was connected is never free again, and was connected for the
\* one session its thread has served.
AttachedOnce ==
  \A t \in Threads :
    /\ served[t] = IF attached[t] THEN 1 ELSE 0
    /\ attached[t] => pipe[t] \notin {"none", "free"}
    /\ thread[t] \in InSession => attached[t]

\* A client holds an instance that is taken or gone, and shares it with nobody.
OneClientEach ==
  /\ \A c \in Clients : \A t \in client[c] : pipe[t] \in {"taken", "closed"}
  /\ \A c, d \in Clients : c # d => client[c] \cap client[d] = {}

(***************************************************************************)
(* A StopAsync that returned leaves no thread and no instance behind.      *)
(***************************************************************************)
StopLeavesNothing ==
  stopper = "done" => \A t \in Threads : thread[t] = "exited" /\ pipe[t] = "closed"

ServiceInv ==
  /\ TypeOK
  /\ PipeFollowsThread
  /\ AttachedOnce
  /\ OneClientEach
  /\ StopLeavesNothing

-----------------------------------------------------------------------------
(* Steps that change neither an instance nor a client: a thread goes from  *)
(* one place where it has its pipe to another.                             *)

LEMMA MoveKeeps ==
  ASSUME ServiceInv, NEW t \in Threads, NEW place \in {"loop", "waiting"} \cup InSession,
         thread[t] \notin Unborn \cup {"exited", "dead"}, place \in InSession => attached[t],
         Goto(t, place), UNCHANGED <<pipe, attached, client, served, canceled, stopper, crashed>>
  PROVE  ServiceInv'
  <1> USE DEF Goto, Unborn, InSession
  <1>1. TypeOK'
    BY DEF ServiceInv, TypeOK
  <1>2. \A s \in Threads : thread'[s] = IF s = t THEN place ELSE thread[s]
    BY DEF ServiceInv, TypeOK
  <1>3. PipeFollowsThread'
    BY <1>2 DEF ServiceInv, PipeFollowsThread
  <1>4. AttachedOnce'
    BY <1>2 DEF ServiceInv, AttachedOnce
  <1>5. OneClientEach'
    BY DEF ServiceInv, OneClientEach
  <1>6. StopLeavesNothing'
    BY DEF ServiceInv, StopLeavesNothing
  <1> QED
    BY <1>1, <1>3, <1>4, <1>5, <1>6 DEF ServiceInv

LEMMA ExitKeeps ==
  ASSUME ServiceInv, NEW t \in Threads, thread[t] \in {"loop", "waiting"}, ExitThread(t)
  PROVE  ServiceInv'
  <1> USE DEF ExitThread, Goto, Unborn, InSession
  <1>1. TypeOK'
    BY DEF ServiceInv, TypeOK
  <1>2. \A s \in Threads : /\ thread'[s] = IF s = t THEN "exited" ELSE thread[s]
                           /\ pipe'[s] = IF s = t THEN "closed" ELSE pipe[s]
    BY DEF ServiceInv, TypeOK
  <1>3. PipeFollowsThread'
    BY <1>2 DEF ServiceInv, PipeFollowsThread
  <1>4. AttachedOnce'
    BY <1>2 DEF ServiceInv, AttachedOnce
  <1>5. OneClientEach'
    BY <1>2 DEF ServiceInv, OneClientEach, TypeOK
  <1>6. StopLeavesNothing'
    BY <1>2 DEF ServiceInv, StopLeavesNothing
  <1> QED
    BY <1>1, <1>3, <1>4, <1>5, <1>6 DEF ServiceInv

-----------------------------------------------------------------------------
(* The clients.                                                            *)

LEMMA ConnectKeeps ==
  ASSUME ServiceInv, NEW c \in Clients, NEW t \in Threads, Connect(c, t)
  PROVE  ServiceInv'
  <1> USE DEF Connect, Unborn, InSession
  <1>1. TypeOK'
    BY DEF ServiceInv, TypeOK
  <1>2. /\ \A s \in Threads : pipe'[s] = IF s = t THEN "taken" ELSE pipe[s]
        /\ \A d \in Clients : client'[d] = IF d = c THEN {t} ELSE client[d]
    BY DEF ServiceInv, TypeOK
  <1>3. PipeFollowsThread'
    BY <1>2 DEF ServiceInv, PipeFollowsThread
  <1>4. AttachedOnce'
    BY <1>2 DEF ServiceInv, AttachedOnce
  <1>5. OneClientEach'
    <2>1. \A d \in Clients : client[d] \subseteq Threads /\ t \notin client[d]
      BY DEF ServiceInv, OneClientEach, TypeOK
    <2> QED
      BY <1>2, <2>1 DEF ServiceInv, OneClientEach
  <1>6. StopLeavesNothing'
    BY <1>2 DEF ServiceInv, StopLeavesNothing
  <1> QED
    BY <1>1, <1>3, <1>4, <1>5, <1>6 DEF ServiceInv

LEMMA LeaveKeeps ==
  ASSUME ServiceInv, NEW c \in Clients, Leave(c)
  PROVE  ServiceInv'
  <1> USE DEF Leave, Unborn, InSession
  <1>1. TypeOK'
    BY DEF ServiceInv, TypeOK
  <1>2. /\ \A s \in Threads : pipe'[s] = IF s \in client[c] /\ pipe[s] = "taken"
                                          THEN "broken" ELSE pipe[s]
        /\ \A d \in Clients : client'[d] = IF d = c THEN {} ELSE client[d]
    BY DEF ServiceInv, TypeOK
  <1>3. PipeFollowsThread'
    BY <1>2 DEF ServiceInv, PipeFollowsThread
  <1>4. AttachedOnce'
    BY <1>2 DEF ServiceInv, AttachedOnce
  <1>5. OneClientEach'
    <2>1. \A d \in Clients : client[d] \subseteq Threads
      BY DEF ServiceInv, TypeOK
    <2> QED
      BY <1>2, <2>1 DEF ServiceInv, OneClientEach
  <1>6. StopLeavesNothing'
    BY <1>2 DEF ServiceInv, StopLeavesNothing
  <1> QED
    BY <1>1, <1>3, <1>4, <1>5, <1>6 DEF ServiceInv

-----------------------------------------------------------------------------
(* The threads.                                                            *)

LEMMA StartKeeps ==
  ASSUME ServiceInv, StartAsync
  PROVE  ServiceInv'
  <1> USE DEF StartAsync, Unborn, InSession
  <1>1. TypeOK'
    BY DEF ServiceInv, TypeOK
  <1>2. PipeFollowsThread' /\ AttachedOnce' /\ OneClientEach' /\ StopLeavesNothing'
    BY DEF ServiceInv, PipeFollowsThread, AttachedOnce, OneClientEach, StopLeavesNothing
  <1> QED
    BY <1>1, <1>2 DEF ServiceInv

LEMMA CreateKeeps ==
  ASSUME ServiceInv, NEW t \in Threads, CreatePipe(t)
  PROVE  ServiceInv'
  <1> USE DEF CreatePipe, Goto, Unborn, InSession
  <1>1. TypeOK'
    BY DEF ServiceInv, TypeOK
  <1>2. \A s \in Threads : /\ thread'[s] = IF s = t THEN "loop" ELSE thread[s]
                           /\ pipe'[s] = IF s = t THEN "free" ELSE pipe[s]
    BY DEF ServiceInv, TypeOK
  <1>3. pipe[t] = "none" /\ ~attached[t]
    BY DEF ServiceInv, PipeFollowsThread, AttachedOnce
  <1>4. PipeFollowsThread'
    BY <1>2 DEF ServiceInv, PipeFollowsThread
  <1>5. AttachedOnce'
    BY <1>2, <1>3 DEF ServiceInv, AttachedOnce
  <1>6. OneClientEach'
    BY <1>2, <1>3 DEF ServiceInv, OneClientEach, TypeOK
  <1>7. StopLeavesNothing'
    BY <1>2 DEF ServiceInv, StopLeavesNothing
  <1> QED
    BY <1>1, <1>4, <1>5, <1>6, <1>7 DEF ServiceInv

LEMMA AcceptKeeps ==
  ASSUME ServiceInv, NEW t \in Threads, Accept(t)
  PROVE  ServiceInv'
  <1> USE DEF Accept, Goto, Unborn, InSession
  <1>1. TypeOK'
    <2>1. served' \in [Threads -> Nat] /\ attached' \in [Threads -> BOOLEAN]
      BY DEF ServiceInv, TypeOK
    <2> QED
      BY <2>1 DEF ServiceInv, TypeOK
  <1>2. /\ thread'[t] = "serving" /\ attached'[t] = TRUE /\ served'[t] = served[t] + 1
        /\ \A s \in Threads \ {t} : /\ thread'[s] = thread[s]
                                   /\ attached'[s] = attached[s]
                                   /\ served'[s] = served[s]
    BY DEF ServiceInv, TypeOK
  <1>3. PipeFollowsThread'
    BY <1>2 DEF ServiceInv, PipeFollowsThread
  <1>4. AttachedOnce'
    <2>1. served'[t] = 1
      BY <1>2 DEF ServiceInv, AttachedOnce
    <2> QED
      BY <1>2, <2>1 DEF ServiceInv, AttachedOnce
  <1>5. OneClientEach'
    BY DEF ServiceInv, OneClientEach
  <1>6. StopLeavesNothing'
    BY <1>2 DEF ServiceInv, StopLeavesNothing
  <1> QED
    BY <1>1, <1>3, <1>4, <1>5, <1>6 DEF ServiceInv

\* The exception takes all threads and all instances with it; StopAsync cannot
\* have returned while one thread waits or has no instance yet.
LEMMA ThrowKeeps ==
  ASSUME ServiceInv, NEW t \in Threads, CreateThrows(t) \/ WaitThrows(t)
  PROVE  ServiceInv'
  <1> USE DEF CreateThrows, WaitThrows, Crash, Unborn, InSession
  <1>1. TypeOK'
    BY DEF ServiceInv, TypeOK
  <1>2. PipeFollowsThread'
    BY DEF PipeFollowsThread
  <1>3. AttachedOnce'
    BY DEF ServiceInv, AttachedOnce
  <1>4. OneClientEach'
    BY DEF ServiceInv, OneClientEach, TypeOK
  <1>5. StopLeavesNothing'
    BY DEF ServiceInv, StopLeavesNothing
  <1> QED
    BY <1>1, <1>2, <1>3, <1>4, <1>5 DEF ServiceInv

LEMMA StopKeeps ==
  ASSUME ServiceInv, CallStop \/ Join
  PROVE  ServiceInv'
  <1> USE DEF CallStop, Join
  <1>1. TypeOK'
    BY DEF ServiceInv, TypeOK
  <1>2. PipeFollowsThread' /\ AttachedOnce' /\ OneClientEach'
    BY DEF ServiceInv, PipeFollowsThread, AttachedOnce, OneClientEach
  <1>3. StopLeavesNothing'
    BY DEF ServiceInv, PipeFollowsThread, StopLeavesNothing
  <1> QED
    BY <1>1, <1>2, <1>3 DEF ServiceInv

LEMMA ThreadKeeps ==
  ASSUME ServiceInv, NEW t \in Threads,
         \/ ThreadStep(t) \/ CreateThrows(t)
         \/ BeginWrite(t) \/ EndWrite(t) \/ SessionFails(t)
  PROVE  ServiceInv'
  <1>1. CASE CreatePipe(t)
    BY <1>1, CreateKeeps
  <1>2. CASE TestLoop(t)
    BY <1>2, ExitKeeps, MoveKeeps DEF TestLoop, Unborn, InSession
  <1>3. CASE WaitCanceled(t)
    BY <1>3, ExitKeeps DEF WaitCanceled
  <1>4. CASE Accept(t)
    BY <1>4, AcceptKeeps
  <1>5. CASE CreateThrows(t) \/ WaitThrows(t)
    BY <1>5, ThrowKeeps
  <1>6. CASE SessionOver(t)
    BY <1>6, MoveKeeps DEF SessionOver, Unborn, InSession
  <1>7. CASE EndRead(t) \/ BeginWrite(t) \/ EndWrite(t) \/ SessionFails(t)
    <2>1. thread[t] \in InSession /\ thread[t] \notin Unborn \cup {"exited", "dead"}
      BY <1>7 DEF EndRead, BeginWrite, EndWrite, SessionFails, Unborn, InSession
    <2>2. attached[t]
      BY <2>1 DEF ServiceInv, AttachedOnce
    <2>3. /\ \E place \in InSession : Goto(t, place)
          /\ UNCHANGED <<pipe, attached, client, served, canceled, stopper, crashed>>
      BY <1>7 DEF EndRead, BeginWrite, EndWrite, SessionFails, InSession
    <2> QED
      BY <2>1, <2>2, <2>3, MoveKeeps
  <1> QED
    BY <1>1, <1>2, <1>3, <1>4, <1>5, <1>6, <1>7 DEF ThreadStep

LEMMA NextKeeps ==
  ASSUME ServiceInv, [Next]_vars
  PROVE  ServiceInv'
  <1>1. CASE StartAsync
    BY <1>1, StartKeeps
  <1>2. CASE CallStop \/ Join
    BY <1>2, StopKeeps
  <1>3. ASSUME NEW c \in Clients, Leave(c)
        PROVE  ServiceInv'
    BY <1>3, LeaveKeeps
  <1>4. ASSUME NEW c \in Clients, NEW t \in Threads, Connect(c, t)
        PROVE  ServiceInv'
    BY <1>4, ConnectKeeps
  <1>5. ASSUME NEW t \in Threads,
               \/ ThreadStep(t) \/ CreateThrows(t)
               \/ BeginWrite(t) \/ EndWrite(t) \/ SessionFails(t)
        PROVE  ServiceInv'
    BY <1>5, ThreadKeeps
  <1>6. CASE UNCHANGED vars
    BY <1>6 DEF ServiceInv, TypeOK, PipeFollowsThread, AttachedOnce, OneClientEach,
                StopLeavesNothing, vars
  <1> QED
    BY <1>1, <1>2, <1>3, <1>4, <1>5, <1>6 DEF Next

-----------------------------------------------------------------------------
\* The invariant the theorems below are read off.
THEOREM ServiceInvariant == Spec => []ServiceInv
  <1>1. Init => ServiceInv
    <2>1. Init => TypeOK
      <3>1. Init => client \in [Clients -> {{}} \cup {{t} : t \in Threads}]
        BY Zenon DEF Init
      <3>2. Init => attached \in [Threads -> BOOLEAN] /\ served \in [Threads -> Nat]
        BY DEF Init
      <3>3. Init => /\ canceled \in BOOLEAN /\ crashed \in BOOLEAN
                    /\ stopper \in {"none", "joining", "done"}
        BY DEF Init
      <3>4. Init => /\ thread \in [Threads -> {"created", "started", "loop", "waiting",
                                   "serving", "writing", "over", "exited", "dead"}]
                    /\ pipe \in [Threads -> {"none", "free", "taken", "broken", "closed"}]
        BY DEF Init
      <3> QED
        BY <3>1, <3>2, <3>3, <3>4 DEF TypeOK
    <2>2. Init => PipeFollowsThread /\ AttachedOnce
      BY DEF Init, PipeFollowsThread, AttachedOnce, Unborn, InSession
    <2>3. Init => OneClientEach /\ StopLeavesNothing
      BY DEF Init, OneClientEach, StopLeavesNothing
    <2> QED
      BY <2>1, <2>2, <2>3 DEF ServiceInv
  <1>2. ServiceInv /\ [Next]_vars => ServiceInv'
    BY NextKeeps
  <1> QED
    BY <1>1, <1>2, PTL DEF Spec

(***************************************************************************)
(* Threads, instances and clients keep to their states, in particular a    *)
(* client never holds two instances.                                       *)
(***************************************************************************)
THEOREM ServiceWellTyped == Spec => []TypeOK
  BY ServiceInvariant, PTL DEF ServiceInv

(***************************************************************************)
(* RunThread never comes to a second session, with any number of threads   *)
(* and clients.                                                            *)
(***************************************************************************)
THEOREM ThreadServesAtMostOne == Spec => []ServesAtMostOne
  <1>1. ServiceInv => ServesAtMostOne
    BY DEF ServiceInv, AttachedOnce, ServesAtMostOne
  <1> QED
    BY <1>1, ServiceInvariant, PTL

(***************************************************************************)
(* No two clients ever talk through one instance, and a StopAsync that     *)
(* returned has closed them all.                                           *)
(***************************************************************************)
THEOREM InstancesNotShared == Spec => [](OneClientEach /\ StopLeavesNothing)
  BY ServiceInvariant, PTL DEF ServiceInv

(***************************************************************************)
(* A thread of RunThread that has served waits in vain: from the wait it   *)
(* comes only to its end, by a cancellation or with the whole process.     *)
(***************************************************************************)
StaleWaitEnds ==
  [][\A t \in Threads :
       served[t] = 1 /\ thread[t] = "waiting" =>
         \/ thread'[t] = "waiting"
         \/ canceled /\ thread'[t] = "exited"
         \/ crashed' /\ \A s \in Threads : thread'[s] = "dead"]_vars

THEOREM ServedThreadWaitsInVain == Spec => StaleWaitEnds
  <1>1. ASSUME ServiceInv, Next, NEW t \in Threads, served[t] = 1, thread[t] = "waiting"
        PROVE  \/ thread'[t] = "waiting"
               \/ canceled /\ thread'[t] = "exited"
               \/ crashed' /\ \A s \in Threads : thread'[s] = "dead"
    <2>1. attached[t] /\ thread \in [Threads -> {"created", "started", "loop", "waiting",
                                                 "serving", "writing", "over", "exited", "dead"}]
      BY <1>1 DEF ServiceInv, TypeOK, AttachedOnce
    <2>2. CASE UNCHANGED thread
      BY <1>1, <2>2
    <2>3. CASE StartAsync
      BY <1>1, <2>3 DEF StartAsync
    <2>4. ASSUME NEW s \in Threads,
                 \/ ThreadStep(s) \/ CreateThrows(s)
                 \/ BeginWrite(s) \/ EndWrite(s) \/ SessionFails(s)
          PROVE  \/ thread'[t] = "waiting"
                 \/ canceled /\ thread'[t] = "exited"
                 \/ crashed' /\ \A r \in Threads : thread'[r] = "dead"
      <3>1. CASE CreateThrows(s) \/ WaitThrows(s)
        BY <3>1 DEF CreateThrows, WaitThrows, Crash
      <3>2. CASE s # t /\ ~(CreateThrows(s) \/ WaitThrows(s))
        <4>1. thread'[t] = thread[t]
          BY <2>1, <2>4, <3>2 DEF ThreadStep, CreatePipe, TestLoop, WaitCanceled, Accept, EndRead,
             SessionOver, BeginWrite, EndWrite, SessionFails, ExitThread, Goto
        <4> QED
          BY <1>1, <4>1
      <3>3. CASE s = t /\ ~(CreateThrows(s) \/ WaitThrows(s))
        <4>1. WaitCanceled(t)
          BY <1>1, <2>1, <2>4, <3>3 DEF ThreadStep, CreatePipe, TestLoop, Accept, EndRead,
             SessionOver, BeginWrite, EndWrite, SessionFails
        <4> QED
          BY <2>1, <4>1 DEF WaitCanceled, ExitThread, Goto
      <3> QED
        BY <3>1, <3>2, <3>3
    <2> QED
      BY <1>1, <2>2, <2>3, <2>4 DEF Next, CallStop, Join, Leave, Connect
  <1>2. ServiceInv /\ [Next]_vars =>
          [\A t \in Threads :
             served[t] = 1 /\ thread[t] = "waiting" =>
               \/ thread'[t] = "waiting"
               \/ canceled /\ thread'[t] = "exited"
               \/ crashed' /\ \A s \in Threads : thread'[s] = "dead"]_vars
    BY <1>1
  <1> QED
    BY <1>2, ServiceInvariant, PTL DEF Spec, StaleWaitEnds
=============================================================================
