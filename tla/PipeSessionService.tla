------------------------- MODULE PipeSessionService -------------------------
(***************************************************************************)
(* The service side of connections: the threads of PipeSessionService,     *)
(* one named pipe instance each, the clients (Comm objects of the DLL) that *)
(* come and go, and StopAsync.  What a session does between two frames is  *)
(* left to CheckpointSync; here it serves, is inside a write, or is over.  *)
(***************************************************************************)
EXTENDS Naturals, FiniteSets

CONSTANTS
  Threads,  \* Consts.NumThread threads, an instance of the pipe each
  Clients   \* Comm objects of the DLLs, each the owner of one open pipe

ASSUME ServiceConstantsOK == IsFiniteSet(Threads) /\ IsFiniteSet(Clients)

VARIABLES
  thread,    \* where RunThread of each thread is
  pipe,      \* the instance: "none", "free", "taken", "broken" or "closed"
  attached,  \* the NamedPipeServerStream has had a connection accepted
  client,    \* the instances each client is connected to: none or one
  served,    \* sessions run so far, per thread
  canceled,  \* _cts was canceled
  stopper,   \* StopAsync: "none", "joining" or "done"
  crashed    \* an exception left a thread and took the process down

vars == <<thread, pipe, attached, client, served, canceled, stopper, crashed>>

Init ==
  /\ thread = [t \in Threads |-> "created"]
  /\ pipe = [t \in Threads |-> "none"]
  /\ attached = [t \in Threads |-> FALSE]
  /\ client = [c \in Clients |-> {}]
  /\ served = [t \in Threads |-> 0]
  /\ canceled = FALSE
  /\ stopper = "none"
  /\ crashed = FALSE

-----------------------------------------------------------------------------
(* The clients.                                                            *)

\* Mutant: a client that has a pipe opens another one.
ConnectMore(c, t) ==
  /\ pipe[t] = "free"
  /\ client' = [client EXCEPT ![c] = @ \cup {t}]
  /\ pipe' = [pipe EXCEPT ![t] = "taken"]
  /\ UNCHANGED <<thread, attached, served, canceled, stopper, crashed>>

\* CreateFileW finds an instance without a client; else it fails, and so does
\* Enable.
Connect(c, t) ==
  /\ client[c] = {}
  /\ pipe[t] = "free"
  /\ client' = [client EXCEPT ![c] = {t}]
  /\ pipe' = [pipe EXCEPT ![t] = "taken"]
  /\ UNCHANGED <<thread, attached, served, canceled, stopper, crashed>>

\* Disable or the end of the process closes the client's end.
Leave(c) ==
  /\ client[c] # {}
  /\ client' = [client EXCEPT ![c] = {}]
  /\ pipe' = [t \in Threads |->
                IF t \in client[c] /\ pipe[t] = "taken" THEN "broken" ELSE pipe[t]]
  /\ UNCHANGED <<thread, attached, served, canceled, stopper, crashed>>

-----------------------------------------------------------------------------
(* RunThread.                                                              *)

Goto(t, place) == thread' = [thread EXCEPT ![t] = place]

\* No thread catches it: the exception ends the process, and every instance.
Crash ==
  /\ crashed' = TRUE
  /\ thread' = [t \in Threads |-> "dead"]
  /\ pipe' = [t \in Threads |-> "closed"]
  /\ UNCHANGED <<attached, client, served, canceled, stopper>>

StartAsync ==
  /\ \A t \in Threads : thread[t] = "created"
  /\ thread' = [t \in Threads |-> "started"]
  /\ UNCHANGED <<pipe, attached, client, served, canceled, stopper, crashed>>

\* A client can connect as soon as the instance exists.
CreatePipe(t) ==
  /\ thread[t] = "started"
  /\ pipe' = [pipe EXCEPT ![t] = "free"]
  /\ Goto(t, "loop")
  /\ UNCHANGED <<attached, client, served, canceled, stopper, crashed>>

\* The constructor throws: the name is another's, or its instances are taken.
CreateThrows(t) ==
  /\ thread[t] = "started"
  /\ Crash

\* Leaving the loop disposes the pipe.
ExitThread(t) ==
  /\ Goto(t, "exited")
  /\ pipe' = [pipe EXCEPT ![t] = "closed"]
  /\ UNCHANGED <<attached, client, served, canceled, stopper, crashed>>

\* Mutant: a client that came before the wait is not noticed.
TestLoopFresh(t) ==
  /\ thread[t] = "loop"
  /\ \/ canceled /\ ExitThread(t)
     \/ /\ ~canceled
        /\ pipe[t] = "free"
        /\ Goto(t, "waiting")
        /\ UNCHANGED <<pipe, attached, client, served, canceled, stopper, crashed>>

TestLoop(t) ==
  /\ thread[t] = "loop"
  /\ \/ canceled /\ ExitThread(t)
     \/ /\ ~canceled
        /\ Goto(t, "waiting")
        /\ UNCHANGED <<pipe, attached, client, served, canceled, stopper, crashed>>

\* The one exception RunThread expects of WaitForConnectionAsync.
WaitCanceled(t) ==
  /\ thread[t] = "waiting"
  /\ canceled
  /\ ExitThread(t)

Accept(t) ==
  /\ thread[t] = "waiting"
  /\ ~attached[t]
  /\ pipe[t] = "taken"
  /\ attached' = [attached EXCEPT ![t] = TRUE]
  /\ served' = [served EXCEPT ![t] = @ + 1]
  /\ Goto(t, "serving")
  /\ UNCHANGED <<pipe, client, canceled, stopper, crashed>>

\* Mutant: the exceptions of a stale or broken pipe are caught as well.
WaitRetries(t) ==
  /\ thread[t] = "waiting"
  /\ attached[t] \/ pipe[t] = "broken"
  /\ attached' = [attached EXCEPT ![t] = FALSE]
  /\ pipe' = [pipe EXCEPT ![t] = "free"]
  /\ UNCHANGED <<thread, client, served, canceled, stopper, crashed>>

\* Every other exception ends the process: InvalidOperationException because
\* the stream is still connected from the last session (nothing disconnects
\* it), IOException because that client, or one that did not wait for its
\* session, has gone.
WaitThrows(t) ==
  /\ thread[t] = "waiting"
  /\ attached[t] \/ pipe[t] = "broken"
  /\ Crash

-----------------------------------------------------------------------------
(* The session, as far as it matters here.                                 *)

\* A checkpoint is written; no token ends the write.
BeginWrite(t) ==
  /\ thread[t] = "serving"
  /\ ~canceled
  /\ Goto(t, "writing")
  /\ UNCHANGED <<pipe, attached, client, served, canceled, stopper, crashed>>

\* The client reads, or its end is closed and the write throws.
EndWrite(t) ==
  /\ thread[t] = "writing"
  /\ \/ pipe[t] = "taken" /\ Goto(t, "serving")
     \/ pipe[t] = "broken" /\ Goto(t, "over")
  /\ UNCHANGED <<pipe, attached, client, served, canceled, stopper, crashed>>

\* Mutant: the poll of the pipe does not look at the token.
EndReadBlind(t) ==
  /\ thread[t] = "serving"
  /\ pipe[t] = "broken"
  /\ Goto(t, "over")
  /\ UNCHANGED <<pipe, attached, client, served, canceled, stopper, crashed>>

\* RunAsync returns when the token is canceled or the client has gone; it
\* catches every exception.
EndRead(t) ==
  /\ thread[t] = "serving"
  /\ canceled \/ pipe[t] = "broken"
  /\ Goto(t, "over")
  /\ UNCHANGED <<pipe, attached, client, served, canceled, stopper, crashed>>

\* An impossible size or an exhausted budget throws; the client stays.
SessionFails(t) ==
  /\ thread[t] = "serving"
  /\ Goto(t, "over")
  /\ UNCHANGED <<pipe, attached, client, served, canceled, stopper, crashed>>

\* Mutant: the thread returns after its session.
SessionOverReturns(t) ==
  /\ thread[t] = "over"
  /\ ExitThread(t)

\* "pipe connection closed" is logged; the pipe is not touched.
SessionOver(t) ==
  /\ thread[t] = "over"
  /\ Goto(t, "loop")
  /\ UNCHANGED <<pipe, attached, client, served, canceled, stopper, crashed>>

-----------------------------------------------------------------------------
(* StopAsync cancels and joins.                                            *)

CallStop ==
  /\ stopper = "none"
  /\ \A t \in Threads : thread[t] # "created"
  /\ ~crashed
  /\ canceled' = TRUE
  /\ stopper' = "joining"
  /\ UNCHANGED <<thread, pipe, attached, client, served, crashed>>

Join ==
  /\ stopper = "joining"
  /\ \A t \in Threads : thread[t] = "exited"
  /\ stopper' = "done"
  /\ UNCHANGED <<thread, pipe, attached, client, served, canceled, crashed>>

-----------------------------------------------------------------------------
\* What a thread does on its own account, sooner or later.
ThreadStep(t) ==
  \/ CreatePipe(t) \/ TestLoop(t)
  \/ WaitCanceled(t) \/ Accept(t) \/ WaitThrows(t)
  \/ EndRead(t) \/ SessionOver(t)

WriteFails(t) == pipe[t] = "broken" /\ EndWrite(t)

Next ==
  \/ StartAsync \/ CallStop \/ Join
  \/ \E c \in Clients : Leave(c) \/ \E t \in Threads : Connect(c, t)
  \/ \E t \in Threads :
       \/ ThreadStep(t) \/ CreateThrows(t)
       \/ BeginWrite(t) \/ EndWrite(t) \/ SessionFails(t)

\* Main starts the service; its threads run; a write to a closed end fails.
\* Nothing makes clients come, leave or read, a constructor throw, or anybody
\* call StopAsync.
Fairness ==
  /\ WF_vars(StartAsync) /\ WF_vars(Join)
  /\ \A t \in Threads : WF_vars(ThreadStep(t)) /\ WF_vars(WriteFails(t))

Spec == Init /\ [][Next]_vars /\ Fairness

-----------------------------------------------------------------------------
TypeOK ==
  /\ thread \in [Threads -> {"created", "started", "loop", "waiting", "serving",
                             "writing", "over", "exited", "dead"}]
  /\ pipe \in [Threads -> {"none", "free", "taken", "broken", "closed"}]
  /\ attached \in [Threads -> BOOLEAN]
  /\ client \in [Clients -> {{}} \cup {{t} : t \in Threads}]
  /\ served \in [Threads -> Nat]
  /\ canceled \in BOOLEAN
  /\ stopper \in {"none", "joining", "done"}
  /\ crashed \in BOOLEAN

(***************************************************************************)
(* The loop of RunThread never comes to a second session: a thread serves  *)
(* one client in its life, and the instance a client has left stays        *)
(* useless.                                                                *)
(***************************************************************************)
ServesAtMostOne ==
  \A t \in Threads : served[t] <= 1 /\ (pipe[t] = "free" => served[t] = 0)

(***************************************************************************)
(* The end of one session is the end of the service, and with it of every  *)
(* other client's session, unless StopAsync cancels it first.              *)
(***************************************************************************)
OneSessionEndsAll ==
  \A t \in Threads : thread[t] = "over" ~> crashed \/ canceled

(***************************************************************************)
(* A client that got an instance is given a session, unless it leaves or   *)
(* the service ends before.                                                *)
(***************************************************************************)
ConnectedGetsSession ==
  \A t \in Threads : pipe[t] = "taken" ~> served[t] = 1 \/ pipe[t] # "taken"

(***************************************************************************)
(* StopAsync returns, unless the process goes down or a session stays      *)
(* inside a write for ever.                                                *)
(***************************************************************************)
StopReturns ==
  \/ \E t \in Threads : <>[](thread[t] = "writing")
  \/ stopper = "joining" ~> stopper = "done" \/ crashed

(***************************************************************************)
(* PipeSessionService.cs:38, at the top of every round of the loop:        *)
(* "waiting for connection...".  A thread that says so can be connected    *)
(* to, or is by a client it has not served yet.                            *)
(***************************************************************************)
WaitingIsConnectable ==
  \A t \in Threads : thread[t] = "waiting" => ~attached[t]
=============================================================================
