--------------------------- MODULE CheckpointSync ---------------------------
(***************************************************************************)
(* The layer-1 checkpoint protocol between the two ends of one pipe: the   *)
(* session loop of the DLL (wsac-dll, Session::Run) and the session loop   *)
(* of the service (WsACService, FrameSession.RunAsync).                    *)
(*                                                                         *)
(* A frame is one element of wire[s], the FIFO of frames written to side s *)
(* and not yet read by it.  What happens below the frame (preamble search, *)
(* alignment, over-reading) is abstracted to three outcomes of reading the *)
(* frame at the head: it arrives intact, its header is broken, or (service *)
(* only) it is missed.                                                     *)
(***************************************************************************)
EXTENDS Integers, Sequences, FiniteSets

CONSTANTS
  Quota,      \* frames a pipe direction holds before a write blocks
  AppFrames,  \* frames that callers of the FrameWriter classes may write
  Stoppable,  \* sides that may be asked to stop
  MaxApp,     \* bound: frames written by callers of the FrameWriter classes
  MaxFaults   \* bound: frames read broken or missed and processes that die

Side == {"dll", "svc"}
Peer(s) == IF s = "dll" THEN "svc" ELSE "dll"

\* "Other" is a signature outside the receiver's FrameSig enumeration.
Sigs == {"Checkpoint", "Regular", "Test", "Other"}

\* "huge": negative as a C# long, more than a C++ vector can hold.
Sizes == {"empty", "body", "huge"}
Frame == [sig : Sigs, size : Sizes]

CheckpointFrame == [sig |-> "Checkpoint", size |-> "empty"]

ASSUME ConstantsOK ==
  /\ Quota \in Nat
  /\ AppFrames \subseteq {f \in Frame : f.sig # "Checkpoint"}
  /\ Stoppable \subseteq Side
  /\ MaxApp \in Nat
  /\ MaxFaults \in Nat

VARIABLES
  base,    \* Layer1State.Base of the DLL, FrameSessionState of the service
  phase,   \* "read": waiting for a frame; "echo" and "reset": inside the
           \* write of a checkpoint, "reset" when Base := None follows it
  alive,   \* the session loop of the side is running
  open,    \* the side's handle of the pipe is open
  stop,    \* stop token (DLL), cancellation token (service)
  wire,    \* frames on their way to the side
  apps,    \* frames written so far by callers of the FrameWriter classes
  faults,  \* frames read broken or missed and processes that died so far
  extra,   \* history: checkpoints written that no state change accounts for
  lost     \* history: checkpoints that reached no checkpoint handler

vars == <<base, phase, alive, open, stop, wire, apps, faults, extra, lost>>

\* Number of checkpoint frames in a queue of frames.
Tokens(q) == Cardinality({i \in DOMAIN q : q[i].sig = "Checkpoint"})

InFlight == Tokens(wire["dll"]) + Tokens(wire["svc"])

\* A side is out of sync once it decided to reset, even before the write that
\* precedes the assignment returns.
OutOfSync(s) == base[s] = "None" \/ phase[s] = "reset"
Unsynced(s) == IF OutOfSync(s) THEN 1 ELSE 0
UnsyncedCount == Unsynced("dll") + Unsynced("svc")

Init ==
  /\ base = [s \in Side |-> "None"]
  /\ phase = [s \in Side |-> "read"]
  /\ alive = [s \in Side |-> TRUE]
  /\ open = [s \in Side |-> TRUE]
  /\ stop = [s \in Side |-> FALSE]
  /\ wire = [s \in Side |-> <<>>]
  /\ apps = 0
  /\ faults = 0
  /\ extra = 0
  /\ lost = 0

-----------------------------------------------------------------------------
(* Reading and writing a frame.                                            *)

\* A write returns once what the peer has not read fits the quota.  The
\* handles are synchronous: until it returns, nothing else happens on the
\* handle of s, whether the session or another caller writes.
Blocked(s) == open[Peer(s)] /\ Len(wire[Peer(s)]) > Quota

\* The session of s has a frame to read.  Every read ends in a test of the
\* stop token, so nothing read after the request reaches a handler.
Reading(s) ==
  /\ alive[s]
  /\ phase[s] = "read"
  /\ ~Blocked(s)
  /\ ~stop[s]
  /\ wire[s] # <<>>

Consume(s) == wire' = [wire EXCEPT ![s] = Tail(@)]

\* FrameWriter::WriteCheckpoint inside a handler that consumed the head frame.
WriteCheckpoint(s, next) ==
  /\ wire' = [wire EXCEPT ![s] = Tail(@), ![Peer(s)] = Append(@, CheckpointFrame)]
  /\ phase' = [phase EXCEPT ![s] = next]

\* Mutant: the state after the write is stored where Base belongs.
FinishWriteStoresPhase(s) ==
  /\ alive[s]
  /\ phase[s] # "read"
  /\ ~Blocked(s)
  /\ phase' = [phase EXCEPT ![s] = "read"]
  /\ base' = [base EXCEPT ![s] = phase[s]]
  /\ UNCHANGED <<alive, open, stop, wire, apps, faults, extra, lost>>

FinishWrite(s) ==
  /\ alive[s]
  /\ phase[s] # "read"
  /\ ~Blocked(s)
  /\ phase' = [phase EXCEPT ![s] = "read"]
  /\ base' = [base EXCEPT ![s] = IF phase[s] = "reset" THEN "None" ELSE @]
  /\ UNCHANGED <<alive, open, stop, wire, apps, faults, extra, lost>>

\* The header fails Validate: a checkpoint is written, then Base := None.
RequestCheckpoint(s) ==
  /\ Reading(s)
  /\ faults < MaxFaults
  /\ WriteCheckpoint(s, "reset")
  /\ faults' = faults + 1
  /\ extra' = extra + Unsynced(s)
  /\ lost' = lost + Tokens(<<Head(wire[s])>>)
  /\ UNCHANGED <<base, alive, open, stop, apps>>

\* Mutant: the synchronising checkpoint is echoed too.
HandleCheckpointEchoesAll(s) ==
  /\ Reading(s)
  /\ Head(wire[s]).sig = "Checkpoint"
  /\ base' = [base EXCEPT ![s] = "Ready"]
  /\ WriteCheckpoint(s, "echo")
  /\ UNCHANGED <<alive, open, stop, apps, faults, extra, lost>>

\* Mutant: a synchronised side drops the checkpoint.
HandleCheckpointDrops(s) ==
  /\ Reading(s)
  /\ Head(wire[s]).sig = "Checkpoint"
  /\ base' = [base EXCEPT ![s] = "Ready"]
  /\ Consume(s)
  /\ UNCHANGED <<phase, alive, open, stop, apps, faults, extra, lost>>

\* A valid checkpoint: the first one synchronises, any other is echoed.
HandleCheckpoint(s) ==
  /\ Reading(s)
  /\ Head(wire[s]).sig = "Checkpoint"
  /\ \/ /\ base[s] = "None"
        /\ base' = [base EXCEPT ![s] = "Ready"]
        /\ Consume(s)
        /\ UNCHANGED phase
     \/ /\ base[s] # "None"
        /\ WriteCheckpoint(s, "echo")
        /\ UNCHANGED base
  /\ UNCHANGED <<alive, open, stop, apps, faults, extra, lost>>

-----------------------------------------------------------------------------
(* Handlers of the DLL.                                                    *)

DllBroken == RequestCheckpoint("dll")

DllCheckpoint == HandleCheckpoint("dll")

\* A regular frame is only logged; its body stays in the pipe and is passed
\* over by the next preamble search.
DllRegular ==
  /\ Reading("dll")
  /\ Head(wire["dll"]).sig = "Regular"
  /\ Consume("dll")
  /\ UNCHANGED <<base, phase, alive, open, stop, apps, faults, extra, lost>>

\* A test frame is read into a vector of dataSize bytes; an impossible size
\* throws out of the session.
DllTest ==
  /\ Reading("dll")
  /\ Head(wire["dll"]).sig = "Test"
  /\ Consume("dll")
  /\ alive' = [alive EXCEPT !["dll"] = Head(wire["dll"]).size # "huge"]
  /\ UNCHANGED <<base, phase, open, stop, apps, faults, extra, lost>>

\* A signature the switch does not know: a checkpoint, and Base is kept.
DllInvalid ==
  /\ Reading("dll")
  /\ Head(wire["dll"]).sig = "Other"
  /\ WriteCheckpoint("dll", "echo")
  /\ extra' = extra + 1
  /\ UNCHANGED <<base, alive, open, stop, apps, faults, lost>>

-----------------------------------------------------------------------------
(* Handlers of the service.                                                *)

SvcBroken == RequestCheckpoint("svc")

SvcCheckpoint == HandleCheckpoint("svc")

\* The preamble is not recognised because the reader is out of step with the
\* frames: the frame is passed over without any reaction.
SvcMiss ==
  /\ Reading("svc")
  /\ faults < MaxFaults
  /\ Consume("svc")
  /\ faults' = faults + 1
  /\ lost' = lost + Tokens(<<Head(wire["svc"])>>)
  /\ UNCHANGED <<base, phase, alive, open, stop, apps, extra>>

\* DataSize < 0 throws out of the session.
SvcTooBig ==
  /\ Reading("svc")
  /\ Head(wire["svc"]).size = "huge"
  /\ Consume("svc")
  /\ alive' = [alive EXCEPT !["svc"] = FALSE]
  /\ UNCHANGED <<base, phase, open, stop, apps, faults, extra, lost>>

\* Every other frame ends in SkipAsync of its body.  A non-empty skip reads
\* whole buffers, so it may swallow any number of the frames that follow.
SvcConsume ==
  /\ Reading("svc")
  /\ Head(wire["svc"]).sig # "Checkpoint"
  /\ Head(wire["svc"]).size # "huge"
  /\ LET rest == Tail(wire["svc"])
         over == IF Head(wire["svc"]).size = "body" THEN Len(rest) ELSE 0
     IN \E k \in 0 .. over :
          /\ wire' = [wire EXCEPT !["svc"] = SubSeq(rest, k + 1, Len(rest))]
          /\ lost' = lost + Tokens(SubSeq(rest, 1, k))
  /\ UNCHANGED <<base, phase, alive, open, stop, apps, faults, extra>>

-----------------------------------------------------------------------------
(* Environment: callers of the frame writers, stop requests, closed ends,  *)
(* processes that die.                                                     *)

AppWrite(s) ==
  /\ apps < MaxApp
  /\ phase[s] = "read"
  /\ ~Blocked(s)
  /\ open[s]
  /\ open[Peer(s)]
  /\ \E f \in AppFrames : wire' = [wire EXCEPT ![Peer(s)] = Append(@, f)]
  /\ apps' = apps + 1
  /\ UNCHANGED <<base, phase, alive, open, stop, faults, extra, lost>>

RequestStop(s) ==
  /\ s \in Stoppable
  /\ ~stop[s]
  /\ stop' = [stop EXCEPT ![s] = TRUE]
  /\ UNCHANGED <<base, phase, alive, open, wire, apps, faults, extra, lost>>

\* Mutant: the poll of an empty pipe does not look at the stop token.
StopSessionOnData(s) ==
  /\ alive[s]
  /\ stop[s]
  /\ phase[s] = "read"
  /\ wire[s] # <<>>
  /\ alive' = [alive EXCEPT ![s] = FALSE]
  /\ UNCHANGED <<base, phase, open, stop, wire, apps, faults, extra, lost>>

\* A read sees the stop token and throws; a write never looks at it.
StopSession(s) ==
  /\ alive[s]
  /\ stop[s]
  /\ phase[s] = "read"
  /\ ~Blocked(s)
  /\ alive' = [alive EXCEPT ![s] = FALSE]
  /\ UNCHANGED <<base, phase, open, stop, wire, apps, faults, extra, lost>>

\* The pipe end goes away: the service's with its thread or process, the
\* DLL's only when Disable deletes Comm.
Close(s) ==
  /\ open[s]
  /\ ~alive[s]
  /\ s = "dll" => stop[s]
  /\ open' = [open EXCEPT ![s] = FALSE]
  /\ UNCHANGED <<base, phase, alive, stop, wire, apps, faults, extra, lost>>

\* Mutant: a failing peek is taken for an empty pipe.
PeerGoneOnWrite(s) ==
  /\ alive[s]
  /\ ~open[Peer(s)]
  /\ phase[s] # "read"
  /\ alive' = [alive EXCEPT ![s] = FALSE]
  /\ UNCHANGED <<base, phase, open, stop, wire, apps, faults, extra, lost>>

\* Peek, read or write fails because the other end is closed; what the peer
\* wrote before can still be read.
PeerGone(s) ==
  /\ alive[s]
  /\ ~open[Peer(s)]
  /\ phase[s] = "read" => wire[s] = <<>>
  /\ alive' = [alive EXCEPT ![s] = FALSE]
  /\ UNCHANGED <<base, phase, open, stop, wire, apps, faults, extra, lost>>

\* The process of s dies, wherever its session is; the system closes its handle.
Kill(s) ==
  /\ open[s]
  /\ faults < MaxFaults
  /\ alive' = [alive EXCEPT ![s] = FALSE]
  /\ open' = [open EXCEPT ![s] = FALSE]
  /\ faults' = faults + 1
  /\ UNCHANGED <<base, phase, stop, wire, apps, extra, lost>>

-----------------------------------------------------------------------------
Common(s) == FinishWrite(s) \/ StopSession(s) \/ Close(s) \/ PeerGone(s)

DllStep ==
  DllBroken \/ DllCheckpoint \/ DllRegular \/ DllTest \/ DllInvalid \/ Common("dll")

SvcStep ==
  SvcBroken \/ SvcCheckpoint \/ SvcMiss \/ SvcTooBig \/ SvcConsume \/ Common("svc")

Environment == \E s \in Side : AppWrite(s) \/ RequestStop(s) \/ Kill(s)

Next == DllStep \/ SvcStep \/ Environment

\* Both loops run on threads of their own and poll the pipe; nothing makes
\* callers write, anyone stop or a process die.
Fairness == WF_vars(DllStep) /\ WF_vars(SvcStep)

Spec == Init /\ [][Next]_vars /\ Fairness

-----------------------------------------------------------------------------
TypeOK ==
  /\ base \in [Side -> {"None", "Ready"}]
  /\ phase \in [Side -> {"read", "echo", "reset"}]
  /\ alive \in [Side -> BOOLEAN]
  /\ open \in [Side -> BOOLEAN]
  /\ stop \in [Side -> BOOLEAN]
  /\ wire \in [Side -> Seq(AppFrames \cup {CheckpointFrame})]
  /\ apps \in Nat
  /\ faults \in Nat
  /\ extra \in Nat
  /\ lost \in Nat

(***************************************************************************)
(* Checkpoints are conserved: the checkpoints in flight plus those lost    *)
(* make up, against two, the sides that still wait for one plus the        *)
(* checkpoints written without cause.  The handlers, the order of write    *)
(* and reset, and the echo rule must all agree for this to hold.           *)
(***************************************************************************)
TokenBalance == InFlight + lost + 2 = UnsyncedCount + extra

Waiting == {s \in Side : OutOfSync(s)}
Flight == [s \in Side |-> Tokens(wire[s])]
Ring == INSTANCE CheckpointTokens WITH
          waiting <- Waiting, flight <- Flight, spare <- extra

(***************************************************************************)
(* Whatever frames the writers put between the checkpoints, whatever a     *)
(* skip swallows and however long a write lasts, the two loops do with     *)
(* checkpoints what CheckpointTokens allows, and each step of a loop does  *)
(* it once: in particular only the service loses them in silence.          *)
(***************************************************************************)
ImplementsTokens == Ring!Spec

(***************************************************************************)
(* Both handles are taken by a write that only the other side can end.     *)
(* Sessions reach this by answering each other: the checkpoints that       *)
(* caused the writes they are in must be a surplus over the two that       *)
(* synchronise the sides.  The writes of callers are no session's: two of  *)
(* them can do it alone.                                                   *)
(***************************************************************************)
MutualBlock == \A s \in Side : alive[s] /\ Blocked(s)
Writers == {s \in Side : phase[s] # "read"}
MutualBlockNeedsSurplus ==
  MutualBlock => extra + UnsyncedCount >= lost + 2 + Cardinality(Writers)

(***************************************************************************)
(* Once faults and callers are done the protocol settles, unless a session *)
(* ends or both handles stay taken: with at least two surplus checkpoints  *)
(* both sides stay synchronised, with fewer no checkpoint stays in flight. *)
(***************************************************************************)
EventuallySettled ==
  \/ \E s \in Side : <>~alive[s]
  \/ <>[]MutualBlock
  \/ <>[](IF extra >= lost + 2 THEN UnsyncedCount = 0 ELSE InFlight = 0)

(***************************************************************************)
(* A stop request ends the session of that side, unless a write holds its  *)
(* handle for ever; and only a peer whose session is over with its handle  *)
(* open, or one whose own handle is held, can do that.                     *)
(***************************************************************************)
HeldForEver(s) ==
  <>[](Blocked(s) /\ (alive[Peer(s)] => Blocked(Peer(s))))
StopEndsSession == \A s \in Side : HeldForEver(s) \/ (stop[s] ~> ~alive[s])

\* No session outlives the other end of its pipe.
PeerLossEndsSession == \A s \in Side : ~open[s] ~> ~alive[Peer(s)]

(***************************************************************************)
(* Session.cpp:18, of the DLL becoming READY: "The client requested a      *)
(* checkpoint. Now the system has been syncronized."                       *)
(***************************************************************************)
ReadyMeansSynchronized ==
  [][(base["dll"] = "None" /\ base'["dll"] = "Ready") => base["svc"] = "Ready"]_vars
=============================================================================
