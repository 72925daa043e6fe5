-------------------------- MODULE CheckpointTokens --------------------------
(***************************************************************************)
(* What the checkpoint protocol is about, without frames, pipes or writes: *)
(* tokens pass between two sides, each of which either waits for one or    *)
(* returns those that reach it.                                            *)
(***************************************************************************)
EXTENDS Naturals

VARIABLES
  waiting,  \* sides that wait for a token
  flight,   \* tokens on their way to each side
  spare,    \* tokens put in that nobody waits for
  lost      \* tokens that vanished

Side == {"dll", "svc"}
Peer(s) == IF s = "dll" THEN "svc" ELSE "dll"

Init ==
  /\ waiting = Side
  /\ flight = [s \in Side |-> 0]
  /\ spare = 0
  /\ lost = 0

\* A side that waits keeps the token.
Keep(s) ==
  /\ flight[s] > 0
  /\ s \in waiting
  /\ waiting' = waiting \ {s}
  /\ flight' = [flight EXCEPT ![s] = @ - 1]
  /\ UNCHANGED <<spare, lost>>

\* A side that does not wait sends it back.
Return(s) ==
  /\ flight[s] > 0
  /\ s \notin waiting
  /\ flight' = [flight EXCEPT ![s] = @ - 1, ![Peer(s)] = @ + 1]
  /\ UNCHANGED <<waiting, spare, lost>>

\* A side that is disturbed waits for a token and puts one in for it; one that
\* waited already puts in one too many.  The disturbance may have cost a token.
Ask(s) ==
  /\ \E n \in {0, 1} :
       /\ n <= flight[s]
       /\ flight' = [flight EXCEPT ![s] = @ - n, ![Peer(s)] = @ + 1]
       /\ lost' = lost + n
  /\ waiting' = waiting \cup {s}
  /\ spare' = IF s \in waiting THEN spare + 1 ELSE spare

\* The DLL answers what it does not know with a token.
Answer ==
  /\ flight' = [flight EXCEPT !["svc"] = @ + 1]
  /\ spare' = spare + 1
  /\ UNCHANGED <<waiting, lost>>

\* The service passes tokens over in silence; the DLL never does.
PassOver ==
  /\ \E n \in 1 .. flight["svc"] :
       /\ flight' = [flight EXCEPT !["svc"] = @ - n]
       /\ lost' = lost + n
  /\ UNCHANGED <<waiting, spare>>

Next == (\E s \in Side : Keep(s) \/ Return(s) \/ Ask(s)) \/ Answer \/ PassOver

Spec == Init /\ [][Next]_<<waiting, flight, spare, lost>>
=============================================================================
