---------------------------- MODULE TestProgram ----------------------------
(***************************************************************************)
(* The DLL under its clients: the test program wsac-test, which enables it *)
(* once, waits for a 0 on its input, disables it and returns; or any other *)
(* process, which calls Enable and Disable as it likes.                    *)
(***************************************************************************)
EXTENDS HostLifecycle

VARIABLE prog  \* where main is; "other": the process is another program

clientVars == <<vars, prog>>

ClientInit == Init /\ prog \in {"load", "other"}

Other == prog = "other" /\ Next /\ UNCHANGED prog

\* The library may be missing, or lack an export.
Load ==
  /\ prog = "load"
  /\ prog' \in {"enable", "gone", "return"}
  /\ UNCHANGED vars

EnableAc ==
  /\ prog = "enable"
  /\ CallEnable
  /\ prog' = "enabling"

\* FALSE if one of the three constructors threw.
EnableReturns ==
  /\ prog = "enabling"
  /\ pc = "idle"
  /\ prog' = IF reg["SessionService"] = round THEN "idle" ELSE "return"
  /\ UNCHANGED vars

ReadZero ==
  /\ prog = "idle"
  /\ prog' = "disable"
  /\ UNCHANGED vars

DisableAc ==
  /\ prog = "disable"
  /\ CallDisable
  /\ prog' = "disabling"

DisableReturns ==
  /\ prog = "disabling"
  /\ pc = "idle"
  /\ prog' = "return"
  /\ UNCHANGED vars

Return ==
  /\ prog = "return"
  /\ Exit
  /\ prog' = "gone"

\* The DLL's own threads while main is in a call or waits.
Library ==
  /\ prog \notin {"other", "load"}
  /\ CallerStep \/ \E w \in Rounds : WorkerStep(w) \/ Read(w) \/ EndWrite(w)
  /\ UNCHANGED prog

MainStep == EnableAc \/ EnableReturns \/ DisableAc \/ DisableReturns \/ Return

ClientNext == Other \/ Load \/ ReadZero \/ MainStep \/ Library

\* The threads of the DLL as before, and main, which runs until it waits for
\* input or for a call to return.
ClientSpec ==
  /\ ClientInit
  /\ [][ClientNext]_clientVars
  /\ Fairness
  /\ WF_clientVars(MainStep)

-----------------------------------------------------------------------------
ClientTypeOK ==
  /\ TypeOK
  /\ prog \in {"other", "load", "enable", "enabling", "idle", "disable",
               "disabling", "return", "gone"}

(***************************************************************************)
(* A client that enables the library once meets a deleted object only if   *)
(* the registry was iterated in an unlucky order.                          *)
(***************************************************************************)
OnceEnabledNeedsOrder ==
  prog # "other" => \A w \in dangling : order[1] # "SessionService"

(***************************************************************************)
(* Once a 0 is read the test program ends, unless the worker stays inside  *)
(* a write for ever.                                                       *)
(***************************************************************************)
TestProgramEnds ==
  \/ \E w \in Rounds : <>[](worker[w] \in Writes)
  \/ prog = "disable" ~> pc = "exit"
=============================================================================
