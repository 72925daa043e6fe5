------------------------ MODULE MCPipeSessionService ------------------------
(* The instance TLC checks of PipeSessionService: threads and clients are   *)
(* model values of the configurations.                                      *)
EXTENDS PipeSessionService
=============================================================================
