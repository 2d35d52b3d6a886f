------------------------ MODULE MCBackendConnection ------------------------
(* Instances of BackendConnection for TLC.                                 *)
EXTENDS BackendConnection
=============================================================================
