---------------------------- MODULE MCLicenseServer ----------------------------
(***************************************************************************)
(* Three executions of the licensed program, the second of which is given  *)
(* the process id of the first, for two licences.                          *)
(***************************************************************************)
EXTENDS LicenseServer, TLC

CONSTANTS a, b, c
MCProc == {a, b, c}
MCPidOf == (a :> 1) @@ (b :> 1) @@ (c :> 2)
=============================================================================
