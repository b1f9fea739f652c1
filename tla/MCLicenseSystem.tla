---------------------------- MODULE MCLicenseSystem ----------------------------
(***************************************************************************)
(* Two executions of the client: at the same time, each with a process id  *)
(* of its own; or one after the other, with the same process id.           *)
(***************************************************************************)
EXTENDS LicenseSystem, TLC

CONSTANTS a, b
MCProc == {a, b}
MCOwnPid == [p \in MCProc |-> p]
MCSamePid == [p \in MCProc |-> a]

\* Two instances with ids of their own are interchangeable.
Interchangeable == Permutations(MCProc)
=============================================================================
