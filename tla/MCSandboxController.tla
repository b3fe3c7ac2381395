------------------------ MODULE MCSandboxController ------------------------
(* Instances of SandboxController for TLC. *)
EXTENDS SandboxController

CONSTANTS c1, c2, c3, r1, r2
=============================================================================
