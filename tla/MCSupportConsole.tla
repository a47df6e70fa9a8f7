-------------------------- MODULE MCSupportConsole --------------------------
(* Small instances of SupportConsole for TLC.                              *)
EXTENDS SupportConsole, TLC

CONSTANTS v1, v2, c1, c2

=============================================================================
