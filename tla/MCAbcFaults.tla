----------------------------- MODULE MCAbcFaults -----------------------------
(* AbcFaults for TLC, with the constants of MCAbcSystem.                   *)
EXTENDS AbcFaults, MCAbcSystem

=============================================================================
