------------------------------ MODULE MCPower ------------------------------
(* Instances of PowerSubsystem for TLC. *)
EXTENDS PowerSubsystem

CONSTANTS loc, rem

MCAsks == {<<All, "SUSPEND">>, <<loc, "RESUME">>, <<rem, "SUSPEND">>, <<All, "SHUTDOWN">>}
=============================================================================
