--------------------------- MODULE MCKeyRecovery ----------------------------
(* Two seeds, two secrets of each part. *)
EXTENDS KeyRecovery
MCParts == {"ephemeral", "static"}
=============================================================================
