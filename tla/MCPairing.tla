------------------------------ MODULE MCPairing ------------------------------
(***************************************************************************)
(* Instances of Pairing: two remotes in a room, and a window with another  *)
(* command right behind it.                                                *)
(***************************************************************************)
EXTENDS Pairing
=============================================================================
