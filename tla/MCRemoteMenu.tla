---------------------------- MODULE MCRemoteMenu ----------------------------
(***************************************************************************)
(* Instances of RemoteMenu: one remote, a menu that moves back and forth.  *)
(***************************************************************************)
EXTENDS RemoteMenu
=============================================================================
