----------------------------- MODULE MCBluetooth -----------------------------
(***************************************************************************)
(* Instances of Bluetooth: two sessions, of one phone or of two.           *)
(***************************************************************************)
EXTENDS Bluetooth
=============================================================================
