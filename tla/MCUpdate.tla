------------------------------ MODULE MCUpdate ------------------------------
(***************************************************************************)
(* Instances of Update: two builds that work, and one that does not.       *)
(***************************************************************************)
EXTENDS Update

\* Every step that may fail without taking the way back with it.
Anything == {"counting", "confirming", "downloading", "unpacked", "keeping"}
=============================================================================
