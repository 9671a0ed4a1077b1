---------------------------- MODULE MCRemoteKeys ----------------------------
(***************************************************************************)
(* Instances of RemoteKeys: two bridges, one after the other, and a device *)
(* that comes and goes.                                                    *)
(***************************************************************************)
EXTENDS RemoteKeys
=============================================================================
