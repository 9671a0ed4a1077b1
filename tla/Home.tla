-------------------------------- MODULE Home --------------------------------
(***************************************************************************)
(* What a device promises about the server it belongs to, with discovery,  *)
(* answers, files and restarts left out: it has one home at most, plays    *)
(* for nobody else, and does not move while it plays.                      *)
(***************************************************************************)
CONSTANTS Addresses, Nobody  \* Nobody is no address

VARIABLES home, serving

Init == home = Nobody /\ serving = Nobody

\* A device that plays for nobody is given a home, another one, or none.
Settle ==
  /\ serving = Nobody
  /\ home' \in Addresses \cup {Nobody}
  /\ UNCHANGED serving

Serve ==
  /\ home # Nobody
  /\ serving' = home
  /\ UNCHANGED home

Stop ==
  /\ serving' = Nobody
  /\ UNCHANGED home

Next == Settle \/ Serve \/ Stop

Spec == Init /\ [][Next]_<<home, serving>>
=============================================================================
