-------------------------------- MODULE Trial --------------------------------
(***************************************************************************)
(* What replacing a device's software promises: there is one build the     *)
(* device trusts, at most one it is trying out, and a trial ends with the  *)
(* new build trusted or with the old one back.  A trusted build is never   *)
(* given up for anything but another trial.                                *)
(***************************************************************************)
CONSTANTS Builds, None

VARIABLES trusted, trial

Init ==
  /\ trusted \in Builds
  /\ trial = None

\* Another build is put in place of the trusted one.
Try ==
  /\ trial = None
  /\ trial' \in Builds \ {trusted}
  /\ UNCHANGED trusted

\* It has reached a server.
Confirm ==
  /\ trial \in Builds
  /\ trusted' = trial
  /\ trial' = None

\* It has not, and the trusted build is back.
GoBack ==
  /\ trial \in Builds
  /\ trial' = None
  /\ UNCHANGED trusted

Next == Try \/ Confirm \/ GoBack

Spec == Init /\ [][Next]_<<trusted, trial>>
=============================================================================
