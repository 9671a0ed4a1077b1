-------------------------------- MODULE Grabs --------------------------------
(***************************************************************************)
(* Who reads an input device: at most one task does, one that has lost it  *)
(* hears so exactly once, and only a task that has heard may come for the  *)
(* device again.                                                           *)
(***************************************************************************)
CONSTANTS
  Tasks,    \* the tasks that may read devices
  Devices   \* the devices there may be

VARIABLE life   \* of each task and device: "free", "reading", "lost" or "told"

Init == life = [b \in Tasks |-> [d \in Devices |-> "free"]]

\* Nobody reads it: the task does now.
Grab(b, d) ==
  /\ life[b][d] = "free"
  /\ \A c \in Tasks : life[c][d] # "reading"
  /\ life' = [life EXCEPT ![b][d] = "reading"]

\* It is gone, for whoever read it.
Lose(d) ==
  life' = [b \in Tasks |->
             IF life[b][d] = "reading" THEN [life[b] EXCEPT ![d] = "lost"] ELSE life[b]]

\* The task is told, ...
Tell(b, d) ==
  /\ life[b][d] = "lost"
  /\ life' = [life EXCEPT ![b][d] = "told"]

\* ... and takes note.
Forget(b, d) ==
  /\ life[b][d] = "told"
  /\ life' = [life EXCEPT ![b][d] = "free"]

Next ==
  \E d \in Devices :
    \/ Lose(d)
    \/ \E b \in Tasks : Grab(b, d) \/ Tell(b, d) \/ Forget(b, d)

Spec == Init /\ [][Next]_life
=============================================================================
