------------------------------ MODULE Speakers ------------------------------
(***************************************************************************)
(* What the device promises about its sound cards, with the supervisor,    *)
(* its threads and its channels left out: a room plays through one card or *)
(* through none, a card belongs to one room at most, and a room that moves *)
(* to another card falls silent first.                                     *)
(***************************************************************************)
CONSTANTS Rooms, Cards, Silent  \* Silent is no card

VARIABLE playing

Init == playing = [r \in Rooms |-> Silent]

\* A silent room takes a card nobody has.
Take(r, c) ==
  /\ playing[r] = Silent
  /\ \A s \in Rooms : playing[s] # c
  /\ playing' = [playing EXCEPT ![r] = c]

\* A room gives its card back.
Release(r) ==
  /\ playing[r] # Silent
  /\ playing' = [playing EXCEPT ![r] = Silent]

Next == \E r \in Rooms : Release(r) \/ \E c \in Cards : Take(r, c)

Spec == Init /\ [][Next]_playing
=============================================================================
