-------------------------------- MODULE Screen --------------------------------
(***************************************************************************)
(* What pairing promises to who looks at a screen, with tasks, the radio   *)
(* and attempts left out: one window after the other, each with an outcome *)
(* of its own that speaks of the remote it was opened for, and no bond     *)
(* lost but on command or to such a window.                                *)
(***************************************************************************)
CONSTANTS Remotes, None

VARIABLES
  shown,    \* what the screen shows: nothing, or a state and an address
  bonded,   \* the remotes there is a bond with
  dropped   \* those that were dropped on command since the window was opened

Init ==
  /\ shown = None
  /\ bonded \in SUBSET Remotes
  /\ dropped = {}

\* A window is open, and may be about r.
Scans == shown # None /\ shown.state = "scanning"
ScansFor(r) == Scans /\ shown.address \in {None, r}

\* A window is opened, for one remote or for any.
Open(a) ==
  /\ ~Scans
  /\ shown' = [state |-> "scanning", address |-> a]
  /\ dropped' = {}
  /\ UNCHANGED bonded

\* It ends without a remote, ...
GiveUp ==
  /\ Scans
  /\ \E s \in {"timeout", "failed"} : shown' = [state |-> s, address |-> shown.address]
  /\ UNCHANGED <<bonded, dropped>>

\* ... or with one that is bonded, unless it was dropped meanwhile.
Succeed(r) ==
  /\ ScansFor(r)
  /\ r \in bonded \cup dropped
  /\ shown' = [state |-> "paired", address |-> r]
  /\ UNCHANGED <<bonded, dropped>>

\* The window starts over with its remote.
StartOver(r) ==
  /\ ScansFor(r)
  /\ bonded' = bonded \ {r}
  /\ UNCHANGED <<shown, dropped>>

\* A bond is made, in a window or by a pairing that outlived one.
Bond(r) ==
  /\ bonded' = bonded \cup {r}
  /\ UNCHANGED <<shown, dropped>>

\* A remote is dropped on command.
Drop(r) ==
  /\ bonded' = bonded \ {r}
  /\ dropped' = dropped \cup {r}
  /\ UNCHANGED shown

\* The device starts again.
Restart ==
  /\ shown' = None
  /\ UNCHANGED <<bonded, dropped>>

Next ==
  \/ GiveUp \/ Restart
  \/ \E a \in Remotes \cup {None} : Open(a)
  \/ \E r \in Remotes : Succeed(r) \/ StartOver(r) \/ Bond(r) \/ Drop(r)

Spec == Init /\ [][Next]_<<shown, bonded, dropped>>
=============================================================================
