-------------------------------- MODULE Update --------------------------------
(***************************************************************************)
(* Replacing the client by the build its server asks for                   *)
(* (src/src/update.rs, src/src/components.rs, src/src/install.rs).         *)
(*                                                                         *)
(* Three parties share four files.  The running client downloads a build,  *)
(* keeps a copy of itself, arms a marker, renames the new build over       *)
(* itself and exits.  The guard script, run by systemd before every start, *)
(* counts the starts of an armed marker and puts the copy back when they   *)
(* run out.  The new client removes the marker once it has registered.     *)
(* Power may be lost between any two steps, and a step may fail.           *)
(***************************************************************************)
EXTENDS Integers

CONSTANTS
  Builds,            \* the builds a server may ask for
  Crashing,          \* those that exit before they have registered
  Mute,              \* those that run and never register
  MaxStartAttempts,  \* MAX_START_ATTEMPTS
  FailsAt,           \* the steps that may fail, named by their pc
  Torn,              \* a file of which only a part was written
  None               \* no file, no wish

Files == Builds \cup {Torn, None}

\* Where the service is.  The guard: "off" (it runs next), "counting",
\* "restored".  The client: "starting" up to "confirming" until it has a
\* server, "serving", and the steps of `install`.
Starting == {"off", "counting", "restored", "starting", "up", "registered", "confirming"}
Installing == {"downloading", "unpacked", "keeping", "kept", "armed"}
Attached == {"serving"} \cup Installing

ASSUME BuildsAssumption ==
  /\ Crashing \subseteq Builds
  /\ Mute \subseteq Builds
  /\ Torn \notin Builds
  /\ None \notin Builds \cup Nat
  /\ Torn # None

ASSUME AttemptsAssumption == MaxStartAttempts \in Nat \ {0}

-----------------------------------------------------------------------------
VARIABLES
  current,   \* the binary the unit starts
  previous,  \* the copy beside it, for the way back
  staged,    \* the new build, before the swap
  marker,    \* the starts counted so far; None when there is no marker
  pc,        \* where the service is
  counted,   \* the count the guard is about to write
  wanted,    \* the version the server asks for
  target,    \* the one being installed
  playing,   \* whether a player of this device is streaming
  trusted,   \* the last build that was confirmed (not in the code)
  calm       \* whether nothing goes wrong from now on (not in the code)

disk == <<current, previous, staged, marker>>
vars == <<disk, pc, counted, wanted, target, playing, trusted, calm>>

\* `install` has been run: the guard is in place and the service enabled.
Init ==
  /\ current \in Builds \ (Crashing \cup Mute)
  /\ previous = None /\ staged = None /\ marker = None
  /\ pc = "off"
  /\ counted = 0
  /\ wanted = None /\ target = None
  /\ playing = FALSE
  /\ trusted = current
  /\ calm = FALSE

-----------------------------------------------------------------------------
(* The guard. *)

\* No update in flight: nothing to do.
GuardPasses ==
  /\ pc = "off"
  /\ marker = None
  /\ pc' = "starting"
  /\ UNCHANGED <<disk, counted, wanted, target, playing, trusted, calm>>

\* Mutant: the count is written back as it was read.
AttemptsStuck == marker

Attempts == marker + 1

\* The marker is opened, which empties it; an empty one counts as 0.
GuardCounts ==
  /\ pc = "off"
  /\ marker # None
  /\ Attempts <= MaxStartAttempts
  /\ counted' = Attempts
  /\ marker' = 0
  /\ pc' = "counting"
  /\ UNCHANGED <<current, previous, staged, wanted, target, playing, trusted, calm>>

GuardWrites ==
  /\ pc = "counting"
  /\ marker' = counted
  /\ pc' = "starting"
  /\ UNCHANGED <<current, previous, staged, counted, wanted, target, playing, trusted, calm>>

\* The write fails, the script with it (`set -e`), and systemd starts over.
GuardFails ==
  /\ ~calm
  /\ pc = "counting"
  /\ pc \in FailsAt
  /\ pc' = "off"
  /\ UNCHANGED <<disk, counted, wanted, target, playing, trusted, calm>>

\* The starts have run out: the copy goes back, if there is one ...
GuardRestores ==
  /\ pc = "off"
  /\ marker # None
  /\ Attempts > MaxStartAttempts
  /\ current' = IF previous # None THEN previous ELSE current
  /\ previous' = None
  /\ pc' = "restored"
  /\ UNCHANGED <<staged, marker, counted, wanted, target, playing, trusted, calm>>

\* ... and the marker away.
GuardClears ==
  /\ pc = "restored"
  /\ marker' = None
  /\ pc' = "starting"
  /\ UNCHANGED <<current, previous, staged, counted, wanted, target, playing, trusted, calm>>

Guard == GuardPasses \/ GuardCounts \/ GuardWrites \/ GuardFails \/ GuardRestores \/ GuardClears

-----------------------------------------------------------------------------
(* The client, up to its registration. *)

Runs(b) == b \in Builds \ Crashing

\* The binary is started, and exits at once if it cannot run.
Start ==
  /\ pc = "starting"
  /\ pc' = IF Runs(current) THEN "up" ELSE "off"
  /\ UNCHANGED <<disk, counted, wanted, target, playing, trusted, calm>>

\* A server has answered a register request.
Register ==
  /\ pc = "up"
  /\ current \notin Mute
  /\ pc' = "registered"
  /\ UNCHANGED <<disk, counted, wanted, target, playing, trusted, calm>>

\* No marker: nothing to confirm.
ConfirmNothing ==
  /\ pc = "registered"
  /\ marker = None
  /\ pc' = "serving"
  /\ UNCHANGED <<disk, counted, wanted, target, playing, trusted, calm>>

\* Mutant: only the copy is removed.
ConfirmLeavingMarker ==
  /\ pc = "registered"
  /\ marker # None
  /\ trusted' = current
  /\ pc' = "confirming"
  /\ UNCHANGED <<disk, counted, wanted, target, playing, calm>>

\* The marker is removed first; that it cannot be is only logged ...
ConfirmStarted ==
  /\ pc = "registered"
  /\ marker # None
  /\ marker' \in {None} \cup (IF pc \in FailsAt /\ ~calm THEN {marker} ELSE {})
  /\ trusted' = IF marker' = None THEN current ELSE trusted
  /\ pc' = IF marker' = None THEN "confirming" ELSE "serving"
  /\ UNCHANGED <<current, previous, staged, counted, wanted, target, playing, calm>>

\* ... and the copy after it, whatever comes of that.
DropPrevious ==
  /\ pc = "confirming"
  /\ previous' \in {None} \cup (IF pc \in FailsAt THEN {previous} ELSE {})
  /\ pc' = "serving"
  /\ UNCHANGED <<current, staged, marker, counted, wanted, target, playing, trusted, calm>>

\* Contact is lost: players are stopped, and a server is looked for again.
LoseContact ==
  /\ ~calm
  /\ pc = "serving"
  /\ pc' = "up"
  /\ playing' = FALSE
  /\ UNCHANGED <<disk, counted, wanted, target, trusted, calm>>

-----------------------------------------------------------------------------
(* The client, with a server. *)

\* The server changes its mind about the version.
Ask ==
  /\ wanted' \in Builds \cup {None}
  /\ UNCHANGED <<disk, pc, counted, target, playing, trusted, calm>>

\* Players run on threads of their own, whatever the supervisor is doing.
StreamToggles ==
  /\ pc \in Attached
  /\ playing' = ~playing
  /\ UNCHANGED <<disk, pc, counted, wanted, target, trusted, calm>>

IsWanted(b) == b \in Builds /\ b # current

\* The supervisor's pass: another version is wanted, and nobody is playing now.
Reconcile ==
  /\ pc = "serving"
  /\ IsWanted(wanted)
  /\ ~playing
  /\ target' = wanted
  /\ pc' = "downloading"
  /\ UNCHANGED <<disk, counted, wanted, playing, trusted, calm>>

\* Mutant: the running binary is not kept.
UnpackKeepingNothing ==
  /\ pc = "downloading"
  /\ staged' = target
  /\ pc' = "kept"
  /\ UNCHANGED <<current, previous, marker, counted, wanted, target, playing, trusted, calm>>

\* Downloaded, the hash matches, unpacked beside the binary.
Unpack ==
  /\ pc = "downloading"
  /\ staged' = target
  /\ pc' = "unpacked"
  /\ UNCHANGED <<current, previous, marker, counted, wanted, target, playing, trusted, calm>>

\* The copy is opened, which empties what was there, and filled.
OpenPrevious ==
  /\ pc = "unpacked"
  /\ previous' = Torn
  /\ pc' = "keeping"
  /\ UNCHANGED <<current, staged, marker, counted, wanted, target, playing, trusted, calm>>

\* Mutant: the copy is taken of the new build.
KeepStaged ==
  /\ pc = "keeping"
  /\ previous' = staged
  /\ pc' = "kept"
  /\ UNCHANGED <<current, staged, marker, counted, wanted, target, playing, trusted, calm>>

KeepPrevious ==
  /\ pc = "keeping"
  /\ previous' = current
  /\ pc' = "kept"
  /\ UNCHANGED <<current, staged, marker, counted, wanted, target, playing, trusted, calm>>

ArmMarker ==
  /\ pc = "kept"
  /\ marker' = 0
  /\ pc' = "armed"
  /\ UNCHANGED <<current, previous, staged, counted, wanted, target, playing, trusted, calm>>

\* The new build is renamed over the old one, and the process exits.
Swap ==
  /\ pc = "armed"
  /\ current' = staged
  /\ staged' = None
  /\ pc' = "off"
  /\ playing' = FALSE
  /\ UNCHANGED <<previous, marker, counted, wanted, target, trusted, calm>>

\* A step of `install` fails: reported as failed, and nothing is undone.  A
\* marker that could be created but not filled is an empty one.
InstallFails ==
  /\ ~calm
  /\ pc \in Installing
  /\ pc \in FailsAt
  /\ marker' \in {marker} \cup (IF pc = "kept" THEN {0} ELSE {})
  /\ pc' = "serving"
  /\ UNCHANGED <<current, previous, staged, counted, wanted, target, playing, trusted, calm>>

Install == Unpack \/ OpenPrevious \/ KeepPrevious \/ ArmMarker \/ Swap \/ InstallFails

\* Power is lost, or the process is killed; the disk stays as it is.
Cut ==
  /\ ~calm
  /\ pc # "off"
  /\ pc' = "off"
  /\ playing' = FALSE
  /\ UNCHANGED <<disk, counted, wanted, target, trusted, calm>>

CalmsDown == calm' = TRUE /\ UNCHANGED <<disk, pc, counted, wanted, target, playing, trusted>>

-----------------------------------------------------------------------------
Boot == Start \/ Register \/ ConfirmNothing \/ ConfirmStarted \/ DropPrevious

Next ==
  \/ Guard \/ Boot \/ Install
  \/ Reconcile \/ LoseContact \/ Ask \/ StreamToggles \/ Cut \/ CalmsDown

Spec == Init /\ [][Next]_vars

\* systemd starts the unit again whenever it has ended (Restart=always), the
\* script and `install` run on, and a server answers sooner or later.
Fairness ==
  /\ WF_vars(Guard)
  /\ WF_vars(Boot)
  /\ WF_vars(Install)

FairSpec == Spec /\ Fairness

-----------------------------------------------------------------------------
(* Properties. *)

\* Every variable has its type: the count the guard keeps never passes
\* MAX_START_ATTEMPTS (rollback_guard).
TypeOK ==
  /\ {current, previous, staged} \subseteq Files
  /\ marker \in 0..MaxStartAttempts \cup {None}
  /\ pc \in Starting \cup Attached
  /\ counted \in 0..MaxStartAttempts
  /\ wanted \in Builds \cup {None}
  /\ target \in Builds \cup {None}
  /\ playing \in BOOLEAN
  /\ trusted \in Builds
  /\ calm \in BOOLEAN

\* "The way back has to already exist": at any moment, power lost or not, a
\* binary that has not been confirmed is in place only with the marker armed
\* and a whole copy of the confirmed one beside it (install, rollback_guard,
\* confirm_started).
WayBack ==
  current # trusted => (marker # None /\ previous = trusted)

\* A binary that has been confirmed goes only to make room for one that the
\* server asked for, downloaded in this run of the client: no count, no copy
\* and no half-finished installation of an earlier day replaces it.
KeepsConfirmed ==
  [][current = trusted /\ current' # current
       => pc = "armed" /\ current' = target]_vars

T == INSTANCE Trial WITH trial <- (IF current = trusted THEN None ELSE current)

\* Whatever the files go through, the device does what Trial says: one build
\* at a time on trial, which ends confirmed or with the trusted one back.
ImplementsTrial == T!Spec

\* Once nothing goes wrong any more, the device serves again and again, with
\* whatever build the server keeps asking for: one that exits at once is
\* replaced by the old one after MAX_START_ATTEMPTS starts.
ServesAgain == calm ~> pc = "serving"

\* "Never mid-stream": the process is not replaced while it plays (reconcile).
NeverMidStream == [][pc = "armed" /\ current' # current => ~playing]_vars
=============================================================================
