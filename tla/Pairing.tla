------------------------------- MODULE Pairing -------------------------------
(***************************************************************************)
(* Pairing a Beoremote (src/src/pairing.rs, the pair_remote and            *)
(* forget_remote commands in src/src/main.rs).                             *)
(*                                                                         *)
(* A command opens a window: scan until a remote is there, drop the bond   *)
(* there may be with it, wait for it to advertise again, pair in a few     *)
(* attempts, trust it, hold the connection, report.  Other commands, the   *)
(* remotes, BlueZ and a restart of the process come between any two steps. *)
(***************************************************************************)
EXTENDS Integers, FiniteSets

CONSTANTS
  Windows,      \* tasks a pair_remote command may spawn (bound: how many at once)
  Remotes,      \* addresses with the name of a remote
  Asks,         \* what a pair_remote command may name: an address, or None for any
  PairAttempts, \* PAIR_ATTEMPTS
  None          \* "absent", of every optional value

ASSUME PairingAssumption ==
  /\ PairAttempts \in Nat \ {0}
  /\ None \notin Remotes \cup Windows
  /\ Asks \subseteq Remotes \cup {None}

Targets == Remotes \cup {None}

\* A window that was asked for, makes ready to scan, scans, has found a remote,
\* looks for it again, pairs, trusts, holds the connection, or is done.
Busy == {"opening", "scanning", "found", "again", "pairing", "trusting", "holding"}
Places == {"none", "asked"} \cup Busy

\* PairingStatusReport: what a screen shows.
States == {"scanning", "paired", "timeout", "failed"}
Reports == [state : States, address : Targets]

ASSUME AbsentAssumption == None \notin Reports

VARIABLES
  open,      \* PAIRING
  pc,        \* of each window, where it is
  target,    \* of each window, the address it was asked to pair
  found,     \* of each window, the remote it has found
  tries,     \* of each window, the attempts that failed
  report,    \* the pairing report of the registry
  listed,    \* the devices BlueZ has an object of
  seen,      \* those that advertise or are connected
  bonded,    \* those it has a bond with
  ready,     \* the remotes in pairing mode
  late,      \* a pairing that went on after its attempt was given up
  had,       \* of each window, the bonds when it was opened (not in the code)
  dropped    \* the remotes forgotten on command since then (not in the code)

tasks == <<open, pc, target, found, tries>>
daemon == <<listed, seen, bonded, late>>
ghosts == <<had, dropped>>
vars == <<tasks, report, daemon, ready, ghosts>>

Init ==
  /\ open = FALSE
  /\ pc = [w \in Windows |-> "none"]
  /\ target = [w \in Windows |-> None]
  /\ found = [w \in Windows |-> None]
  /\ tries = [w \in Windows |-> 0]
  /\ report = None
  /\ bonded \in SUBSET Remotes
  /\ listed = bonded
  /\ seen = {} /\ ready = {} /\ late = None
  /\ had = [w \in Windows |-> {}] /\ dropped = {}

-----------------------------------------------------------------------------
(* Remotes and BlueZ. *)

\* A remote is put into pairing mode, or leaves it.
Readies(r) ==
  /\ r \notin ready
  /\ ready' = ready \cup {r}
  /\ UNCHANGED <<tasks, report, daemon, ghosts>>

Unreadies(r) ==
  /\ r \in ready
  /\ ready' = ready \ {r}
  /\ UNCHANGED <<tasks, report, daemon, ghosts>>

\* BlueZ hears one that is in pairing mode, or one it knows reconnects.
Appears(r) ==
  /\ r \in ready \cup bonded
  /\ listed' = listed \cup {r}
  /\ seen' = seen \cup {r}
  /\ UNCHANGED <<tasks, report, bonded, late, ready, ghosts>>

\* It is silent again; without a bond its object goes some time later.
Leaves(r) ==
  /\ r \in seen
  /\ seen' = seen \ {r}
  /\ UNCHANGED <<tasks, report, listed, bonded, late, ready, ghosts>>

Expires(r) ==
  /\ r \in listed \ (seen \cup bonded)
  /\ listed' = listed \ {r}
  /\ UNCHANGED <<tasks, report, seen, bonded, late, ready, ghosts>>

\* The answer to an attempt that was given up.
BondsLate ==
  /\ late # None
  /\ late' = None
  /\ bonded' = IF late \in listed /\ late \in ready THEN bonded \cup {late} ELSE bonded
  /\ UNCHANGED <<tasks, report, listed, seen, ready, ghosts>>

\* remove_device: the object goes with the bond.
Removes(r) ==
  /\ listed' = listed \ {r}
  /\ seen' = seen \ {r}
  /\ bonded' = bonded \ {r}

\* The forget_remote command, a task of its own.
ForgetRemote(r) ==
  /\ r \in listed
  /\ Removes(r)
  /\ dropped' = dropped \cup {r}
  /\ UNCHANGED <<tasks, report, late, ready, had>>

-----------------------------------------------------------------------------
(* A window: pair_remote and run_pairing. *)

Goes(w, place) == pc' = [pc EXCEPT ![w] = place]

\* A task's variables go with it.
Ends(w) ==
  /\ Goes(w, "none")
  /\ target' = [target EXCEPT ![w] = None]
  /\ found' = [found EXCEPT ![w] = None]
  /\ tries' = [tries EXCEPT ![w] = 0]
  /\ had' = [had EXCEPT ![w] = {}]

\* handle_builtin_command: the status loop spawns the task and goes on.
PairRemote(w, t) ==
  /\ pc[w] = "none"
  /\ Goes(w, "asked")
  /\ target' = [target EXCEPT ![w] = t]
  /\ UNCHANGED <<open, found, tries, report, daemon, ready, ghosts>>

Scanning(w) == [state |-> "scanning", address |-> target[w]]

\* The guard is taken: this is the one window.
Enter(w) ==
  /\ pc[w] = "asked" /\ ~open
  /\ open' = TRUE
  /\ Goes(w, "opening")
  /\ report' = Scanning(w)
  /\ had' = [had EXCEPT ![w] = bonded]
  /\ dropped' = {}
  /\ UNCHANGED <<target, found, tries, daemon, ready>>

\* Mutant: the report is written before the guard is looked at.
IgnoredLate(w) ==
  /\ pc[w] = "asked" /\ open
  /\ Ends(w)
  /\ report' = Scanning(w)
  /\ UNCHANGED <<open, daemon, ready, dropped>>

\* Another window is running: this command is dropped.
Ignored(w) ==
  /\ pc[w] = "asked" /\ open
  /\ Ends(w)
  /\ UNCHANGED <<open, report, daemon, ready, dropped>>

\* However run_pairing ended, it is reported, and the guard is given back.
Closes(w, state, address) ==
  /\ Ends(w)
  /\ open' = FALSE
  /\ report' = [state |-> state, address |-> address]
  /\ UNCHANGED <<ready, dropped>>

\* Mutant: an error returns early, without the guard.
FailsHolding(w) ==
  /\ pc[w] \in {"opening", "scanning", "again"}
  /\ Ends(w)
  /\ report' = [state |-> "failed", address |-> target[w]]
  /\ UNCHANGED <<open, daemon, ready, dropped>>

\* No bus, no adapter, no agent, no scan, no list of objects; or the remote does
\* not advertise again (REDISCOVER_TIMEOUT).
Fails(w) ==
  /\ pc[w] \in {"opening", "scanning", "again"}
  /\ Closes(w, "failed", target[w])
  /\ UNCHANGED daemon

StartScan(w) ==
  /\ pc[w] = "opening"
  /\ Goes(w, "scanning")
  /\ UNCHANGED <<open, target, found, tries, report, daemon, ready, ghosts>>

\* Mutant: the first remote is taken, whichever was asked for.
FindAny(w) ==
  /\ pc[w] = "scanning"
  /\ \E r \in seen : found' = [found EXCEPT ![w] = r]
  /\ Goes(w, "found")
  /\ UNCHANGED <<open, target, tries, report, daemon, ready, ghosts>>

\* candidate_from: one that is there, the one asked for if one was.
Find(w) ==
  /\ pc[w] = "scanning"
  /\ \E r \in seen :
       /\ target[w] \in {None, r}
       /\ found' = [found EXCEPT ![w] = r]
  /\ Goes(w, "found")
  /\ UNCHANGED <<open, target, tries, report, daemon, ready, ghosts>>

\* The window's deadline.
TimesOut(w) ==
  /\ pc[w] = "scanning"
  /\ Closes(w, "timeout", target[w])
  /\ UNCHANGED daemon

\* Mutant: all bonds are dropped, as was done once.
ForgetAllBonds(w) ==
  /\ pc[w] = "found" /\ found[w] \in bonded
  /\ listed' = listed \ bonded
  /\ seen' = seen \ bonded
  /\ bonded' = {}
  /\ Goes(w, "again")
  /\ UNCHANGED <<open, target, found, tries, report, late, ready, ghosts>>

\* forget_existing_bonds: a bond with the remote that was found goes, ...
ForgetBond(w) ==
  /\ pc[w] = "found" /\ found[w] \in bonded
  /\ Removes(found[w])
  /\ Goes(w, "again")
  /\ UNCHANGED <<open, target, found, tries, report, late, ready, ghosts>>

\* ... unless there is none, BlueZ cannot be asked, or it refuses.
KeepBond(w) ==
  /\ pc[w] = "found"
  /\ Goes(w, "pairing")
  /\ UNCHANGED <<open, target, found, tries, report, daemon, ready, ghosts>>

\* The object is there again.
FindAgain(w) ==
  /\ pc[w] = "again" /\ found[w] \in seen
  /\ Goes(w, "pairing")
  /\ UNCHANGED <<open, target, found, tries, report, daemon, ready, ghosts>>

\* Pair() succeeds with a remote that is in pairing mode and not bonded.
Pair(w) ==
  /\ pc[w] = "pairing"
  /\ found[w] \in (listed \cap ready) \ bonded
  /\ bonded' = bonded \cup {found[w]}
  /\ Goes(w, "trusting")
  /\ UNCHANGED <<open, target, found, tries, report, listed, seen, late, ready, ghosts>>

\* An attempt fails or times out; what timed out may still go on in BlueZ.
PairRefused(w) ==
  /\ pc[w] = "pairing" /\ tries[w] + 1 < PairAttempts
  /\ tries' = [tries EXCEPT ![w] = @ + 1]
  /\ late' \in {late, found[w]}
  /\ UNCHANGED <<open, pc, target, found, report, listed, seen, bonded, ready, ghosts>>

\* Mutant: the last failure is not returned.
GivesUpSilently(w) ==
  /\ pc[w] = "pairing" /\ tries[w] + 1 = PairAttempts
  /\ Goes(w, "trusting")
  /\ UNCHANGED <<open, target, found, tries, report, daemon, ready, ghosts>>

GivesUp(w) ==
  /\ pc[w] = "pairing" /\ tries[w] + 1 = PairAttempts
  /\ Closes(w, "failed", target[w])
  /\ late' \in {late, found[w]}
  /\ UNCHANGED <<listed, seen, bonded>>

\* The remote is trusted and connected; whether that succeeds is logged only, and
\* what it changes is of no consequence to a window.
Trust(w) ==
  /\ pc[w] = "trusting"
  /\ Goes(w, "holding")
  /\ UNCHANGED <<open, target, found, tries, report, daemon, ready, ghosts>>

\* hold_until_the_remote_is_done, and the window is reported as paired.
Paired(w) ==
  /\ pc[w] = "holding"
  /\ Closes(w, "paired", found[w])
  /\ UNCHANGED daemon

\* The process ends, for an update or a crash, and starts again.  Each attempt to
\* pair dies with it; what BlueZ keeps stays.
Restart ==
  /\ open' = FALSE
  /\ pc' = [w \in Windows |-> "none"]
  /\ target' = [w \in Windows |-> None] /\ found' = target'
  /\ tries' = [w \in Windows |-> 0]
  /\ had' = [w \in Windows |-> {}]
  /\ report' = None
  /\ late' = None
  /\ UNCHANGED <<listed, seen, bonded, ready, dropped>>

-----------------------------------------------------------------------------
Step(w) ==
  \/ Enter(w) \/ Ignored(w) \/ StartScan(w) \/ Find(w) \/ TimesOut(w) \/ Fails(w)
  \/ ForgetBond(w) \/ KeepBond(w) \/ FindAgain(w)
  \/ Pair(w) \/ PairRefused(w) \/ GivesUp(w) \/ Trust(w) \/ Paired(w)

World ==
  \/ BondsLate
  \/ \E r \in Remotes :
       Readies(r) \/ Unreadies(r) \/ Appears(r) \/ Leaves(r) \/ Expires(r) \/ ForgetRemote(r)

Next ==
  \/ \E w \in Windows : Step(w) \/ \E t \in Asks : PairRemote(w, t)
  \/ World
  \/ Restart

Spec == Init /\ [][Next]_vars

\* Each task is scheduled, and each thing a window waits for has a time limit or
\* is answered by BlueZ.
Fairness == \A w \in Windows : WF_vars(Step(w))

FairSpec == Spec /\ Fairness

-----------------------------------------------------------------------------
(* Properties. *)

\* Every variable has its type.
TypeOK ==
  /\ open \in BOOLEAN
  /\ pc \in [Windows -> Places]
  /\ target \in [Windows -> Targets] /\ found \in [Windows -> Targets]
  /\ tries \in [Windows -> 0 .. PairAttempts - 1]
  /\ report \in Reports \cup {None}
  /\ listed \subseteq Remotes /\ seen \subseteq listed /\ bonded \subseteq listed
  /\ ready \subseteq Remotes /\ late \in Targets
  /\ had \in [Windows -> SUBSET Remotes] /\ dropped \subseteq Remotes

\* What a screen shows is the window that runs: a second command neither shares
\* its radio nor overwrites its report (pairing.rs:184-188).
ReportsTheWindow ==
  \A w \in Windows : pc[w] \in Busy =>
    /\ report = Scanning(w)
    /\ \A v \in Windows : pc[v] \in Busy => v = w

\* "It emphatically does not mean 'start over' for the others" (pairing.rs:314):
\* from its start to its end, a window costs no bond but the one with the remote
\* it found, however the others come and go.
OthersKept ==
  \A w \in Windows : pc[w] \in Busy =>
    had[w] \subseteq bonded \cup dropped \cup {found[w]}

\* A remote that is reported as paired is one, unless it was forgotten on
\* command: nothing that came before or after the report undoes it.
PairedIsBonded ==
  (report # None /\ report.state = "paired")
    => report.address \in bonded \cup dropped

\* The guard is given back, so that the next command opens a window.
WindowCloses == open ~> ~open

\* "Start over" is for "the remote in your hand" (pairing.rs:311): a window takes
\* no bond from a remote nobody has put into pairing mode.
OnlyTheOneInHand ==
  [][\A r \in bonded \ bonded' :
       r \in ready \/ r \in dropped' \/ \E w \in Windows : pc[w] = "found" /\ target[w] = r]_vars

-----------------------------------------------------------------------------
(* Refinement. *)

S == INSTANCE Screen WITH shown <- report

\* Tasks, guard, attempts and BlueZ come to one window after the other, each
\* with an outcome about the remote it was opened for (pairing.rs:621), and to no
\* bond lost but on command or to the window that is shown.
ImplementsScreen == S!Spec
=============================================================================
