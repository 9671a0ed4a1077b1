--------------------------- MODULE Pairing_proofs ---------------------------
(***************************************************************************)
(* What Pairing promises for any remotes, any number of windows asked for  *)
(* at once and any number of attempts: the types, that the report is the   *)
(* one of the window that runs, that the other remotes keep their bonds,   *)
(* that what is reported as paired is, that all of it comes to what Screen *)
(* promises, and that a window gives the guard back after a bounded number *)
(* of steps.                                                               *)
(***************************************************************************)
EXTENDS Pairing, TLAPS

-----------------------------------------------------------------------------
(* Types. *)

\* The guard is a flag.
Flag == open \in BOOLEAN

\* It stays one.
LEMMA OpenTyped == Flag /\ [Next]_vars => Flag'
<1> USE DEF tasks, vars, Flag
<1>1. ASSUME NEW w \in Windows, open \in BOOLEAN, Step(w) PROVE open' \in BOOLEAN
  BY <1>1, Zenon DEF Step, Enter, Ignored, StartScan, Find, TimesOut, Fails, ForgetBond, KeepBond,
     FindAgain, Pair, PairRefused, GivesUp, Trust, Paired, Closes
<1>2. World => open' = open
  BY Zenon DEF World, BondsLate, Readies, Unreadies, Appears, Leaves, Expires, ForgetRemote
<1>3. ASSUME NEW w \in Windows, NEW t \in Asks, PairRemote(w, t) PROVE open' = open
  BY <1>3, Zenon DEF PairRemote
<1>4. Restart => open' = FALSE
  BY Zenon DEF Restart
<1> QED
  BY <1>1, <1>2, <1>3, <1>4, Zenon DEF Next

\* All types but the guard's.
Typed ==
  /\ pc \in [Windows -> Places]
  /\ target \in [Windows -> Targets] /\ found \in [Windows -> Targets]
  /\ tries \in [Windows -> 0 .. PairAttempts - 1]
  /\ report \in Reports \cup {None}
  /\ listed \subseteq Remotes /\ seen \subseteq listed /\ bonded \subseteq listed
  /\ ready \subseteq Remotes /\ late \in Targets
  /\ had \in [Windows -> SUBSET Remotes] /\ dropped \subseteq Remotes

\* A task that ends leaves its variables typed.
LEMMA EndsTyped ==
  ASSUME Typed, NEW w \in Windows, Ends(w)
  PROVE  /\ pc' \in [Windows -> Places] /\ target' \in [Windows -> Targets]
         /\ found' \in [Windows -> Targets] /\ tries' \in [Windows -> 0 .. PairAttempts - 1]
         /\ had' \in [Windows -> SUBSET Remotes]
BY PairingAssumption, SMT DEF Typed, Ends, Goes, Places, Targets

\* A report that is made has its type.
LEMMA ReportTyped ==
  ASSUME NEW s \in States, NEW a \in Targets
  PROVE  [state |-> s, address |-> a] \in Reports
BY SMT DEF Reports

\* Steps of a window keep the types.
LEMMA StepTyped == ASSUME Typed, NEW w \in Windows, Step(w) PROVE Typed'
<1> USE DEF Typed, Targets, daemon, ghosts
<1>0. target[w] \in Targets /\ found[w] \in Targets /\ "scanning" \in States
      /\ Scanning(w) \in Reports
  BY ReportTyped DEF Scanning, States
<1>1. CASE Enter(w)
  BY <1>0, <1>1, SMT DEF Enter, Goes, Places, Busy
<1>2. CASE Ignored(w)
  BY <1>2, EndsTyped, SMT DEF Ignored
<1>3. CASE StartScan(w)
  BY <1>3, SMT DEF StartScan, Goes, Places, Busy
<1>4. CASE Find(w)
  BY <1>4, SMT DEF Find, Goes, Places, Busy
<1>5. CASE TimesOut(w)
  <2>1. Ends(w) /\ report' \in Reports /\ UNCHANGED <<daemon, ready, dropped>>
    BY <1>0, <1>5, ReportTyped DEF TimesOut, Closes, States
  <2> QED
    BY <2>1, EndsTyped, SMT
<1>6. CASE Fails(w)
  <2>1. Ends(w) /\ report' \in Reports /\ UNCHANGED <<daemon, ready, dropped>>
    BY <1>0, <1>6, ReportTyped DEF Fails, Closes, States
  <2> QED
    BY <2>1, EndsTyped, SMT
<1>7. CASE ForgetBond(w)
  BY <1>7, SMT DEF ForgetBond, Removes, Goes, Places, Busy
<1>8. CASE KeepBond(w)
  BY <1>8, SMT DEF KeepBond, Goes, Places, Busy
<1>9. CASE FindAgain(w)
  BY <1>9, SMT DEF FindAgain, Goes, Places, Busy
<1>10. CASE Pair(w)
  BY <1>10, SMT DEF Pair, Goes, Places, Busy
<1>11. CASE PairRefused(w)
  BY <1>0, <1>11, PairingAssumption, SMT DEF PairRefused
<1>12. CASE GivesUp(w)
  <2>1. Ends(w) /\ report' \in Reports /\ UNCHANGED <<listed, seen, bonded, ready, dropped>>
    BY <1>0, <1>12, ReportTyped DEF GivesUp, Closes, States
  <2>2. late' \in Targets
    BY <1>0, <1>12 DEF GivesUp
  <2> QED
    BY <2>1, <2>2, EndsTyped, SMT
<1>13. CASE Trust(w)
  BY <1>13, SMT DEF Trust, Goes, Places, Busy
<1>14. CASE Paired(w)
  <2>1. Ends(w) /\ report' \in Reports /\ UNCHANGED <<daemon, ready, dropped>>
    BY <1>0, <1>14, ReportTyped DEF Paired, Closes, States
  <2> QED
    BY <2>1, EndsTyped, SMT
<1> QED
  BY <1>1, <1>2, <1>3, <1>4, <1>5, <1>6, <1>7, <1>8, <1>9, <1>10, <1>11, <1>12, <1>13, <1>14
  DEF Step

\* Remotes, BlueZ, commands and a restart keep the types.
LEMMA AroundTyped ==
  ASSUME Typed,
         World \/ Restart \/ \E w \in Windows, t \in Asks : PairRemote(w, t)
  PROVE  Typed'
<1> USE DEF Typed, Targets, tasks, daemon, ghosts
<1>1. CASE World
  BY <1>1, SMT DEF World, BondsLate, Readies, Unreadies, Appears, Leaves, Expires, ForgetRemote,
     Removes
<1>2. CASE Restart
  BY <1>2, PairingAssumption, SMT DEF Restart, Places
<1>3. CASE \E w \in Windows, t \in Asks : PairRemote(w, t)
  BY <1>3, PairingAssumption, SMT DEF PairRemote, Goes, Places
<1> QED
  BY <1>1, <1>2, <1>3

\* The initial states are typed.
LEMMA InitTyped == Init => Typed
BY PairingAssumption, SMT DEF Init, Typed, Places, Targets

\* Every variable of a window, of the registry and of BlueZ keeps its type.
THEOREM TypeCorrect == Spec => []TypeOK
<1>1. Init => Typed /\ Flag
  <2>1. Init => Flag
    BY Zenon DEF Init, Flag
  <2> QED
    BY <2>1, InitTyped
<1>2. Typed /\ [Next]_vars => Typed'
  <2> SUFFICES ASSUME Typed, [Next]_vars PROVE Typed'
    OBVIOUS
  <2>1. CASE UNCHANGED vars
    BY <2>1 DEF vars, tasks, daemon, ghosts, Typed
  <2> QED
    BY <2>1, StepTyped, AroundTyped DEF Next
<1>3. Typed /\ Flag => TypeOK
  BY Zenon DEF Typed, Flag, TypeOK
<1> QED
  BY <1>1, <1>2, <1>3, OpenTyped, PTL DEF Spec

\* Types hold all along.
LEMMA AlwaysTyped == Spec => []Typed
<1>1. Typed /\ [Next]_vars => Typed'
  <2> SUFFICES ASSUME Typed, [Next]_vars PROVE Typed'
    OBVIOUS
  <2>1. CASE UNCHANGED vars
    BY <2>1 DEF vars, tasks, daemon, ghosts, Typed
  <2> QED
    BY <2>1, StepTyped, AroundTyped DEF Next
<1> QED
  BY <1>1, InitTyped, PTL DEF Spec

-----------------------------------------------------------------------------
(* The window that runs. *)

\* Where a window has not found a remote yet.
Blind == {"none", "asked", "opening", "scanning"}

\* One window runs, with the guard; it knows of a remote once it has found one.
Guarded(w) ==
  /\ pc[w] \in Busy => open
  /\ \A v \in Windows : pc[w] \in Busy /\ pc[v] \in Busy => v = w
  /\ pc[w] \in Blind => found[w] = None
  /\ pc[w] \notin Blind => found[w] \in Remotes

\* What it knows of bonds: the others had keep theirs, and a remote it has
\* paired stays paired.
Minds(w) ==
  pc[w] \in Busy =>
    /\ report = Scanning(w)
    /\ had[w] \subseteq bonded \cup dropped \cup {found[w]}
    /\ pc[w] \in {"trusting", "holding"} => found[w] \in bonded \cup dropped

WindowInv ==
  /\ \A w \in Windows : Guarded(w) /\ Minds(w)
  /\ PairedIsBonded

\* At first no window runs, and nothing is reported.
LEMMA InitWindow == Init => WindowInv
BY SMT DEF Init, WindowInv, Guarded, Minds, PairedIsBonded, Busy, Blind

\* Steps of a window keep it.
LEMMA StepWindow ==
  ASSUME Typed, WindowInv, NEW w \in Windows, Step(w) PROVE WindowInv'
<1> USE PairingAssumption DEF Typed, Targets, daemon, ghosts, WindowInv, Guarded, Minds, PairedIsBonded,
        Scanning, Goes, Ends, Closes, Busy, Blind, Places
<1>1. CASE Enter(w)
  BY <1>1, SMT DEF Enter
<1>2. CASE Ignored(w)
  BY <1>2, SMT DEF Ignored
<1>3. CASE StartScan(w)
  BY <1>3, SMT DEF StartScan
<1>4. CASE Find(w)
  BY <1>4, SMT DEF Find
<1>5. CASE TimesOut(w)
  BY <1>5, SMT DEF TimesOut
<1>6. CASE Fails(w)
  BY <1>6, SMT DEF Fails
<1>7. CASE ForgetBond(w)
  BY <1>7, SMT DEF ForgetBond, Removes
<1>8. CASE KeepBond(w)
  BY <1>8, SMT DEF KeepBond
<1>9. CASE FindAgain(w)
  BY <1>9, SMT DEF FindAgain
<1>10. CASE Pair(w)
  BY <1>10, SMT DEF Pair
<1>11. CASE PairRefused(w)
  BY <1>11, SMT DEF PairRefused
<1>12. CASE GivesUp(w)
  BY <1>12, SMT DEF GivesUp
<1>13. CASE Trust(w)
  BY <1>13, SMT DEF Trust
<1>14. CASE Paired(w)
  BY <1>14, SMT DEF Paired
<1> QED
  BY <1>1, <1>2, <1>3, <1>4, <1>5, <1>6, <1>7, <1>8, <1>9, <1>10, <1>11, <1>12, <1>13, <1>14
  DEF Step

\* So does what happens around them.
LEMMA AroundWindow ==
  ASSUME Typed, WindowInv,
         World \/ Restart \/ \E w \in Windows, t \in Asks : PairRemote(w, t)
  PROVE  WindowInv'
<1> USE PairingAssumption DEF Typed, Targets, tasks, daemon, ghosts, WindowInv, Guarded, Minds,
        PairedIsBonded, Scanning, Goes, Busy, Blind, Places
<1>1. CASE World
  BY <1>1, SMT DEF World, BondsLate, Readies, Unreadies, Appears, Leaves, Expires, ForgetRemote,
     Removes
<1>2. CASE Restart
  BY <1>2, SMT DEF Restart
<1>3. ASSUME NEW w \in Windows, NEW t \in Asks, PairRemote(w, t) PROVE WindowInv'
  BY <1>3, SMT DEF PairRemote
<1> QED
  BY <1>1, <1>2, <1>3

\* The window's invariant holds all along.
LEMMA AlwaysWindow == Spec => []WindowInv
<1>1. Typed /\ WindowInv /\ [Next]_vars => WindowInv'
  <2> SUFFICES ASSUME Typed, WindowInv, [Next]_vars PROVE WindowInv'
    OBVIOUS
  <2>1. CASE UNCHANGED vars
    BY <2>1 DEF vars, tasks, daemon, ghosts, WindowInv, Guarded, Minds, PairedIsBonded, Scanning
  <2> QED
    BY <2>1, StepWindow, AroundWindow DEF Next
<1> QED
  BY <1>1, InitWindow, AlwaysTyped, PTL DEF Spec

-----------------------------------------------------------------------------
(* What follows. *)

\* One window runs at a time, and the report shows it, however many commands
\* arrive meanwhile.
THEOREM OneWindowIsReported == Spec => []ReportsTheWindow
<1>1. WindowInv => ReportsTheWindow
  BY DEF WindowInv, Guarded, Minds, ReportsTheWindow
<1> QED
  BY <1>1, AlwaysWindow, PTL

\* A window costs no bond but the one with the remote it found.
THEOREM OtherRemotesKept == Spec => []OthersKept
<1>1. WindowInv => OthersKept
  BY DEF WindowInv, Minds, OthersKept
<1> QED
  BY <1>1, AlwaysWindow, PTL

\* What is reported as paired is bonded, unless it was forgotten on command.
THEOREM ReportedIsPaired == Spec => []PairedIsBonded
<1>1. WindowInv => PairedIsBonded
  BY DEF WindowInv
<1> QED
  BY <1>1, AlwaysWindow, PTL

-----------------------------------------------------------------------------
(* The refinement. *)

\* The screen shows a scan only while the guard is held, and a window only goes
\* on with a remote that it was opened for.
ScreenInv ==
  /\ report # None /\ report.state = "scanning" => open
  /\ \A w \in Windows : pc[w] \notin Blind => target[w] \in {None, found[w]}

\* At first nothing is shown.
LEMMA InitScreen == Init => ScreenInv
BY DEF Init, ScreenInv, Blind

\* A window's steps keep that.
LEMMA StepScreen ==
  ASSUME Typed, WindowInv, ScreenInv, NEW w \in Windows, Step(w) PROVE ScreenInv'
<1> USE PairingAssumption DEF Typed, Targets, ScreenInv, Goes, Ends, Blind
<1>1. CASE Enter(w)
  BY <1>1, SMT DEF Enter
<1>2. CASE Ignored(w)
  BY <1>2, SMT DEF Ignored
<1>3. CASE StartScan(w) \/ KeepBond(w) \/ FindAgain(w) \/ Trust(w)
  BY <1>3, SMT DEF StartScan, KeepBond, FindAgain, Trust
<1>4. CASE Find(w)
  BY <1>4, SMT DEF Find
<1>5. CASE TimesOut(w) \/ Fails(w) \/ GivesUp(w) \/ Paired(w)
  <2>1. Ends(w) /\ report'.state # "scanning"
    BY <1>5 DEF TimesOut, Fails, GivesUp, Paired, Closes
  <2> QED
    BY <2>1, SMT
<1>6. CASE ForgetBond(w)
  BY <1>6, SMT DEF ForgetBond, Removes
<1>7. CASE Pair(w) \/ PairRefused(w)
  BY <1>7, SMT DEF Pair, PairRefused
<1> QED
  BY <1>1, <1>2, <1>3, <1>4, <1>5, <1>6, <1>7 DEF Step

\* So does what happens around it.
LEMMA AroundScreen ==
  ASSUME Typed, ScreenInv,
         World \/ Restart \/ \E w \in Windows, t \in Asks : PairRemote(w, t)
  PROVE  ScreenInv'
<1> USE PairingAssumption DEF Typed, Targets, tasks, ScreenInv, Goes, Blind
<1>1. CASE World
  BY <1>1, SMT DEF World, BondsLate, Readies, Unreadies, Appears, Leaves, Expires, ForgetRemote
<1>2. CASE Restart
  BY <1>2, SMT DEF Restart
<1>3. ASSUME NEW w \in Windows, NEW t \in Asks, PairRemote(w, t) PROVE ScreenInv'
  BY <1>3, SMT DEF PairRemote
<1> QED
  BY <1>1, <1>2, <1>3

\* It holds all along.
LEMMA AlwaysScreen == Spec => []ScreenInv
<1>1. Typed /\ WindowInv /\ ScreenInv /\ [Next]_vars => ScreenInv'
  <2> SUFFICES ASSUME Typed, WindowInv, ScreenInv, [Next]_vars PROVE ScreenInv'
    OBVIOUS
  <2>1. CASE UNCHANGED vars
    BY <2>1 DEF vars, tasks, ScreenInv
  <2> QED
    BY <2>1, StepScreen, AroundScreen DEF Next
<1> QED
  BY <1>1, InitScreen, AlwaysTyped, AlwaysWindow, PTL DEF Spec

\* What a screen shows, and the bonds.
shows == <<report, bonded, dropped>>

\* A running window is the one that is shown.
LEMMA RunsIsShown ==
  ASSUME Typed, WindowInv, NEW w \in Windows, pc[w] \in Busy
  PROVE  /\ S!Scans /\ report.address = target[w]
         /\ \A r : target[w] \in {None, r} => S!ScansFor(r)
<1>1. report = [state |-> "scanning", address |-> target[w]]
  BY DEF WindowInv, Minds, Scanning
<1>2. report # None
  <2>1. report \in Reports
    BY <1>1, ReportTyped DEF Typed, States
  <2> QED
    BY <2>1, AbsentAssumption
<1> QED
  BY <1>1, <1>2 DEF S!Scans, S!ScansFor

\* Each step of a window is one of the screen, or none.
LEMMA StepShows ==
  ASSUME Typed, WindowInv, ScreenInv, NEW w \in Windows, Step(w) PROVE [S!Next]_shows
<1>1. CASE Enter(w)
  <2>1. ~S!Scans
    BY <1>1 DEF Enter, ScreenInv, S!Scans
  <2>2. S!Open(target[w]) /\ target[w] \in Remotes \cup {None}
    BY <1>1, <2>1 DEF Enter, Scanning, S!Open, Typed, Targets, daemon
  <2> QED
    BY <2>2 DEF S!Next
<1>2. CASE \/ Ignored(w) \/ StartScan(w) \/ Find(w) \/ KeepBond(w) \/ FindAgain(w)
           \/ PairRefused(w) \/ Trust(w)
  BY <1>2 DEF Ignored, StartScan, Find, KeepBond, FindAgain, PairRefused, Trust, shows, daemon, ghosts
<1>3. CASE TimesOut(w) \/ Fails(w) \/ GivesUp(w)
  <2>1. pc[w] \in Busy
    BY <1>3 DEF TimesOut, Fails, GivesUp, Busy
  <2>2. PICK s \in {"timeout", "failed"} : report' = [state |-> s, address |-> target[w]]
    BY <1>3 DEF TimesOut, Fails, GivesUp, Closes
  <2>3. UNCHANGED <<bonded, dropped>>
    BY <1>3 DEF TimesOut, Fails, GivesUp, Closes, daemon
  <2>4. S!GiveUp
    BY <2>1, <2>2, <2>3, RunsIsShown DEF S!GiveUp
  <2> QED
    BY <2>4 DEF S!Next
<1>4. CASE ForgetBond(w)
  <2>1. pc[w] \in Busy /\ pc[w] \notin Blind
    BY <1>4 DEF ForgetBond, Busy, Blind
  <2>2. found[w] \in Remotes /\ target[w] \in {None, found[w]}
    BY <2>1 DEF WindowInv, Guarded, ScreenInv
  <2>3. S!StartOver(found[w])
    BY <1>4, <2>1, <2>2, RunsIsShown DEF ForgetBond, Removes, ghosts, S!StartOver
  <2> QED
    BY <2>2, <2>3 DEF S!Next
<1>5. CASE Pair(w)
  <2>1. found[w] \in Remotes /\ S!Bond(found[w])
    BY <1>5 DEF Pair, ghosts, S!Bond, Typed
  <2> QED
    BY <2>1 DEF S!Next
<1>6. CASE Paired(w)
  <2>1. pc[w] \in Busy /\ pc[w] \notin Blind /\ pc[w] \in {"trusting", "holding"}
    BY <1>6 DEF Paired, Busy, Blind
  <2>2. found[w] \in Remotes /\ target[w] \in {None, found[w]} /\ found[w] \in bonded \cup dropped
    BY <2>1 DEF WindowInv, Guarded, Minds, ScreenInv
  <2>3. S!Succeed(found[w])
    BY <1>6, <2>1, <2>2, RunsIsShown DEF Paired, Closes, daemon, S!Succeed
  <2> QED
    BY <2>2, <2>3 DEF S!Next
<1> QED
  BY <1>1, <1>2, <1>3, <1>4, <1>5, <1>6 DEF Step

\* So is what happens around it.
LEMMA AroundShows ==
  ASSUME Typed,
         World \/ Restart \/ \E w \in Windows, t \in Asks : PairRemote(w, t)
  PROVE  [S!Next]_shows
<1>1. CASE BondsLate
  <2>1. CASE late \in listed /\ late \in ready
    <3>1. S!Bond(late) /\ late \in Remotes
      BY <1>1, <2>1 DEF BondsLate, ghosts, S!Bond, Typed
    <3> QED
      BY <3>1 DEF S!Next
  <2>2. CASE ~(late \in listed /\ late \in ready)
    BY <1>1, <2>2 DEF BondsLate, ghosts, shows
  <2> QED
    BY <2>1, <2>2
<1>2. ASSUME NEW r \in Remotes, ForgetRemote(r) PROVE S!Next
  <2>1. S!Drop(r)
    BY <1>2 DEF ForgetRemote, Removes, S!Drop
  <2> QED
    BY <2>1 DEF S!Next
<1>3. ASSUME NEW r \in Remotes, Readies(r) \/ Unreadies(r) \/ Appears(r) \/ Leaves(r) \/ Expires(r)
      PROVE  UNCHANGED shows
  BY <1>3 DEF Readies, Unreadies, Appears, Leaves, Expires, daemon, ghosts, shows
<1>4. CASE Restart
  BY <1>4 DEF Restart, S!Restart, S!Next
<1>5. ASSUME NEW w \in Windows, NEW t \in Asks, PairRemote(w, t) PROVE UNCHANGED shows
  BY <1>5 DEF PairRemote, daemon, ghosts, shows
<1> QED
  BY <1>1, <1>2, <1>3, <1>4, <1>5 DEF World

\* Pairing comes to what Screen promises, for any remotes and any number of
\* commands at once: windows one after the other, each with an outcome about the
\* remote it was opened for, and no bond lost but on command or to the window
\* that is shown.
THEOREM PairingImplementsScreen == Spec => ImplementsScreen
<1>1. Init => S!Init
  BY DEF Init, S!Init
<1>2. Typed /\ WindowInv /\ ScreenInv /\ [Next]_vars => [S!Next]_shows
  <2> SUFFICES ASSUME Typed, WindowInv, ScreenInv, [Next]_vars PROVE [S!Next]_shows
    OBVIOUS
  <2>1. CASE UNCHANGED vars
    BY <2>1 DEF vars, daemon, ghosts, shows
  <2> QED
    BY <2>1, StepShows, AroundShows DEF Next
<1> QED
  BY <1>1, <1>2, AlwaysTyped, AlwaysWindow, AlwaysScreen, PTL
  DEF ImplementsScreen, S!Spec, Spec, shows

-----------------------------------------------------------------------------
(* The guard, and the end of a window. *)

\* The guard is held by a window that runs.
Held == open => \E w \in Windows : pc[w] \in Busy

\* No step forgets to give it back, and none takes it without a window.
LEMMA StepHeld == Typed /\ Held /\ [Next]_vars => Held'
<1> SUFFICES ASSUME Typed, Held, [Next]_vars PROVE Held'
  OBVIOUS
<1> USE DEF Typed, Held, Busy, Goes, tasks
<1>1. CASE World \/ UNCHANGED vars
  <2>1. UNCHANGED <<open, pc>>
    BY <1>1, Zenon DEF World, BondsLate, Readies, Unreadies, Appears, Leaves, Expires, ForgetRemote,
       vars
  <2> QED
    BY <2>1
<1>2. CASE Restart
  BY <1>2 DEF Restart
<1>3. ASSUME NEW w \in Windows, NEW t \in Asks, PairRemote(w, t) PROVE Held'
  BY <1>3, SMT DEF PairRemote
<1>4. ASSUME NEW w \in Windows, Step(w) PROVE Held'
  <2>1. CASE TimesOut(w) \/ Fails(w) \/ GivesUp(w) \/ Paired(w)
    <3>1. ~open'
      BY <2>1, Zenon DEF TimesOut, Fails, GivesUp, Paired, Closes
    <3> QED
      BY <3>1
  <2>2. CASE Ignored(w)
    BY <2>2, SMT DEF Ignored, Ends
  <2>3. CASE \/ Enter(w) \/ StartScan(w) \/ Find(w) \/ ForgetBond(w) \/ KeepBond(w) \/ FindAgain(w)
             \/ Pair(w) \/ PairRefused(w) \/ Trust(w)
    <3>1. pc'[w] \in Busy
      BY <2>3, SMT DEF Enter, StartScan, Find, ForgetBond, KeepBond, FindAgain, Pair, PairRefused,
         Trust
    <3> QED
      BY <3>1
  <2> QED
    BY <1>4, <2>1, <2>2, <2>3 DEF Step
<1> QED
  BY <1>1, <1>2, <1>3, <1>4 DEF Next

\* The guard is taken exactly while a window runs: however a window ends, and
\* whatever other commands do meanwhile, the next command finds it free
\* (pairing.rs:184-207).
THEOREM GuardIsHeld == Spec => [](open <=> \E w \in Windows : pc[w] \in Busy)
<1>1. Init => Held
  BY DEF Init, Held
<1>2. WindowInv /\ Held => (open <=> \E w \in Windows : pc[w] \in Busy)
  BY DEF WindowInv, Guarded, Held
<1> QED
  BY <1>1, <1>2, StepHeld, AlwaysTyped, AlwaysWindow, PTL DEF Spec

\* The steps a task has left at most: those of its places, and its attempts.
StepsLeft(w) ==
  IF pc[w] = "asked" THEN PairAttempts + 7
  ELSE IF pc[w] = "opening" THEN PairAttempts + 6
  ELSE IF pc[w] = "scanning" THEN PairAttempts + 5
  ELSE IF pc[w] = "found" THEN PairAttempts + 4
  ELSE IF pc[w] = "again" THEN PairAttempts + 3
  ELSE IF pc[w] = "pairing" THEN PairAttempts + 2 - tries[w]
  ELSE IF pc[w] = "trusting" THEN 2
  ELSE IF pc[w] = "holding" THEN 1
  ELSE 0

\* A step of a task takes it nearer to its end; the others leave it where it is.
NearerItsEnd(w) ==
  pc[w] # "none" => StepsLeft(w)' < StepsLeft(w) \/ (pc'[w] = pc[w] /\ tries'[w] = tries[w])

\* This is so of each step.
LEMMA StepNearerItsEnd ==
  ASSUME Typed, Next, NEW w \in Windows PROVE NearerItsEnd(w)
<1> USE DEF NearerItsEnd, Typed, tasks, Goes
<1>1. CASE World
  BY <1>1, Zenon DEF World, BondsLate, Readies, Unreadies, Appears, Leaves, Expires, ForgetRemote
<1>2. CASE Restart
  BY <1>2, PairingAssumption, SMT DEF Restart, StepsLeft, Places, Busy
<1>3. ASSUME NEW v \in Windows, NEW t \in Asks, PairRemote(v, t) PROVE NearerItsEnd(w)
  BY <1>3, SMT DEF PairRemote
<1>4. ASSUME NEW v \in Windows, Step(v) PROVE NearerItsEnd(w)
  <2>0. PairAttempts \in Nat \ {0} /\ tries[v] \in 0 .. PairAttempts - 1
    BY PairingAssumption
  <2>1. CASE v # w
    BY <1>4, <2>1, SMT DEF Step, Enter, Ignored, StartScan, Find, TimesOut, Fails, ForgetBond,
       KeepBond, FindAgain, Pair, PairRefused, GivesUp, Trust, Paired, Closes, Ends
  <2>2. CASE v = w
    <3>1. CASE Ignored(v) \/ TimesOut(v) \/ Fails(v) \/ GivesUp(v) \/ Paired(v)
      <4>1. pc'[v] = "none" /\ pc[v] \in {"asked", "opening", "scanning", "again", "pairing", "holding"}
        BY <3>1, SMT DEF Ignored, TimesOut, Fails, GivesUp, Paired, Closes, Ends
      <4> QED
        BY <2>0, <2>2, <4>1, SMT DEF StepsLeft
    <3>2. CASE PairRefused(v)
      BY <2>0, <2>2, <3>2, SMT DEF PairRefused, StepsLeft
    <3>3. CASE Enter(v) \/ StartScan(v) \/ Find(v) \/ ForgetBond(v)
      BY <2>0, <2>2, <3>3, SMT DEF Enter, StartScan, Find, ForgetBond, StepsLeft
    <3>4. CASE KeepBond(v) \/ FindAgain(v) \/ Pair(v) \/ Trust(v)
      BY <2>0, <2>2, <3>4, SMT DEF KeepBond, FindAgain, Pair, Trust, StepsLeft
    <3> QED
      BY <1>4, <3>1, <3>2, <3>3, <3>4 DEF Step
  <2> QED
    BY <2>1, <2>2
<1> QED
  BY <1>1, <1>2, <1>3, <1>4 DEF Next

\* The half of WindowCloses that is about steps: a window has a number of steps
\* left that PAIR_ATTEMPTS bounds and that each of its steps lowers, whatever
\* remotes, BlueZ and other commands do, so that it cannot scan, wait or retry
\* for ever; what is left to fairness is that its steps are taken.
THEOREM WindowsRunDown ==
  Spec => /\ [](\A w \in Windows : StepsLeft(w) \in 0 .. PairAttempts + 7)
          /\ [][\A w \in Windows : NearerItsEnd(w)]_vars
<1>1. Typed => \A w \in Windows : StepsLeft(w) \in 0 .. PairAttempts + 7
  <2> SUFFICES ASSUME Typed, NEW w \in Windows
               PROVE  StepsLeft(w) \in 0 .. PairAttempts + 7
    OBVIOUS
  <2>1. PairAttempts \in Nat \ {0} /\ tries[w] \in 0 .. PairAttempts - 1
    BY PairingAssumption DEF Typed
  <2> QED
    BY <2>1, SMT DEF StepsLeft
<1>2. Typed /\ [Next]_vars => [\A w \in Windows : NearerItsEnd(w)]_vars
  BY StepNearerItsEnd
<1> QED
  BY <1>1, <1>2, AlwaysTyped, PTL DEF Spec

=============================================================================
