---------------------------- MODULE Update_proofs ----------------------------
(***************************************************************************)
(* What Update promises for any builds and any number of attempts, power   *)
(* lost between any two steps: the types, the way back, that a confirmed   *)
(* build is only ever replaced by the one asked for, that the files        *)
(* implement Trial, and that a bounded number of steps leads to serving.   *)
(* All but the types assume that the marker can be written once the copy   *)
(* is there, that the new build can be renamed, and that the marker of a   *)
(* confirmed update can be removed.                                        *)
(***************************************************************************)
EXTENDS Update, TLAPS

\* The steps whose failure leaves an armed marker behind a running client.
WritesMarker == "kept" \notin FailsAt /\ "armed" \notin FailsAt /\ "registered" \notin FailsAt

-----------------------------------------------------------------------------
(* Types. *)

\* The type invariant; and a client that has come up is a whole binary.
Typed ==
  /\ TypeOK
  /\ pc \in {"up", "registered", "confirming"} \cup Attached => current \in Builds

\* The initial states are typed.
LEMMA InitTyped == Init => Typed
<1> SUFFICES ASSUME Init PROVE Typed
  OBVIOUS
<1>1. current \in Files /\ previous \in Files /\ staged \in Files
  BY SMT DEF Init, Files
<1>2. counted \in 0..MaxStartAttempts
  BY AttemptsAssumption, SMT DEF Init
<1>3. pc \in Starting /\ pc \notin {"up", "registered", "confirming"} \cup Attached
  BY SMT DEF Init, Starting, Attached, Installing
<1>4. playing \in BOOLEAN /\ calm \in BOOLEAN /\ trusted \in Builds
  BY Zenon DEF Init
<1> QED
  BY <1>1, <1>2, <1>3, <1>4, SMT DEF Init, Typed, TypeOK

\* Steps of the guard keep the types.
LEMMA GuardTyped == Typed /\ Guard => Typed'
<1> SUFFICES ASSUME Typed, Guard PROVE Typed'
  OBVIOUS
<1> USE BuildsAssumption, AttemptsAssumption DEF Typed, TypeOK, Files, Starting, Attached, Installing, disk
<1>1. CASE GuardPasses
  BY <1>1, SMT DEF GuardPasses
<1>2. CASE GuardCounts
  BY <1>2, SMT DEF GuardCounts, Attempts
<1>3. CASE GuardWrites
  BY <1>3, SMT DEF GuardWrites
<1>4. CASE GuardFails
  BY <1>4, SMT DEF GuardFails
<1>5. CASE GuardRestores
  BY <1>5, SMT DEF GuardRestores
<1>6. CASE GuardClears
  BY <1>6, SMT DEF GuardClears
<1> QED
  BY <1>1, <1>2, <1>3, <1>4, <1>5, <1>6 DEF Guard

\* Steps of the client before it serves keep the types.
LEMMA BootTyped == Typed /\ Boot => Typed'
<1> SUFFICES ASSUME Typed, Boot PROVE Typed'
  OBVIOUS
<1> USE BuildsAssumption DEF Typed, TypeOK, Files, Starting, Attached, Installing, disk
<1>1. CASE Start
  BY <1>1, SMT DEF Start, Runs
<1>2. CASE Register
  BY <1>2, SMT DEF Register
<1>3. CASE ConfirmNothing
  BY <1>3, SMT DEF ConfirmNothing
<1>4. CASE ConfirmStarted
  BY <1>4, SMT DEF ConfirmStarted
<1>5. CASE DropPrevious
  BY <1>5, SMT DEF DropPrevious
<1> QED
  BY <1>1, <1>2, <1>3, <1>4, <1>5 DEF Boot

\* Steps of `install` keep the types.
LEMMA InstallTyped == Typed /\ Install => Typed'
<1> SUFFICES ASSUME Typed, Install PROVE Typed'
  OBVIOUS
<1> USE BuildsAssumption, AttemptsAssumption
        DEF Typed, TypeOK, Files, Starting, Attached, Installing, disk
<1>1. CASE Unpack
  BY <1>1, SMT DEF Unpack
<1>2. CASE OpenPrevious
  BY <1>2, SMT DEF OpenPrevious
<1>3. CASE KeepPrevious
  BY <1>3, SMT DEF KeepPrevious
<1>4. CASE ArmMarker
  BY <1>4, SMT DEF ArmMarker
<1>5. CASE Swap
  <2>1. {current, previous, staged}' \subseteq Files
    BY <1>5, SMT DEF Swap
  <2>2. marker' \in 0..MaxStartAttempts \cup {None} /\ counted' \in 0..MaxStartAttempts
    BY <1>5, SMT DEF Swap
  <2>3. pc' = "off" /\ pc' \notin {"up", "registered", "confirming"} \cup Attached
    BY <1>5, SMT DEF Swap
  <2>4. UNCHANGED <<wanted, target, trusted, calm>> /\ playing' \in BOOLEAN
    BY <1>5, Zenon DEF Swap
  <2> QED
    BY <2>1, <2>2, <2>3, <2>4, SMT
<1>6. CASE InstallFails
  BY <1>6, SMT DEF InstallFails
<1> QED
  BY <1>1, <1>2, <1>3, <1>4, <1>5, <1>6 DEF Install

\* The server, the players and the power keep the types.
LEMMA AroundTyped ==
  Typed /\ (Reconcile \/ LoseContact \/ Ask \/ StreamToggles \/ Cut \/ CalmsDown) => Typed'
<1> SUFFICES ASSUME Typed,
                    Reconcile \/ LoseContact \/ Ask \/ StreamToggles \/ Cut \/ CalmsDown
             PROVE  Typed'
  OBVIOUS
<1> USE BuildsAssumption DEF Typed, TypeOK, Files, Starting, Attached, Installing, disk
<1>1. CASE Reconcile
  BY <1>1, SMT DEF Reconcile, IsWanted
<1>2. CASE LoseContact
  <2>1. playing' \in BOOLEAN
    BY <1>2, Zenon DEF LoseContact
  <2>2. UNCHANGED <<disk, counted, wanted, target, trusted, calm>> /\ pc = "serving" /\ pc' = "up"
    BY <1>2, Zenon DEF LoseContact
  <2> QED
    BY <2>1, <2>2, SMT
<1>3. CASE Ask
  BY <1>3, SMT DEF Ask
<1>4. CASE StreamToggles
  <2>1. playing' \in BOOLEAN
    BY <1>4, Zenon DEF StreamToggles
  <2>2. UNCHANGED <<disk, pc, counted, wanted, target, trusted, calm>>
    BY <1>4, Zenon DEF StreamToggles
  <2> QED
    BY <2>1, <2>2, SMT
<1>5. CASE Cut
  <2>1. playing' \in BOOLEAN
    BY <1>5, Zenon DEF Cut
  <2>2. UNCHANGED <<disk, counted, wanted, target, trusted, calm>> /\ pc' = "off"
    BY <1>5, Zenon DEF Cut
  <2> QED
    BY <2>1, <2>2, SMT
<1>6. CASE CalmsDown
  <2>1. calm' \in BOOLEAN
    BY <1>6, Zenon DEF CalmsDown
  <2>2. UNCHANGED <<disk, pc, counted, wanted, target, playing, trusted>>
    BY <1>6, Zenon DEF CalmsDown
  <2> QED
    BY <2>1, <2>2, SMT
<1> QED
  BY <1>1, <1>2, <1>3, <1>4, <1>5, <1>6

\* Every step keeps the types.
LEMMA StepTyped == Typed /\ [Next]_vars => Typed'
<1>1. Typed /\ UNCHANGED vars => Typed'
  BY SMT DEF Typed, TypeOK, vars, disk
<1> QED
  BY <1>1, GuardTyped, BootTyped, InstallTyped, AroundTyped DEF Next

\* The initial states are typed and steps keep them so, for ever.
LEMMA AlwaysTyped == Spec => []Typed
  BY InitTyped, StepTyped, PTL DEF Spec

\* The types hold, and the guard never counts past MAX_START_ATTEMPTS, for any
\* number of attempts (rollback_guard).
THEOREM TypeCorrect == Spec => []TypeOK
<1>1. Typed => TypeOK
  BY DEF Typed
<1> QED
  BY <1>1, AlwaysTyped, PTL

-----------------------------------------------------------------------------
(* The way back. *)

\* What is on the disk at any moment: without a marker the confirmed build is
\* in place; with one, it is in place or beside it, whole.
OnDisk ==
  /\ current \in Builds /\ trusted \in Builds
  /\ marker = None => current = trusted
  /\ marker # None => (previous = trusted \/ (previous = None /\ current = trusted))

\* And with a client that has a server: no marker before the copy is made, the
\* copy before the marker, and the new build ready when both are there.
Underway ==
  /\ pc \in {"serving", "confirming", "downloading", "unpacked", "keeping", "kept"} => marker = None
  /\ pc \in {"kept", "armed"} => previous = trusted
  /\ pc \in Installing => (current = trusted /\ target \in Builds /\ target # current)
  /\ pc \in Installing \ {"downloading"} => staged = target
  /\ pc \in {"counting", "armed"} => marker # None
  /\ pc = "restored" => current = trusted

SafeUpdate == Typed /\ OnDisk /\ Underway

\* It holds to begin with.
LEMMA InitSafe == Init => SafeUpdate
<1> SUFFICES ASSUME Init PROVE SafeUpdate
  OBVIOUS
<1>1. OnDisk /\ Underway
  BY SMT DEF Init, OnDisk, Underway, Installing
<1> QED
  BY <1>1, InitTyped DEF SafeUpdate

\* The guard keeps the way back.
LEMMA GuardSafe == SafeUpdate /\ Guard => (OnDisk /\ Underway)'
<1> SUFFICES ASSUME SafeUpdate, Guard PROVE (OnDisk /\ Underway)'
  OBVIOUS
<1>0. marker \in 0..MaxStartAttempts \cup {None} /\ counted \in Nat
  BY AttemptsAssumption, SMT DEF SafeUpdate, Typed, TypeOK
<1> USE <1>0, BuildsAssumption, AttemptsAssumption DEF SafeUpdate, OnDisk, Underway, Installing, disk
<1>1. CASE GuardPasses
  BY <1>1, SMT DEF GuardPasses
<1>2. CASE GuardCounts
  BY <1>2, SMT DEF GuardCounts, Attempts
<1>3. CASE GuardWrites
  BY <1>3, SMT DEF GuardWrites
<1>4. CASE GuardFails
  BY <1>4, SMT DEF GuardFails
<1>5. CASE GuardRestores
  BY <1>5, SMT DEF GuardRestores
<1>6. CASE GuardClears
  BY <1>6, SMT DEF GuardClears
<1> QED
  BY <1>1, <1>2, <1>3, <1>4, <1>5, <1>6 DEF Guard

\* The new client keeps it until it has registered.
LEMMA BootSafe == WritesMarker /\ SafeUpdate /\ Boot => (OnDisk /\ Underway)'
<1> SUFFICES ASSUME WritesMarker, SafeUpdate, Boot PROVE (OnDisk /\ Underway)'
  OBVIOUS
<1> USE BuildsAssumption DEF SafeUpdate, OnDisk, Underway, Installing, disk
<1>1. CASE Start
  BY <1>1, SMT DEF Start
<1>2. CASE Register
  BY <1>2, SMT DEF Register
<1>3. CASE ConfirmNothing
  BY <1>3, SMT DEF ConfirmNothing
<1>4. CASE ConfirmStarted
  BY <1>4, SMT DEF ConfirmStarted, WritesMarker
<1>5. CASE DropPrevious
  BY <1>5, SMT DEF DropPrevious
<1> QED
  BY <1>1, <1>2, <1>3, <1>4, <1>5 DEF Boot

\* `install` makes it before it needs it.
LEMMA InstallSafe == WritesMarker /\ SafeUpdate /\ Install => (OnDisk /\ Underway)'
<1> SUFFICES ASSUME WritesMarker, SafeUpdate, Install PROVE (OnDisk /\ Underway)'
  OBVIOUS
<1> USE BuildsAssumption DEF SafeUpdate, OnDisk, Underway, Installing, disk
<1>1. CASE Unpack
  BY <1>1, SMT DEF Unpack
<1>2. CASE OpenPrevious
  BY <1>2, SMT DEF OpenPrevious
<1>3. CASE KeepPrevious
  BY <1>3, SMT DEF KeepPrevious
<1>4. CASE ArmMarker
  BY <1>4, SMT DEF ArmMarker
<1>5. CASE Swap
  <2>1. /\ pc = "armed" /\ current' = staged /\ pc' = "off"
        /\ UNCHANGED <<previous, marker, trusted>>
    BY <1>5, Zenon DEF Swap
  <2> QED
    BY <2>1, SMT
<1>6. CASE InstallFails
  BY <1>6, SMT DEF InstallFails, WritesMarker
<1> QED
  BY <1>1, <1>2, <1>3, <1>4, <1>5, <1>6 DEF Install

\* Nobody else writes those files.
LEMMA AroundSafe ==
  SafeUpdate /\ (Reconcile \/ LoseContact \/ Ask \/ StreamToggles \/ Cut \/ CalmsDown)
    => (OnDisk /\ Underway)'
<1> SUFFICES ASSUME SafeUpdate,
                    Reconcile \/ LoseContact \/ Ask \/ StreamToggles \/ Cut \/ CalmsDown
             PROVE  (OnDisk /\ Underway)'
  OBVIOUS
<1> USE BuildsAssumption DEF SafeUpdate, OnDisk, Underway, Installing
<1>1. CASE Reconcile
  BY <1>1, SMT DEF Reconcile, IsWanted, disk
<1>2. CASE LoseContact \/ Cut
  <2>1. UNCHANGED <<current, previous, staged, marker, trusted>> /\ pc' \in {"up", "off"}
    BY <1>2, Zenon DEF LoseContact, Cut, disk
  <2> QED
    BY <2>1, SMT
<1>3. CASE Ask \/ StreamToggles \/ CalmsDown
  <2>1. UNCHANGED <<current, previous, staged, marker, pc, target, trusted>>
    BY <1>3, Zenon DEF Ask, StreamToggles, CalmsDown, disk
  <2> QED
    BY <2>1, SMT
<1> QED
  BY <1>1, <1>2, <1>3

\* Every step keeps it.
LEMMA StepSafe == WritesMarker /\ SafeUpdate /\ [Next]_vars => SafeUpdate'
<1> SUFFICES ASSUME WritesMarker, SafeUpdate, [Next]_vars PROVE SafeUpdate'
  OBVIOUS
<1>1. Typed'
  BY StepTyped DEF SafeUpdate
<1>2. CASE UNCHANGED vars
  <2>1. UNCHANGED <<current, previous, staged, marker, pc, target, trusted>>
    BY <1>2, Zenon DEF vars, disk
  <2>2. (OnDisk /\ Underway)'
    BY <2>1, SMT DEF SafeUpdate, OnDisk, Underway, Installing
  <2> QED
    BY <1>1, <2>2 DEF SafeUpdate
<1>3. CASE Next
  BY <1>1, <1>3, GuardSafe, BootSafe, InstallSafe, AroundSafe DEF Next, SafeUpdate
<1> QED
  BY <1>2, <1>3

\* So it holds for ever.
LEMMA AlwaysSafe ==
  ASSUME WritesMarker
  PROVE  Spec => []SafeUpdate
<1>1. SafeUpdate /\ [Next]_vars => SafeUpdate'
  BY StepSafe
<1> QED
  BY InitSafe, <1>1, PTL DEF Spec

\* A binary that has not been confirmed is in place only with the marker armed
\* and the confirmed one whole beside it, wherever power is lost and whatever
\* else fails (install, rollback_guard, confirm_started).
THEOREM AlwaysAWayBack ==
  ASSUME WritesMarker
  PROVE  Spec => []WayBack
<1>1. SafeUpdate => WayBack
  BY DEF SafeUpdate, OnDisk, WayBack
<1> QED
  BY <1>1, AlwaysSafe, PTL

-----------------------------------------------------------------------------
(* What the steps do to the binary in place and to the confirmed one. *)

\* Only the guard and the swap touch the binary.
LEMMA OthersKeepCurrent ==
  [Next]_vars /\ ~GuardRestores /\ ~Swap => current' = current
<1> USE DEF disk
<1>1. Guard /\ ~GuardRestores => current' = current
  BY Zenon DEF Guard, GuardPasses, GuardCounts, GuardWrites, GuardFails, GuardClears
<1>2. Boot => current' = current
  BY Zenon DEF Boot, Start, Register, ConfirmNothing, ConfirmStarted, DropPrevious
<1>3. Install /\ ~Swap => current' = current
  BY Zenon DEF Install, Unpack, OpenPrevious, KeepPrevious, ArmMarker, InstallFails
<1>4. Reconcile \/ LoseContact \/ Ask \/ StreamToggles \/ Cut \/ CalmsDown \/ UNCHANGED vars
        => current' = current
  BY Zenon DEF Reconcile, LoseContact, Ask, StreamToggles, Cut, CalmsDown, vars
<1> QED
  BY <1>1, <1>2, <1>3, <1>4 DEF Next

\* Only a confirmation changes the trusted build.
LEMMA OthersKeepTrusted ==
  [Next]_vars /\ ~ConfirmStarted => trusted' = trusted
<1>1. Guard => trusted' = trusted
  BY Zenon DEF Guard, GuardPasses, GuardCounts, GuardWrites, GuardFails, GuardRestores, GuardClears
<1>2. Boot /\ ~ConfirmStarted => trusted' = trusted
  BY Zenon DEF Boot, Start, Register, ConfirmNothing, DropPrevious
<1>3. Install => trusted' = trusted
  BY Zenon DEF Install, Unpack, OpenPrevious, KeepPrevious, ArmMarker, Swap, InstallFails
<1>4. Reconcile \/ LoseContact \/ Ask \/ StreamToggles \/ Cut \/ CalmsDown \/ UNCHANGED vars
        => trusted' = trusted
  BY Zenon DEF Reconcile, LoseContact, Ask, StreamToggles, Cut, CalmsDown, vars
<1> QED
  BY <1>1, <1>2, <1>3, <1>4 DEF Next

\* The guard puts back the confirmed binary and nothing else.
LEMMA RestoreSafe == SafeUpdate /\ GuardRestores => current' = trusted
<1> SUFFICES ASSUME SafeUpdate, GuardRestores PROVE current' = trusted
  OBVIOUS
<1>1. marker # None /\ current' = (IF previous # None THEN previous ELSE current)
  BY Zenon DEF GuardRestores
<1>2. trusted # None
  BY BuildsAssumption DEF SafeUpdate, OnDisk
<1> QED
  BY <1>1, <1>2 DEF SafeUpdate, OnDisk

\* The swap takes place over the confirmed binary, and puts in what was asked for.
LEMMA SwapSafe ==
  SafeUpdate /\ Swap
    => pc = "armed" /\ current = trusted /\ current' = target
       /\ target \in Builds /\ target # trusted
  BY Zenon DEF SafeUpdate, Underway, Installing, Swap

\* A confirmed binary goes only to make room for the one that was asked for
\* (install, rollback_guard).
THEOREM ConfirmedIsKept ==
  ASSUME WritesMarker
  PROVE  Spec => KeepsConfirmed
<1>1. SafeUpdate /\ [Next]_vars
        => [current = trusted /\ current' # current => pc = "armed" /\ current' = target]_vars
  BY OthersKeepCurrent, RestoreSafe, SwapSafe
<1> QED
  BY <1>1, AlwaysSafe, PTL DEF Spec, KeepsConfirmed

-----------------------------------------------------------------------------
(* The refinement. *)

OnTrial == IF current = trusted THEN None ELSE current

\* The initial states are initial states of Trial.
LEMMA InitTrial == Init => T!Init
  BY Zenon DEF Init, T!Init

\* Every step is one of Trial, or changes neither of its variables.
LEMMA StepTrial == SafeUpdate /\ SafeUpdate' /\ [Next]_vars => [T!Next]_<<trusted, OnTrial>>
<1> SUFFICES ASSUME SafeUpdate, SafeUpdate', [Next]_vars
             PROVE  [T!Next]_<<trusted, OnTrial>>
  OBVIOUS
<1>0. current \in Builds /\ trusted \in Builds /\ current' \in Builds /\ None \notin Builds
  BY BuildsAssumption DEF SafeUpdate, OnDisk
<1>1. CASE ConfirmStarted
  <2>1. current' = current /\ trusted' \in {current, trusted}
    BY <1>1, SMT DEF ConfirmStarted
  <2>2. CASE trusted' = trusted
    BY <2>1, <2>2 DEF OnTrial
  <2>3. CASE current # trusted /\ trusted' = current
    <3>1. OnTrial = current /\ OnTrial' = None
      BY <2>1, <2>3 DEF OnTrial
    <3> QED
      BY <1>0, <2>1, <2>3, <3>1 DEF T!Next, T!Confirm, OnTrial
  <2> QED
    BY <2>1, <2>2, <2>3
<1>2. CASE GuardRestores /\ ~ConfirmStarted
  <2>1. current' = trusted /\ trusted' = trusted
    BY <1>2, RestoreSafe, OthersKeepTrusted
  <2>2. CASE current = trusted
    BY <2>1, <2>2 DEF OnTrial
  <2>3. CASE current # trusted
    <3>1. OnTrial = current /\ OnTrial' = None
      BY <2>1, <2>3 DEF OnTrial
    <3> QED
      BY <1>0, <2>1, <3>1 DEF T!Next, T!GoBack, OnTrial
  <2> QED
    BY <2>2, <2>3
<1>3. CASE Swap /\ ~ConfirmStarted
  <2>1. /\ current = trusted /\ trusted' = trusted
        /\ current' = target /\ target \in Builds /\ target # trusted
    BY <1>3, SwapSafe, OthersKeepTrusted
  <2>2. OnTrial = None /\ OnTrial' = target
    BY <2>1 DEF OnTrial
  <2> QED
    BY <1>0, <2>1, <2>2 DEF T!Next, T!Try, OnTrial
<1>4. CASE ~ConfirmStarted /\ ~GuardRestores /\ ~Swap
  BY <1>4, OthersKeepCurrent, OthersKeepTrusted DEF OnTrial
<1> QED
  BY <1>1, <1>2, <1>3, <1>4

\* The files implement Trial: one build at a time, which ends confirmed or with
\* the trusted one back, whatever the crashes (install, rollback_guard,
\* confirm_started).
THEOREM FilesImplementTrial ==
  ASSUME WritesMarker
  PROVE  Spec => ImplementsTrial
<1>1. SafeUpdate /\ SafeUpdate' /\ [Next]_vars
        => [T!Next]_<<trusted, IF current = trusted THEN None ELSE current>>
  BY StepTrial DEF OnTrial
<1> QED
  BY <1>1, InitTrial, AlwaysSafe, PTL DEF Spec, ImplementsTrial, T!Spec

-----------------------------------------------------------------------------
(* The way to the next server. *)

\* The starts the guard still grants a build on trial, the one in which it puts
\* the copy back included; none without a marker.
StartsLeft(m) == IF m = None THEN 0 ELSE MaxStartAttempts + 1 - m

\* How many of them lie between a place and serving: all, when a build has yet to
\* be swapped in; what the guard is about to write counts already.
RoundsFrom(place, m, c) ==
  IF place = "serving" THEN 0
  ELSE IF place \in Installing THEN MaxStartAttempts + 1
  ELSE IF place = "counting" THEN StartsLeft(c)
  ELSE StartsLeft(m)

\* The steps of one round, or of an installation, in their order.
StepsOfRound(place, m) ==
  IF place = "downloading" THEN 10
  ELSE IF place \in {"unpacked", "counting"} THEN 9
  ELSE IF place \in {"keeping", "starting"} THEN 8
  ELSE IF place \in {"kept", "up"} THEN 7
  ELSE IF place \in {"armed", "registered"} THEN 6
  ELSE IF place = "confirming" THEN 5
  ELSE IF place = "off" THEN (IF m = None THEN 9 ELSE 4)
  ELSE IF place = "restored" THEN 3
  ELSE 0

StepsFrom(place, m, c) == 10 * RoundsFrom(place, m, c) + StepsOfRound(place, m)

\* At most this many steps of the guard, the client and `install` are left.
StepsLeft == StepsFrom(pc, marker, counted)

\* The number at each place, without a marker and with one.
LEMMA StepsAt ==
  ASSUME NEW m \in 0..MaxStartAttempts, NEW c \in 0..MaxStartAttempts,
         NEW mm \in 0..MaxStartAttempts \cup {None}
  PROVE  /\ StepsFrom("serving", mm, c) = 0
         /\ StepsFrom("downloading", mm, c) = 10 * (MaxStartAttempts + 1) + 10
         /\ StepsFrom("unpacked", mm, c) = 10 * (MaxStartAttempts + 1) + 9
         /\ StepsFrom("keeping", mm, c) = 10 * (MaxStartAttempts + 1) + 8
         /\ StepsFrom("kept", mm, c) = 10 * (MaxStartAttempts + 1) + 7
         /\ StepsFrom("armed", mm, c) = 10 * (MaxStartAttempts + 1) + 6
         /\ StepsFrom("off", None, c) = 9
         /\ StepsFrom("starting", None, c) = 8
         /\ StepsFrom("up", None, c) = 7
         /\ StepsFrom("registered", None, c) = 6
         /\ StepsFrom("confirming", None, c) = 5
         /\ StepsFrom("restored", None, c) = 3
         /\ StepsFrom("counting", mm, c) = 10 * (MaxStartAttempts + 1 - c) + 9
         /\ StepsFrom("off", m, c) = 10 * (MaxStartAttempts + 1 - m) + 4
         /\ StepsFrom("starting", m, c) = 10 * (MaxStartAttempts + 1 - m) + 8
         /\ StepsFrom("up", m, c) = 10 * (MaxStartAttempts + 1 - m) + 7
         /\ StepsFrom("registered", m, c) = 10 * (MaxStartAttempts + 1 - m) + 6
         /\ StepsFrom("confirming", m, c) = 10 * (MaxStartAttempts + 1 - m) + 5
         /\ StepsFrom("restored", m, c) = 10 * (MaxStartAttempts + 1 - m) + 3
<1>1. m # None /\ c # None
  BY AttemptsAssumption, BuildsAssumption, SMT
<1> QED
  BY <1>1, AttemptsAssumption, SMT DEF StepsFrom, RoundsFrom, StepsOfRound, StartsLeft, Installing

\* What was confirmed can run, and so can a client that has come up; the copy is
\* put back on account of a marker.
CanRun ==
  /\ trusted \notin Crashing
  /\ pc = "restored" => marker # None
  /\ pc \in {"up", "registered", "confirming"} \cup Attached => current \notin Crashing

\* Whatever happens keeps that.
LEMMA AlwaysCanRun ==
  ASSUME WritesMarker
  PROVE  Spec => []CanRun
<1>1. Init => CanRun
  BY SMT DEF Init, CanRun, Attached, Installing
<1>2. SafeUpdate /\ CanRun /\ [Next]_vars => CanRun'
  <2> SUFFICES ASSUME SafeUpdate, CanRun, [Next]_vars PROVE CanRun'
    OBVIOUS
  <2> USE DEF CanRun, Attached, Installing, disk
  <2>1. CASE UNCHANGED vars
    BY <2>1, SMT DEF vars
  <2>2. CASE Guard
    <3>1. /\ trusted' = trusted /\ pc' \notin {"up", "registered", "confirming"} \cup Attached
          /\ pc' = "restored" => marker' # None
      BY <2>2, SMT DEF Guard, GuardPasses, GuardCounts, GuardWrites, GuardFails, GuardRestores,
         GuardClears
    <3> QED
      BY <3>1
  <2>3. CASE Boot
    BY <2>3, SMT DEF Boot, Start, Register, ConfirmNothing, ConfirmStarted, DropPrevious, Runs
  <2>4. CASE Unpack \/ OpenPrevious \/ KeepPrevious \/ ArmMarker \/ InstallFails
    BY <2>4, SMT DEF Unpack, OpenPrevious, KeepPrevious, ArmMarker, InstallFails
  <2>5. CASE Swap
    BY <2>5, SMT DEF Swap
  <2>6. CASE Reconcile \/ LoseContact \/ Cut \/ Ask \/ StreamToggles \/ CalmsDown
    BY <2>6, SMT DEF Reconcile, LoseContact, Cut, Ask, StreamToggles, CalmsDown
  <2> QED
    BY <2>1, <2>2, <2>3, <2>4, <2>5, <2>6 DEF Next, Install
<1> QED
  BY <1>1, <1>2, AlwaysSafe, PTL DEF Spec

\* The count of the steps is a number, and bounded by the attempts alone.
LEMMA StepsBounded == Typed => StepsLeft \in 0 .. 10 * (MaxStartAttempts + 2)
<1> SUFFICES ASSUME Typed PROVE StepsLeft \in 0 .. 10 * (MaxStartAttempts + 2)
  OBVIOUS
<1>1. StepsOfRound(pc, marker) \in 0..10
  BY SMT DEF StepsOfRound
<1>2. RoundsFrom(pc, marker, counted) \in 0 .. MaxStartAttempts + 1
  BY AttemptsAssumption, BuildsAssumption, SMT DEF Typed, TypeOK, RoundsFrom, StartsLeft
<1> QED
  BY <1>1, <1>2, AttemptsAssumption, SMT DEF StepsLeft, StepsFrom

\* While nothing goes wrong, a step of the device is one of those left.
Nearer ==
  calm /\ pc # "serving" =>
    \/ StepsLeft' < StepsLeft
    \/ UNCHANGED <<pc, disk, counted>>

\* Each step on the way takes the device nearer.
LEMMA StepNearer == WritesMarker /\ SafeUpdate /\ CanRun /\ Next => Nearer
<1> SUFFICES ASSUME WritesMarker, SafeUpdate, CanRun, Next, calm, pc # "serving"
             PROVE  StepsLeft' < StepsLeft \/ UNCHANGED <<pc, disk, counted>>
  BY DEF Nearer
<1>0. /\ marker \in 0..MaxStartAttempts \cup {None} /\ counted \in 0..MaxStartAttempts
      /\ MaxStartAttempts \in Nat /\ None \notin Nat
      /\ marker # None => marker \in 0..MaxStartAttempts
  BY AttemptsAssumption, BuildsAssumption, SMT DEF SafeUpdate, Typed, TypeOK
<1>a. marker' \in 0..MaxStartAttempts \cup {None} /\ counted' \in 0..MaxStartAttempts
      /\ (marker' # None => marker' \in 0..MaxStartAttempts)
  <2>1. Typed'
    BY StepTyped DEF SafeUpdate
  <2> QED
    BY <2>1, SMT DEF Typed, TypeOK
<1> USE <1>0, <1>a, StepsAt DEF StepsLeft, disk
<1>1. CASE GuardPasses
  BY <1>1, SMT DEF GuardPasses
<1>2. CASE GuardCounts
  BY <1>2, SMT DEF GuardCounts, Attempts
<1>3. CASE GuardWrites
  BY <1>3, SMT DEF GuardWrites
<1>4. CASE GuardFails
  BY <1>4 DEF GuardFails
<1>5. CASE GuardRestores
  BY <1>5, SMT DEF GuardRestores
<1>6. CASE GuardClears
  BY <1>6, SMT DEF GuardClears, CanRun
<1>7. CASE Start
  <2>1. marker = None => Runs(current)
    BY Zenon DEF SafeUpdate, OnDisk, CanRun, Runs
  <2> QED
    BY <1>7, <2>1, SMT DEF Start
<1>8. CASE Register
  BY <1>8, SMT DEF Register
<1>9. CASE ConfirmNothing
  BY <1>9, SMT DEF ConfirmNothing
<1>10. CASE ConfirmStarted
  BY <1>10, SMT DEF ConfirmStarted, WritesMarker
<1>11. CASE DropPrevious
  BY <1>11, SMT DEF DropPrevious
<1>12. CASE Unpack
  BY <1>12, SMT DEF Unpack
<1>13. CASE OpenPrevious
  BY <1>13, SMT DEF OpenPrevious
<1>14. CASE KeepPrevious
  BY <1>14, SMT DEF KeepPrevious
<1>15. CASE ArmMarker
  BY <1>15, SMT DEF ArmMarker
<1>16. CASE Swap
  <2>1. marker \in 0..MaxStartAttempts
    BY <1>16 DEF Swap, SafeUpdate, Underway
  <2> QED
    BY <1>16, <2>1, SMT DEF Swap
<1>17. CASE Reconcile \/ LoseContact \/ Cut \/ InstallFails
  BY <1>17, Zenon DEF Reconcile, LoseContact, Cut, InstallFails
<1>18. CASE Ask \/ StreamToggles \/ CalmsDown
  BY <1>18, Zenon DEF Ask, StreamToggles, CalmsDown
<1> QED
  BY <1>1, <1>2, <1>3, <1>4, <1>5, <1>6, <1>7, <1>8, <1>9, <1>10, <1>11, <1>12, <1>13, <1>14,
     <1>15, <1>16, <1>17, <1>18
  DEF Next, Guard, Boot, Install

\* The half of ServesAgain that is about steps: once nothing goes wrong any more,
\* whatever step the guard, the client or `install` takes before the device
\* serves, a number bounded by MAX_START_ATTEMPTS sinks.  So no build, not even
\* one that exits at once, keeps the device from serving by being started again
\* and again; what is left to fairness is that a step is taken.
THEOREM ServesInBoundedSteps ==
  ASSUME WritesMarker
  PROVE  Spec => /\ [](StepsLeft \in 0 .. 10 * (MaxStartAttempts + 2))
                 /\ [][Nearer]_vars
<1>1. SafeUpdate => StepsLeft \in 0 .. 10 * (MaxStartAttempts + 2)
  BY StepsBounded DEF SafeUpdate
<1>2. SafeUpdate /\ CanRun /\ [Next]_vars => [Nearer]_vars
  BY StepNearer
<1> QED
  BY <1>1, <1>2, AlwaysSafe, AlwaysCanRun, PTL DEF Spec

=============================================================================
