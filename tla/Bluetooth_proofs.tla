-------------------------- MODULE Bluetooth_proofs --------------------------
(***************************************************************************)
(* What Bluetooth promises for any number of phones' sessions, remotes and *)
(* any queues: the types, that no transport is fed to two sources, and     *)
(* that a remote that was set aside is only forgotten where the module     *)
(* says it is.                                                             *)
(***************************************************************************)
EXTENDS Bluetooth, TLAPS

-----------------------------------------------------------------------------
(* Types. *)

Sessions == {"unused", "idle", "playing", "gone"}

\* What BlueZ, the remotes and the queues hold.
WorldTyped ==
  /\ session \in [Transports -> Sessions]
  /\ slot \in Transports \cup {None}
  /\ slider \in Levels
  /\ remote \in [Remotes -> {"near", "aside", "asleep"}]
  /\ lastVolume \in Levels \cup {None}
  /\ requests \in 0..VolumeQueue
  /\ commands \in 0..CommandQueue

\* What the radio holds.
RadioTyped ==
  /\ pc \in Places
  /\ seen \in Transports \cup {None} /\ reading \in Transports \cup {None}
  /\ failed \in Transports \cup {None}
  /\ streaming \in Stream \cup {None} /\ fresh \in Stream \cup {None}
  /\ toWake \subseteq Remotes

\* Where the radio looks at a transport, there is one; where it sets remotes
\* aside, there is a stream for them.
InPlace ==
  /\ pc \in {"acquiring", "starting", "quieting"} => seen \in Transports
  /\ pc = "quieting" <=> fresh # None
  /\ pc # "waking" => toWake = {}

\* Streams that are made are streams.
LEMMA StreamTyped ==
  /\ \A t \in Transports : Started(t) \in Stream /\ Started(t).of = t
                           /\ Started(t).quieted = {} /\ Started(t) # None
  /\ \A s \in Stream : /\ s # None /\ s.of \in Transports /\ s.quieted \subseteq Remotes
                       /\ \A r \in Remotes : /\ AlsoQuieted(s, r) \in Stream
                                             /\ AlsoQuieted(s, r).of = s.of
                                             /\ AlsoQuieted(s, r).quieted = s.quieted \cup {r}
                                             /\ AlsoQuieted(s, r) # None
<1>1. ASSUME NEW t \in Transports
      PROVE  Started(t) \in Stream /\ Started(t).of = t /\ Started(t).quieted = {}
  BY DEF Started, Stream
<1>2. ASSUME NEW s \in Stream
      PROVE  s # None /\ s.of \in Transports /\ s.quieted \subseteq Remotes
  BY BluetoothAssumption DEF Stream
<1>3. ASSUME NEW s \in Stream, NEW r \in Remotes
      PROVE  /\ AlsoQuieted(s, r) \in Stream /\ AlsoQuieted(s, r).of = s.of
             /\ AlsoQuieted(s, r).quieted = s.quieted \cup {r}
  BY DEF AlsoQuieted, Stream
<1> QED
  BY <1>1, <1>2, <1>3

\* Steps around the radio keep the types and leave the radio alone, but for its
\* start and its abort.
LEMMA AroundTyped ==
  ASSUME WorldTyped, RadioTyped, InPlace, Outside \/ Supervisor
  PROVE  WorldTyped' /\ RadioTyped' /\ InPlace'
<1> USE BluetoothAssumption DEF WorldTyped, Sessions, bluez, streams, queues
<1>1. CASE Outside
  <2>1. UNCHANGED <<pc, seen, streams, toWake>>
    BY <1>1 DEF Outside, SetConfiguration, PhonePlays, PhonePauses, ClearConfiguration,
       RemoteSleeps, KeyWakes, SliderMoves
  <2>2. RadioTyped' /\ InPlace'
    BY <2>1 DEF RadioTyped, InPlace
  <2>3. ASSUME NEW t \in Transports, SetConfiguration(t) PROVE WorldTyped'
    BY <2>3, SMT DEF SetConfiguration
  <2>4. ASSUME NEW t \in Transports, PhonePlays(t) \/ PhonePauses(t) PROVE WorldTyped'
    BY <2>4, SMT DEF PhonePlays, PhonePauses
  <2>5. ASSUME NEW t \in Transports, ClearConfiguration(t) PROVE WorldTyped'
    BY <2>5, SMT DEF ClearConfiguration
  <2>6. ASSUME NEW r \in Remotes, RemoteSleeps(r) \/ KeyWakes(r) PROVE WorldTyped'
    BY <2>6, SMT DEF RemoteSleeps, KeyWakes
  <2>7. ASSUME SliderMoves PROVE WorldTyped'
    BY <2>7, SMT DEF SliderMoves
  <2> QED
    BY <1>1, <2>2, <2>3, <2>4, <2>5, <2>6, <2>7 DEF Outside
<1>2. CASE Spawn
  BY <1>2, SMT DEF Spawn, RadioTyped, InPlace, Places
<1>3. CASE Abort
  BY <1>3, SMT DEF Abort, RadioTyped, InPlace, Places
<1>4. CASE TakeRequest
  BY <1>4, SMT DEF TakeRequest, RadioTyped, InPlace
<1>5. CASE SendCommand
  BY <1>5, SMT DEF SendCommand, RadioTyped, InPlace
<1> QED
  BY <1>1, <1>2, <1>3, <1>4, <1>5 DEF Supervisor

\* The radio's steps keep them.
LEMMA StepTyped ==
  ASSUME WorldTyped, RadioTyped, InPlace, Radio
  PROVE  WorldTyped' /\ RadioTyped' /\ InPlace'
<1> USE BluetoothAssumption, StreamTyped
    DEF WorldTyped, RadioTyped, InPlace, Places, Sessions, bluez, streams, queues, Plays
<1>1. CASE SetUp
  BY <1>1, SMT DEF SetUp
<1>2. CASE TakeCommand
  BY <1>2, SMT DEF TakeCommand
<1>3. CASE Tick
  BY <1>3, SMT DEF Tick
<1>4. CASE StreamStops
  <2>1. Quieted(streaming) \subseteq Remotes
    BY DEF Quieted
  <2> QED
    BY <1>4, <2>1, SMT DEF StreamStops
<1>5. CASE AlreadyReading \/ NotReading
  BY <1>5, SMT DEF AlreadyReading, NotReading, Reads
<1>6. CASE Acquire \/ AcquireFails
  BY <1>6, SMT DEF Acquire, AcquireFails
<1>7. CASE StartSource
  BY <1>7, SMT DEF StartSource
<1>8. CASE StartFails
  BY <1>8, SMT DEF StartFails
<1>9. ASSUME NEW r \in Remotes, Quiet(r) PROVE WorldTyped' /\ RadioTyped' /\ InPlace'
  BY <1>9, SMT DEF Quiet
<1>10. CASE Keep
  BY <1>10, SMT DEF Keep
<1>11. ASSUME NEW r \in Remotes, Wake(r) PROVE WorldTyped' /\ RadioTyped' /\ InPlace'
  <2>1. PICK a \in {"near", "asleep"} : remote' = [remote EXCEPT ![r] = a]
    BY <1>11 DEF Wake
  <2>2. remote' \in [Remotes -> {"near", "aside", "asleep"}]
    BY <2>1
  <2> QED
    BY <1>11, <2>2, SMT DEF Wake
<1>12. CASE Awake
  BY <1>12, SMT DEF Awake
<1>13. CASE VolumeStays \/ VolumeMoved
  BY <1>13, SMT DEF VolumeStays, VolumeMoved
<1>14. CASE SendVolume
  BY <1>14, SMT DEF SendVolume
<1> QED
  BY <1>1, <1>2, <1>3, <1>4, <1>5, <1>6, <1>7, <1>8, <1>9, <1>10, <1>11, <1>12, <1>13, <1>14
  DEF Radio, Look, TryAcquire, TryStart, FollowVolume

\* Types hold all along.
LEMMA AlwaysTyped == Spec => [](WorldTyped /\ RadioTyped /\ InPlace)
<1>1. Init => WorldTyped /\ RadioTyped /\ InPlace
  BY BluetoothAssumption, SMT DEF Init, WorldTyped, RadioTyped, InPlace, Places, Sessions
<1>2. WorldTyped /\ RadioTyped /\ InPlace /\ [Next]_vars => WorldTyped' /\ RadioTyped' /\ InPlace'
  <2> SUFFICES ASSUME WorldTyped, RadioTyped, InPlace, [Next]_vars
               PROVE  WorldTyped' /\ RadioTyped' /\ InPlace'
    OBVIOUS
  <2>1. CASE UNCHANGED vars
    BY <2>1 DEF vars, bluez, streams, queues, WorldTyped, RadioTyped, InPlace
  <2> QED
    BY <2>1, AroundTyped, StepTyped DEF Next
<1> QED
  BY <1>1, <1>2, PTL DEF Spec

\* Every variable has its type, and neither channel holds more than its capacity.
THEOREM TypeCorrect == Spec => []TypeOK
<1>1. WorldTyped /\ RadioTyped => TypeOK
  BY DEF WorldTyped, RadioTyped, Sessions, TypeOK
<1> QED
  BY <1>1, AlwaysTyped, PTL

-----------------------------------------------------------------------------
(* Remotes that were set aside. *)

\* A step that loses sight of one is the call itself, the abort of the task, or
\* the replacement of a stream that was kept.
THEOREM RemotesAreCalledBack == Spec => CallsBack
<1> DEFINE Called ==
      \A r \in Owed \ Owed' :
        \/ pc = "waking" /\ remote'[r] # "aside"
        \/ pc' = "off"
        \/ pc = "quieting" /\ streaming # None
<1>1. ASSUME WorldTyped, RadioTyped, InPlace, Next PROVE Called
  <2> USE DEF Owed, streams
  <2>1. ASSUME UNCHANGED <<streaming, fresh, toWake>> PROVE Called
    BY <2>1
  <2>2. CASE Outside \/ Spawn \/ TakeRequest \/ SendCommand
    <3>1. UNCHANGED <<streaming, fresh, toWake>>
      BY <2>2 DEF Outside, SetConfiguration, PhonePlays, PhonePauses, ClearConfiguration,
         RemoteSleeps, KeyWakes, SliderMoves, Spawn, TakeRequest, SendCommand
    <3> QED
      BY <2>1, <3>1
  <2>3. CASE Abort
    BY <2>3 DEF Abort
  <2>4. CASE \/ SetUp \/ TakeCommand \/ Tick \/ AlreadyReading \/ NotReading \/ TryAcquire
             \/ StartFails \/ Awake \/ FollowVolume \/ SendVolume
    <3>1. UNCHANGED <<streaming, fresh, toWake>>
      BY <2>4 DEF SetUp, TakeCommand, Tick, AlreadyReading, NotReading, TryAcquire, Acquire,
         AcquireFails, StartFails, Awake, FollowVolume, VolumeStays, VolumeMoved, SendVolume
    <3> QED
      BY <2>1, <3>1
  <2>5. CASE StreamStops
    <3>1. toWake' = Quieted(streaming) /\ fresh' = fresh /\ toWake = {}
      BY <1>1, <2>5 DEF StreamStops, InPlace
    <3>2. Quieted(fresh)' = Quieted(fresh)
      BY <3>1 DEF Quieted
    <3> QED
      BY <3>1, <3>2
  <2>6. CASE StartSource
    <3>1. fresh = None /\ UNCHANGED <<streaming, toWake>>
      BY <1>1, <2>6 DEF StartSource, InPlace
    <3>2. Quieted(fresh) = {} /\ Quieted(streaming)' = Quieted(streaming)
      BY <3>1 DEF Quieted
    <3> QED
      BY <3>1, <3>2
  <2>7. ASSUME NEW r \in Remotes, Quiet(r) PROVE Called
    <3>1. /\ fresh \in Stream /\ fresh' = AlsoQuieted(fresh, r)
          /\ UNCHANGED <<streaming, toWake>>
      BY <1>1, <2>7 DEF Quiet, InPlace, RadioTyped
    <3>2. /\ Quieted(fresh) \subseteq Quieted(fresh)'
          /\ Quieted(streaming)' = Quieted(streaming)
      BY <3>1, StreamTyped DEF Quieted
    <3> QED
      BY <3>1, <3>2
  <2>8. CASE Keep
    <3>1. pc = "quieting" /\ streaming' = fresh /\ fresh' = None /\ toWake' = toWake
      BY <2>8 DEF Keep
    <3>2. CASE streaming = None
      <4>1. Quieted(streaming) = {} /\ Quieted(streaming)' = Quieted(fresh)
        BY <3>1, <3>2 DEF Quieted
      <4> QED
        BY <3>1, <4>1
    <3> QED
      BY <3>1, <3>2
  <2>9. ASSUME NEW r \in Remotes, Wake(r) PROVE Called
    <3>1. /\ pc = "waking" /\ toWake' = toWake \ {r} /\ remote'[r] # "aside"
          /\ UNCHANGED <<streaming, fresh>>
      BY <1>1, <2>9 DEF Wake, WorldTyped
    <3>2. Quieted(streaming)' = Quieted(streaming) /\ Quieted(fresh)' = Quieted(fresh)
      BY <3>1 DEF Quieted
    <3> QED
      BY <3>1, <3>2
  <2> QED
    BY <1>1, <2>2, <2>3, <2>4, <2>5, <2>6, <2>7, <2>8, <2>9
    DEF Next, Supervisor, Radio, Look, TryStart
<1>2. WorldTyped /\ RadioTyped /\ InPlace /\ [Next]_vars => [Called]_vars
  BY <1>1
<1> QED
  BY <1>2, AlwaysTyped, PTL DEF Spec, CallsBack

-----------------------------------------------------------------------------
(* One source for a transport. *)

Known(t) == session[t] # "unused"

\* Whatever the radio knows of has been configured once.
AllKnown ==
  /\ slot # None => Known(slot)
  /\ seen # None => Known(seen)
  /\ streaming # None => Known(streaming.of)

\* A stream that goes on beside what the radio looks at has lost the slot, and
\* a path is never used again.
Superseded ==
  streaming # None =>
    /\ pc \in {"looking", "acquiring", "starting", "quieting"} /\ streaming.of # seen
         => slot # streaming.of
    /\ streaming.of # reading => slot # streaming.of /\ (pc = "looking" => seen # streaming.of)
    /\ pc \in {"acquiring", "starting", "quieting"} => streaming.of # seen

\* What is read, and what is started, is what this look is about.
ReadsSeen ==
  /\ pc \in {"starting", "quieting"} => reading = seen
  /\ pc = "quieting" => fresh.of = seen

SourceInv == AllKnown /\ Superseded /\ ReadsSeen

\* Steps around the radio keep it.
LEMMA AroundSource ==
  ASSUME WorldTyped, RadioTyped, InPlace, SourceInv, Outside \/ Supervisor
  PROVE  SourceInv'
<1> USE DEF SourceInv, AllKnown, Superseded, ReadsSeen, Known, bluez, streams, queues
<1>1. CASE \/ SliderMoves \/ TakeRequest \/ SendCommand
           \/ \E r \in Remotes : RemoteSleeps(r) \/ KeyWakes(r)
  <2>1. UNCHANGED <<session, slot, pc, seen, streaming, reading, fresh>>
    BY <1>1 DEF RemoteSleeps, KeyWakes, SliderMoves, TakeRequest, SendCommand
  <2> QED
    BY <2>1
<1>2. ASSUME NEW t \in Transports, SetConfiguration(t) PROVE SourceInv'
  <2>1. /\ session[t] = "unused" /\ session' = [session EXCEPT ![t] = "idle"] /\ slot' = t
        /\ UNCHANGED <<pc, seen, streaming, reading, fresh>>
    BY <1>2 DEF SetConfiguration
  <2>2. \A u \in Transports : Known(u) => Known(u)' /\ u # t
    BY <2>1 DEF WorldTyped
  <2>3. Known(t)'
    BY <2>1 DEF WorldTyped
  <2>4. streaming # None => streaming.of \in Transports
    BY StreamTyped DEF RadioTyped
  <2> QED
    BY <2>1, <2>2, <2>3, <2>4 DEF RadioTyped
<1>3. ASSUME NEW t \in Transports,
             PhonePlays(t) \/ PhonePauses(t) \/ ClearConfiguration(t)
      PROVE  SourceInv'
  <2>1. /\ slot' \in {slot, None} /\ UNCHANGED <<pc, seen, streaming, reading, fresh>>
        /\ \A u \in Transports : Known(u) => Known(u)'
    BY <1>3 DEF PhonePlays, PhonePauses, ClearConfiguration, WorldTyped
  <2>2. streaming # None => streaming.of \in Transports /\ streaming.of # None
    BY StreamTyped, BluetoothAssumption DEF RadioTyped
  <2> QED
    BY <2>1, <2>2 DEF RadioTyped, WorldTyped
<1>4. CASE Spawn
  BY <1>4 DEF Spawn
<1>5. CASE Abort
  BY <1>5 DEF Abort
<1> QED
  BY <1>1, <1>2, <1>3, <1>4, <1>5 DEF Outside, Supervisor

\* So do the radio's.
LEMMA StepSource ==
  ASSUME WorldTyped, RadioTyped, InPlace, SourceInv, Radio PROVE SourceInv'
<1> USE DEF SourceInv, AllKnown, Superseded, ReadsSeen, Known, InPlace, bluez, streams, queues
<1>1. CASE SetUp \/ TakeCommand \/ Awake \/ FollowVolume \/ SendVolume
  <2>1. /\ pc' \in {"ready", "volume", "sending"}
        /\ UNCHANGED <<session, slot, seen, streaming, reading>>
    BY <1>1 DEF SetUp, TakeCommand, Awake, FollowVolume, VolumeStays, VolumeMoved, SendVolume
  <2> QED
    BY <2>1
<1>2. CASE Tick
  BY <1>2 DEF Tick
<1>3. CASE StreamStops
  BY <1>3 DEF StreamStops
<1>4. CASE AlreadyReading \/ AcquireFails \/ StartFails
  <2>1. /\ pc' = "volume"
        /\ UNCHANGED <<session, slot, seen, streaming, reading>>
    BY <1>4 DEF AlreadyReading, AcquireFails, StartFails
  <2> QED
    BY <2>1
<1>5. CASE NotReading
  BY <1>5 DEF NotReading, Reads
<1>6. CASE Acquire
  BY <1>6 DEF Acquire
<1>7. CASE StartSource
  <2>1. fresh'.of = seen
    BY <1>7, StreamTyped DEF StartSource
  <2> QED
    BY <1>7, <2>1 DEF StartSource
<1>8. ASSUME NEW r \in Remotes, Quiet(r) PROVE SourceInv'
  <2>1. fresh \in Stream /\ fresh'.of = fresh.of
    BY <1>8, StreamTyped DEF Quiet, RadioTyped
  <2> QED
    BY <1>8, <2>1 DEF Quiet
<1>9. CASE Keep
  <2>1. /\ pc = "quieting" /\ pc' = "volume" /\ streaming' = fresh /\ fresh' = None
        /\ UNCHANGED <<session, slot, seen, reading>>
    BY <1>9 DEF Keep
  <2>2. fresh.of = seen /\ reading = seen /\ seen # None
    BY <2>1, BluetoothAssumption
  <2> QED
    BY <2>1, <2>2
<1>10. ASSUME NEW r \in Remotes, Wake(r) PROVE SourceInv'
  <2>1. pc' = "waking" /\ UNCHANGED <<session, slot, seen, streaming, reading, fresh>>
    BY <1>10 DEF Wake
  <2> QED
    BY <2>1
<1> QED
  BY <1>1, <1>2, <1>3, <1>4, <1>5, <1>6, <1>7, <1>8, <1>9, <1>10
  DEF Radio, Look, TryAcquire, TryStart

\* No transport is fed to two sources, although one that could not be started
\* leaves an older stream running, and phones take the slot at any time.
THEOREM OneSourcePerTransport == Spec => []NeverTwice
<1>1. Init => SourceInv
  BY DEF Init, SourceInv, AllKnown, Superseded, ReadsSeen
<1>2. WorldTyped /\ RadioTyped /\ InPlace /\ SourceInv /\ [Next]_vars => SourceInv'
  <2> SUFFICES ASSUME WorldTyped, RadioTyped, InPlace, SourceInv, [Next]_vars
               PROVE  SourceInv'
    OBVIOUS
  <2>1. CASE UNCHANGED vars
    BY <2>1 DEF vars, bluez, streams, queues, SourceInv, AllKnown, Superseded, ReadsSeen, Known
  <2> QED
    BY <2>1, AroundSource, StepSource DEF Next
<1>3. InPlace /\ SourceInv => NeverTwice
  BY DEF InPlace, SourceInv, Superseded, ReadsSeen, NeverTwice
<1> QED
  BY <1>1, <1>2, <1>3, AlwaysTyped, PTL DEF Spec
=============================================================================
