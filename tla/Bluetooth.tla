------------------------------ MODULE Bluetooth ------------------------------
(***************************************************************************)
(* A phone's audio in a room (src/src/bluetooth/mod.rs, endpoint.rs,       *)
(* transport.rs, decode.rs; reconcile_bluetooth in src/src/supervisor.rs). *)
(*                                                                         *)
(* BlueZ configures a transport per phone and session, calls the endpoint  *)
(* with it, and says whether it plays.  The radio task looks every few     *)
(* seconds, one D-Bus call after the other, takes the socket of a          *)
(* transport that plays, starts a decoder and a source for it, and sets    *)
(* the remotes aside for as long as there is music.  Meanwhile phones come *)
(* and go, and the supervisor may abort the task between any two steps.    *)
(***************************************************************************)
EXTENDS Integers, FiniteSets

CONSTANTS
  Transports,      \* the sessions of all phones: BlueZ never reuses a path
  Remotes,         \* paired devices with nothing to listen to
  Levels,          \* positions of a phone's volume slider, 0..127
  CommandQueue,    \* how many commands the radio's channel holds
  VolumeQueue,     \* VOLUME_QUEUE of the supervisor
  StartsFail,      \* whether the decoder may fail to start
  Takeovers,       \* whether a phone may be configured beside another one
  Aborts,          \* whether the supervisor may stop the radio
  Control,         \* config.control: whether the phone's slider is followed
  None             \* "absent", of every optional value

\* One stream: the transport its decoder is fed from, and the remotes that
\* are to be called back when it ends.
Stream == [of : Transports, quieted : SUBSET Remotes]

\* A stream that has just been started, and one with another remote aside.
Started(t) == [of |-> t, quieted |-> {}]
AlsoQuieted(s, r) == [s EXCEPT !.quieted = @ \cup {r}]

ASSUME BluetoothAssumption ==
  /\ None \notin Transports \cup Stream \cup Levels
  /\ Levels \subseteq 0..127
  /\ {StartsFail, Takeovers, Aborts, Control} \subseteq BOOLEAN
  /\ CommandQueue \in Nat \ {0} /\ VolumeQueue \in Nat \ {0}

-----------------------------------------------------------------------------
VARIABLES
  session,    \* what BlueZ says of each transport
  slot,       \* the transport the endpoint was last configured with
  slider,     \* the phone's volume
  remote,     \* of each remote: "near" (connected), "aside", "asleep"
  pc,         \* where the radio task is
  seen,       \* the transport this look is about
  reading,    \* the transport being read
  streaming,  \* the stream kept
  fresh,      \* a stream started and not kept yet
  toWake,     \* the remotes still to be called back
  failed,     \* a transport taken without an audio path (not in the code)
  lastVolume, \* the phone's volume as last passed on
  requests,   \* volume requests the supervisor has not taken
  commands    \* commands the radio has not taken

bluez == <<session, slot, slider>>
streams == <<reading, streaming, fresh, failed>>
queues == <<requests, commands>>
vars == <<bluez, remote, pc, seen, streams, toWake, lastVolume, queues>>

\* No radio task; or one that sets itself up, waits, or is in a poll: about to
\* read the transport's state, to acquire it, to start its source, to set
\* remotes aside, to call them back, to read the volume.
Places == {"off", "setup", "ready", "looking", "acquiring", "starting",
           "quieting", "waking", "volume", "sending"}

Init ==
  /\ session = [t \in Transports |-> "unused"]
  /\ slot = None
  /\ slider \in Levels
  /\ remote = [r \in Remotes |-> "near"]
  /\ pc = "off"
  /\ seen = None
  /\ reading = None /\ streaming = None /\ fresh = None
  /\ toWake = {} /\ failed = None
  /\ lastVolume = None
  /\ requests = 0 /\ commands = 0

Quieted(s) == IF s = None THEN {} ELSE s.quieted
StreamOf(s) == IF s = None THEN None ELSE s.of

-----------------------------------------------------------------------------
(* BlueZ, the phones and the remotes. *)

Registered == pc \notin {"off", "setup"}

\* SetConfiguration: a phone has agreed to a stream, and its transport takes
\* the only slot there is.
SetConfiguration(t) ==
  /\ Registered
  /\ session[t] = "unused"
  /\ Takeovers \/ \A u \in Transports : session[u] \in {"unused", "gone"}
  /\ session' = [session EXCEPT ![t] = "idle"]
  /\ slot' = t
  /\ UNCHANGED <<slider, remote, pc, seen, streams, toWake, lastVolume, queues>>

PhonePlays(t) ==
  /\ session[t] = "idle"
  /\ session' = [session EXCEPT ![t] = "playing"]
  /\ UNCHANGED <<slot, slider, remote, pc, seen, streams, toWake, lastVolume, queues>>

PhonePauses(t) ==
  /\ session[t] = "playing"
  /\ session' = [session EXCEPT ![t] = "idle"]
  /\ UNCHANGED <<slot, slider, remote, pc, seen, streams, toWake, lastVolume, queues>>

\* ClearConfiguration: the phone went away.  The slot is left alone when it
\* holds another one.
ClearConfiguration(t) ==
  /\ session[t] \in {"idle", "playing"}
  /\ session' = [session EXCEPT ![t] = "gone"]
  /\ slot' = IF slot = t THEN None ELSE slot
  /\ UNCHANGED <<slider, remote, pc, seen, streams, toWake, lastVolume, queues>>

SliderMoves ==
  /\ slider' \in Levels \ {slider}
  /\ UNCHANGED <<session, slot, remote, pc, seen, streams, toWake, lastVolume, queues>>

RemoteSleeps(r) ==
  /\ remote[r] = "near"
  /\ remote' = [remote EXCEPT ![r] = "asleep"]
  /\ UNCHANGED <<bluez, pc, seen, streams, toWake, lastVolume, queues>>

\* A key is pressed on a remote that is not connected.
KeyWakes(r) ==
  /\ remote[r] # "near"
  /\ remote' = [remote EXCEPT ![r] = "near"]
  /\ UNCHANGED <<bluez, pc, seen, streams, toWake, lastVolume, queues>>

-----------------------------------------------------------------------------
(* The supervisor. *)

\* reconcile_bluetooth starts the task, with a channel of its own.
Spawn ==
  /\ pc = "off"
  /\ pc' = "setup"
  /\ commands' = 0
  /\ UNCHANGED <<bluez, remote, seen, streams, toWake, lastVolume, requests>>

\* stop_bluetooth aborts it: whatever it held is dropped, the endpoint is
\* unregistered, and the transports go with it.
Abort ==
  /\ Aborts
  /\ pc # "off"
  /\ pc' = "off"
  /\ session' = [t \in Transports |-> IF session[t] = "unused" THEN "unused" ELSE "gone"]
  /\ slot' = None
  /\ seen' = None
  /\ reading' = None /\ streaming' = None /\ fresh' = None /\ failed' = None
  /\ toWake' = {}
  /\ lastVolume' = None
  /\ commands' = 0
  /\ UNCHANGED <<slider, remote, requests>>

TakeRequest ==
  /\ requests > 0
  /\ requests' = requests - 1
  /\ UNCHANGED <<bluez, remote, pc, seen, streams, toWake, lastVolume, commands>>

\* CommandBus::send: refused when there is no radio, or no room.
SendCommand ==
  /\ pc # "off"
  /\ commands < CommandQueue
  /\ commands' = commands + 1
  /\ UNCHANGED <<bluez, remote, pc, seen, streams, toWake, lastVolume, requests>>

-----------------------------------------------------------------------------
(* The radio task. *)

\* The agent and the endpoint are registered; nothing is known of any phone.
SetUp ==
  /\ pc = "setup"
  /\ pc' = "ready"
  /\ UNCHANGED <<bluez, remote, seen, streams, toWake, lastVolume, queues>>

\* A command is carried out.  What it asks of a phone, the phone may do: being
\* forgotten, playing and pausing are its own steps.
TakeCommand ==
  /\ pc = "ready"
  /\ commands > 0
  /\ commands' = commands - 1
  /\ UNCHANGED <<bluez, remote, pc, seen, streams, toWake, lastVolume, requests>>

\* A poll begins: the slot is copied.
Tick ==
  /\ pc = "ready"
  /\ pc' = "looking"
  /\ seen' = slot
  /\ UNCHANGED <<bluez, remote, streams, toWake, lastVolume, queues>>

Plays(t) == t # None /\ session[t] = "playing"

\* Mutant: the remotes are not called back.
StreamStopsSilently ==
  /\ pc = "looking"
  /\ streaming' = None
  /\ reading' = None
  /\ failed' = None
  /\ pc' = "waking"
  /\ UNCHANGED <<bluez, remote, seen, fresh, toWake, lastVolume, queues>>

\* No transport, no music on it, or no answer about it, which reads as none:
\* the stream ends, and its remotes are owed a call.
StreamStops ==
  /\ pc = "looking"
  /\ toWake' = Quieted(streaming)
  /\ streaming' = None
  /\ reading' = None
  /\ failed' = None
  /\ pc' = "waking"
  /\ UNCHANGED <<bluez, remote, seen, fresh, lastVolume, queues>>

\* Mutant: any transport being read will do.
ReadsAny(t) == reading # None

\* Is it the transport that is being read?
Reads(t) == reading = t

AlreadyReading ==
  /\ pc = "looking"
  /\ Plays(seen)
  /\ Reads(seen)
  /\ pc' = "volume"
  /\ UNCHANGED <<bluez, remote, seen, streams, toWake, lastVolume, queues>>

\* Mutant: a transport that is being read is taken again.
NotReadingOrAgain ==
  /\ pc = "looking"
  /\ Plays(seen)
  /\ pc' = "acquiring"
  /\ UNCHANGED <<bluez, remote, seen, streams, toWake, lastVolume, queues>>

NotReading ==
  /\ pc = "looking"
  /\ Plays(seen)
  /\ ~Reads(seen)
  /\ pc' = "acquiring"
  /\ UNCHANGED <<bluez, remote, seen, streams, toWake, lastVolume, queues>>

\* The socket is handed over, and the transport counts as being read ...
Acquire ==
  /\ pc = "acquiring"
  /\ Plays(seen)
  /\ reading' = seen
  /\ pc' = "starting"
  /\ UNCHANGED <<bluez, remote, seen, streaming, fresh, failed, toWake, lastVolume, queues>>

\* ... or refused: the music has stopped meanwhile, or the call fails.
AcquireFails ==
  /\ pc = "acquiring"
  /\ pc' = "volume"
  /\ UNCHANGED <<bluez, remote, seen, streams, toWake, lastVolume, queues>>

\* start_source: a decoder, and a source task beside the one there may be.
StartSource ==
  /\ pc = "starting"
  /\ fresh' = Started(seen)
  /\ failed' = None
  /\ pc' = "quieting"
  /\ UNCHANGED <<bluez, remote, seen, reading, streaming, toWake, lastVolume, queues>>

\* No ffmpeg, no server: there is no audio path, and this look is over.
StartFails ==
  /\ StartsFail
  /\ pc = "starting"
  /\ failed' = seen
  /\ pc' = "volume"
  /\ UNCHANGED <<bluez, remote, seen, reading, streaming, fresh, toWake, lastVolume, queues>>

\* A connected remote is disconnected.
Quiet(r) ==
  /\ pc = "quieting"
  /\ remote[r] = "near"
  /\ remote' = [remote EXCEPT ![r] = "aside"]
  /\ fresh' = AlsoQuieted(fresh, r)
  /\ UNCHANGED <<bluez, pc, seen, reading, streaming, failed, toWake, lastVolume, queues>>

\* The new stream is kept, the one before it dropped with its decoder, its
\* source and its list.
Keep ==
  /\ pc = "quieting"
  /\ streaming' = fresh
  /\ fresh' = None
  /\ pc' = "volume"
  /\ UNCHANGED <<bluez, remote, seen, reading, failed, toWake, lastVolume, queues>>

\* A remote is called, and answers or not.
Wake(r) ==
  /\ pc = "waking"
  /\ r \in toWake
  /\ toWake' = toWake \ {r}
  /\ remote' \in { [remote EXCEPT ![r] = a] : a \in {"near", IF remote[r] = "near" THEN "near" ELSE "asleep"} }
  /\ UNCHANGED <<bluez, pc, seen, streams, lastVolume, queues>>

Awake ==
  /\ pc = "waking"
  /\ toWake = {}
  /\ pc' = "volume"
  /\ UNCHANGED <<bluez, remote, seen, streams, toWake, lastVolume, queues>>

\* follow_volume: without a transport the last position is forgotten; the
\* same position again is not passed on; reading it may fail.  Nothing is read
\* at all unless the phone is to be in control.
VolumeStays ==
  /\ pc = "volume"
  /\ lastVolume' = IF Control /\ slot = None THEN None ELSE lastVolume
  /\ pc' = "ready"
  /\ UNCHANGED <<bluez, remote, seen, streams, toWake, queues>>

\* Mutant: only the first position of a phone is passed on.
VolumeMovedOnce ==
  /\ pc = "volume"
  /\ Control /\ slot # None
  /\ lastVolume = None
  /\ lastVolume' = slider
  /\ pc' = "sending"
  /\ UNCHANGED <<bluez, remote, seen, streams, toWake, queues>>

VolumeMoved ==
  /\ pc = "volume"
  /\ Control /\ slot # None
  /\ lastVolume # slider
  /\ lastVolume' = slider
  /\ pc' = "sending"
  /\ UNCHANGED <<bluez, remote, seen, streams, toWake, queues>>

\* The request waits for room in the supervisor's queue.
SendVolume ==
  /\ pc = "sending"
  /\ requests < VolumeQueue
  /\ requests' = requests + 1
  /\ pc' = "ready"
  /\ UNCHANGED <<bluez, remote, seen, streams, toWake, lastVolume, commands>>

-----------------------------------------------------------------------------
Look == StreamStops \/ AlreadyReading \/ NotReading
TryAcquire == Acquire \/ AcquireFails
TryStart == StartSource \/ StartFails
FollowVolume == VolumeStays \/ VolumeMoved

Radio ==
  \/ SetUp \/ TakeCommand \/ Tick \/ Look \/ TryAcquire \/ TryStart \/ Keep
  \/ Awake \/ FollowVolume \/ SendVolume
  \/ \E r \in Remotes : Quiet(r) \/ Wake(r)

Supervisor == Spawn \/ Abort \/ TakeRequest \/ SendCommand

Outside ==
  \/ \E t \in Transports :
       SetConfiguration(t) \/ PhonePlays(t) \/ PhonePauses(t) \/ ClearConfiguration(t)
  \/ \E r \in Remotes : RemoteSleeps(r) \/ KeyWakes(r)
  \/ SliderMoves

Next == Radio \/ Supervisor \/ Outside

Spec == Init /\ [][Next]_vars

\* Every D-Bus call returns, the interval ticks, and the supervisor takes what
\* is in its queue.  A call may fail at any time and not every time: of a phone
\* that plays on, the state is read, the socket handed over and the volume read
\* now and then.
Fairness ==
  /\ WF_vars(Spawn) /\ WF_vars(SetUp)
  /\ WF_vars(Tick) /\ WF_vars(Look) /\ SF_vars(NotReading)
  /\ WF_vars(TryAcquire) /\ SF_vars(Acquire) /\ WF_vars(TryStart) /\ WF_vars(Keep)
  /\ WF_vars(\E r \in Remotes : Wake(r)) /\ WF_vars(Awake)
  /\ WF_vars(FollowVolume) /\ SF_vars(VolumeMoved) /\ WF_vars(SendVolume)
  /\ WF_vars(TakeRequest)

FairSpec == Spec /\ Fairness

-----------------------------------------------------------------------------
(* Properties. *)

\* Every variable has its type; neither channel holds more than its capacity.
TypeOK ==
  /\ session \in [Transports -> {"unused", "idle", "playing", "gone"}]
  /\ {slot, seen, reading, failed} \subseteq Transports \cup {None}
  /\ slider \in Levels
  /\ remote \in [Remotes -> {"near", "aside", "asleep"}]
  /\ pc \in Places
  /\ {streaming, fresh} \subseteq Stream \cup {None}
  /\ toWake \subseteq Remotes
  /\ lastVolume \in Levels \cup {None}
  /\ requests \in 0..VolumeQueue
  /\ commands \in 0..CommandQueue

\* No transport is ever fed to two sources, whatever it does between the look
\* and the call that follows it, and whichever other one takes the slot
\* (follow_stream).
NeverTwice ==
  (streaming # None /\ fresh # None) => streaming.of # fresh.of

\* The remotes somebody is going to call back.
Owed == Quieted(streaming) \cup Quieted(fresh) \cup toWake

\* A remote that was set aside leaves the lists only by being called: the two
\* steps that forget one are the abort of the whole task and the replacement
\* of one stream by another (follow_stream, wake_the_radio).
CallsBack ==
  [][\A r \in Owed \ Owed' :
       \/ pc = "waking" /\ remote'[r] # "aside"
       \/ pc' = "off"
       \/ pc = "quieting" /\ streaming # None]_vars

\* "And is called back the moment the music stops" (quiet_the_radio): with no
\* stream left, and the calls made, no remote is still aside.
NoRemoteLeftAside ==
  (pc \in {"off", "ready"} /\ streaming = None) => \A r \in Remotes : remote[r] # "aside"

\* A phone that has the slot and plays is heard, if its source can be started
\* (follow_stream, start_source).
Heard ==
  \A t \in Transports :
    (slot = t /\ session[t] = "playing")
      ~> (StreamOf(streaming) = t \/ slot # t \/ session[t] # "playing" \/ failed = t)

\* A position the slider is left at reaches the supervisor's queue, although
\* the radio waits while that queue is full, if the phone is to be in control
\* (follow_volume).
SliderFollowed ==
  Control => \A v \in Levels :
    (slot # None /\ slider = v) ~> (lastVolume = v \/ slot = None \/ slider # v)

=============================================================================
