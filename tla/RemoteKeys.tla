----------------------------- MODULE RemoteKeys -----------------------------
(***************************************************************************)
(* The keys of a Beoremote (src/src/beoremote/keys.rs, run of              *)
(* src/src/beoremote/mod.rs, reconcile_beoremote in src/src/supervisor.rs).*)
(*                                                                         *)
(* A bridge spawns a task that reads the kernel's input devices, and aborts*)
(* do not reach it: the tasks of all bridges there ever were go on side by *)
(* side.  Each looks for devices twice a second, grabs the ones nobody has *)
(* grabbed, with a reader thread for each, and handles what the readers    *)
(* send: volume keys go to the supervisor's queue and wait for room, the   *)
(* others to the server.  Devices come and go under the same paths.        *)
(***************************************************************************)
EXTENDS Integers, Sequences, FiniteSets

CONSTANTS
  Bridges,      \* the bridges a process starts, one after the other (bound)
  Devices,      \* paths of input devices
  KeyQueue,     \* how many events the readers of a task may be ahead of it
  VolumeQueue,  \* VOLUME_QUEUE of the supervisor
  None          \* "absent", of every optional value

ASSUME KeysAssumption ==
  /\ None \notin Bridges \cup Devices \cup BOOLEAN
  /\ KeyQueue \in Nat \ {0} /\ VolumeQueue \in Nat \ {0}

\* Readers of a device: none, reading, or ended and about to say so.
ReaderStates == {"none", "reading", "ended"}

\* What a reader sends: a press, or the end of its device.
Key == [key : {"volume", "other"}]
Closed == [closed : Devices]

VARIABLES
  bridge,    \* the bridge that runs
  tasks,     \* the bridges whose key task runs
  present,   \* the devices there are
  reader,    \* of each task and device, the reader thread
  open,      \* of each task, the paths it believes open
  keys,      \* of each task, the events to be handled
  busy,      \* of each task, the key being handled
  hid,       \* hid_connected of the report, if there is one
  requests   \* volume requests the supervisor has not taken

vars == <<bridge, tasks, present, reader, open, keys, busy, hid, requests>>

Init ==
  /\ bridge = None /\ tasks = {}
  /\ present = {}
  /\ reader = [b \in Bridges |-> [d \in Devices |-> "none"]]
  /\ open = [b \in Bridges |-> {}]
  /\ keys = [b \in Bridges |-> <<>>]
  /\ busy = [b \in Bridges |-> None]
  /\ hid = None
  /\ requests = 0

-----------------------------------------------------------------------------
(* The supervisor and the bridge. *)

\* A bridge of another zone or server, or the first one: it reports, and spawns
\* its key task.  Reconciling stops the one before it, clears its report, ...
StartBridge(b) ==
  /\ b \notin tasks
  /\ bridge' = b
  /\ tasks' = tasks \cup {b}
  /\ hid' = FALSE
  /\ UNCHANGED <<present, reader, open, keys, busy, requests>>

\* ... and that is all there is to do when none is wanted.
StopBridge ==
  /\ bridge # None
  /\ bridge' = None
  /\ hid' = None
  /\ UNCHANGED <<tasks, present, reader, open, keys, busy, requests>>

\* Whatever the bridge reports of itself, it says that no keys arrive: nothing
\* ever sets the flag it reads.
Report ==
  /\ bridge # None
  /\ hid' = FALSE
  /\ UNCHANGED <<bridge, tasks, present, reader, open, keys, busy, requests>>

TakeRequest ==
  /\ requests > 0
  /\ requests' = requests - 1
  /\ UNCHANGED <<bridge, tasks, present, reader, open, keys, busy, hid>>

-----------------------------------------------------------------------------
(* The kernel's devices. *)

Reads(b, d) == reader[b][d] = "reading"

\* A remote wakes, or has been paired again.
Appears(d) ==
  /\ d \notin present
  /\ present' = present \cup {d}
  /\ UNCHANGED <<bridge, tasks, reader, open, keys, busy, hid, requests>>

\* It sleeps, or is paired again: whoever reads it is told.
Disappears(d) ==
  /\ d \in present
  /\ present' = present \ {d}
  /\ reader' = [b \in Bridges |->
                  IF Reads(b, d) THEN [reader[b] EXCEPT ![d] = "ended"] ELSE reader[b]]
  /\ UNCHANGED <<bridge, tasks, open, keys, busy, hid, requests>>

\* A key is pressed, and its reader passes it on when there is room.
Press(b, d) ==
  /\ Reads(b, d)
  /\ Len(keys[b]) < KeyQueue
  /\ \E k \in Key : keys' = [keys EXCEPT ![b] = Append(@, k)]
  /\ UNCHANGED <<bridge, tasks, present, reader, open, busy, hid, requests>>

\* The reader's last word.
ReaderCloses(b, d) ==
  /\ reader[b][d] = "ended"
  /\ Len(keys[b]) < KeyQueue
  /\ reader' = [reader EXCEPT ![b][d] = "none"]
  /\ keys' = [keys EXCEPT ![b] = Append(@, [closed |-> d])]
  /\ UNCHANGED <<bridge, tasks, present, open, busy, hid, requests>>

-----------------------------------------------------------------------------
(* The key task of a bridge: keys::run. *)

\* set_beoremote_hid: only a report that is there is changed.
HidSet(on) == IF hid = None THEN None ELSE on

\* EVIOCGRAB: one reader per device.
Grabbed(d) == \E b \in Bridges : Reads(b, d)

\* Mutant: whatever can be grabbed is, whether its end was handled or not.
RescanAnew(b, d) ==
  /\ b \in tasks /\ busy[b] = None
  /\ d \in present
  /\ ~Grabbed(d)
  /\ reader' = [reader EXCEPT ![b][d] = "reading"]
  /\ open' = [open EXCEPT ![b] = @ \cup {d}]
  /\ hid' = HidSet(TRUE)
  /\ UNCHANGED <<bridge, tasks, present, keys, busy, requests>>

\* The rescan: a device it does not believe open is opened and grabbed.
Rescan(b, d) ==
  /\ b \in tasks /\ busy[b] = None
  /\ d \in present \ open[b]
  /\ ~Grabbed(d)
  /\ reader' = [reader EXCEPT ![b][d] = "reading"]
  /\ open' = [open EXCEPT ![b] = @ \cup {d}]
  /\ hid' = HidSet(TRUE)
  /\ UNCHANGED <<bridge, tasks, present, keys, busy, requests>>

\* Mutant: the path is kept, as it was before re-pairing was thought of.
TakeClosedKeeping(b) ==
  /\ b \in tasks /\ busy[b] = None
  /\ keys[b] # <<>> /\ Head(keys[b]) \notin Key
  /\ keys' = [keys EXCEPT ![b] = Tail(@)]
  /\ hid' = HidSet(TRUE)
  /\ UNCHANGED <<bridge, tasks, present, reader, open, busy, requests>>

\* Mutant: the flag is only set when a device opens.
TakeClosedSilently(b) ==
  /\ b \in tasks /\ busy[b] = None
  /\ keys[b] # <<>> /\ Head(keys[b]) \notin Key
  /\ keys' = [keys EXCEPT ![b] = Tail(@)]
  /\ open' = [open EXCEPT ![b] = @ \ {Head(keys[b]).closed}]
  /\ UNCHANGED <<bridge, tasks, present, reader, busy, hid, requests>>

\* A device is gone, and its path forgotten.
TakeClosed(b) ==
  /\ b \in tasks /\ busy[b] = None
  /\ keys[b] # <<>> /\ Head(keys[b]) \notin Key
  /\ keys' = [keys EXCEPT ![b] = Tail(@)]
  /\ open' = [open EXCEPT ![b] = @ \ {Head(keys[b]).closed}]
  /\ hid' = HidSet(open'[b] # {})
  /\ UNCHANGED <<bridge, tasks, present, reader, busy, requests>>

\* A press is taken up; one of a model the room does not listen to is dropped.
TakeKey(b) ==
  /\ b \in tasks /\ busy[b] = None
  /\ keys[b] # <<>> /\ Head(keys[b]) \in Key
  /\ keys' = [keys EXCEPT ![b] = Tail(@)]
  /\ busy' \in {[busy EXCEPT ![b] = k] : k \in {Head(keys[b]), None}}
  /\ UNCHANGED <<bridge, tasks, present, reader, open, hid, requests>>

\* A volume key waits for room in the supervisor's queue.
SendVolume(b) ==
  /\ busy[b] = [key |-> "volume"]
  /\ requests < VolumeQueue
  /\ requests' = requests + 1
  /\ busy' = [busy EXCEPT ![b] = None]
  /\ UNCHANGED <<bridge, tasks, present, reader, open, keys, hid>>

\* Another key is answered by the server of this task's zone, or times out.
SendKey(b) ==
  /\ busy[b] = [key |-> "other"]
  /\ busy' = [busy EXCEPT ![b] = None]
  /\ UNCHANGED <<bridge, tasks, present, reader, open, keys, hid, requests>>

-----------------------------------------------------------------------------
Take(b) == TakeClosed(b) \/ TakeKey(b)
Finish(b) == SendVolume(b) \/ SendKey(b)
KeyTask(b) == Take(b) \/ Finish(b) \/ \E d \in Devices : Rescan(b, d)
Readers(b) == \E d \in Devices : Press(b, d) \/ ReaderCloses(b, d)
Kernel == \E d \in Devices : Appears(d) \/ Disappears(d)
Supervisor == StopBridge \/ Report \/ TakeRequest \/ \E b \in Bridges : StartBridge(b)

Next == Supervisor \/ Kernel \/ \E b \in Bridges : KeyTask(b) \/ Readers(b)

Spec == Init /\ [][Next]_vars

\* Each task and each reader thread is scheduled, the server answers or a
\* request times out, and the supervisor takes what is in its queue.  `select!`
\* picks at random, and tokio's channels are first come, first served: neither
\* a rescan, nor an event, nor a reader that waits for room is passed over for
\* ever.
Fairness ==
  /\ WF_vars(TakeRequest)
  /\ \A b \in Bridges :
       /\ SF_vars(Take(b)) /\ WF_vars(SendKey(b)) /\ SF_vars(SendVolume(b))
       /\ \A d \in Devices : SF_vars(Rescan(b, d)) /\ SF_vars(ReaderCloses(b, d))

FairSpec == Spec /\ Fairness

-----------------------------------------------------------------------------
(* Properties. *)

\* Every variable has its type, and no channel holds more than its capacity.
TypeOK ==
  /\ bridge \in Bridges \cup {None} /\ tasks \subseteq Bridges
  /\ present \subseteq Devices
  /\ reader \in [Bridges -> [Devices -> ReaderStates]]
  /\ open \in [Bridges -> SUBSET Devices]
  /\ keys \in [Bridges -> Seq(Key \cup Closed)]
  /\ \A b \in Bridges : Len(keys[b]) <= KeyQueue
  /\ busy \in [Bridges -> Key \cup {None}]
  /\ hid \in BOOLEAN \cup {None}
  /\ requests \in 0..VolumeQueue

\* "The remote's keys reach us" is only ever reported while some task has a
\* device open, whichever task wrote last (set_beoremote_hid).
HidMeansKeys == hid = TRUE => \E b \in Bridges : open[b] # {}

\* A task never believes a path open that neither a reader nor a pending event
\* will ever take off its list: "the keys stop at the next pairing and never
\* come back" otherwise (keys.rs:151).
NoForgottenPath ==
  \A b \in Bridges : \A d \in open[b] :
    reader[b][d] # "none" \/ \E i \in DOMAIN keys[b] : keys[b][i] = [closed |-> d]

\* A device that stays is read in the end, if any bridge has ever run.
KeysComeBack ==
  \A d \in Devices : (d \in present /\ tasks # {}) ~> (Grabbed(d) \/ d \notin present)

\* "Read every remote key until the bridge stops" (keys.rs:107): a press is
\* read by the task of the bridge that runs when it is made.
ReadByTheBridge ==
  [][\A b \in Bridges :
       (\E k \in Key : keys'[b] = Append(keys[b], k)) => b = bridge]_vars

-----------------------------------------------------------------------------
(* Refinement. *)

\* What a task has of a device, by its reader and its list of open paths: a path
\* on the list without a reader is one whose end is still to be handled.
Life(b, d) ==
  IF reader[b][d] = "reading" THEN "reading"
  ELSE IF reader[b][d] = "ended" THEN "lost"
  ELSE IF d \in open[b] THEN "told"
  ELSE "free"

G == INSTANCE Grabs WITH Tasks <- Bridges,
                         life <- [b \in Bridges |-> [d \in Devices |-> Life(b, d)]]

\* Reader threads, the channel and the list of paths come to one reader per
\* device and one notice per loss: no event is handled for a device that came
\* back meanwhile, and none is handled twice (keys.rs:151).
ImplementsGrabs == G!Spec
=============================================================================
