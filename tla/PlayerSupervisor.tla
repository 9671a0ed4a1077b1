-------------------------- MODULE PlayerSupervisor --------------------------
(***************************************************************************)
(* The players half of the supervisor (src/src/supervisor.rs), the audio   *)
(* threads it starts (src/src/player.rs) and the status registry they      *)
(* share (src/src/status.rs).                                              *)
(*                                                                         *)
(* The supervisor is one task: it takes the newest desired state out of a  *)
(* watch channel, stops the players that are gone or have to be rebuilt    *)
(* (waiting for each thread to end), starts or adjusts the wanted ones,    *)
(* and then waits for a new desired state, a stop, or a volume request.    *)
(* Every player runs on an OS thread of its own; between two steps of the  *)
(* supervisor any number of thread, poller, remote and hot-plug steps can  *)
(* happen.                                                                 *)
(***************************************************************************)
EXTENDS Integers, Sequences

CONSTANTS
  Players,     \* client ids; numbers, because reports are sorted by client id
  Cards,       \* sound cards, what a player's `output` names
  Threads,     \* identities of OS threads
  Urls,        \* Sendspin endpoints a server can name
  Configs,     \* the desired states the server may send
  MaxVolume,   \* 100 in the code
  MaxDelay,    \* bound on static_delay_ms
  Presses,     \* the volume requests the remote and a phone may make
  QueueDepth,  \* VOLUME_QUEUE
  LiveLevels,  \* levels the server may set live, over Sendspin
  Conns,       \* what a session may report of itself: a connection state, "error"
  SessionsEnd, \* whether a session may give up for good
  None         \* "absent", of every optional value

-----------------------------------------------------------------------------
(* Types *)

Delay == 0..MaxDelay

\* LiveSettings: what can change without rebuilding the player.
LiveSettings == [volume : 0..MaxVolume, muted : BOOLEAN, delay : Delay]

\* What the server says about one player, the rest of its restart key folded
\* into `output`. Absent, `enabled: false` and a blank id are all None.
DesiredPlayer == [output : Cards, volume : Nat, muted : BOOLEAN, delay : Delay]

\* No two players of one configuration are given the same card.
DesiredConfig ==
  { c \in [url : Urls \cup {None}, want : [Players -> DesiredPlayer \cup {None}]] :
      \A p, q \in Players :
        (p # q /\ c.want[p] # None /\ c.want[q] # None)
          => c.want[p].output # c.want[q].output }

RestartKey == [url : Urls, output : Cards]

RunningPlayer ==
  [thread : Threads, key : RestartKey, lastDesired : LiveSettings, lastPushed : LiveSettings]

\* A spawned thread: what it was built with, its stop and settings channels
\* (`unseen`: a value it has yet to take), what its session plays with, and
\* whether the session's status changed since it was last reported.
AudioThread ==
  [owner : Players, key : RestartKey, phase : {"up", "ended"}, stop : BOOLEAN,
   inbox : LiveSettings, unseen : BOOLEAN, level : LiveSettings,
   conn : Conns \cup {"idle"}, dirty : BOOLEAN]

Snapshot == [state : Conns \cup {"idle", "error"}, volume : 0..MaxVolume,
             muted : BOOLEAN, delay : Delay]

\* VolumeRequest: `client` None means the device's first player.
VolumeRequest ==
  [client : Players \cup {None}, intent : {"step"}, by : Int]
    \cup [client : Players \cup {None}, intent : {"set"}, by : Nat]

ASSUME ConstantsAssumption ==
  /\ Players \subseteq Nat
  /\ MaxVolume \in Nat
  /\ MaxDelay \in Nat
  /\ QueueDepth \in Nat \ {0}
  /\ SessionsEnd \in BOOLEAN
  /\ LiveLevels \subseteq [volume : 0..MaxVolume, muted : BOOLEAN]

ASSUME ConfigsAssumption == Configs # {} /\ Configs \subseteq DesiredConfig

ASSUME PressesAssumption == Presses \subseteq VolumeRequest

ASSUME NoneAssumption ==
  /\ None \notin Players \cup Urls \cup Threads \cup Cards
  /\ None \notin RunningPlayer \cup AudioThread \cup Snapshot

-----------------------------------------------------------------------------
VARIABLES
  pc,       \* where the supervisor's `run` is
  desired,  \* the watch channel: the newest desired state ...
  changed,  \* ... and whether the supervisor has yet to see it
  stop,     \* the stop channel
  current,  \* the desired state being reconciled
  settled,  \* the desired state the last finished pass was about (not in the code)
  running,  \* the map of running players
  stale,    \* players still to be stopped
  joining,  \* the thread being joined
  todo,     \* wanted players still to be started or adjusted
  thread,   \* the audio threads
  registry, \* the status registry
  volumes,  \* the queue of volume requests
  present   \* the sound cards plugged in

pollVars == <<desired, changed, stop>>
vars == <<pc, pollVars, current, settled, running, stale, joining, todo, thread,
          registry, volumes, present>>

-----------------------------------------------------------------------------
(* Reading the desired state *)

Lesser(a, b) == IF a < b THEN a ELSE b
Greater(a, b) == IF a < b THEN b ELSE a

\* LiveSettings::from_desired: the level is capped, the rest copied.
FromDesired(conf) ==
  [volume |-> Lesser(conf.volume, MaxVolume), muted |-> conf.muted, delay |-> conf.delay]

\* DesiredPlayer::restart_key: what only a rebuild can change.
KeyOf(c, p) == [url |-> c.url, output |-> c.want[p].output]

\* No endpoint means no players, whatever the list says.
Wanted(c) == IF c.url = None THEN {} ELSE {p \in Players : c.want[p] # None}

Running == {p \in Players : running[p] # None}

\* Mutations of Stale: a changed key is overlooked; a changed level counts as
\* one.
StaleIgnoringKey(c) == {p \in Running : p \notin Wanted(c)}
StaleOnAnyChange(c) ==
  {p \in Running : ~(/\ p \in Wanted(c)
                     /\ running[p].key = KeyOf(c, p)
                     /\ running[p].lastDesired = FromDesired(c.want[p]))}

\* Keep exactly the running players whose key is the one wanted now.
Stale(c) == {p \in Running : ~(p \in Wanted(c) /\ running[p].key = KeyOf(c, p))}

Up(t) == thread[t] # None /\ thread[t].phase = "up"

-----------------------------------------------------------------------------
Init ==
  /\ pc = "top"
  /\ desired \in Configs
  /\ changed = FALSE
  /\ stop = FALSE
  /\ current = desired
  /\ settled = desired
  /\ running = [p \in Players |-> None]
  /\ stale = {}
  /\ joining = None
  /\ todo = {}
  /\ thread = [t \in Threads |-> None]
  /\ registry = [p \in Players |-> None]
  /\ volumes = <<>>
  /\ present = Cards

-----------------------------------------------------------------------------
(* The supervisor's loop *)

\* The top of the loop: take the newest desired state and work out which
\* players cannot stay. With no endpoint and nothing running, reconciling
\* players returns at once and touches nothing.
TakeDesired ==
  /\ pc = "top"
  /\ ~stop
  /\ current' = desired
  /\ changed' = FALSE
  /\ stale' = Stale(desired)
  /\ pc' = IF desired.url = None /\ Running = {} THEN "select" ELSE "stopping"
  /\ UNCHANGED <<desired, stop, settled, running, joining, todo, thread, registry, volumes, present>>

\* Mutation of StopPlayer: nobody waits for the thread.
StopPlayerUnjoined(p) ==
  /\ pc \in {"stopping", "teardown"}
  /\ p \in stale
  /\ stale' = stale \ {p}
  /\ thread' = [thread EXCEPT ![running[p].thread].stop = TRUE]
  /\ running' = [running EXCEPT ![p] = None]
  /\ UNCHANGED <<pc, pollVars, current, settled, joining, todo, registry, volumes, present>>

\* stop_player, first half: out of the map, and its thread is told to stop.
StopPlayer(p) ==
  /\ pc \in {"stopping", "teardown"}
  /\ joining = None
  /\ p \in stale
  /\ stale' = stale \ {p}
  /\ joining' = running[p].thread
  /\ thread' = [thread EXCEPT ![running[p].thread].stop = TRUE]
  /\ running' = [running EXCEPT ![p] = None]
  /\ UNCHANGED <<pc, pollVars, current, settled, todo, registry, volumes, present>>

\* stop_player, second half: the thread has ended and is joined.
JoinThread ==
  /\ joining # None
  /\ thread[joining].phase = "ended"
  /\ thread' = [thread EXCEPT ![joining] = None]
  /\ joining' = None
  /\ UNCHANGED <<pc, pollVars, current, settled, running, stale, todo, registry, volumes, present>>

Unregistered == [p \in Players |-> None]

\* Everything stale has stopped. Without an endpoint nothing is left to do.
EndStops ==
  /\ pc = "stopping"
  /\ stale = {}
  /\ joining = None
  /\ todo' = Wanted(current)
  /\ IF current.url = None
     THEN pc' = "select" /\ registry' = Unregistered
     ELSE pc' = "starting" /\ UNCHANGED registry
  /\ UNCHANGED <<pollVars, current, settled, running, stale, joining, thread, volumes, present>>

\* Mutation of Sent: the receiver is not told that there is something new.
SentQuietly(t, s) == IF Up(t) THEN [thread EXCEPT ![t].inbox = s] ELSE thread

\* watch::Sender::send to a thread: the newest value replaces an unseen one;
\* nobody is left to receive it once the thread has ended.
Sent(t, s) ==
  IF Up(t) THEN [thread EXCEPT ![t].inbox = s, ![t].unseen = TRUE] ELSE thread

\* Is the server asking this player for something it did not ask last time?
AsksAnew(p, s) == s # running[p].lastDesired

\* A wanted player that is running is handed its settings, but only when what
\* the server asks for is not what it asked for last time.
AdjustPlayer(p) ==
  /\ pc = "starting"
  /\ p \in todo
  /\ running[p] # None
  /\ todo' = todo \ {p}
  /\ LET s == FromDesired(current.want[p]) IN
       IF AsksAnew(p, s)
       THEN /\ running' = [running EXCEPT ![p].lastDesired = s, ![p].lastPushed = s]
            /\ thread' = Sent(running[p].thread, s)
       ELSE UNCHANGED <<running, thread>>
  /\ UNCHANGED <<pc, pollVars, current, settled, stale, joining, registry, volumes, present>>

Registered(p, state, s) ==
  [registry EXCEPT ![p] =
     [state |-> state, volume |-> s.volume, muted |-> s.muted, delay |-> s.delay]]

\* A wanted player that is not running, and its card is not there: registered
\* as an error, left out of the map, tried again on the next turn of the loop.
BuildFails(p) ==
  /\ pc = "starting"
  /\ p \in todo
  /\ running[p] = None
  /\ current.want[p].output \notin present
  /\ todo' = todo \ {p}
  /\ registry' = Registered(p, "error", FromDesired(current.want[p]))
  /\ UNCHANGED <<pc, pollVars, current, settled, running, stale, joining, thread, volumes, present>>

\* ... and its card is there: built, registered, and given a thread.
SpawnPlayer(p, t) ==
  /\ pc = "starting"
  /\ p \in todo
  /\ running[p] = None
  /\ current.want[p].output \in present
  /\ thread[t] = None
  /\ todo' = todo \ {p}
  /\ LET s == FromDesired(current.want[p])
         k == KeyOf(current, p)
     IN /\ registry' = Registered(p, "idle", s)
        /\ running' = [running EXCEPT ![p] =
                         [thread |-> t, key |-> k, lastDesired |-> s, lastPushed |-> s]]
        /\ thread' = [thread EXCEPT ![t] =
                        [owner |-> p, key |-> k, phase |-> "up", stop |-> FALSE,
                         inbox |-> s, unseen |-> FALSE, level |-> s,
                         conn |-> "idle", dirty |-> TRUE]]
  /\ UNCHANGED <<pc, pollVars, current, settled, stale, joining, volumes, present>>

\* Mutation of Retained: nothing is dropped.
RetainedAll == registry

\* Registry::retain: only the wanted players stay registered.
Retained == [p \in Players |-> IF p \in Wanted(current) THEN registry[p] ELSE None]

\* Every wanted player has been seen to; the others stop being reported.
EndStarts ==
  /\ pc = "starting"
  /\ todo = {}
  /\ pc' = "select"
  /\ registry' = Retained
  /\ settled' = current
  /\ UNCHANGED <<pollVars, current, running, stale, joining, todo, thread, volumes, present>>

\* The select's first arm: another desired state arrived.
SeeDesired ==
  /\ pc = "select"
  /\ changed
  /\ changed' = FALSE
  /\ pc' = "top"
  /\ UNCHANGED <<desired, stop, current, settled, running, stale, joining, todo, thread,
                 registry, volumes, present>>

Registry == {p \in Players : registry[p] # None}

\* Which player a volume request is for; None when there is none.
Target(r) ==
  IF r.client # None THEN r.client
  ELSE IF Registry = {} THEN None
  ELSE CHOOSE p \in Registry : \A q \in Registry : p <= q

\* The level a request asks for, from the one the player last reported.
Pressed(r, s, delay) ==
  [volume |-> IF r.intent = "step"
              THEN Greater(0, Lesser(MaxVolume, s.volume + r.by))
              ELSE Lesser(MaxVolume, r.by),
   muted |-> FALSE,
   delay |-> delay]

\* Mutation of Reported: stepped from what was pushed.
ReportedAsPushed(p) == running[p].lastPushed

\* Registry::player_volume, or what was pushed when nothing is registered.
Reported(p) == IF registry[p] # None THEN registry[p] ELSE running[p].lastPushed

\* Mutation of ApplyVolume: what was pressed counts as what the server asked.
ApplyVolumeAsAsked ==
  /\ pc = "select"
  /\ volumes # <<>>
  /\ volumes' = Tail(volumes)
  /\ pc' = "top"
  /\ LET p == Target(Head(volumes)) IN
       IF p \in Running
       THEN LET next == Pressed(Head(volumes), Reported(p), running[p].lastPushed.delay) IN
              IF next = running[p].lastPushed
              THEN UNCHANGED <<running, thread>>
              ELSE /\ running' = [running EXCEPT ![p].lastPushed = next, ![p].lastDesired = next]
                   /\ thread' = Sent(running[p].thread, next)
       ELSE UNCHANGED <<running, thread>>
  /\ UNCHANGED <<pollVars, current, settled, stale, joining, todo, registry, present>>

\* The third arm: apply_volume. A level already pushed is not pushed again.
ApplyVolume ==
  /\ pc = "select"
  /\ volumes # <<>>
  /\ volumes' = Tail(volumes)
  /\ pc' = "top"
  /\ LET p == Target(Head(volumes)) IN
       IF p \in Running
       THEN LET next == Pressed(Head(volumes), Reported(p), running[p].lastPushed.delay) IN
              IF next = running[p].lastPushed
              THEN UNCHANGED <<running, thread>>
              ELSE /\ running' = [running EXCEPT ![p].lastPushed = next]
                   /\ thread' = Sent(running[p].thread, next)
       ELSE UNCHANGED <<running, thread>>
  /\ UNCHANGED <<pollVars, current, settled, stale, joining, todo, registry, present>>

\* Mutation of SeeStop: `run` returns without stopping anything.
SeeStopAndReturn ==
  /\ pc \in {"top", "select"}
  /\ stop
  /\ pc' = "done"
  /\ registry' = Unregistered
  /\ UNCHANGED <<pollVars, current, settled, running, stale, joining, todo, thread, volumes, present>>

\* The second arm, and the check at the top of the loop: a stop ends the loop.
SeeStop ==
  /\ pc \in {"top", "select"}
  /\ stop
  /\ pc' = "teardown"
  /\ stale' = Running
  /\ UNCHANGED <<pollVars, current, settled, running, joining, todo, thread, registry, volumes, present>>

\* After the loop: every player is stopped, then nothing is reported.
EndTeardown ==
  /\ pc = "teardown"
  /\ stale = {}
  /\ joining = None
  /\ pc' = "done"
  /\ registry' = Unregistered
  /\ UNCHANGED <<pollVars, current, settled, running, stale, joining, todo, thread, volumes, present>>

\* main's outer loop: the device registers again and the supervisor runs anew,
\* on fresh channels and with an empty map, but with the same registry.
Reattach ==
  /\ pc = "done"
  /\ pc' = "top"
  /\ desired' \in Configs
  /\ current' = desired'
  /\ settled' = desired'
  /\ changed' = FALSE
  /\ stop' = FALSE
  /\ volumes' = <<>>
  /\ running' = [p \in Players |-> None]
  /\ UNCHANGED <<stale, joining, todo, thread, registry, present>>

Supervisor ==
  \/ TakeDesired
  \/ \E p \in Players : StopPlayer(p)
  \/ JoinThread
  \/ EndStops
  \/ \E p \in Players : AdjustPlayer(p) \/ BuildFails(p)
  \/ \E p \in Players, t \in Threads : SpawnPlayer(p, t)
  \/ EndStarts
  \/ SeeDesired
  \/ ApplyVolume
  \/ SeeStop
  \/ EndTeardown
  \/ Reattach

-----------------------------------------------------------------------------
(* The audio threads *)

\* PlayerHandle::update: a player that is no longer registered is not written.
Noted(p, snapshot) ==
  IF registry[p] = None THEN registry ELSE [registry EXCEPT ![p] = snapshot]

\* Mutation of Said: the level is not part of the report.
SaidWithoutLevel(t) == [registry[thread[t].owner] EXCEPT !.state = thread[t].conn]

\* The snapshot of a player after its thread reported: the connection's state,
\* or "error" while the session has a last error, and the level either way.
Said(t) ==
  [registry[thread[t].owner] EXCEPT !.state = thread[t].conn,
                                    !.volume = thread[t].level.volume,
                                    !.muted = thread[t].level.muted]

\* `report`: what the session says about itself goes to the registry.
ReportStatus(t) ==
  /\ Up(t)
  /\ thread[t].dirty
  /\ thread' = [thread EXCEPT ![t].dirty = FALSE]
  /\ registry' = Noted(thread[t].owner, Said(t))
  /\ UNCHANGED <<pc, pollVars, current, settled, running, stale, joining, todo, volumes, present>>

\* The settings arm: delay and level go to the session, which reports back.
TakeSettings(t) ==
  /\ Up(t)
  /\ thread[t].unseen
  /\ thread' = [thread EXCEPT ![t].unseen = FALSE, ![t].level = thread[t].inbox,
                              ![t].dirty = TRUE]
  /\ LET p == thread[t].owner IN
       registry' = Noted(p, [registry[p] EXCEPT !.delay = thread[t].inbox.delay])
  /\ UNCHANGED <<pc, pollVars, current, settled, running, stale, joining, todo, volumes, present>>

\* The stop arm: the session is dropped, which closes the card.
SeeThreadStop(t) ==
  /\ Up(t)
  /\ thread[t].stop
  /\ thread' = [thread EXCEPT ![t].phase = "ended"]
  /\ UNCHANGED <<pc, pollVars, current, settled, running, stale, joining, todo, registry, volumes, present>>

\* The session arm: the session gave up for good, with an error or quietly.
SessionEnds(t) ==
  /\ SessionsEnd
  /\ Up(t)
  /\ thread' = [thread EXCEPT ![t].phase = "ended"]
  /\ LET p == thread[t].owner IN
       registry' \in {registry, Noted(p, [registry[p] EXCEPT !.state = "error"])}
  /\ UNCHANGED <<pc, pollVars, current, settled, running, stale, joining, todo, volumes, present>>

\* The session itself: the server connects, plays, or moves the level live.
SessionMoves(t) ==
  /\ Up(t)
  /\ \/ \E c \in Conns :
          thread' = [thread EXCEPT ![t].conn = c, ![t].dirty = TRUE]
     \/ \E l \in LiveLevels :
          thread' = [thread EXCEPT ![t].level.volume = l.volume,
                                   ![t].level.muted = l.muted, ![t].dirty = TRUE]
  /\ UNCHANGED <<pc, pollVars, current, settled, running, stale, joining, todo, registry, volumes, present>>

AudioThreads ==
  \E t \in Threads :
    ReportStatus(t) \/ TakeSettings(t) \/ SeeThreadStop(t) \/ SessionEnds(t) \/ SessionMoves(t)

-----------------------------------------------------------------------------
(* Everything around them *)

\* Mutation of Poll: a desired state that did not change is not handed over.
PollOnlyChanges ==
  /\ pc # "done"
  /\ ~stop
  /\ desired' \in Configs
  /\ changed' = (changed \/ desired' # desired)
  /\ UNCHANGED <<pc, stop, current, settled, running, stale, joining, todo, thread,
                 registry, volumes, present>>

\* The status loop hands over the desired state of one poll, changed or not.
Poll ==
  /\ pc # "done"
  /\ ~stop
  /\ desired' \in Configs
  /\ changed' = TRUE
  /\ UNCHANGED <<pc, stop, current, settled, running, stale, joining, todo, thread,
                 registry, volumes, present>>

\* The status loop gives the server up and returns.
StopPolling ==
  /\ pc # "done"
  /\ ~stop
  /\ stop' = TRUE
  /\ UNCHANGED <<pc, desired, changed, current, settled, running, stale, joining, todo,
                 thread, registry, volumes, present>>

\* The remote or a phone asks for a level; a full queue makes it wait.
Press ==
  /\ pc # "done"
  /\ Len(volumes) < QueueDepth
  /\ \E r \in Presses : volumes' = Append(volumes, r)
  /\ UNCHANGED <<pc, pollVars, current, settled, running, stale, joining, todo, thread,
                 registry, present>>

\* A card is plugged in or pulled out.
Plug ==
  /\ \E card \in Cards :
       present' = IF card \in present THEN present \ {card} ELSE present \cup {card}
  /\ UNCHANGED <<pc, pollVars, current, settled, running, stale, joining, todo, thread,
                 registry, volumes>>

Next == Supervisor \/ AudioThreads \/ Poll \/ StopPolling \/ Press \/ Plug

Spec == Init /\ [][Next]_vars

\* The supervisor's task and every audio thread keep being scheduled, a ready
\* arm of a select is eventually taken, and the status loop keeps polling.
\* Nothing is asked of the server, of the remote, or of whoever pulls cables.
Fairness ==
  /\ WF_vars(Supervisor)
  /\ \A t \in Threads :
       WF_vars(ReportStatus(t)) /\ WF_vars(TakeSettings(t)) /\ WF_vars(SeeThreadStop(t))
  /\ WF_vars(Poll /\ UNCHANGED desired)

FairSpec == Spec /\ Fairness

-----------------------------------------------------------------------------
(* Properties *)

TypeOK ==
  /\ pc \in {"top", "stopping", "starting", "select", "teardown", "done"}
  /\ desired \in Configs
  /\ current \in Configs
  /\ settled \in Configs
  /\ changed \in BOOLEAN
  /\ stop \in BOOLEAN
  /\ running \in [Players -> RunningPlayer \cup {None}]
  /\ stale \subseteq Players
  /\ joining \in Threads \cup {None}
  /\ todo \subseteq Players
  /\ thread \in [Threads -> AudioThread \cup {None}]
  /\ registry \in [Players -> Snapshot \cup {None}]
  /\ volumes \in Seq(Presses)
  /\ present \subseteq Cards

\* Two threads never have the same sound card open, and a player never has
\* two threads: a replacement is only spawned once the thread it replaces, or
\* the one that had its card, has ended (supervisor.rs: "Waiting for the
\* thread matters: the replacement opens the same sound card").
OneThreadPerCard ==
  \A t, u \in Threads :
    t # u /\ Up(t) /\ Up(u) =>
      /\ thread[t].key.output # thread[u].key.output
      /\ thread[t].owner # thread[u].owner

\* Whenever the supervisor goes to sleep, what it runs is what it was last
\* asked for: every player in its map is wanted, by that very key, and was
\* given the settings asked for; and a wanted player that is missing from the
\* map is on show as an error. While there is an endpoint, the rooms reported
\* are exactly the rooms wanted.
SettledAsDesired ==
  pc = "select" =>
    /\ Stale(current) = {}
    /\ current.url # None => Registry = Wanted(current)
    /\ \A p \in Running : running[p].lastDesired = FromDesired(current.want[p])
    /\ \A p \in Wanted(current) \ Running :
         registry[p] # None /\ registry[p].state = "error"

\* While the supervisor sleeps, no thread is up that the map does not know of,
\* and once `run` has returned none is up at all: nothing plays on for a server
\* the device has left, and nothing is reported of it.
NoOrphanThread ==
  /\ pc = "select" =>
       \A t \in Threads : Up(t) =>
         /\ running[thread[t].owner] # None
         /\ running[thread[t].owner].thread = t
         /\ running[thread[t].owner].key = thread[t].key
  /\ pc = "done" => /\ \A t \in Threads : ~Up(t)
                    /\ registry = Unregistered

\* A thread is only told to stop for a reason a live player cannot absorb: its
\* player is no longer wanted, is wanted with another key, or the supervisor
\* is leaving. A new level, mute or delay never costs a restart.
OnlyRebuildsInterrupt ==
  [][\A t \in Threads :
       Up(t) /\ ~thread[t].stop /\ thread'[t] # None /\ thread'[t].stop =>
         \/ pc = "teardown"
         \/ thread[t].owner \notin Wanted(current)
         \/ thread[t].key # KeyOf(current, thread[t].owner)]_vars

\* What a session plays with is what the supervisor believes it pushed last,
\* but for a value on its way and for what the server did live: with no live
\* changes, a thread that has seen everything plays the last level pushed.
PlaysWhatWasPushed ==
  LiveLevels = {} =>
    \A p \in Running :
      LET t == running[p].thread IN
        Up(t) => /\ thread[t].inbox = running[p].lastPushed
                 /\ ~thread[t].unseen => thread[t].level = running[p].lastPushed

\* A press moves the level a player reported last by no more than its step,
\* whatever the server configured or set meanwhile: no jump.
PressNeverJumps ==
  [][\A p \in Players :
       (/\ pc = "select" /\ volumes # <<>> /\ volumes' = Tail(volumes)
        /\ Head(volumes).intent = "step"
        /\ p \in Running /\ registry[p] # None
        /\ running'[p] # running[p])
       => LET by == Head(volumes).by
              moved == running'[p].lastPushed.volume - registry[p].volume
          IN IF by < 0 THEN by <= moved /\ moved <= 0 ELSE 0 <= moved /\ moved <= by]_vars

\* What c asks of p differs from what was asked when the last pass ended, by
\* the desired states themselves.
AskedAnew(c, p) ==
  p \in Wanted(settled) /\ FromDesired(c.want[p]) # FromDesired(settled.want[p])

\* The thread of p is handed something to play with.
Handed(p) ==
  /\ running[p] # None
  /\ Up(running[p].thread)
  /\ LET t == running[p].thread IN
       /\ thread'[t] # None
       /\ \/ thread'[t].inbox # thread[t].inbox
          \/ thread'[t].unseen /\ ~thread[t].unseen

\* The level is "a seed, not a setpoint" (PROTOCOL.md): however often it is
\* polled, and whatever was pressed, reported or set live since, a thread is
\* only handed the server's settings when the server asks for others than in
\* the pass before. What was pressed is not undone by asking the same again
\* (reconcile, apply_volume).
SeedNotSetpoint ==
  [][\A p \in Players :
       Handed(p) /\ volumes' = volumes
         => pc = "starting" /\ p \in todo /\ AskedAnew(current, p)]_vars

-----------------------------------------------------------------------------
(* What comments of the source say, and the code does not do *)

\* "A press on a muted speaker means 'let me hear it'" (supervisor.rs): after a
\* request for a running player that reports itself muted, the player is on
\* its way to being heard.
PressUnmutes ==
  [][\A p \in Players :
       (/\ pc = "select" /\ volumes # <<>> /\ volumes' = Tail(volumes)
        /\ Target(Head(volumes)) = p /\ p \in Running
        /\ Up(running[p].thread) /\ registry[p] # None /\ registry[p].muted)
       => LET t == thread'[running[p].thread] IN t.unseen /\ ~t.inbox.muted]_vars

\* "Drop players the server no longer wants, so a removed room stops being
\* reported" (status.rs).
RemovedRoomsAreNotReported == pc = "select" => Registry \subseteq Wanted(current)

-----------------------------------------------------------------------------
(* Liveness *)

\* The server has stopped changing its mind.
Steady == <>[]~stop /\ <>[][FALSE]_desired

\* Does the thread of p play what c asks for it?
Serves(c, p) ==
  /\ running[p] # None
  /\ Up(running[p].thread)
  /\ running[p].key = KeyOf(c, p)
  /\ running[p].lastDesired = FromDesired(c.want[p])

\* Nothing keeps p from playing: its card stays plugged in, and no session of its
\* ends and leaves its entry in the map, where nobody looks at it again.
Playable(p) ==
  /\ p \in Wanted(desired) => desired.want[p].output \in present
  /\ running[p] # None => Up(running[p].thread)

\* Once the server stops changing its mind, a player that can play ends up
\* running as asked, for good; one that is not asked for ends up gone.
EventuallyAsDesired ==
  \A p \in Players :
    (Steady /\ <>[]Playable(p)) =>
      <>[](IF p \in Wanted(desired) THEN Serves(desired, p) ELSE running[p] = None)

\* What is reported of a player catches up with what it plays: if a thread's
\* level stays put, the report ends up showing it.
ReportCatchesUp ==
  \A t \in Threads, p \in Players, v \in 0..MaxVolume :
    <>[](Up(t) /\ thread[t].owner = p /\ thread[t].level.volume = v /\ ~stop)
      => <>[](registry[p] # None /\ registry[p].volume = v)

-----------------------------------------------------------------------------
(* Refinement: what each room plays through, as an observer of the device    *)
(* sees it.                                                                  *)

Playing ==
  [p \in Players |->
     IF \E t \in Threads : Up(t) /\ thread[t].owner = p
     THEN thread[CHOOSE t \in Threads : Up(t) /\ thread[t].owner = p].key.output
     ELSE None]

S == INSTANCE Speakers WITH Rooms <- Players, Silent <- None, playing <- Playing

\* Every step of the supervisor and its threads takes a card nobody has, gives
\* one back, or is invisible to the rooms.
ImplementsSpeakers == S!Spec
====
