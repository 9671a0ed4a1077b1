----------------------- MODULE PlayerSupervisor_proofs ----------------------
(***************************************************************************)
(* Theorems about PlayerSupervisor, for every set of players, cards,       *)
(* threads and configurations.                                             *)
(*                                                                         *)
(* OneThreadPerCard is not inductive: it says nothing of the map the       *)
(* supervisor spawns from.  What makes it so is that every thread that     *)
(* exists is accounted for -- it is in the map, under its owner and with   *)
(* its key, or it is the one being joined --, that the keys in the map     *)
(* name different cards, and that by the time anything is spawned the map  *)
(* holds nothing but what the configuration being reconciled asks for.     *)
(***************************************************************************)
EXTENDS PlayerSupervisor, FiniteSetTheorems, TLAPS

\* Every thread is in the map or being joined, and the map tells the truth
\* about the threads in it.
Accounted ==
  /\ \A p \in Players : running[p] # None =>
       /\ thread[running[p].thread] # None
       /\ thread[running[p].thread].owner = p
       /\ thread[running[p].thread].key = running[p].key
       /\ running[p].thread # joining
  /\ \A t \in Threads : thread[t] # None =>
       \/ t = joining
       \/ /\ running[thread[t].owner] # None
          /\ running[thread[t].owner].thread = t
  /\ joining # None => thread[joining] # None

\* The map's players, and the thread being joined, have cards of their own.
CardsDiffer ==
  /\ \A p, q \in Players :
       p # q /\ running[p] # None /\ running[q] # None
         => running[p].key.output # running[q].key.output
  /\ joining # None =>
       \A p \in Players : running[p] # None =>
         /\ p # thread[joining].owner
         /\ running[p].key.output # thread[joining].key.output

\* Whatever is not stale is what the configuration asks for.
KeptAsWanted ==
  \A p \in Players :
    running[p] # None /\ p \notin stale =>
      p \in Wanted(current) /\ running[p].key = KeyOf(current, p)

\* Whatever is stale cannot be kept.
StaleForAReason ==
  \A p \in stale : ~(p \in Wanted(current) /\ running[p].key = KeyOf(current, p))

\* What the supervisor knows at each place of its loop.
Phases ==
  /\ \A p \in stale : running[p] # None
  /\ joining # None => pc \in {"stopping", "teardown"}
  /\ pc \in {"stopping", "starting"} => KeptAsWanted
  /\ pc = "stopping" => StaleForAReason
  /\ pc = "starting" => stale = {} /\ todo \subseteq Wanted(current)

\* Leaving, the supervisor stops all it has; having left, it has and reports
\* nothing.
Leaving ==
  /\ pc = "teardown" => \A p \in Players : running[p] # None => p \in stale
  /\ pc = "done" => running = [p \in Players |-> None] /\ registry = Unregistered

IInv == TypeOK /\ Accounted /\ CardsDiffer /\ Phases /\ Leaving

USE DEF pollVars

-----------------------------------------------------------------------------
(* What the operators of the model return *)

\* from_desired brings every configured level into range.
LEMMA FromDesiredType ==
  ASSUME NEW conf \in DesiredPlayer
  PROVE  FromDesired(conf) \in LiveSettings
BY ConstantsAssumption DEF FromDesired, Lesser, DesiredPlayer, LiveSettings, Delay

\* A request moves the level within the scale.
LEMMA PressedType ==
  ASSUME NEW r \in VolumeRequest, NEW s, s.volume \in 0..MaxVolume, NEW d \in Delay
  PROVE  Pressed(r, s, d) \in LiveSettings
BY ConstantsAssumption DEF Pressed, Lesser, Greater, VolumeRequest, LiveSettings

\* A configuration's wanted players are configured, on cards of their own.
LEMMA WantedConf ==
  ASSUME NEW c \in Configs
  PROVE  /\ Wanted(c) \subseteq Players
         /\ \A p \in Wanted(c) : c.want[p] \in DesiredPlayer /\ KeyOf(c, p) \in RestartKey
         /\ \A p, q \in Wanted(c) : p # q => KeyOf(c, p).output # KeyOf(c, q).output
BY ConfigsAssumption DEF Wanted, DesiredConfig, KeyOf, RestartKey, DesiredPlayer

\* `run` starts with an empty map, no thread and nothing registered.
LEMMA InitIInv == Init => IInv
<1> SUFFICES ASSUME Init PROVE IInv
  OBVIOUS
<1>1. TypeOK
  <2>1. volumes \in Seq(Presses)
    BY DEF Init
  <2>2. running \in [Players -> RunningPlayer \cup {None}]
    BY DEF Init
  <2>3. thread \in [Threads -> AudioThread \cup {None}]
    BY DEF Init
  <2>4. registry \in [Players -> Snapshot \cup {None}]
    BY DEF Init
  <2> QED
    BY <2>1, <2>2, <2>3, <2>4 DEF Init, TypeOK
<1>2. Accounted /\ CardsDiffer /\ Phases /\ Leaving
  BY DEF Init, Accounted, CardsDiffer, Phases, Leaving
<1> QED
  BY <1>1, <1>2 DEF IInv

-----------------------------------------------------------------------------
(* The supervisor's steps *)

\* Away from the end of `run`, nothing is claimed about leaving.
LEMMA LeavingNotYet ==
  ASSUME pc' \notin {"teardown", "done"}
  PROVE  Leaving'
BY DEF Leaving

\* A step that leaves the map alone, and an empty registry empty, keeps what
\* is known on the way out.
LEMMA LeavingKept ==
  ASSUME Leaving, UNCHANGED <<pc, running, stale>>,
         registry = Unregistered => registry' = Unregistered
  PROVE  Leaving'
BY DEF Leaving

\* Reading the watch channel makes stale every player that is not kept.
LEMMA TakeDesiredIInv == IInv /\ TakeDesired => IInv'
<1> SUFFICES ASSUME IInv, TakeDesired PROVE IInv'
  OBVIOUS
<1> USE DEF IInv, TakeDesired
<1>1. TypeOK'
  BY DEF TypeOK, Stale, Running
<1>2. Accounted' /\ CardsDiffer'
  BY DEF Accounted, CardsDiffer
<1>3. \A p \in stale' : running'[p] # None
  BY DEF Stale, Running
<1>4. KeptAsWanted'
  BY DEF KeptAsWanted, Stale, Running, Wanted, KeyOf
<1>5. Leaving'
  BY LeavingNotYet
<1>6. StaleForAReason'
  BY DEF StaleForAReason, Stale, Running, Wanted, KeyOf
<1> QED
  BY <1>5, <1>6, <1>1, <1>2, <1>3, <1>4 DEF Phases

\* A stopped player leaves the map and its thread is the one being joined.
LEMMA StopPlayerIInv == ASSUME NEW p \in Players PROVE IInv /\ StopPlayer(p) => IInv'
<1> SUFFICES ASSUME IInv, StopPlayer(p) PROVE IInv'
  OBVIOUS
<1> DEFINE t == running[p].thread
<1>1. running[p] \in RunningPlayer /\ t \in Threads /\ thread[t] \in AudioThread
  BY DEF IInv, TypeOK, Phases, Accounted, StopPlayer, RunningPlayer
<1>2. thread' = [thread EXCEPT ![t].stop = TRUE] /\ joining' = t
  BY DEF StopPlayer
<1>3. thread'[t] = [thread[t] EXCEPT !.stop = TRUE] /\ thread'[t] \in AudioThread
  BY <1>1, <1>2 DEF IInv, TypeOK, AudioThread
<1>4. \A u \in Threads : u # t => thread'[u] = thread[u]
  BY <1>1, <1>2 DEF IInv, TypeOK
<1>5. thread' \in [Threads -> AudioThread \cup {None}]
  BY <1>1, <1>2, <1>3, <1>4 DEF IInv, TypeOK
<1>6. /\ running' \in [Players -> RunningPlayer \cup {None}]
      /\ running'[p] = None
      /\ \A q \in Players : q # p => running'[q] = running[q]
  BY DEF StopPlayer, IInv, TypeOK
<1>7. TypeOK'
  BY <1>1, <1>2, <1>5, <1>6 DEF IInv, TypeOK, StopPlayer
<1>8. /\ thread'[t].owner = thread[t].owner
      /\ thread'[t].key = thread[t].key
      /\ thread'[t] # None
  BY <1>1, <1>3, NoneAssumption DEF AudioThread
<1>9. Accounted'
  <2>1. ASSUME NEW q \in Players, running'[q] # None
        PROVE  /\ thread'[running'[q].thread] # None
               /\ thread'[running'[q].thread].owner = q
               /\ thread'[running'[q].thread].key = running'[q].key
               /\ running'[q].thread # joining'
    <3>1. q # p /\ running'[q] = running[q] /\ running[q].thread \in Threads
      BY <1>6, <2>1 DEF IInv, TypeOK, RunningPlayer
    <3>2. /\ thread[running[q].thread] # None
          /\ thread[running[q].thread].owner = q
          /\ thread[running[q].thread].key = running[q].key
          /\ thread[t].owner = p
      BY <1>1, <2>1, <3>1, NoneAssumption DEF IInv, Accounted, RunningPlayer
    <3> QED
      BY <1>2, <1>4, <3>1, <3>2
  <2>2. ASSUME NEW u \in Threads, thread'[u] # None, u # joining'
        PROVE  running'[thread'[u].owner] # None /\ running'[thread'[u].owner].thread = u
    <3>1. u # t /\ thread'[u] = thread[u] /\ joining = None /\ u # None
      BY <1>2, <1>4, <2>2, NoneAssumption DEF StopPlayer
    <3>2. thread[u].owner \in Players
      BY <2>2, <3>1 DEF IInv, TypeOK, AudioThread
    <3>3. running[thread[u].owner] # None /\ running[thread[u].owner].thread = u
      BY <2>2, <3>1 DEF IInv, Accounted
    <3> QED
      BY <1>6, <3>1, <3>2, <3>3
  <2> QED
    BY <1>2, <1>8, <2>1, <2>2 DEF Accounted
<1>10. CardsDiffer'
  <2>1. ASSUME NEW q \in Players, running'[q] # None
        PROVE  q # p /\ running'[q] = running[q]
    BY <1>6, <2>1
  <2>2. thread'[joining'].owner = p /\ thread'[joining'].key = running[p].key
    BY <1>1, <1>2, <1>8, NoneAssumption DEF IInv, Accounted
  <2>3. running[p] # None
    BY <1>1, NoneAssumption
  <2> QED
    BY <2>1, <2>2, <2>3 DEF IInv, CardsDiffer
<1>11. Phases'
  BY <1>1, <1>6 DEF IInv, Phases, StopPlayer, KeptAsWanted, StaleForAReason, Wanted, KeyOf
<1>12. Leaving'
  BY <1>6 DEF IInv, Leaving, StopPlayer
<1> QED
  BY <1>7, <1>9, <1>10, <1>11, <1>12 DEF IInv

\* Once joined, the thread is nobody's and its card is free.
LEMMA JoinThreadIInv == IInv /\ JoinThread => IInv'
<1> SUFFICES ASSUME IInv, JoinThread PROVE IInv'
  OBVIOUS
<1>1. /\ thread' \in [Threads -> AudioThread \cup {None}]
      /\ thread'[joining] = None
      /\ \A u \in Threads : u # joining => thread'[u] = thread[u]
  BY DEF JoinThread, IInv, TypeOK
<1>2. TypeOK'
  BY <1>1 DEF IInv, TypeOK, JoinThread
<1>3. Accounted'
  <2>1. ASSUME NEW q \in Players, running[q] # None
        PROVE  running[q].thread \in Threads /\ running[q].thread # joining
    BY <2>1 DEF IInv, TypeOK, RunningPlayer, Accounted
  <2>2. running' = running /\ joining' = None
    BY DEF JoinThread
  <2>3. ASSUME NEW u \in Threads, thread'[u] # None
        PROVE  u # joining /\ thread'[u] = thread[u]
    BY <1>1, <2>3
  <2> QED
    BY <1>1, <2>1, <2>2, <2>3, NoneAssumption DEF IInv, Accounted
<1>4. CardsDiffer'
  BY DEF IInv, CardsDiffer, JoinThread
<1>5. Phases'
  BY DEF IInv, Phases, JoinThread, KeptAsWanted, StaleForAReason, Wanted, KeyOf
<1>6. Leaving'
  BY LeavingKept DEF IInv, JoinThread
<1> QED
  BY <1>2, <1>3, <1>4, <1>5, <1>6 DEF IInv

-----------------------------------------------------------------------------
(* Steps that leave the map and the threads in place *)

\* The map names the same threads by the same keys, and the threads that exist
\* are the same, spawned for the same.
SameShape ==
  /\ joining' = joining
  /\ \A p \in Players :
       /\ (running'[p] = None) <=> (running[p] = None)
       /\ running[p] # None =>
            running'[p].thread = running[p].thread /\ running'[p].key = running[p].key
  /\ \A t \in Threads :
       /\ (thread'[t] = None) <=> (thread[t] = None)
       /\ thread[t] # None =>
            thread'[t].owner = thread[t].owner /\ thread'[t].key = thread[t].key

\* Such a step keeps every thread accounted for and every card apart.
LEMMA ShapeKept ==
  ASSUME TypeOK, Accounted, CardsDiffer, SameShape
  PROVE  Accounted' /\ CardsDiffer'
<1>1. \A p \in Players : running[p] # None => running[p].thread \in Threads
  BY DEF TypeOK, RunningPlayer
<1>2. \A t \in Threads : thread[t] # None => thread[t].owner \in Players
  BY DEF TypeOK, AudioThread
<1>3. joining # None => joining \in Threads
  BY DEF TypeOK
<1>4. Accounted'
  BY <1>1, <1>2, <1>3 DEF Accounted, SameShape
<1>5. CardsDiffer'
  <2>1. joining # None => thread[joining] # None
    BY DEF Accounted
  <2> QED
    BY <1>1, <1>3, <2>1 DEF CardsDiffer, SameShape
<1> QED
  BY <1>4, <1>5

\* Such a step keeps what is known at its place of the loop.
LEMMA PhasesKept ==
  ASSUME TypeOK, Phases, SameShape, UNCHANGED <<pc, current, stale>>, todo' \subseteq todo
  PROVE  Phases'
<1>1. \A p \in Players : running'[p] # None =>
        running[p] # None /\ running'[p].key = running[p].key
  BY DEF SameShape
<1>2. KeptAsWanted => KeptAsWanted'
  BY <1>1 DEF KeptAsWanted, Wanted, KeyOf
<1>8. StaleForAReason => StaleForAReason'
  BY <1>1 DEF StaleForAReason, Wanted, KeyOf, SameShape, TypeOK, Phases
<1>3. \A p \in stale' : running'[p] # None
  BY DEF SameShape, Phases, TypeOK
<1>4. Wanted(current)' = Wanted(current)
  BY DEF Wanted
<1>5. joining' # None => pc' \in {"stopping", "teardown"}
  BY DEF Phases, SameShape
<1>6. pc' \in {"stopping", "starting"} => KeptAsWanted'
  BY <1>2 DEF Phases
<1>9. pc' = "stopping" => StaleForAReason'
  BY <1>8 DEF Phases
<1>7. pc' = "starting" => stale' = {} /\ todo' \subseteq Wanted(current)'
  BY <1>4 DEF Phases
<1> QED
  BY <1>3, <1>5, <1>6, <1>7, <1>9 DEF Phases

\* At the top of the loop, and asleep in the select, nothing is known of the
\* map but that no stop is under way.
LEMMA PhasesAwake ==
  ASSUME TypeOK, Phases, SameShape, pc = "select", pc' = "top", UNCHANGED stale
  PROVE  Phases'
BY DEF Phases, SameShape, TypeOK

\* A thread's record is replaced by one spawned for the same, and the map is
\* left alone.
LEMMA ThreadChange ==
  ASSUME NEW t \in Threads, NEW r \in AudioThread, TypeOK, thread[t] # None,
         r.owner = thread[t].owner, r.key = thread[t].key,
         thread' = [thread EXCEPT ![t] = r]
  PROVE  thread' \in [Threads -> AudioThread \cup {None}]
         /\ (UNCHANGED <<running, joining>> => SameShape)
         /\ \A u \in Threads : /\ (thread'[u] = None) <=> (thread[u] = None)
                               /\ thread[u] # None => /\ thread'[u].owner = thread[u].owner
                                                      /\ thread'[u].key = thread[u].key
BY NoneAssumption DEF TypeOK, SameShape

\* Sending settings to a thread changes what is in its channel, nothing else.
LEMMA SentShape ==
  ASSUME NEW t \in Threads, NEW s \in LiveSettings, TypeOK, thread' = Sent(t, s)
  PROVE  thread' \in [Threads -> AudioThread \cup {None}]
         /\ \A u \in Threads : /\ (thread'[u] = None) <=> (thread[u] = None)
                               /\ thread[u] # None => /\ thread'[u].owner = thread[u].owner
                                                      /\ thread'[u].key = thread[u].key
<1>1. CASE Up(t)
  <2> DEFINE r == [thread[t] EXCEPT !.inbox = s, !.unseen = TRUE]
  <2>1. thread[t] \in AudioThread /\ thread[t] # None
    BY <1>1 DEF Up, TypeOK
  <2>2. r \in AudioThread /\ r.owner = thread[t].owner /\ r.key = thread[t].key
    BY <2>1 DEF AudioThread
  <2>3. thread' = [thread EXCEPT ![t] = r]
    BY <1>1 DEF Sent
  <2> QED
    BY <2>1, <2>2, <2>3, ThreadChange
<1>2. CASE ~Up(t)
  BY <1>2 DEF Sent, TypeOK
<1> QED
  BY <1>1, <1>2

\* A write to the registry keeps its type.
LEMMA NotedType ==
  ASSUME NEW p \in Players, NEW s, TypeOK, registry[p] # None => s \in Snapshot
  PROVE  Noted(p, s) \in [Players -> Snapshot \cup {None}]
BY DEF Noted, TypeOK

\* A write to the registry never brings a player back.
LEMMA NotedUnregistered ==
  ASSUME NEW p \in Players, NEW s, registry = Unregistered
  PROVE  Noted(p, s) = Unregistered
BY DEF Noted, Unregistered

\* `report` writes to the registry only.
LEMMA ReportStatusIInv == ASSUME NEW t \in Threads PROVE IInv /\ ReportStatus(t) => IInv'
<1> SUFFICES ASSUME IInv, ReportStatus(t) PROVE IInv'
  OBVIOUS
<1> DEFINE r == [thread[t] EXCEPT !.dirty = FALSE]
           p == thread[t].owner
<1>1. thread[t] \in AudioThread /\ thread[t] # None
  BY DEF ReportStatus, Up, IInv, TypeOK
<1>2. r \in AudioThread /\ r.owner = thread[t].owner /\ r.key = thread[t].key
  BY <1>1 DEF AudioThread
<1>3. thread' \in [Threads -> AudioThread \cup {None}] /\ SameShape
  BY <1>1, <1>2, ThreadChange DEF IInv, ReportStatus
<1>4. registry' \in [Players -> Snapshot \cup {None}]
  <2>1. p \in Players /\ thread[t].level \in LiveSettings /\ thread[t].conn \in Conns \cup {"idle"}
    BY <1>1 DEF AudioThread
  <2>2. ASSUME registry[p] # None PROVE Said(t) \in Snapshot
    BY <2>1, <2>2 DEF Said, Snapshot, LiveSettings, IInv, TypeOK
  <2> QED
    BY <2>1, <2>2, NotedType DEF ReportStatus, IInv
<1>5. TypeOK'
  BY <1>3, <1>4 DEF IInv, TypeOK, ReportStatus
<1>6. Leaving'
  <2>1. p \in Players
    BY <1>1 DEF AudioThread
  <2> QED
    BY <2>1, LeavingKept, NotedUnregistered DEF IInv, ReportStatus
<1> QED
  BY <1>6, <1>3, <1>5, ShapeKept, PhasesKept DEF IInv, ReportStatus

\* The settings arm changes what a thread plays, not whose it is.
LEMMA TakeSettingsIInv == ASSUME NEW t \in Threads PROVE IInv /\ TakeSettings(t) => IInv'
<1> SUFFICES ASSUME IInv, TakeSettings(t) PROVE IInv'
  OBVIOUS
<1> DEFINE r == [thread[t] EXCEPT !.unseen = FALSE, !.level = thread[t].inbox, !.dirty = TRUE]
           p == thread[t].owner
<1>1. thread[t] \in AudioThread /\ thread[t] # None
  BY DEF TakeSettings, Up, IInv, TypeOK
<1>2. r \in AudioThread /\ r.owner = thread[t].owner /\ r.key = thread[t].key
  BY <1>1 DEF AudioThread
<1>3. thread' \in [Threads -> AudioThread \cup {None}] /\ SameShape
  BY <1>1, <1>2, ThreadChange DEF IInv, TakeSettings
<1>4. registry' \in [Players -> Snapshot \cup {None}]
  <2>1. p \in Players /\ thread[t].inbox \in LiveSettings
    BY <1>1 DEF AudioThread
  <2>2. ASSUME registry[p] # None
        PROVE  [registry[p] EXCEPT !.delay = thread[t].inbox.delay] \in Snapshot
    BY <2>1, <2>2 DEF Snapshot, LiveSettings, IInv, TypeOK
  <2> QED
    BY <2>1, <2>2, NotedType DEF TakeSettings, IInv
<1>5. TypeOK'
  BY <1>3, <1>4 DEF IInv, TypeOK, TakeSettings
<1>6. Leaving'
  <2>1. p \in Players
    BY <1>1 DEF AudioThread
  <2> QED
    BY <2>1, LeavingKept, NotedUnregistered DEF IInv, TakeSettings
<1> QED
  BY <1>6, <1>3, <1>5, ShapeKept, PhasesKept DEF IInv, TakeSettings

\* The stop arm ends the thread; the supervisor has yet to join it.
LEMMA SeeThreadStopIInv == ASSUME NEW t \in Threads PROVE IInv /\ SeeThreadStop(t) => IInv'
<1> SUFFICES ASSUME IInv, SeeThreadStop(t) PROVE IInv'
  OBVIOUS
<1> DEFINE r == [thread[t] EXCEPT !.phase = "ended"]
<1>1. thread[t] \in AudioThread /\ thread[t] # None
  BY DEF SeeThreadStop, Up, IInv, TypeOK
<1>2. r \in AudioThread /\ r.owner = thread[t].owner /\ r.key = thread[t].key
  BY <1>1 DEF AudioThread
<1>3. thread' \in [Threads -> AudioThread \cup {None}] /\ SameShape
  BY <1>1, <1>2, ThreadChange DEF IInv, SeeThreadStop
<1>4. TypeOK'
  BY <1>3 DEF IInv, TypeOK, SeeThreadStop
<1>6. Leaving'
  BY LeavingKept DEF IInv, SeeThreadStop
<1> QED
  BY <1>6, <1>3, <1>4, ShapeKept, PhasesKept DEF IInv, SeeThreadStop

\* A session that gives up ends its thread, which stays in the map.
LEMMA SessionEndsIInv == ASSUME NEW t \in Threads PROVE IInv /\ SessionEnds(t) => IInv'
<1> SUFFICES ASSUME IInv, SessionEnds(t) PROVE IInv'
  OBVIOUS
<1> DEFINE r == [thread[t] EXCEPT !.phase = "ended"]
           p == thread[t].owner
<1>1. thread[t] \in AudioThread /\ thread[t] # None
  BY DEF SessionEnds, Up, IInv, TypeOK
<1>2. r \in AudioThread /\ r.owner = thread[t].owner /\ r.key = thread[t].key
  BY <1>1 DEF AudioThread
<1>3. thread' \in [Threads -> AudioThread \cup {None}] /\ SameShape
  BY <1>1, <1>2, ThreadChange DEF IInv, SessionEnds
<1>4. registry' \in [Players -> Snapshot \cup {None}]
  <2>1. p \in Players
    BY <1>1 DEF AudioThread
  <2>2. ASSUME registry[p] # None
        PROVE  [registry[p] EXCEPT !.state = "error"] \in Snapshot
    BY <2>1, <2>2 DEF Snapshot, IInv, TypeOK
  <2>3. registry \in [Players -> Snapshot \cup {None}]
    BY DEF IInv, TypeOK
  <2> QED
    BY <2>1, <2>2, <2>3, NotedType DEF SessionEnds, IInv
<1>5. TypeOK'
  BY <1>3, <1>4 DEF IInv, TypeOK, SessionEnds
<1>6. Leaving'
  <2>1. p \in Players
    BY <1>1 DEF AudioThread
  <2> QED
    BY <2>1, LeavingKept, NotedUnregistered DEF IInv, SessionEnds
<1> QED
  BY <1>6, <1>3, <1>5, ShapeKept, PhasesKept DEF IInv, SessionEnds

\* What the session does by itself changes no thread's owner or card.
LEMMA SessionMovesIInv == ASSUME NEW t \in Threads PROVE IInv /\ SessionMoves(t) => IInv'
<1> SUFFICES ASSUME IInv, SessionMoves(t) PROVE IInv'
  OBVIOUS
<1>0. UNCHANGED <<running, joining>> /\ TypeOK
  BY DEF SessionMoves, IInv
<1>1. thread[t] \in AudioThread /\ thread[t] # None
  BY DEF SessionMoves, Up, IInv, TypeOK
<1>2. thread' \in [Threads -> AudioThread \cup {None}] /\ SameShape
  <2>1. ASSUME NEW c \in Conns, thread' = [thread EXCEPT ![t].conn = c, ![t].dirty = TRUE]
        PROVE  thread' \in [Threads -> AudioThread \cup {None}] /\ SameShape
    <3> DEFINE r == [thread[t] EXCEPT !.conn = c, !.dirty = TRUE]
    <3>1. r \in AudioThread /\ r.owner = thread[t].owner /\ r.key = thread[t].key
      BY <1>1 DEF AudioThread
    <3>2. thread' = [thread EXCEPT ![t] = r]
      BY <2>1
    <3> QED
      BY <1>0, <1>1, <3>1, <3>2, ThreadChange
  <2>2. ASSUME NEW l \in LiveLevels,
               thread' = [thread EXCEPT ![t].level.volume = l.volume,
                                        ![t].level.muted = l.muted, ![t].dirty = TRUE]
        PROVE  thread' \in [Threads -> AudioThread \cup {None}] /\ SameShape
    <3> DEFINE r == [thread[t] EXCEPT !.level.volume = l.volume, !.level.muted = l.muted,
                                      !.dirty = TRUE]
    <3>1. l \in [volume : 0..MaxVolume, muted : BOOLEAN]
      BY ConstantsAssumption
    <3>2. r \in AudioThread /\ r.owner = thread[t].owner /\ r.key = thread[t].key
      BY <1>1, <3>1 DEF AudioThread, LiveSettings
    <3>3. thread' = [thread EXCEPT ![t] = r]
      BY <2>2
    <3> QED
      BY <1>0, <1>1, <3>2, <3>3, ThreadChange
  <2> QED
    BY <2>1, <2>2 DEF SessionMoves
<1>3. TypeOK'
  BY <1>2 DEF IInv, TypeOK, SessionMoves
<1>6. Leaving'
  BY LeavingKept DEF IInv, SessionMoves
<1> QED
  BY <1>6, <1>2, <1>3, ShapeKept, PhasesKept DEF IInv, SessionMoves

\* The status loop, the remote and cables touch nothing the supervisor owns.
LEMMA OutsideIInv ==
  ASSUME IInv, Poll \/ StopPolling \/ Press \/ Plug
  PROVE  IInv'
<1>1. UNCHANGED <<pc, current, settled, running, stale, joining, todo, thread, registry>>
  BY DEF Poll, StopPolling, Press, Plug
<1>2. desired' \in Configs /\ changed' \in BOOLEAN /\ stop' \in BOOLEAN /\ present' \subseteq Cards
  BY DEF Poll, StopPolling, Press, Plug, IInv, TypeOK
<1>3. volumes' \in Seq(Presses)
  BY DEF Poll, StopPolling, Press, Plug, IInv, TypeOK
<1>4. TypeOK'
  BY <1>1, <1>2, <1>3 DEF IInv, TypeOK
<1>5. SameShape
  BY <1>1 DEF SameShape
<1>6. Leaving'
  BY <1>1, LeavingKept DEF IInv
<1> QED
  BY <1>6, <1>1, <1>4, <1>5, ShapeKept, PhasesKept DEF IInv

-----------------------------------------------------------------------------
(* The supervisor's other steps *)

\* A running player is handed its settings in place.
LEMMA AdjustPlayerIInv == ASSUME NEW p \in Players PROVE IInv /\ AdjustPlayer(p) => IInv'
<1> SUFFICES ASSUME IInv, AdjustPlayer(p) PROVE IInv'
  OBVIOUS
<1> DEFINE s == FromDesired(current.want[p])
           t == running[p].thread
<1>1. /\ running[p] \in RunningPlayer /\ running[p] # None /\ t \in Threads
      /\ p \in Wanted(current) /\ s \in LiveSettings
  <2>1. current.want[p] \in DesiredPlayer /\ p \in Wanted(current)
    BY WantedConf DEF AdjustPlayer, IInv, Phases, TypeOK
  <2> QED
    BY <2>1, FromDesiredType DEF AdjustPlayer, IInv, TypeOK, RunningPlayer
<1>2. ASSUME AsksAnew(p, s)
      PROVE  /\ running' \in [Players -> RunningPlayer \cup {None}]
             /\ thread' \in [Threads -> AudioThread \cup {None}]
             /\ SameShape
  <2> DEFINE e == [running[p] EXCEPT !.lastDesired = s, !.lastPushed = s]
  <2>1. e \in RunningPlayer /\ e.thread = t /\ e.key = running[p].key /\ e # None
    BY <1>1, NoneAssumption DEF RunningPlayer
  <2>2. running' = [running EXCEPT ![p] = e] /\ thread' = Sent(t, s) /\ joining' = joining
    BY <1>2 DEF AdjustPlayer
  <2>3. running' \in [Players -> RunningPlayer \cup {None}]
    BY <2>1, <2>2 DEF IInv, TypeOK
  <2>4. thread' \in [Threads -> AudioThread \cup {None}]
    BY <1>1, <2>2, SentShape DEF IInv
  <2>5. SameShape
    <3>1. \A q \in Players : /\ (running'[q] = None) <=> (running[q] = None)
                             /\ running[q] # None => /\ running'[q].thread = running[q].thread
                                                     /\ running'[q].key = running[q].key
      BY <1>1, <2>1, <2>2 DEF IInv, TypeOK
    <3> QED
      BY <1>1, <2>2, <3>1, SentShape DEF IInv, SameShape
  <2> QED
    BY <2>3, <2>4, <2>5
<1>3. ASSUME ~AsksAnew(p, s)
      PROVE  /\ running' \in [Players -> RunningPlayer \cup {None}]
             /\ thread' \in [Threads -> AudioThread \cup {None}]
             /\ SameShape
  BY <1>3 DEF AdjustPlayer, SameShape, IInv, TypeOK
<1>4. TypeOK' /\ SameShape
  BY <1>2, <1>3 DEF AdjustPlayer, IInv, TypeOK
<1>5. Phases'
  <2>1. UNCHANGED <<pc, current, stale>> /\ todo' \subseteq todo
    BY DEF AdjustPlayer
  <2> QED
    BY <1>4, <2>1, PhasesKept DEF IInv
<1>leaving. Leaving'
  BY LeavingNotYet DEF AdjustPlayer
<1> QED
  BY <1>leaving, <1>4, <1>5, ShapeKept DEF IInv

\* What a request asks of a running player is within the scale.
LEMMA AppliedType ==
  ASSUME TypeOK, volumes # <<>>, NEW p \in Running
  PROVE  Pressed(Head(volumes), Reported(p), running[p].lastPushed.delay) \in LiveSettings
<1>1. p \in Players /\ running[p] \in RunningPlayer
  BY DEF Running, TypeOK
<1>2. Reported(p).volume \in 0..MaxVolume /\ running[p].lastPushed.delay \in Delay
  BY <1>1 DEF Reported, TypeOK, RunningPlayer, LiveSettings, Snapshot
<1>3. Head(volumes) \in VolumeRequest
  BY PressesAssumption DEF TypeOK
<1> QED
  BY <1>2, <1>3, PressedType

\* apply_volume changes what was pushed to one player, within the scale.
LEMMA ApplyVolumeIInv == IInv /\ ApplyVolume => IInv'
<1> SUFFICES ASSUME IInv, ApplyVolume PROVE IInv'
  OBVIOUS
<1> DEFINE req == Head(volumes)
           p == Target(req)
           next == Pressed(req, Reported(p), running[p].lastPushed.delay)
<1>1. volumes # <<>> /\ volumes' \in Seq(Presses)
  BY DEF ApplyVolume, IInv, TypeOK
<1>4. Leaving'
  BY LeavingNotYet DEF ApplyVolume
<1>2. CASE p \in Running /\ next # running[p].lastPushed
  <2> DEFINE e == [running[p] EXCEPT !.lastPushed = next]
             t == running[p].thread
  <2>1. p \in Players /\ running[p] \in RunningPlayer /\ t \in Threads
    BY <1>2 DEF Running, IInv, TypeOK, RunningPlayer
  <2>3. next \in LiveSettings
    BY <1>1, <1>2, AppliedType DEF IInv
  <2>4. e \in RunningPlayer /\ e.thread = t /\ e.key = running[p].key /\ e # None
    BY <2>1, <2>3, NoneAssumption DEF RunningPlayer
  <2>5. running' = [running EXCEPT ![p] = e] /\ thread' = Sent(t, next) /\ joining' = joining
    BY <1>2 DEF ApplyVolume
  <2>6. running' \in [Players -> RunningPlayer \cup {None}]
    BY <2>4, <2>5 DEF IInv, TypeOK
  <2>7. \A q \in Players : /\ (running'[q] = None) <=> (running[q] = None)
                           /\ running[q] # None => /\ running'[q].thread = running[q].thread
                                                   /\ running'[q].key = running[q].key
    BY <1>2, <2>4, <2>5 DEF IInv, TypeOK, Running
  <2> HIDE DEF next
  <2>8. thread' \in [Threads -> AudioThread \cup {None}] /\ SameShape
    BY <2>1, <2>3, <2>5, <2>7, SentShape DEF IInv, SameShape
  <2>9. TypeOK'
    BY <1>1, <2>6, <2>8 DEF ApplyVolume, IInv, TypeOK
  <2> QED
    BY <1>4, <2>8, <2>9, ShapeKept, PhasesAwake DEF IInv, ApplyVolume
<1>3. CASE ~(p \in Running /\ next # running[p].lastPushed)
  <2>1. UNCHANGED <<running, thread, joining>>
    BY <1>3 DEF ApplyVolume
  <2>2. SameShape
    BY <2>1 DEF SameShape
  <2>3. TypeOK'
    BY <1>1, <2>1 DEF ApplyVolume, IInv, TypeOK
  <2> QED
    BY <1>4, <2>2, <2>3, ShapeKept, PhasesAwake DEF IInv, ApplyVolume
<1> QED
  BY <1>2, <1>3

\* With nothing stale left, the map is what the configuration keeps.
LEMMA EndStopsIInv == IInv /\ EndStops => IInv'
<1> SUFFICES ASSUME IInv, EndStops PROVE IInv'
  OBVIOUS
<1>1. TypeOK'
  BY WantedConf DEF EndStops, IInv, TypeOK, Unregistered
<1>2. SameShape
  BY DEF EndStops, SameShape
<1>3. Phases'
  <2>1. KeptAsWanted'
    BY DEF EndStops, IInv, Phases, KeptAsWanted, Wanted, KeyOf
  <2>2. todo' \subseteq Wanted(current)' /\ stale' = {} /\ joining' = None
    BY DEF EndStops, Wanted
  <2> QED
    BY <2>1, <2>2 DEF EndStops, Phases
<1>leaving. Leaving'
  BY LeavingNotYet DEF EndStops
<1> QED
  BY <1>leaving, <1>1, <1>2, <1>3, ShapeKept DEF IInv

\* A player that cannot be built is registered and left out of the map.
LEMMA BuildFailsIInv == ASSUME NEW p \in Players PROVE IInv /\ BuildFails(p) => IInv'
<1> SUFFICES ASSUME IInv, BuildFails(p) PROVE IInv'
  OBVIOUS
<1>1. current.want[p] \in DesiredPlayer
  BY WantedConf DEF BuildFails, IInv, Phases, TypeOK
<1> DEFINE s == FromDesired(current.want[p])
<1>2. s \in LiveSettings
  BY <1>1, FromDesiredType
<1> HIDE DEF s
<1>3. registry' = Registered(p, "error", s)
  BY DEF BuildFails, s
<1>4. registry' \in [Players -> Snapshot \cup {None}]
  BY <1>2, <1>3 DEF Registered, Snapshot, LiveSettings, IInv, TypeOK
<1>5. TypeOK'
  BY <1>4 DEF BuildFails, IInv, TypeOK
<1>6. SameShape /\ UNCHANGED <<pc, current, stale>> /\ todo' \subseteq todo
  BY DEF BuildFails, SameShape
<1>leaving. Leaving'
  BY LeavingNotYet DEF BuildFails
<1> QED
  BY <1>leaving, <1>5, <1>6, ShapeKept, PhasesKept DEF IInv

\* The step that can put two threads on one card: everything in the map is
\* wanted by now, and wanted players have cards of their own.
LEMMA SpawnPlayerIInv ==
  ASSUME NEW p \in Players, NEW t \in Threads
  PROVE  IInv /\ SpawnPlayer(p, t) => IInv'
<1> SUFFICES ASSUME IInv, SpawnPlayer(p, t) PROVE IInv'
  OBVIOUS
<1> DEFINE s == FromDesired(current.want[p])
           k == KeyOf(current, p)
           e == [thread |-> t, key |-> k, lastDesired |-> s, lastPushed |-> s]
           r == [owner |-> p, key |-> k, phase |-> "up", stop |-> FALSE,
                 inbox |-> s, unseen |-> FALSE, level |-> s,
                 conn |-> "idle", dirty |-> TRUE]
<1>1. /\ p \in Wanted(current) /\ current.want[p] \in DesiredPlayer /\ k \in RestartKey
      /\ joining = None /\ KeptAsWanted /\ stale = {}
      /\ running[p] = None /\ thread[t] = None
  BY WantedConf DEF SpawnPlayer, IInv, Phases, TypeOK
<1>2. s \in LiveSettings
  BY <1>1, FromDesiredType
<1>3. /\ running' = [running EXCEPT ![p] = e]
      /\ thread' = [thread EXCEPT ![t] = r]
      /\ registry' = Registered(p, "idle", s)
      /\ UNCHANGED <<pc, pollVars, current, settled, stale, joining, volumes, present>>
      /\ todo' = todo \ {p}
  BY DEF SpawnPlayer
<1> HIDE DEF s, k
<1>4. e \in RunningPlayer /\ r \in AudioThread /\ e # None /\ r # None
  <2>1. e \in RunningPlayer
    BY <1>1, <1>2 DEF RunningPlayer
  <2>2. r \in AudioThread
    BY <1>1, <1>2 DEF AudioThread
  <2> QED
    BY <2>1, <2>2, NoneAssumption
<1>5. /\ running' \in [Players -> RunningPlayer \cup {None}]
      /\ running'[p] = e
      /\ \A q \in Players : q # p => running'[q] = running[q]
  BY <1>3, <1>4 DEF IInv, TypeOK
<1>6. /\ thread' \in [Threads -> AudioThread \cup {None}]
      /\ thread'[t] = r
      /\ \A u \in Threads : u # t => thread'[u] = thread[u]
  BY <1>3, <1>4 DEF IInv, TypeOK
<1>7. registry' \in [Players -> Snapshot \cup {None}]
  BY <1>2, <1>3 DEF Registered, Snapshot, LiveSettings, IInv, TypeOK
<1>8. TypeOK'
  BY <1>3, <1>5, <1>6, <1>7 DEF IInv, TypeOK
<1> HIDE DEF e, r
<1>9. /\ e.thread = t /\ e.key = k
      /\ r.owner = p /\ r.key = k
  BY DEF e, r
<1>10. Accounted'
  <2>1. ASSUME NEW q \in Players, running'[q] # None
        PROVE  /\ thread'[running'[q].thread] # None
               /\ thread'[running'[q].thread].owner = q
               /\ thread'[running'[q].thread].key = running'[q].key
               /\ running'[q].thread # joining'
    <3>1. CASE q = p
      BY <1>1, <1>3, <1>4, <1>5, <1>6, <1>9, <3>1, NoneAssumption
    <3>2. CASE q # p
      <4>1. running'[q] = running[q] /\ running[q].thread \in Threads
        BY <1>5, <2>1, <3>2 DEF IInv, TypeOK, RunningPlayer
      <4>2. /\ thread[running[q].thread] # None
            /\ thread[running[q].thread].owner = q
            /\ thread[running[q].thread].key = running[q].key
            /\ running[q].thread # joining
        BY <2>1, <4>1 DEF IInv, Accounted
      <4>3. thread'[running[q].thread] = thread[running[q].thread]
        BY <1>1, <1>6, <4>1, <4>2
      <4> QED
        BY <1>3, <4>1, <4>2, <4>3
    <3> QED
      BY <3>1, <3>2
  <2>2. ASSUME NEW u \in Threads, thread'[u] # None
        PROVE  running'[thread'[u].owner] # None /\ running'[thread'[u].owner].thread = u
    <3>1. CASE u = t
      BY <1>4, <1>5, <1>6, <1>9, <3>1
    <3>2. CASE u # t
      <4>1. thread'[u] = thread[u] /\ thread[u].owner \in Players /\ u # None
        BY <1>6, <2>2, <3>2, NoneAssumption DEF IInv, TypeOK, AudioThread
      <4>2. running[thread[u].owner] # None /\ running[thread[u].owner].thread = u
        BY <1>1, <2>2, <4>1 DEF IInv, Accounted
      <4> QED
        BY <1>1, <1>5, <4>1, <4>2
    <3> QED
      BY <3>1, <3>2
  <2>3. joining' = None
    BY <1>1, <1>3
  <2> QED
    BY <2>1, <2>2, <2>3 DEF Accounted
<1>11. CardsDiffer'
  <2>1. \A q \in Players : running'[q] # None =>
          q \in Wanted(current) /\ running'[q].key = KeyOf(current, q)
    BY <1>1, <1>5, <1>9 DEF KeptAsWanted, k
  <2>2. \A q, o \in Wanted(current) : q # o =>
          KeyOf(current, q).output # KeyOf(current, o).output
    BY WantedConf DEF IInv, TypeOK
  <2>3. joining' = None
    BY <1>1, <1>3
  <2> QED
    BY <2>1, <2>2, <2>3 DEF CardsDiffer
<1>12. Phases'
  <2>1. KeptAsWanted'
    BY <1>1, <1>3, <1>5, <1>9 DEF KeptAsWanted, Wanted, KeyOf, k
  <2>2. pc' = "starting" => stale' = {} /\ todo' \subseteq Wanted(current)'
    BY <1>1, <1>3 DEF IInv, Phases, Wanted
  <2>3. pc' = "starting" /\ joining' = None
    BY <1>1, <1>3 DEF SpawnPlayer
  <2> QED
    BY <1>1, <1>3, <2>1, <2>2, <2>3 DEF Phases
<1>leaving. Leaving'
  BY LeavingNotYet DEF SpawnPlayer
<1> QED
  BY <1>leaving, <1>8, <1>10, <1>11, <1>12 DEF IInv

\* retain drops reports, never players.
LEMMA EndStartsIInv == IInv /\ EndStarts => IInv'
<1> SUFFICES ASSUME IInv, EndStarts PROVE IInv'
  OBVIOUS
<1>1. TypeOK'
  BY DEF EndStarts, IInv, TypeOK, Retained
<1>2. SameShape
  BY DEF EndStarts, SameShape
<1>3. Phases'
  BY DEF EndStarts, IInv, Phases
<1>leaving. Leaving'
  BY LeavingNotYet DEF EndStarts
<1> QED
  BY <1>leaving, <1>1, <1>2, <1>3, ShapeKept DEF IInv

\* Waking up for another desired state changes nothing by itself.
LEMMA SeeDesiredIInv == IInv /\ SeeDesired => IInv'
<1> SUFFICES ASSUME IInv, SeeDesired PROVE IInv'
  OBVIOUS
<1>1. TypeOK' /\ SameShape
  BY DEF SeeDesired, IInv, TypeOK, SameShape
<1>leaving. Leaving'
  BY LeavingNotYet DEF SeeDesired
<1> QED
  BY <1>leaving, <1>1, ShapeKept, PhasesAwake DEF IInv, SeeDesired

\* Leaving the loop makes every player stale.
LEMMA SeeStopIInv == IInv /\ SeeStop => IInv'
<1> SUFFICES ASSUME IInv, SeeStop PROVE IInv'
  OBVIOUS
<1>1. TypeOK' /\ SameShape
  BY DEF SeeStop, IInv, TypeOK, SameShape, Running
<1>2. Phases'
  BY DEF SeeStop, IInv, Phases, Running
<1>3. Leaving'
  BY DEF SeeStop, Leaving, Running
<1> QED
  BY <1>3, <1>1, <1>2, ShapeKept DEF IInv

\* `run` returns with its registry emptied.
LEMMA EndTeardownIInv == IInv /\ EndTeardown => IInv'
<1> SUFFICES ASSUME IInv, EndTeardown PROVE IInv'
  OBVIOUS
<1>1. TypeOK' /\ SameShape
  BY DEF EndTeardown, IInv, TypeOK, SameShape, Unregistered
<1>2. Phases'
  BY DEF EndTeardown, IInv, Phases
<1>3. Leaving'
  BY DEF EndTeardown, IInv, TypeOK, Leaving
<1> QED
  BY <1>3, <1>1, <1>2, ShapeKept DEF IInv

\* `run` starts over on fresh channels and an empty map.
LEMMA ReattachIInv == IInv /\ Reattach => IInv'
<1> SUFFICES ASSUME IInv, Reattach PROVE IInv'
  OBVIOUS
<1>1. TypeOK'
  <2>1. volumes' \in Seq(Presses)
    BY DEF Reattach
  <2> QED
    BY <2>1 DEF Reattach, IInv, TypeOK
<1>2. SameShape
  BY DEF Reattach, SameShape, IInv, Leaving
<1>3. Phases'
  BY DEF Reattach, IInv, Phases, Leaving, TypeOK
<1>leaving. Leaving'
  BY LeavingNotYet DEF Reattach
<1> QED
  BY <1>leaving, <1>1, <1>2, <1>3, ShapeKept DEF IInv

-----------------------------------------------------------------------------
(* The invariant, and what follows from it *)

\* No step of the system, nor a stutter, breaks the inductive invariant.
LEMMA NextIInv == IInv /\ [Next]_vars => IInv'
<1> SUFFICES ASSUME IInv, [Next]_vars PROVE IInv'
  OBVIOUS
<1>1. CASE Supervisor
  <2>1. CASE TakeDesired \/ JoinThread \/ EndStops \/ EndStarts
    BY <2>1, TakeDesiredIInv, JoinThreadIInv, EndStopsIInv, EndStartsIInv
  <2>2. CASE SeeDesired \/ ApplyVolume \/ SeeStop \/ EndTeardown \/ Reattach
    BY <2>2, SeeDesiredIInv, ApplyVolumeIInv, SeeStopIInv, EndTeardownIInv, ReattachIInv
  <2>3. ASSUME NEW p \in Players, StopPlayer(p) \/ AdjustPlayer(p) \/ BuildFails(p)
        PROVE  IInv'
    BY <2>3, StopPlayerIInv, AdjustPlayerIInv, BuildFailsIInv
  <2>4. ASSUME NEW p \in Players, NEW t \in Threads, SpawnPlayer(p, t)
        PROVE  IInv'
    BY <2>4, SpawnPlayerIInv
  <2> QED
    BY <1>1, <2>1, <2>2, <2>3, <2>4 DEF Supervisor
<1>2. CASE AudioThreads
  BY <1>2, ReportStatusIInv, TakeSettingsIInv, SeeThreadStopIInv, SessionEndsIInv,
     SessionMovesIInv DEF AudioThreads
<1>3. CASE Poll \/ StopPolling \/ Press \/ Plug
  BY <1>3, OutsideIInv
<1>4. CASE UNCHANGED vars
  <2>1. TypeOK' /\ SameShape
    BY <1>4 DEF IInv, TypeOK, SameShape, vars
  <2>2. UNCHANGED <<pc, current, stale, todo>>
    BY <1>4 DEF vars
  <2>3. Leaving'
    BY <1>4, LeavingKept DEF IInv, vars
  <2> QED
    BY <2>1, <2>2, <2>3, ShapeKept, PhasesKept DEF IInv
<1> QED
  BY <1>1, <1>2, <1>3, <1>4 DEF Next

\* The inductive invariant holds of every behaviour.
LEMMA Invariance == Spec => []IInv
<1>1. Init => IInv
  BY InitIInv
<1>2. IInv /\ [Next]_vars => IInv'
  BY NextIInv
<1> QED
  BY <1>1, <1>2, PTL DEF Spec

\* Every variable keeps its type, levels their scale, whatever is configured.
THEOREM TypeCorrect == Spec => []TypeOK
<1>1. IInv => TypeOK
  BY DEF IInv
<1> QED
  BY <1>1, Invariance, PTL

\* stop_player waits for the thread, so a replacement never finds its card
\* taken: at no time do two threads have one card, or one player two threads.
THEOREM CardsExclusive == Spec => []OneThreadPerCard
<1>1. IInv => OneThreadPerCard
  <2> SUFFICES ASSUME IInv, NEW t \in Threads, NEW u \in Threads, t # u, Up(t), Up(u)
               PROVE  /\ thread[t].key.output # thread[u].key.output
                      /\ thread[t].owner # thread[u].owner
    BY DEF OneThreadPerCard
  <2>1. \A x \in {t, u} :
          /\ thread[x] # None /\ thread[x].owner \in Players
          /\ x = joining \/ /\ running[thread[x].owner] # None
                            /\ running[thread[x].owner].thread = x
                            /\ running[thread[x].owner].key = thread[x].key
    BY DEF IInv, TypeOK, Accounted, AudioThread, Up
  <2>2. CASE t # joining /\ u # joining
    BY <2>1, <2>2 DEF IInv, CardsDiffer
  <2>3. CASE t = joining \/ u = joining
    <3>1. joining # None
      BY <2>3, NoneAssumption
    <3> QED
      BY <2>1, <2>3, <3>1 DEF IInv, CardsDiffer
  <2> QED
    BY <2>2, <2>3
<1> QED
  BY <1>1, Invariance, PTL

\* Asleep, the supervisor knows every thread there is, and once `run` has
\* returned there is none and nothing is reported.
THEOREM NoOrphans == Spec => []NoOrphanThread
<1>1. IInv => NoOrphanThread
  <2> SUFFICES ASSUME IInv PROVE NoOrphanThread
    OBVIOUS
  <2>1. ASSUME NEW t \in Threads, Up(t), joining = None
        PROVE  /\ running[thread[t].owner] # None
               /\ running[thread[t].owner].thread = t
               /\ running[thread[t].owner].key = thread[t].key
    BY <2>1, NoneAssumption DEF IInv, TypeOK, Accounted, AudioThread, Up
  <2>2. pc = "select" => joining = None
    BY DEF IInv, Phases
  <2>3. ASSUME pc = "done" PROVE (\A t \in Threads : ~Up(t)) /\ registry = Unregistered
    <3>1. joining = None /\ running = [p \in Players |-> None] /\ registry = Unregistered
      BY <2>3 DEF IInv, Phases, Leaving
    <3>2. \A t \in Threads : thread[t] = None
      BY <3>1, NoneAssumption DEF IInv, TypeOK, Accounted, AudioThread
    <3> QED
      BY <3>1, <3>2 DEF Up
  <2> QED
    BY <2>1, <2>2, <2>3 DEF NoOrphanThread
<1> QED
  BY <1>1, Invariance, PTL

\* A live thread is only stopped for what it cannot absorb: the other steps
\* leave its stop channel alone, and a stale player cannot be kept.
THEOREM OnlyRebuilds == Spec => OnlyRebuildsInterrupt
<1> DEFINE Reason(t) == \/ pc = "teardown"
                        \/ thread[t].owner \notin Wanted(current)
                        \/ thread[t].key # KeyOf(current, thread[t].owner)
           Told(t) == Up(t) /\ ~thread[t].stop /\ thread'[t] # None /\ thread'[t].stop
<1>1. ASSUME IInv, [Next]_vars, NEW t \in Threads, Told(t)
      PROVE  Reason(t)
  <2>1. /\ thread \in [Threads -> AudioThread \cup {None}]
        /\ thread[t] \in AudioThread /\ thread[t] # None
    BY <1>1 DEF IInv, TypeOK, Up
  <2>2. ASSUME NEW p \in Players, StopPlayer(p) PROVE Reason(t)
    <3>1. running[p] # None /\ running[p].thread \in Threads
      BY <1>1, <2>2 DEF StopPlayer, Phases, RunningPlayer, IInv, TypeOK
    <3>2. thread' = [thread EXCEPT ![running[p].thread].stop = TRUE]
      BY <2>2 DEF StopPlayer
    <3>3. t = running[p].thread
      BY <1>1, <2>1, <3>1, <3>2
    <3>4. thread[t].owner = p /\ thread[t].key = running[p].key
      BY <1>1, <3>1, <3>3 DEF IInv, Accounted
    <3>5. p \in stale /\ pc \in {"stopping", "teardown"}
      BY <2>2 DEF StopPlayer
    <3> QED
      BY <1>1, <3>4, <3>5 DEF IInv, Phases, StaleForAReason
  <2>3. ~\E p \in Players, u \in Threads : SpawnPlayer(p, u)
    <3> SUFFICES ASSUME NEW p \in Players, NEW u \in Threads, SpawnPlayer(p, u) PROVE FALSE
      OBVIOUS
    <3>1. u # t /\ thread'[t] = thread[t]
      BY <2>1 DEF SpawnPlayer
    <3> QED
      BY <1>1, <3>1
  <2>4. ASSUME NEW u \in Threads, NEW s, thread' = Sent(u, s) PROVE FALSE
    BY <1>1, <2>1, <2>4 DEF Sent
  <2>9. ~UNCHANGED thread
    BY <1>1
  <2>5. ~\E p \in Players : AdjustPlayer(p)
    <3> SUFFICES ASSUME NEW p \in Players, AdjustPlayer(p) PROVE FALSE
      OBVIOUS
    <3>1. running[p].thread \in Threads
      BY <1>1 DEF AdjustPlayer, IInv, TypeOK, RunningPlayer
    <3> QED
      BY <2>4, <2>9, <3>1 DEF AdjustPlayer
  <2>6. ~ApplyVolume
    <3> DEFINE p == Target(Head(volumes))
    <3>1. p \in Running => running[p].thread \in Threads
      BY <1>1 DEF Running, IInv, TypeOK, RunningPlayer
    <3> QED
      BY <2>4, <2>9, <3>1 DEF ApplyVolume
  <2>7. ~JoinThread
    BY <1>1, <2>1 DEF JoinThread
  <2>8. ~AudioThreads
    <3>1. ASSUME NEW u \in Threads, ReportStatus(u) PROVE FALSE
      BY <1>1, <2>1, <3>1 DEF ReportStatus
    <3>2. ASSUME NEW u \in Threads, TakeSettings(u) PROVE FALSE
      BY <1>1, <2>1, <3>2 DEF TakeSettings
    <3>3. ASSUME NEW u \in Threads, SeeThreadStop(u) PROVE FALSE
      BY <1>1, <2>1, <3>3 DEF SeeThreadStop
    <3>4. ASSUME NEW u \in Threads, SessionEnds(u) PROVE FALSE
      BY <1>1, <2>1, <3>4 DEF SessionEnds
    <3>5. ASSUME NEW u \in Threads, SessionMoves(u) PROVE FALSE
      <4>1. ASSUME NEW c \in Conns, thread' = [thread EXCEPT ![u].conn = c, ![u].dirty = TRUE]
            PROVE  FALSE
        BY <1>1, <2>1, <4>1
      <4>2. ASSUME NEW l \in LiveLevels,
                   thread' = [thread EXCEPT ![u].level.volume = l.volume,
                                            ![u].level.muted = l.muted, ![u].dirty = TRUE]
            PROVE  FALSE
        <5> DEFINE r == [thread[u] EXCEPT !.level.volume = l.volume,
                                          !.level.muted = l.muted, !.dirty = TRUE]
        <5>1. thread' = [thread EXCEPT ![u] = r]
          BY <4>2
        <5>2. u = t
          BY <1>1, <2>1, <5>1
        <5>3. r.stop = thread[t].stop
          BY <2>1, <5>2 DEF AudioThread
        <5> HIDE DEF r
        <5>4. thread'[t] = r
          BY <2>1, <5>1, <5>2
        <5> QED
          BY <1>1, <5>3, <5>4
      <4> QED
        BY <3>5, <4>1, <4>2 DEF SessionMoves
    <3> QED
      BY <3>1, <3>2, <3>3, <3>4, <3>5 DEF AudioThreads
  <2>10. ~(\/ TakeDesired \/ EndStops \/ EndStarts \/ SeeDesired \/ SeeStop \/ EndTeardown
           \/ Reattach \/ Poll \/ StopPolling \/ Press \/ Plug
           \/ \E p \in Players : BuildFails(p))
    BY <2>9 DEF TakeDesired, EndStops, EndStarts, SeeDesired, SeeStop, EndTeardown,
                Reattach, Poll, StopPolling, Press, Plug, BuildFails
  <2>11. \E p \in Players : StopPlayer(p)
    BY <1>1, <2>3, <2>5, <2>6, <2>7, <2>8, <2>9, <2>10 DEF Next, Supervisor, vars
  <2> QED
    BY <2>2, <2>11
<1>2. IInv /\ [Next]_vars => [\A t \in Threads : Told(t) => Reason(t)]_vars
  BY <1>1
<1> QED
  BY <1>2, Invariance, PTL DEF OnlyRebuildsInterrupt, Spec

-----------------------------------------------------------------------------
(* The refinement: every step is one of the abstract specification's *)

\* What the mapping says: a room plays through the card of its one thread.
PlayingSays ==
  /\ Playing \in [Players -> Cards \cup {None}]
  /\ \A t \in Threads : Up(t) =>
       /\ thread[t].owner \in Players
       /\ thread[t].key.output \in Cards
       /\ Playing[thread[t].owner] = thread[t].key.output
  /\ \A p \in Players : (\A t \in Threads : Up(t) => thread[t].owner # p) => Playing[p] = None

\* With one thread to a player, the choice in the mapping is no choice.
LEMMA PlayingIs == TypeOK /\ OneThreadPerCard => PlayingSays
<1> SUFFICES ASSUME TypeOK, OneThreadPerCard PROVE PlayingSays
  OBVIOUS
<1>1. ASSUME NEW t \in Threads, Up(t)
      PROVE  thread[t].owner \in Players /\ thread[t].key.output \in Cards
  BY <1>1 DEF TypeOK, AudioThread, RestartKey, Up
<1> DEFINE Has(p) == \E t \in Threads : Up(t) /\ thread[t].owner = p
           One(p) == CHOOSE t \in Threads : Up(t) /\ thread[t].owner = p
<1>2. ASSUME NEW p \in Players, Has(p)
      PROVE  One(p) \in Threads /\ Up(One(p)) /\ thread[One(p)].owner = p
  BY <1>2
<1>3. Playing = [p \in Players |-> IF Has(p) THEN thread[One(p)].key.output ELSE None]
  BY DEF Playing
<1> HIDE DEF One
<1>4. ASSUME NEW t \in Threads, Up(t)
      PROVE  Playing[thread[t].owner] = thread[t].key.output
  <2>1. Has(thread[t].owner) /\ thread[t].owner \in Players
    BY <1>1, <1>4
  <2>2. One(thread[t].owner) = t
    BY <1>2, <1>4, <2>1 DEF OneThreadPerCard
  <2> QED
    BY <1>3, <2>1, <2>2
<1>5. Playing \in [Players -> Cards \cup {None}]
  BY <1>1, <1>2, <1>3
<1> QED
  BY <1>1, <1>3, <1>4, <1>5 DEF PlayingSays

\* The same threads are up, for the same players.
SameUp ==
  \A t \in Threads :
    /\ Up(t)' <=> Up(t)
    /\ Up(t) => thread'[t].owner = thread[t].owner /\ thread'[t].key = thread[t].key

\* A step that starts and ends no thread is invisible to the rooms.
LEMMA NothingHeard ==
  ASSUME PlayingSays, PlayingSays', SameUp
  PROVE  UNCHANGED Playing
<1>1. ASSUME NEW p \in Players PROVE Playing'[p] = Playing[p]
  BY DEF PlayingSays, SameUp
<1> QED
  BY <1>1 DEF PlayingSays

\* A thread that ends gives its room's card back.
LEMMA OneEnds ==
  ASSUME PlayingSays, PlayingSays', OneThreadPerCard, NEW t \in Threads, Up(t), ~Up(t)',
         \A u \in Threads : u # t => thread'[u] = thread[u]
  PROVE  S!Release(thread[t].owner)
<1> DEFINE o == thread[t].owner
<1>1. Playing[o] \in Cards /\ o \in Players
  BY DEF PlayingSays
<1>2. \A u \in Threads : u # t => (Up(u)' <=> Up(u))
  BY DEF Up
<1>3. Playing'[o] = None
  BY <1>2 DEF PlayingSays, OneThreadPerCard
<1>4. ASSUME NEW p \in Players, p # o PROVE Playing'[p] = Playing[p]
  BY <1>2, <1>4 DEF PlayingSays
<1>5. Playing' = [Playing EXCEPT ![o] = None]
  BY <1>1, <1>3, <1>4 DEF PlayingSays
<1> QED
  BY <1>1, <1>5, NoneAssumption DEF S!Release

\* A thread that starts takes, for a silent room, a card nobody has.
LEMMA OneStarts ==
  ASSUME PlayingSays, PlayingSays', OneThreadPerCard', NEW t \in Threads, ~Up(t), Up(t)',
         \A u \in Threads : u # t => thread'[u] = thread[u]
  PROVE  S!Take(thread'[t].owner, thread'[t].key.output)
<1> DEFINE o == thread'[t].owner
           c == thread'[t].key.output
<1>1. Playing'[o] = c /\ o \in Players /\ c \in Cards
  BY DEF PlayingSays
<1>2. \A u \in Threads : u # t => (Up(u)' <=> Up(u))
  BY DEF Up
<1>3. Playing[o] = None
  BY <1>2 DEF PlayingSays, OneThreadPerCard
<1>4. ASSUME NEW p \in Players, p # o PROVE Playing'[p] = Playing[p]
  BY <1>2, <1>4 DEF PlayingSays
<1>5. Playing' = [Playing EXCEPT ![o] = c]
  BY <1>1, <1>3, <1>4 DEF PlayingSays
<1>6. ASSUME NEW p \in Players PROVE Playing[p] # c
  <2>1. CASE \E u \in Threads : Up(u) /\ thread[u].owner = p
    BY <1>2, <2>1 DEF PlayingSays, OneThreadPerCard
  <2>2. CASE ~\E u \in Threads : Up(u) /\ thread[u].owner = p
    BY <1>1, <2>2, NoneAssumption DEF PlayingSays
  <2> QED
    BY <2>1, <2>2
<1> QED
  BY <1>3, <1>5, <1>6 DEF S!Take

\* Nor is one that only writes to a thread's channels or to its session.
LEMMA RecordChange ==
  ASSUME TypeOK, NEW t \in Threads, NEW r, thread[t] # None, r # None,
         r.owner = thread[t].owner, r.key = thread[t].key, r.phase = thread[t].phase,
         thread' = [thread EXCEPT ![t] = r]
  PROVE  SameUp
BY DEF TypeOK, SameUp, Up

\* Sending settings starts and ends nothing.
LEMMA SentHeard ==
  ASSUME TypeOK, NEW t \in Threads, NEW s \in LiveSettings, thread' = Sent(t, s)
  PROVE  SameUp
<1>1. CASE Up(t)
  <2> DEFINE r == [thread[t] EXCEPT !.inbox = s, !.unseen = TRUE]
  <2>1. thread[t] \in AudioThread /\ thread[t] # None
    BY <1>1 DEF Up, TypeOK
  <2>2. /\ r.owner = thread[t].owner /\ r.key = thread[t].key /\ r.phase = thread[t].phase
        /\ r \in AudioThread
    BY <2>1 DEF AudioThread
  <2>3. thread' = [thread EXCEPT ![t] = r]
    BY <1>1 DEF Sent
  <2> HIDE DEF r
  <2> QED
    BY <2>1, <2>2, <2>3, RecordChange, NoneAssumption
<1>2. CASE ~Up(t)
  BY <1>2 DEF Sent, SameUp, Up
<1> QED
  BY <1>1, <1>2

\* What the supervisor does between the rooms' steps.
LEMMA SupervisorHeard ==
  ASSUME IInv, PlayingSays, PlayingSays', OneThreadPerCard', Supervisor
  PROVE  S!Next \/ UNCHANGED Playing
<1> USE DEF IInv
<1>1. ASSUME NEW p \in Players, NEW t \in Threads, SpawnPlayer(p, t) PROVE S!Next
  <2>1. /\ ~Up(t) /\ Up(t)'
        /\ \A u \in Threads : u # t => thread'[u] = thread[u]
        /\ thread'[t].owner = p
    <3>1. thread[t] = None /\ \A u \in Threads : u # t => thread'[u] = thread[u]
      BY <1>1 DEF SpawnPlayer, TypeOK
    <3>2. thread'[t] # None /\ thread'[t].owner = p /\ thread'[t].phase = "up"
      <4> DEFINE s == FromDesired(current.want[p])
                 k == KeyOf(current, p)
      <4>1. thread'[t] = [owner |-> p, key |-> k, phase |-> "up", stop |-> FALSE,
                          inbox |-> s, unseen |-> FALSE, level |-> s,
                          conn |-> "idle", dirty |-> TRUE]
        BY <1>1 DEF SpawnPlayer, TypeOK
      <4>2. s \in LiveSettings /\ k \in RestartKey
        BY <1>1, WantedConf, FromDesiredType DEF SpawnPlayer, Phases, TypeOK
      <4> HIDE DEF s, k
      <4>3. thread'[t] \in AudioThread
        BY <4>1, <4>2 DEF AudioThread
      <4>4. thread'[t] # None
        BY <4>3, NoneAssumption
      <4> QED
        BY <4>1, <4>4
    <3> QED
      BY <3>1, <3>2 DEF Up
  <2>2. S!Take(thread'[t].owner, thread'[t].key.output)
    BY <2>1, OneStarts
  <2>3. thread'[t].owner \in Players /\ thread'[t].key.output \in Cards
    BY <2>1 DEF PlayingSays
  <2> QED
    BY <2>2, <2>3 DEF S!Next
<1>2. ASSUME NEW p \in Players, StopPlayer(p) PROVE SameUp
  <2> DEFINE t == running[p].thread
             r == [thread[t] EXCEPT !.stop = TRUE]
  <2>1. t \in Threads /\ thread[t] # None /\ thread[t] \in AudioThread
    BY <1>2 DEF StopPlayer, Phases, Accounted, TypeOK, RunningPlayer
  <2>2. /\ r.owner = thread[t].owner /\ r.key = thread[t].key /\ r.phase = thread[t].phase
        /\ r # None
    BY <2>1, NoneAssumption DEF AudioThread
  <2> QED
    BY <1>2, <2>1, <2>2, RecordChange DEF StopPlayer
<1>3. JoinThread => SameUp
  BY DEF JoinThread, TypeOK, SameUp, Up
<1>4. ASSUME NEW p \in Players, AdjustPlayer(p) PROVE SameUp
  <2>1. running[p].thread \in Threads /\ FromDesired(current.want[p]) \in LiveSettings
    BY <1>4, WantedConf, FromDesiredType DEF AdjustPlayer, Phases, TypeOK, RunningPlayer
  <2>2. UNCHANGED thread => SameUp
    BY DEF SameUp, Up
  <2> QED
    BY <1>4, <2>1, <2>2, SentHeard DEF AdjustPlayer
<1>5. ApplyVolume => SameUp
  <2> DEFINE p == Target(Head(volumes))
  <2>1. ASSUME p \in Running, volumes # <<>>
        PROVE  /\ running[p].thread \in Threads
               /\ Pressed(Head(volumes), Reported(p), running[p].lastPushed.delay)
                    \in LiveSettings
    BY <2>1, AppliedType DEF Running, TypeOK, RunningPlayer
  <2>2. UNCHANGED thread => SameUp
    BY DEF SameUp, Up
  <2> QED
    BY <2>1, <2>2, SentHeard DEF ApplyVolume
<1>6. \/ TakeDesired \/ EndStops \/ EndStarts \/ SeeDesired \/ SeeStop \/ EndTeardown
      \/ Reattach \/ \E p \in Players : BuildFails(p)
      => SameUp
  BY DEF TakeDesired, EndStops, EndStarts, SeeDesired, SeeStop, EndTeardown, Reattach,
         BuildFails, SameUp, Up
<1> QED
  BY <1>1, <1>2, <1>3, <1>4, <1>5, <1>6, NothingHeard DEF Supervisor

\* What the audio threads do to the rooms.
LEMMA ThreadsHeard ==
  ASSUME IInv, PlayingSays, PlayingSays', OneThreadPerCard, NEW t \in Threads,
         ReportStatus(t) \/ TakeSettings(t) \/ SeeThreadStop(t) \/ SessionEnds(t)
           \/ SessionMoves(t)
  PROVE  S!Next \/ UNCHANGED Playing
<1>1. thread[t] \in AudioThread /\ thread[t] # None /\ TypeOK /\ Up(t)
  BY DEF IInv, TypeOK, ReportStatus, TakeSettings, SeeThreadStop, SessionEnds, SessionMoves, Up
<1>2. ASSUME SeeThreadStop(t) \/ SessionEnds(t) PROVE S!Next
  <2>1. thread' = [thread EXCEPT ![t].phase = "ended"]
    BY <1>2 DEF SeeThreadStop, SessionEnds
  <2>2. ~Up(t)' /\ \A u \in Threads : u # t => thread'[u] = thread[u]
    BY <1>1, <2>1 DEF TypeOK, Up, AudioThread
  <2>3. S!Release(thread[t].owner) /\ thread[t].owner \in Players
    BY <1>1, <2>2, OneEnds DEF AudioThread
  <2> QED
    BY <2>3 DEF S!Next
<1>3. ASSUME NEW r \in AudioThread, thread' = [thread EXCEPT ![t] = r],
             r.owner = thread[t].owner, r.key = thread[t].key, r.phase = thread[t].phase
      PROVE  UNCHANGED Playing
  BY <1>1, <1>3, RecordChange, NothingHeard, NoneAssumption
<1>4. ASSUME ReportStatus(t) PROVE UNCHANGED Playing
  <2> DEFINE r == [thread[t] EXCEPT !.dirty = FALSE]
  <2>1. r \in AudioThread /\ r.owner = thread[t].owner /\ r.key = thread[t].key
        /\ r.phase = thread[t].phase
    BY <1>1 DEF AudioThread
  <2> QED
    BY <1>3, <1>4, <2>1 DEF ReportStatus
<1>5. ASSUME TakeSettings(t) PROVE UNCHANGED Playing
  <2> DEFINE r == [thread[t] EXCEPT !.unseen = FALSE, !.level = thread[t].inbox, !.dirty = TRUE]
  <2>1. r \in AudioThread /\ r.owner = thread[t].owner /\ r.key = thread[t].key
        /\ r.phase = thread[t].phase
    BY <1>1 DEF AudioThread
  <2> QED
    BY <1>3, <1>5, <2>1 DEF TakeSettings
<1>6. ASSUME NEW c \in Conns, thread' = [thread EXCEPT ![t].conn = c, ![t].dirty = TRUE]
      PROVE  UNCHANGED Playing
  <2> DEFINE r == [thread[t] EXCEPT !.conn = c, !.dirty = TRUE]
  <2>1. r \in AudioThread /\ r.owner = thread[t].owner /\ r.key = thread[t].key
        /\ r.phase = thread[t].phase
    BY <1>1 DEF AudioThread
  <2> QED
    BY <1>3, <1>6, <2>1
<1>7. ASSUME NEW l \in LiveLevels,
             thread' = [thread EXCEPT ![t].level.volume = l.volume,
                                      ![t].level.muted = l.muted, ![t].dirty = TRUE]
      PROVE  UNCHANGED Playing
  <2> DEFINE r == [thread[t] EXCEPT !.level.volume = l.volume, !.level.muted = l.muted,
                                    !.dirty = TRUE]
  <2>1. l \in [volume : 0..MaxVolume, muted : BOOLEAN]
    BY ConstantsAssumption
  <2>2. r \in AudioThread /\ r.owner = thread[t].owner /\ r.key = thread[t].key
        /\ r.phase = thread[t].phase
    BY <1>1, <2>1 DEF AudioThread, LiveSettings
  <2>3. thread' = [thread EXCEPT ![t] = r]
    BY <1>7
  <2> HIDE DEF r
  <2> QED
    BY <1>3, <2>2, <2>3
<1> QED
  BY <1>2, <1>4, <1>5, <1>6, <1>7 DEF SessionMoves

\* The supervisor and its threads implement the abstract specification: a card
\* belongs to one room, and a room that moves to another card, or a card that
\* moves to another room, falls silent in between.
THEOREM Refinement == Spec => ImplementsSpeakers
<1>1. Init => S!Init
  BY NoneAssumption DEF Init, S!Init, Playing, Up
<1>2. ASSUME IInv, PlayingSays, PlayingSays', OneThreadPerCard, OneThreadPerCard', [Next]_vars
      PROVE  [S!Next]_Playing
  <2>1. CASE Supervisor
    BY <1>2, <2>1, SupervisorHeard
  <2>2. CASE AudioThreads
    BY <1>2, <2>2, ThreadsHeard DEF AudioThreads
  <2>3. CASE Poll \/ StopPolling \/ Press \/ Plug \/ UNCHANGED vars
    <3>1. SameUp
      BY <2>3 DEF Poll, StopPolling, Press, Plug, vars, SameUp, Up
    <3> QED
      BY <1>2, <3>1, NothingHeard
  <2> QED
    BY <1>2, <2>1, <2>2, <2>3 DEF Next
<1>3. Spec => []PlayingSays
  BY PlayingIs, TypeCorrect, CardsExclusive, PTL
<1> QED
  BY <1>1, <1>2, <1>3, Invariance, CardsExclusive, PTL DEF Spec, S!Spec, ImplementsSpeakers

-----------------------------------------------------------------------------
(* Levels: what is pushed, and what a press may do *)

\* A step moves a level on the scale towards where it points, and never past
\* its own size.
LEMMA StepMoves ==
  ASSUME NEW r \in VolumeRequest, r.intent = "step", NEW s, s.volume \in 0..MaxVolume, NEW d
  PROVE  LET moved == Pressed(r, s, d).volume - s.volume
         IN IF r.by < 0 THEN r.by <= moved /\ moved <= 0 ELSE 0 <= moved /\ moved <= r.by
<1>1. r.by \in Int /\ MaxVolume \in Nat
  BY ConstantsAssumption DEF VolumeRequest
<1>2. Pressed(r, s, d).volume = Greater(0, Lesser(MaxVolume, s.volume + r.by))
  BY DEF Pressed
<1> HIDE DEF Pressed
<1> QED
  BY <1>1, <1>2 DEF Greater, Lesser

\* Only apply_volume takes a request off the queue.
LEMMA OnlyApplyTakes ==
  ASSUME TypeOK, [Next]_vars, pc = "select", volumes # <<>>, volumes' = Tail(volumes)
  PROVE  ApplyVolume
<1>1. volumes' # volumes
  BY DEF TypeOK
<1>2. ~Press
  BY DEF Press, TypeOK
<1>3. ~Supervisor \/ ApplyVolume
  BY <1>1, Zenon DEF Supervisor, TakeDesired, StopPlayer, JoinThread, EndStops, AdjustPlayer, BuildFails,
     SpawnPlayer, EndStarts, SeeDesired, SeeStop, EndTeardown, Reattach
<1>4. ~AudioThreads
  BY <1>1, Zenon DEF AudioThreads, ReportStatus, TakeSettings, SeeThreadStop, SessionEnds, SessionMoves
<1>5. ~Poll /\ ~StopPolling /\ ~Plug /\ ~UNCHANGED vars
  BY <1>1, Zenon DEF Poll, StopPolling, Plug, vars
<1> QED
  BY <1>2, <1>3, <1>4, <1>5 DEF Next

\* A press steps from what the player reports, whatever was pushed to it: no
\* jump.
THEOREM NoJump == Spec => PressNeverJumps
<1> DEFINE Stepped(p) ==
      /\ pc = "select" /\ volumes # <<>> /\ volumes' = Tail(volumes)
      /\ Head(volumes).intent = "step"
      /\ p \in Running /\ registry[p] # None
      /\ running'[p] # running[p]
           Fits(p) ==
      LET by == Head(volumes).by
          moved == running'[p].lastPushed.volume - registry[p].volume
      IN IF by < 0 THEN by <= moved /\ moved <= 0 ELSE 0 <= moved /\ moved <= by
<1>1. ASSUME TypeOK, [Next]_vars, NEW p \in Players, Stepped(p) PROVE Fits(p)
  <2> DEFINE req == Head(volumes)
             next == Pressed(req, Reported(p), running[p].lastPushed.delay)
  <2>1. ApplyVolume
    BY <1>1, OnlyApplyTakes
  <2>2. p = Target(req)
    BY <1>1, <2>1 DEF ApplyVolume, Running, TypeOK
  <2>3. running' = [running EXCEPT ![p].lastPushed = next]
    BY <1>1, <2>1, <2>2 DEF ApplyVolume
  <2>4. running[p] \in RunningPlayer /\ running \in [Players -> RunningPlayer \cup {None}]
    BY <1>1 DEF Running, TypeOK
  <2>5. req \in VolumeRequest /\ registry[p].volume \in 0..MaxVolume /\ Reported(p) = registry[p]
    BY <1>1, PressesAssumption DEF TypeOK, Reported, Snapshot
  <2> HIDE DEF next
  <2>6. running'[p].lastPushed.volume = next.volume
    BY <1>1, <2>3, <2>4 DEF RunningPlayer
  <2> QED
    BY <1>1, <2>5, <2>6, StepMoves DEF next
<1>2. TypeOK /\ [Next]_vars => [\A p \in Players : Stepped(p) => Fits(p)]_vars
  BY <1>1
<1> QED
  BY <1>2, TypeCorrect, PTL DEF PressNeverJumps, Spec

-----------------------------------------------------------------------------
(* Threads heed what was pushed *)

\* A thread of the map plays what was pushed, but for a value on its way.
Heeds(p) ==
  LET t == running[p].thread IN
    Up(t) => /\ thread[t].inbox = running[p].lastPushed
             /\ ~thread[t].unseen => thread[t].level = running[p].lastPushed

Heeded == LiveLevels = {} => \A p \in Players : running[p] # None => Heeds(p)

\* A player whose entry and thread are left alone goes on heeding.
LEMMA HeedsOn ==
  ASSUME NEW p \in Players, Heeds(p), running'[p] = running[p],
         thread'[running[p].thread] = thread[running[p].thread]
  PROVE  Heeds(p)'
BY DEF Heeds, Up

\* Different players have different threads.
LEMMA ThreadsDiffer ==
  ASSUME IInv, NEW p \in Players, NEW q \in Players, p # q, running[p] # None, running[q] # None
  PROVE  running[p].thread # running[q].thread
BY DEF IInv, Accounted

\* A value pushed is noted as pushed, and on its way.
LEMMA PushHeeded ==
  ASSUME IInv, Heeded, NEW p \in Players, running[p] # None, NEW s \in LiveSettings,
         NEW e \in RunningPlayer, e.thread = running[p].thread, e.lastPushed = s,
         running' = [running EXCEPT ![p] = e], thread' = Sent(running[p].thread, s)
  PROVE  Heeded'
<1> DEFINE t == running[p].thread
<1>1. running[p] \in RunningPlayer /\ t \in Threads /\ running'[p] = e /\ e # None
  BY NoneAssumption DEF IInv, TypeOK, RunningPlayer
<1>2. ASSUME LiveLevels = {} PROVE Heeds(p)'
  <2>1. CASE Up(t)
    <3> DEFINE r == [thread[t] EXCEPT !.inbox = s, !.unseen = TRUE]
    <3>1. thread[t] \in AudioThread /\ thread' = [thread EXCEPT ![t] = r]
      BY <1>1, <2>1 DEF Up, Sent, IInv, TypeOK
    <3>2. r.inbox = s /\ r.unseen = TRUE
      BY <3>1 DEF AudioThread
    <3>3. thread'[t] = r
      BY <1>1, <3>1 DEF IInv, TypeOK
    <3> HIDE DEF r, t
    <3>4. running'[p].thread = t /\ running'[p].lastPushed = s
      BY <1>1 DEF t
    <3> QED
      BY <3>2, <3>3, <3>4 DEF Heeds
  <2>2. CASE ~Up(t)
    BY <1>1, <2>2 DEF Sent, Up, Heeds
  <2> QED
    BY <2>1, <2>2
<1>3. ASSUME NEW q \in Players, q # p, running[q] # None, LiveLevels = {} PROVE Heeds(q)'
  <2>1. /\ running[q].thread # t /\ running[q].thread \in Threads
        /\ running'[q] = running[q]
    BY <1>3, ThreadsDiffer DEF IInv, TypeOK, RunningPlayer
  <2> HIDE DEF t
  <2>2. thread'[running[q].thread] = thread[running[q].thread]
    BY <1>1, <2>1 DEF Sent, IInv, TypeOK, t
  <2> QED
    BY <1>3, <2>1, <2>2, HeedsOn DEF Heeded
<1> QED
  BY <1>1, <1>2, <1>3 DEF Heeded, IInv, TypeOK

\* A thread's record is replaced by one that heeds if the old one did.
LEMMA RecordHeeds ==
  ASSUME IInv, Heeded, NEW t \in Threads, NEW r \in AudioThread, thread[t] # None,
         running' = running, thread' = [thread EXCEPT ![t] = r],
         LiveLevels = {} /\ r.phase = "up" =>
           /\ thread[t].phase = "up" /\ r.inbox = thread[t].inbox
           /\ ~r.unseen => IF thread[t].unseen THEN r.level = r.inbox ELSE r.level = thread[t].level
  PROVE  Heeded'
<1>1. thread'[t] = r /\ \A u \in Threads : u # t => thread'[u] = thread[u]
  BY DEF IInv, TypeOK
<1>2. ASSUME NEW q \in Players, running[q] # None, LiveLevels = {} PROVE Heeds(q)'
  <2>1. Heeds(q) /\ running[q].thread \in Threads
    BY <1>2 DEF Heeded, IInv, TypeOK, RunningPlayer
  <2>2. CASE running[q].thread # t
    BY <1>1, <2>1, <2>2, HeedsOn
  <2>3. CASE running[q].thread = t
    BY <1>1, <1>2, <2>1, <2>3 DEF Heeds, Up
  <2> QED
    BY <2>2, <2>3
<1> QED
  BY <1>2 DEF Heeded

\* The threads' steps.
LEMMA ThreadHeeds == ASSUME IInv, Heeded, AudioThreads PROVE Heeded'
<1>1. PICK t \in Threads :
        ReportStatus(t) \/ TakeSettings(t) \/ SeeThreadStop(t) \/ SessionEnds(t) \/ SessionMoves(t)
  BY DEF AudioThreads
<1>2. Up(t) /\ thread[t] \in AudioThread /\ thread[t] # None /\ running' = running
  BY <1>1 DEF ReportStatus, TakeSettings, SeeThreadStop, SessionEnds, SessionMoves, Up, IInv, TypeOK
<1>3. CASE ReportStatus(t)
  <2> DEFINE r == [thread[t] EXCEPT !.dirty = FALSE]
  <2>1. /\ r \in AudioThread /\ r.phase = "up" /\ r.inbox = thread[t].inbox
        /\ r.unseen = thread[t].unseen /\ r.level = thread[t].level
    BY <1>2 DEF AudioThread, Up
  <2> QED
    BY <1>2, <1>3, <2>1, RecordHeeds DEF ReportStatus, Up
<1>4. CASE TakeSettings(t)
  <2> DEFINE r == [thread[t] EXCEPT !.unseen = FALSE, !.level = thread[t].inbox, !.dirty = TRUE]
  <2>1. /\ r \in AudioThread /\ r.phase = "up" /\ r.inbox = thread[t].inbox
        /\ r.level = r.inbox
    BY <1>2 DEF AudioThread, Up
  <2> QED
    BY <1>2, <1>4, <2>1, RecordHeeds DEF TakeSettings, Up
<1>5. CASE SeeThreadStop(t) \/ SessionEnds(t)
  <2> DEFINE r == [thread[t] EXCEPT !.phase = "ended"]
  <2>1. r \in AudioThread /\ r.phase = "ended" /\ thread' = [thread EXCEPT ![t] = r]
    BY <1>2, <1>5 DEF AudioThread, SeeThreadStop, SessionEnds
  <2> QED
    BY <1>2, <2>1, RecordHeeds
<1>6. CASE SessionMoves(t)
  <2>1. ASSUME LiveLevels # {} PROVE Heeded'
    BY <2>1 DEF Heeded
  <2>2. ASSUME LiveLevels = {} PROVE Heeded'
    <3>1. PICK c \in Conns : thread' = [thread EXCEPT ![t].conn = c, ![t].dirty = TRUE]
      BY <1>6, <2>2 DEF SessionMoves
    <3> DEFINE r == [thread[t] EXCEPT !.conn = c, !.dirty = TRUE]
    <3>2. /\ r \in AudioThread /\ r.phase = "up" /\ r.inbox = thread[t].inbox
          /\ r.unseen = thread[t].unseen /\ r.level = thread[t].level
          /\ thread' = [thread EXCEPT ![t] = r]
      BY <1>2, <3>1 DEF AudioThread, Up
    <3> QED
      BY <1>2, <3>2, RecordHeeds DEF Up
  <2> QED
    BY <2>1, <2>2
<1> QED
  BY <1>1, <1>3, <1>4, <1>5, <1>6

\* The supervisor's steps.
LEMMA SupervisorHeeds == ASSUME IInv, IInv', Heeded, Supervisor PROVE Heeded'
<1>1. ASSUME NEW p \in Players, StopPlayer(p) PROVE Heeded'
  <2> DEFINE t == running[p].thread
  <2>1. running[p] # None /\ t \in Threads /\ running' = [running EXCEPT ![p] = None]
        /\ thread' = [thread EXCEPT ![t].stop = TRUE]
    BY <1>1 DEF StopPlayer, IInv, TypeOK, Phases, RunningPlayer
  <2>2. ASSUME NEW q \in Players, running'[q] # None, LiveLevels = {} PROVE Heeds(q)'
    <3>1. q # p /\ running'[q] = running[q] /\ running[q].thread \in Threads
      BY <2>1, <2>2 DEF IInv, TypeOK, RunningPlayer
    <3>2. running[q].thread # t
      BY <2>1, <2>2, <3>1, ThreadsDiffer
    <3>3. thread'[running[q].thread] = thread[running[q].thread]
      BY <2>1, <3>1, <3>2 DEF IInv, TypeOK
    <3> QED
      BY <2>2, <3>1, <3>3, HeedsOn DEF Heeded
  <2> QED
    BY <2>2 DEF Heeded
<1>2. CASE JoinThread
  <2>1. ASSUME NEW q \in Players, running'[q] # None, LiveLevels = {} PROVE Heeds(q)'
    <3>1. running'[q] = running[q] /\ running[q].thread \in Threads /\ running[q].thread # joining
      BY <1>2, <2>1 DEF JoinThread, IInv, TypeOK, Accounted, RunningPlayer
    <3>2. thread'[running[q].thread] = thread[running[q].thread]
      BY <1>2, <3>1 DEF JoinThread, IInv, TypeOK
    <3> QED
      BY <2>1, <3>1, <3>2, HeedsOn DEF Heeded
  <2> QED
    BY <2>1 DEF Heeded
<1>3. ASSUME NEW p \in Players, AdjustPlayer(p) PROVE Heeded'
  <2> DEFINE s == FromDesired(current.want[p])
  <2>1. running[p] \in RunningPlayer /\ running[p] # None /\ s \in LiveSettings
    BY <1>3, WantedConf, FromDesiredType DEF AdjustPlayer, IInv, TypeOK, Phases
  <2>2. CASE AsksAnew(p, s)
    <3> DEFINE e == [running[p] EXCEPT !.lastDesired = s, !.lastPushed = s]
    <3>1. e \in RunningPlayer /\ e.thread = running[p].thread /\ e.lastPushed = s
      BY <2>1 DEF RunningPlayer
    <3>2. running' = [running EXCEPT ![p] = e] /\ thread' = Sent(running[p].thread, s)
      BY <1>3, <2>2 DEF AdjustPlayer
    <3> HIDE DEF s, e
    <3> QED
      BY <2>1, <3>1, <3>2, PushHeeded
  <2>3. CASE ~AsksAnew(p, s)
    BY <1>3, <2>3 DEF AdjustPlayer, Heeded, Heeds, Up
  <2> QED
    BY <2>2, <2>3
<1>4. CASE ApplyVolume
  <2> DEFINE req == Head(volumes)
             p == Target(req)
             next == Pressed(req, Reported(p), running[p].lastPushed.delay)
  <2>1. CASE p \in Running /\ next # running[p].lastPushed
    <3>1. p \in Players /\ running[p] \in RunningPlayer /\ running[p] # None
      BY <2>1 DEF Running, IInv, TypeOK
    <3>2. next \in LiveSettings
      BY <1>4, <2>1, AppliedType DEF ApplyVolume, IInv
    <3> DEFINE e == [running[p] EXCEPT !.lastPushed = next]
    <3>3. e \in RunningPlayer /\ e.thread = running[p].thread /\ e.lastPushed = next
      BY <3>1, <3>2 DEF RunningPlayer
    <3>4. running' = [running EXCEPT ![p] = e] /\ thread' = Sent(running[p].thread, next)
      BY <1>4, <2>1 DEF ApplyVolume
    <3> HIDE DEF p, next, e
    <3> QED
      BY <3>1, <3>2, <3>3, <3>4, PushHeeded
  <2>2. CASE ~(p \in Running /\ next # running[p].lastPushed)
    <3>1. UNCHANGED <<running, thread>>
      BY <1>4, <2>2 DEF ApplyVolume
    <3> QED
      BY <3>1 DEF Heeded, Heeds, Up
  <2> QED
    BY <2>1, <2>2
<1>5. ASSUME NEW p \in Players, NEW t \in Threads, SpawnPlayer(p, t) PROVE Heeded'
  <2> DEFINE s == FromDesired(current.want[p])
             k == KeyOf(current, p)
  <2>1. /\ running' = [running EXCEPT ![p] =
                         [thread |-> t, key |-> k, lastDesired |-> s, lastPushed |-> s]]
        /\ thread' = [thread EXCEPT ![t] =
                        [owner |-> p, key |-> k, phase |-> "up", stop |-> FALSE,
                         inbox |-> s, unseen |-> FALSE, level |-> s,
                         conn |-> "idle", dirty |-> TRUE]]
        /\ thread[t] = None
    BY <1>5 DEF SpawnPlayer
  <2> HIDE DEF s, k
  <2>2. /\ running'[p].thread = t /\ running'[p].lastPushed = s
        /\ thread'[t].inbox = s /\ thread'[t].level = s
    BY <2>1 DEF IInv, TypeOK
  <2>3. Heeds(p)'
    BY <2>2 DEF Heeds
  <2>4. ASSUME NEW q \in Players, q # p, running'[q] # None, LiveLevels = {} PROVE Heeds(q)'
    <3>1. running'[q] = running[q] /\ running[q].thread \in Threads /\ thread[running[q].thread] # None
      BY <2>1, <2>4 DEF IInv, TypeOK, RunningPlayer, Accounted
    <3>2. thread'[running[q].thread] = thread[running[q].thread]
      BY <2>1, <3>1 DEF IInv, TypeOK
    <3> QED
      BY <2>4, <3>1, <3>2, HeedsOn DEF Heeded
  <2> QED
    BY <2>3, <2>4 DEF Heeded
<1>6. CASE Reattach
  BY <1>6 DEF Reattach, Heeded
<1>7. CASE UNCHANGED <<running, thread>>
  BY <1>7 DEF Heeded, Heeds, Up
<1>8. CASE TakeDesired \/ EndStops \/ EndStarts \/ SeeDesired \/ SeeStop \/ EndTeardown
  BY <1>7, <1>8 DEF TakeDesired, EndStops, EndStarts, SeeDesired, SeeStop, EndTeardown
<1>9. ASSUME NEW p \in Players, BuildFails(p) PROVE Heeded'
  BY <1>7, <1>9 DEF BuildFails
<1> QED
  BY <1>1, <1>2, <1>3, <1>4, <1>5, <1>6, <1>8, <1>9, Zenon DEF Supervisor

\* Without live changes, a thread that has seen everything plays the level that
\* was pushed last: values overtake each other in the channel, never what is
\* believed to be played.
THEOREM PushedIsPlayed == Spec => []PlaysWhatWasPushed
<1>1. Init => Heeded
  BY DEF Init, Heeded
<1>2. IInv /\ IInv' /\ Heeded /\ [Next]_vars => Heeded'
  <2>1. Heeded /\ UNCHANGED <<running, thread>> => Heeded'
    BY DEF Heeded, Heeds, Up
  <2>2. Poll \/ StopPolling \/ Press \/ Plug \/ UNCHANGED vars => UNCHANGED <<running, thread>>
    BY DEF Poll, StopPolling, Press, Plug, vars
  <2> QED
    BY <2>1, <2>2, SupervisorHeeds, ThreadHeeds, Zenon DEF Next
<1>3. Heeded => PlaysWhatWasPushed
  BY DEF Heeded, Heeds, PlaysWhatWasPushed, Running
<1> QED
  BY <1>1, <1>2, <1>3, Invariance, PTL DEF Spec

-----------------------------------------------------------------------------
(* Asleep, everything is as desired *)

\* A wanted player that was seen to is on show; if it runs, by what was asked,
\* and if not, as an error.
Seen(p) ==
  /\ registry[p] # None
  /\ running[p] # None => running[p].lastDesired = FromDesired(current.want[p])
  /\ running[p] = None => registry[p].state = "error"

\* What is true of the map and the registry from one sleep to the next.
Settling ==
  /\ \A p \in Players : running[p] # None => registry[p] # None
  /\ pc = "starting" => /\ current.url # None
                        /\ \A p \in Wanted(current) \ todo : Seen(p)
  /\ pc = "select" =>
       /\ \A p \in Players :
            running[p] # None => p \in Wanted(current) /\ running[p].key = KeyOf(current, p)
       /\ current.url # None =>
            \A p \in Players : registry[p] # None <=> p \in Wanted(current)
       /\ \A p \in Wanted(current) : Seen(p)

\* A report changes no more than the entry of a player of the map, and neither
\* adds nor removes one.
LEMMA ReportsKeep ==
  ASSUME IInv, NEW t \in Threads, thread[t] # None, NEW s \in Snapshot,
         registry' = Noted(thread[t].owner, s)
  PROVE  \A p \in Players :
           /\ registry'[p] = None <=> registry[p] = None
           /\ running[p] = None /\ joining = None => registry'[p] = registry[p]
<1> DEFINE o == thread[t].owner
<1>1. o \in Players
  BY DEF IInv, TypeOK, AudioThread
<1>2. s # None
  BY NoneAssumption
<1>3. joining = None => running[o] # None
  BY NoneAssumption DEF IInv, Accounted
<1>4. registry' = Noted(o, s)
  OBVIOUS
<1> HIDE DEF o
<1>5. \/ registry' = registry
      \/ registry[o] # None /\ registry' = [registry EXCEPT ![o] = s]
  BY <1>4 DEF Noted
<1>6. CASE registry' = registry
  BY <1>6
<1>7. CASE registry[o] # None /\ registry' = [registry EXCEPT ![o] = s]
  <2>1. \A p \in Players : registry'[p] = IF p = o THEN s ELSE registry[p]
    BY <1>7 DEF IInv, TypeOK
  <2> QED
    BY <1>2, <1>3, <1>7, <2>1
<1> QED
  BY <1>5, <1>6, <1>7

\* What the threads leave of the registry.
LEMMA ThreadsKeep ==
  ASSUME IInv, AudioThreads
  PROVE  /\ UNCHANGED <<pc, current, running, todo>>
         /\ \A p \in Players :
              /\ registry'[p] = None <=> registry[p] = None
              /\ running[p] = None /\ joining = None => registry'[p] = registry[p]
<1>1. PICK t \in Threads :
        ReportStatus(t) \/ TakeSettings(t) \/ SeeThreadStop(t) \/ SessionEnds(t) \/ SessionMoves(t)
  BY DEF AudioThreads
<1>2. /\ Up(t) /\ thread[t] \in AudioThread /\ thread[t] # None
      /\ UNCHANGED <<pc, current, running, todo>>
  BY <1>1 DEF ReportStatus, TakeSettings, SeeThreadStop, SessionEnds, SessionMoves, Up, IInv, TypeOK
<1> DEFINE o == thread[t].owner
<1>3. o \in Players
  BY <1>2 DEF AudioThread
<1>4. CASE registry' = registry
  BY <1>2, <1>4
<1>5. CASE registry[o] = None
  BY <1>1, <1>2, <1>5 DEF ReportStatus, TakeSettings, SeeThreadStop, SessionEnds, SessionMoves, Noted
<1>6. CASE registry[o] # None /\ registry[o] \in Snapshot
  <2>1. Said(t) \in Snapshot
    BY <1>2, <1>6 DEF Said, AudioThread, Snapshot, LiveSettings
  <2>2. [registry[o] EXCEPT !.delay = thread[t].inbox.delay] \in Snapshot
    BY <1>2, <1>6 DEF AudioThread, Snapshot, LiveSettings
  <2>3. [registry[o] EXCEPT !.state = "error"] \in Snapshot
    BY <1>6 DEF Snapshot
  <2>4. \/ registry' = registry
        \/ registry' = Noted(o, Said(t))
        \/ registry' = Noted(o, [registry[o] EXCEPT !.delay = thread[t].inbox.delay])
        \/ registry' = Noted(o, [registry[o] EXCEPT !.state = "error"])
    BY <1>1, Zenon DEF ReportStatus, TakeSettings, SeeThreadStop, SessionEnds, SessionMoves
  <2> QED
    BY <1>2, <2>1, <2>2, <2>3, <2>4, ReportsKeep
<1> QED
  BY <1>3, <1>4, <1>5, <1>6 DEF IInv, TypeOK

\* The supervisor asleep or starting players joins no thread, and nothing is
\* lost by what others do.
LEMMA SettlingKept ==
  ASSUME IInv, Settling, UNCHANGED <<pc, current, running, todo>>,
         \A p \in Players :
           /\ registry'[p] = None <=> registry[p] = None
           /\ running[p] = None /\ joining = None => registry'[p] = registry[p]
  PROVE  Settling'
<1>1. pc \in {"starting", "select"} => joining = None
  BY DEF IInv, Phases
<1>2. ASSUME NEW p \in Players, Seen(p), joining = None PROVE Seen(p)'
  BY <1>2 DEF Seen
<1>3. Wanted(current) \subseteq Players
  BY DEF Wanted
<1> QED
  BY <1>1, <1>2, <1>3 DEF Settling, Wanted, KeyOf

\* The supervisor's steps.
LEMMA SupervisorSettles == ASSUME IInv, Settling, Supervisor PROVE Settling'
<1>0. Wanted(current) \subseteq Players
  BY DEF Wanted
<1>1. CASE TakeDesired
  BY <1>1 DEF TakeDesired, Settling, Running, Wanted
<1>2. ASSUME NEW p \in Players, StopPlayer(p) PROVE Settling'
  BY <1>2 DEF StopPlayer, Settling, IInv, TypeOK
<1>3. CASE JoinThread
  BY <1>3, SettlingKept DEF JoinThread
<1>4. CASE EndStops
  <2>1. KeptAsWanted /\ stale = {}
    BY <1>4 DEF EndStops, IInv, Phases
  <2>2. CASE current.url = None
    <3>1. Wanted(current) = {} /\ \A p \in Players : running[p] = None
      BY <2>1, <2>2 DEF Wanted, KeptAsWanted
    <3> QED
      BY <1>4, <2>2, <3>1 DEF EndStops, Settling, Wanted
  <2>3. CASE current.url # None
    BY <1>4, <2>3 DEF EndStops, Settling, Wanted
  <2> QED
    BY <2>2, <2>3
<1>5. ASSUME NEW p \in Players, AdjustPlayer(p) PROVE Settling'
  <2>1. /\ running'[p] # None /\ running'[p].lastDesired = FromDesired(current.want[p])
        /\ \A q \in Players : q # p => running'[q] = running[q]
    <3> DEFINE s == FromDesired(current.want[p])
               e == [running[p] EXCEPT !.lastDesired = s, !.lastPushed = s]
    <3>1. running[p] \in RunningPlayer /\ running[p] # None /\ s \in LiveSettings
      BY <1>5, WantedConf, FromDesiredType DEF AdjustPlayer, IInv, TypeOK, Phases
    <3>2. e \in RunningPlayer /\ e.lastDesired = s
      BY <3>1 DEF RunningPlayer
    <3>3. IF AsksAnew(p, s) THEN running' = [running EXCEPT ![p] = e] ELSE running' = running
      BY <1>5 DEF AdjustPlayer
    <3> HIDE DEF e
    <3> QED
      BY <3>1, <3>2, <3>3, NoneAssumption DEF AsksAnew, IInv, TypeOK
  <2>2. pc = "starting" /\ running[p] # None /\ todo' = todo \ {p} /\ UNCHANGED <<pc, current, registry>>
    BY <1>5 DEF AdjustPlayer
  <2>3. Seen(p)'
    BY <2>1, <2>2 DEF Settling, Seen
  <2>4. ASSUME NEW q \in Players, q # p, Seen(q) PROVE Seen(q)'
    BY <2>1, <2>2, <2>4 DEF Seen
  <2> QED
    BY <1>0, <2>1, <2>2, <2>3, <2>4 DEF Settling, Wanted
<1>6. ASSUME NEW p \in Players, BuildFails(p) PROVE Settling'
  <2> DEFINE s == [state |-> "error", volume |-> FromDesired(current.want[p]).volume,
                   muted |-> FromDesired(current.want[p]).muted,
                   delay |-> FromDesired(current.want[p]).delay]
  <2>1. s \in Snapshot /\ s.state = "error"
    BY <1>6, WantedConf, FromDesiredType DEF BuildFails, IInv, TypeOK, Phases, Snapshot, LiveSettings
  <2>2. registry' = [registry EXCEPT ![p] = s]
    BY <1>6 DEF BuildFails, Registered
  <2> HIDE DEF s
  <2>3. registry'[p] = s /\ s # None /\ \A q \in Players : q # p => registry'[q] = registry[q]
    BY <2>1, <2>2, NoneAssumption DEF IInv, TypeOK
  <2>4. /\ pc = "starting" /\ running[p] = None /\ todo' = todo \ {p}
        /\ UNCHANGED <<pc, current, running>>
    BY <1>6 DEF BuildFails
  <2>5. Seen(p)'
    BY <2>1, <2>3, <2>4 DEF Seen
  <2>6. ASSUME NEW q \in Players, q # p, Seen(q) PROVE Seen(q)'
    BY <2>3, <2>4, <2>6 DEF Seen
  <2> QED
    BY <1>0, <2>3, <2>4, <2>5, <2>6 DEF Settling, Wanted
<1>7. ASSUME NEW p \in Players, NEW t \in Threads, SpawnPlayer(p, t) PROVE Settling'
  <2> DEFINE d == FromDesired(current.want[p])
             s == [state |-> "idle", volume |-> d.volume, muted |-> d.muted, delay |-> d.delay]
             e == [thread |-> t, key |-> KeyOf(current, p), lastDesired |-> d, lastPushed |-> d]
  <2>1. d \in LiveSettings /\ KeyOf(current, p) \in RestartKey
    BY <1>7, WantedConf, FromDesiredType DEF SpawnPlayer, IInv, TypeOK, Phases
  <2>2. s \in Snapshot /\ e \in RunningPlayer /\ e.lastDesired = d
    BY <2>1 DEF Snapshot, LiveSettings, RunningPlayer
  <2>3. registry' = [registry EXCEPT ![p] = s] /\ running' = [running EXCEPT ![p] = e]
    BY <1>7 DEF SpawnPlayer, Registered
  <2>4. pc = "starting" /\ todo' = todo \ {p} /\ UNCHANGED <<pc, current>>
    BY <1>7 DEF SpawnPlayer
  <2> HIDE DEF s, e
  <2>5. /\ registry'[p] = s /\ s # None /\ running'[p] = e /\ e # None
        /\ \A q \in Players : q # p => registry'[q] = registry[q] /\ running'[q] = running[q]
    BY <2>2, <2>3, NoneAssumption DEF IInv, TypeOK
  <2>6. Seen(p)'
    BY <2>2, <2>4, <2>5 DEF Seen
  <2>7. ASSUME NEW q \in Players, q # p, Seen(q) PROVE Seen(q)'
    BY <2>4, <2>5, <2>7 DEF Seen
  <2> QED
    BY <1>0, <2>4, <2>5, <2>6, <2>7 DEF Settling, Wanted
<1>8. CASE EndStarts
  <2>1. /\ pc = "starting" /\ todo = {} /\ pc' = "select" /\ UNCHANGED <<current, running>>
        /\ registry' = Retained
    BY <1>8 DEF EndStarts
  <2>2. \A p \in Players :
          registry'[p] = IF p \in Wanted(current) THEN registry[p] ELSE None
    BY <2>1 DEF Retained
  <2>3. \A p \in Players :
          running[p] # None => p \in Wanted(current) /\ running[p].key = KeyOf(current, p)
    BY <2>1 DEF IInv, Phases, KeptAsWanted
  <2>4. \A p \in Wanted(current) : Seen(p)
    BY <2>1 DEF Settling
  <2>5. \A p \in Wanted(current) : Seen(p)'
    BY <1>0, <2>1, <2>2, <2>4 DEF Seen
  <2>6. \A p \in Players : registry'[p] # None <=> p \in Wanted(current)
    BY <2>2, <2>4 DEF Seen
  <2>7. Wanted(current)' = Wanted(current) /\ \A p : KeyOf(current, p)' = KeyOf(current, p)
    BY <2>1 DEF Wanted, KeyOf
  <2> QED
    BY <2>1, <2>3, <2>5, <2>6, <2>7 DEF Settling
<1>9. CASE SeeDesired \/ SeeStop
  BY <1>9 DEF SeeDesired, SeeStop, Settling
<1>10. CASE ApplyVolume
  <2>1. \A q \in Players : running[q] = None => running'[q] = None
    BY <1>10 DEF ApplyVolume, Running, IInv, TypeOK
  <2> QED
    BY <1>10, <2>1 DEF ApplyVolume, Settling
<1>11. CASE EndTeardown
  BY <1>11 DEF EndTeardown, Settling, IInv, Leaving
<1>12. CASE Reattach
  BY <1>12 DEF Reattach, Settling
<1> QED
  BY <1>1, <1>2, <1>3, <1>4, <1>5, <1>6, <1>7, <1>8, <1>9, <1>10, <1>11, <1>12, Zenon DEF Supervisor

\* So do all the others.
LEMMA SettlingStep == IInv /\ Settling /\ [Next]_vars => Settling'
<1>1. ASSUME IInv, Settling, UNCHANGED <<pc, current, running, todo, registry>> PROVE Settling'
  BY <1>1, SettlingKept
<1>2. Poll \/ StopPolling \/ Press \/ Plug \/ UNCHANGED vars
        => UNCHANGED <<pc, current, running, todo, registry>>
  BY DEF Poll, StopPolling, Press, Plug, vars
<1>3. ASSUME IInv, Settling, AudioThreads PROVE Settling'
  BY <1>3, ThreadsKeep, SettlingKept
<1> QED
  BY <1>1, <1>2, <1>3, SupervisorSettles, Zenon DEF Next

\* A supervisor that sleeps runs what it was asked for, and says so.
THEOREM SleepsSettled == Spec => []SettledAsDesired
<1>1. Init => Settling
  BY DEF Init, Settling
<1>2. Settling => SettledAsDesired
  BY DEF Settling, SettledAsDesired, Seen, Stale, Running, Registry, Wanted
<1> QED
  BY <1>1, <1>2, SettlingStep, Invariance, PTL DEF Spec

-----------------------------------------------------------------------------
(* A seed, not a setpoint *)

\* Between two visits a player keeps the bookkeeping of the pass before: what
\* it was asked for is what the desired state of that pass says.
AsSettled ==
  \A p \in Players :
    running[p] # None /\ (pc = "starting" => p \in todo) =>
      p \in Wanted(settled) /\ running[p].lastDesired = FromDesired(settled.want[p])

\* A step that adds no player, asks none for anything, and ends no pass.
LEMMA AsSettledKept ==
  ASSUME AsSettled, settled' = settled,
         pc = "starting" => pc' = "starting" /\ todo' \subseteq todo,
         \A p \in Players :
           running'[p] # None =>
             \/ pc' = "starting" /\ p \notin todo'
             \/ running[p] # None /\ running'[p].lastDesired = running[p].lastDesired
  PROVE  AsSettled'
BY DEF AsSettled, Wanted

\* A press leaves alone what the server asked for.
LEMMA PressKeepsAsked ==
  ASSUME TypeOK, ApplyVolume, NEW p \in Players, running'[p] # None
  PROVE  running[p] # None /\ running'[p].lastDesired = running[p].lastDesired
<1> DEFINE req == Head(volumes)
           q == Target(req)
           next == Pressed(req, Reported(q), running[q].lastPushed.delay)
           e == [running[q] EXCEPT !.lastPushed = next]
<1>1. \/ UNCHANGED running
      \/ q \in Running /\ running' = [running EXCEPT ![q] = e]
  BY DEF ApplyVolume
<1>2. q \in Running => running[q] \in RunningPlayer /\ running[q] # None /\ q \in Players
  BY DEF Running, TypeOK
<1> HIDE DEF q, next
<1>3. q \in Running => e.lastDesired = running[q].lastDesired
  BY <1>2 DEF RunningPlayer
<1> HIDE DEF e
<1> QED
  BY <1>1, <1>2, <1>3 DEF TypeOK

\* The supervisor's steps: a pass that ends has seen to every player of the map.
LEMMA SupervisorAsSettled ==
  ASSUME IInv, Settling, AsSettled, Supervisor
  PROVE  AsSettled'
<1>1. CASE TakeDesired
  BY <1>1, AsSettledKept DEF TakeDesired
<1>2. ASSUME NEW p \in Players, StopPlayer(p) PROVE AsSettled'
  <2>1. \A q \in Players : running'[q] # None => running[q] = running'[q]
    BY <1>2 DEF StopPlayer, IInv, TypeOK
  <2> QED
    BY <1>2, <2>1, AsSettledKept DEF StopPlayer
<1>3. CASE JoinThread \/ EndStops \/ SeeDesired \/ EndTeardown
  BY <1>3, AsSettledKept DEF JoinThread, EndStops, SeeDesired, EndTeardown
<1>4. ASSUME NEW p \in Players, AdjustPlayer(p) PROVE AsSettled'
  <2>1. /\ pc = "starting" /\ UNCHANGED <<pc, settled>> /\ todo' = todo \ {p}
        /\ \A q \in Players : q # p => running'[q] = running[q]
    BY <1>4 DEF AdjustPlayer, IInv, TypeOK
  <2> QED
    BY <2>1, AsSettledKept
<1>5. ASSUME NEW p \in Players, BuildFails(p) PROVE AsSettled'
  BY <1>5, AsSettledKept DEF BuildFails
<1>6. ASSUME NEW p \in Players, NEW t \in Threads, SpawnPlayer(p, t) PROVE AsSettled'
  <2>1. /\ pc = "starting" /\ UNCHANGED <<pc, settled>> /\ todo' = todo \ {p}
        /\ \A q \in Players : q # p => running'[q] = running[q]
    BY <1>6 DEF SpawnPlayer, IInv, TypeOK
  <2> QED
    BY <2>1, AsSettledKept
<1>7. CASE EndStarts
  <2>1. \A p \in Players : running[p] # None => p \in Wanted(current)
    BY <1>7 DEF EndStarts, IInv, Phases, KeptAsWanted
  <2>2. \A p \in Players : running[p] # None => running[p].lastDesired = FromDesired(current.want[p])
    BY <1>7, <2>1 DEF EndStarts, Settling, Seen
  <2> QED
    BY <1>7, <2>1, <2>2 DEF EndStarts, AsSettled, Wanted
<1>8. CASE ApplyVolume
  <2>1. \A q \in Players : running'[q] # None =>
           running[q] # None /\ running'[q].lastDesired = running[q].lastDesired
    BY <1>8, PressKeepsAsked DEF IInv
  <2> QED
    BY <1>8, <2>1, AsSettledKept DEF ApplyVolume
<1>9. CASE SeeStop
  BY <1>9, AsSettledKept DEF SeeStop
<1>10. CASE Reattach
  BY <1>10 DEF Reattach, AsSettled
<1> QED
  BY <1>1, <1>2, <1>3, <1>4, <1>5, <1>6, <1>7, <1>8, <1>9, <1>10, Zenon DEF Supervisor

\* What is sent to a thread reaches that thread alone.
LEMMA SentToOne ==
  ASSUME TypeOK, NEW t \in Threads, NEW u \in Threads, NEW s, u # t, thread' = Sent(t, s)
  PROVE  thread'[u] = thread[u]
BY DEF Sent, TypeOK

\* A thread is handed nothing by the threads themselves, nor by anything else
\* that happens around the supervisor.
LEMMA OutsideHandsNothing ==
  ASSUME TypeOK, NEW p \in Players, Handed(p),
         AudioThreads \/ Poll \/ StopPolling \/ Press \/ Plug \/ UNCHANGED vars
  PROVE  FALSE
<1> DEFINE u == running[p].thread
<1>1. u \in Threads /\ thread[u] \in AudioThread
  BY DEF Handed, Up, TypeOK, RunningPlayer
<1>2. ASSUME NEW t \in Threads,
             ReportStatus(t) \/ TakeSettings(t) \/ SeeThreadStop(t) \/ SessionEnds(t) \/ SessionMoves(t)
      PROVE  thread'[u].inbox = thread[u].inbox /\ (thread'[u].unseen => thread[u].unseen)
  <2>1. CASE t # u
    BY <1>1, <1>2, <2>1 DEF ReportStatus, TakeSettings, SeeThreadStop, SessionEnds, SessionMoves, TypeOK
  <2>2. CASE t = u
    <3>1. CASE ReportStatus(t) \/ SeeThreadStop(t) \/ SessionEnds(t)
      BY <1>1, <2>2, <3>1 DEF ReportStatus, SeeThreadStop, SessionEnds, TypeOK, AudioThread
    <3>2. CASE TakeSettings(t)
      <4>1. thread'[u] = [thread[u] EXCEPT !.unseen = FALSE, !.level = thread[u].inbox, !.dirty = TRUE]
        BY <1>1, <2>2, <3>2 DEF TakeSettings, TypeOK
      <4> QED
        BY <1>1, <4>1 DEF AudioThread
    <3>3. ASSUME NEW c \in Conns, thread' = [thread EXCEPT ![t].conn = c, ![t].dirty = TRUE]
          PROVE  thread'[u].inbox = thread[u].inbox /\ thread'[u].unseen = thread[u].unseen
      <4>1. thread'[u] = [thread[u] EXCEPT !.conn = c, !.dirty = TRUE]
        BY <1>1, <2>2, <3>3 DEF TypeOK
      <4> QED
        BY <1>1, <4>1 DEF AudioThread
    <3>4. ASSUME NEW l \in LiveLevels,
                 thread' = [thread EXCEPT ![t].level.volume = l.volume,
                                          ![t].level.muted = l.muted, ![t].dirty = TRUE]
          PROVE  thread'[u].inbox = thread[u].inbox /\ thread'[u].unseen = thread[u].unseen
      <4>1. thread'[u] = [thread[u] EXCEPT !.level.volume = l.volume,
                                           !.level.muted = l.muted, !.dirty = TRUE]
        BY <1>1, <2>2, <3>4 DEF TypeOK
      <4> QED
        BY <1>1, <4>1 DEF AudioThread
    <3> QED
      BY <1>2, <3>1, <3>2, <3>3, <3>4 DEF SessionMoves
  <2> QED
    BY <2>1, <2>2
<1>3. CASE AudioThreads
  BY <1>2, <1>3 DEF AudioThreads, Handed
<1>4. CASE Poll \/ StopPolling \/ Press \/ Plug \/ UNCHANGED vars
  <2>1. thread' = thread
    BY <1>4 DEF Poll, StopPolling, Press, Plug, vars
  <2> QED
    BY <2>1 DEF Handed
<1> QED
  BY <1>3, <1>4

\* Of the supervisor's steps, besides carrying out a press, only a visit hands a
\* thread anything, and the player visited is the thread's own.
LEMMA OnlyVisitsHand ==
  ASSUME IInv, NEW p \in Players, Handed(p), Supervisor, volumes' = volumes
  PROVE  AdjustPlayer(p) /\ AsksAnew(p, FromDesired(current.want[p]))
<1> DEFINE u == running[p].thread
<1>1. u \in Threads /\ thread[u] \in AudioThread /\ Up(u) /\ thread[u] # None
  BY DEF Handed, Up, IInv, TypeOK, RunningPlayer
<1>2. thread'[u] # thread[u]
  BY DEF Handed
<1>3. ~(TakeDesired \/ EndStops \/ EndStarts \/ SeeDesired \/ SeeStop \/ EndTeardown \/ Reattach)
  BY <1>2 DEF TakeDesired, EndStops, EndStarts, SeeDesired, SeeStop, EndTeardown, Reattach
<1>4. \A q \in Players : ~BuildFails(q)
  BY <1>2 DEF BuildFails
<1>5. ~JoinThread
  BY <1>1, <1>2 DEF JoinThread, Handed, Up, IInv, TypeOK
<1>6. ~ApplyVolume
  BY DEF ApplyVolume, IInv, TypeOK
<1>7. ASSUME NEW q \in Players, StopPlayer(q) PROVE FALSE
  <2> DEFINE v == running[q].thread
  <2>1. v \in Threads /\ thread' = [thread EXCEPT ![v].stop = TRUE]
    BY <1>7 DEF StopPlayer, IInv, TypeOK, Phases, RunningPlayer
  <2>2. thread'[u] = IF u = v THEN [thread[u] EXCEPT !.stop = TRUE] ELSE thread[u]
    BY <1>1, <2>1 DEF IInv, TypeOK
  <2> QED
    BY <1>1, <2>2 DEF Handed, AudioThread
<1>8. ASSUME NEW q \in Players, NEW t \in Threads, SpawnPlayer(q, t) PROVE FALSE
  <2>1. t # u /\ thread'[u] = thread[u]
    BY <1>1, <1>8 DEF SpawnPlayer, IInv, TypeOK
  <2> QED
    BY <1>2, <2>1
<1>9. ASSUME NEW q \in Players, AdjustPlayer(q)
      PROVE  q = p /\ AsksAnew(p, FromDesired(current.want[p]))
  <2>1. AsksAnew(q, FromDesired(current.want[q]))
    BY <1>2, <1>9 DEF AdjustPlayer
  <2>2. thread' = Sent(running[q].thread, FromDesired(current.want[q])) /\ running[q] # None
    BY <1>9, <2>1 DEF AdjustPlayer
  <2>3. running[q].thread \in Threads
    BY <2>2 DEF IInv, TypeOK, RunningPlayer
  <2>4. running[q].thread = u
    BY <1>1, <1>2, <2>2, <2>3, SentToOne DEF IInv
  <2>5. q = p
    BY <1>1, <2>2, <2>4 DEF IInv, Accounted, Handed
  <2> QED
    BY <2>1, <2>5
<1> QED
  BY <1>3, <1>4, <1>5, <1>6, <1>7, <1>8, <1>9, Zenon DEF Supervisor

\* Whatever is pressed, reported or set live, a thread is handed the server's
\* settings only when the server asks for others than in the pass before: the
\* bookkeeping of the last visit is what the desired state of that pass said.
THEOREM PollsAreSeeds == Spec => SeedNotSetpoint
<1>1. Init => Settling /\ AsSettled
  BY DEF Init, Settling, AsSettled
<1>2. IInv /\ Settling /\ AsSettled /\ [Next]_vars => AsSettled'
  <2> SUFFICES ASSUME IInv, Settling, AsSettled, [Next]_vars PROVE AsSettled'
    OBVIOUS
  <2>1. CASE Supervisor
    BY <2>1, SupervisorAsSettled
  <2>2. CASE AudioThreads \/ Poll \/ StopPolling \/ Press \/ Plug \/ UNCHANGED vars
    <3>1. UNCHANGED <<pc, settled, running, todo>>
      BY <2>2, Zenon DEF AudioThreads, ReportStatus, TakeSettings, SeeThreadStop, SessionEnds, SessionMoves,
         Poll, StopPolling, Press, Plug, vars
    <3> QED
      BY <3>1, AsSettledKept
  <2> QED
    BY <2>1, <2>2, Zenon DEF Next
<1> DEFINE Visited(p) == pc = "starting" /\ p \in todo /\ AskedAnew(current, p)
<1>3. ASSUME IInv, AsSettled, [Next]_vars, NEW p \in Players, Handed(p), volumes' = volumes
      PROVE  Visited(p)
  <2>1. Supervisor
    BY <1>3, OutsideHandsNothing, Zenon DEF Next, IInv
  <2>2. AdjustPlayer(p) /\ AsksAnew(p, FromDesired(current.want[p]))
    BY <1>3, <2>1, OnlyVisitsHand
  <2>3. pc = "starting" /\ p \in todo /\ running[p] # None
    BY <2>2 DEF AdjustPlayer
  <2> QED
    BY <1>3, <2>2, <2>3 DEF AsSettled, AsksAnew, AskedAnew
<1>4. IInv /\ AsSettled /\ [Next]_vars
        => [\A p \in Players : Handed(p) /\ volumes' = volumes => Visited(p)]_vars
  BY <1>3
<1> QED
  BY <1>1, <1>2, <1>4, Invariance, SettlingStep, PTL DEF SeedNotSetpoint, Spec

-----------------------------------------------------------------------------
(* Being told to stop *)

\* A live thread has been told to stop exactly if it is the one being joined.
StopsAreJoined == \A t \in Threads : Up(t) => (thread[t].stop <=> t = joining)

\* No thread starts, and none that lives on is told anything.
SameStops == \A t \in Threads : Up(t)' => Up(t) /\ (thread'[t].stop <=> thread[t].stop)

\* Such a step disturbs nothing while the same thread is joined.
LEMMA StopsKept ==
  ASSUME StopsAreJoined, SameStops, joining' = joining
  PROVE  StopsAreJoined'
BY DEF StopsAreJoined, SameStops

\* One record of a thread is replaced by one that was told the same.
LEMMA RecordStops ==
  ASSUME TypeOK, NEW t \in Threads, NEW r, Up(t), r.stop = thread[t].stop,
         thread' = [thread EXCEPT ![t] = r]
  PROVE  SameStops
BY DEF TypeOK, SameStops, Up

\* Settings that are sent are no stop.
LEMMA SentStops ==
  ASSUME TypeOK, NEW t \in Threads, NEW s \in LiveSettings, thread' = Sent(t, s)
  PROVE  SameStops
<1>1. CASE Up(t)
  <2> DEFINE r == [thread[t] EXCEPT !.inbox = s, !.unseen = TRUE]
  <2>1. thread[t] \in AudioThread
    BY <1>1 DEF Up, TypeOK
  <2>2. r.stop = thread[t].stop
    BY <2>1 DEF AudioThread
  <2>3. thread' = [thread EXCEPT ![t] = r]
    BY <1>1 DEF Sent
  <2> HIDE DEF r
  <2> QED
    BY <1>1, <2>2, <2>3, RecordStops
<1>2. CASE ~Up(t)
  BY <1>2 DEF Sent, SameStops, Up
<1> QED
  BY <1>1, <1>2

\* The threads tell each other nothing.
LEMMA ThreadsStop ==
  ASSUME TypeOK, NEW t \in Threads,
         ReportStatus(t) \/ TakeSettings(t) \/ SeeThreadStop(t) \/ SessionEnds(t)
           \/ SessionMoves(t)
  PROVE  SameStops
<1>1. thread[t] \in AudioThread /\ Up(t)
  BY DEF TypeOK, ReportStatus, TakeSettings, SeeThreadStop, SessionEnds, SessionMoves, Up
<1>2. CASE SeeThreadStop(t) \/ SessionEnds(t)
  <2>1. thread' = [thread EXCEPT ![t].phase = "ended"]
    BY <1>2 DEF SeeThreadStop, SessionEnds
  <2>2. ~Up(t)' /\ \A u \in Threads : u # t => thread'[u] = thread[u]
    BY <1>1, <2>1 DEF TypeOK, Up, AudioThread
  <2> QED
    BY <2>2 DEF SameStops, Up
<1>3. CASE ReportStatus(t)
  <2> DEFINE r == [thread[t] EXCEPT !.dirty = FALSE]
  <2>1. r.stop = thread[t].stop /\ thread' = [thread EXCEPT ![t] = r]
    BY <1>1, <1>3 DEF ReportStatus, AudioThread
  <2> HIDE DEF r
  <2> QED
    BY <1>1, <2>1, RecordStops
<1>4. CASE TakeSettings(t)
  <2> DEFINE r == [thread[t] EXCEPT !.unseen = FALSE, !.level = thread[t].inbox, !.dirty = TRUE]
  <2>1. r.stop = thread[t].stop /\ thread' = [thread EXCEPT ![t] = r]
    BY <1>1, <1>4 DEF TakeSettings, AudioThread, TypeOK
  <2> HIDE DEF r
  <2> QED
    BY <1>1, <2>1, RecordStops
<1>5. CASE SessionMoves(t)
  <2>1. CASE \E c \in Conns : thread' = [thread EXCEPT ![t].conn = c, ![t].dirty = TRUE]
    <3>1. PICK c \in Conns : thread' = [thread EXCEPT ![t].conn = c, ![t].dirty = TRUE]
      BY <2>1
    <3> DEFINE r == [thread[t] EXCEPT !.conn = c, !.dirty = TRUE]
    <3>2. r.stop = thread[t].stop /\ thread' = [thread EXCEPT ![t] = r]
      BY <1>1, <3>1 DEF AudioThread, TypeOK
    <3> HIDE DEF r
    <3> QED
      BY <1>1, <3>2, RecordStops
  <2>2. CASE \E l \in LiveLevels :
               thread' = [thread EXCEPT ![t].level.volume = l.volume,
                                        ![t].level.muted = l.muted, ![t].dirty = TRUE]
    <3>1. PICK l \in LiveLevels :
               thread' = [thread EXCEPT ![t].level.volume = l.volume,
                                        ![t].level.muted = l.muted, ![t].dirty = TRUE]
      BY <2>2
    <3> DEFINE r == [thread[t] EXCEPT !.level.volume = l.volume,
                                      !.level.muted = l.muted, !.dirty = TRUE]
    <3>2. r.stop = thread[t].stop /\ thread' = [thread EXCEPT ![t] = r]
      BY <1>1, <3>1 DEF AudioThread, TypeOK
    <3> HIDE DEF r
    <3> QED
      BY <1>1, <3>2, RecordStops
  <2> QED
    BY <1>5, <2>1, <2>2 DEF SessionMoves
<1> QED
  BY <1>2, <1>3, <1>4, <1>5

\* The supervisor tells one thread, and waits for it.
LEMMA SupervisorStops == ASSUME IInv, StopsAreJoined, Supervisor PROVE StopsAreJoined'
<1> USE DEF IInv
<1>1. ASSUME NEW p \in Players, StopPlayer(p) PROVE StopsAreJoined'
  <2> DEFINE t == running[p].thread
  <2>1. t \in Threads /\ thread[t] \in AudioThread
    BY <1>1 DEF StopPlayer, Phases, Accounted, TypeOK, RunningPlayer
  <2>2. joining = None /\ joining' = t /\ thread' = [thread EXCEPT ![t].stop = TRUE]
    BY <1>1 DEF StopPlayer
  <2> HIDE DEF t
  <2>3. \A u \in Threads : u # t => thread'[u] = thread[u] /\ u # joining
    BY <2>2, NoneAssumption DEF TypeOK
  <2>4. thread'[t].stop = TRUE
    BY <2>1, <2>2 DEF TypeOK, AudioThread
  <2> QED
    BY <2>2, <2>3, <2>4 DEF StopsAreJoined, Up
<1>2. ASSUME JoinThread PROVE StopsAreJoined'
  <2>1. joining \in Threads /\ thread' = [thread EXCEPT ![joining] = None] /\ joining' = None
    BY <1>2 DEF JoinThread, TypeOK
  <2>2. \A u \in Threads : Up(u)' => u # joining /\ Up(u) /\ thread'[u] = thread[u] /\ u # None
    BY <2>1, NoneAssumption DEF Up, TypeOK
  <2> QED
    BY <2>1, <2>2 DEF StopsAreJoined
<1>3. ASSUME NEW p \in Players, NEW t \in Threads, SpawnPlayer(p, t) PROVE StopsAreJoined'
  <2>1. /\ thread[t] = None /\ joining' = joining
        /\ \A u \in Threads : u # t => thread'[u] = thread[u]
    BY <1>3 DEF SpawnPlayer, TypeOK
  <2>2. t # joining
    BY <2>1, NoneAssumption DEF Accounted
  <2>3. thread'[t].stop = FALSE
    BY <1>3 DEF SpawnPlayer, TypeOK
  <2> QED
    BY <2>1, <2>2, <2>3 DEF StopsAreJoined, Up
<1>4. ASSUME NEW p \in Players, AdjustPlayer(p) PROVE StopsAreJoined'
  <2>1. running[p].thread \in Threads /\ FromDesired(current.want[p]) \in LiveSettings
    BY <1>4, WantedConf, FromDesiredType DEF AdjustPlayer, Phases, TypeOK, RunningPlayer
  <2>2. UNCHANGED thread => SameStops
    BY DEF SameStops, Up
  <2> QED
    BY <1>4, <2>1, <2>2, SentStops, StopsKept DEF AdjustPlayer
<1>5. ASSUME ApplyVolume PROVE StopsAreJoined'
  <2> DEFINE p == Target(Head(volumes))
  <2>1. ASSUME p \in Running, volumes # <<>>
        PROVE  /\ running[p].thread \in Threads
               /\ Pressed(Head(volumes), Reported(p), running[p].lastPushed.delay)
                    \in LiveSettings
    BY <2>1, AppliedType DEF Running, TypeOK, RunningPlayer
  <2>2. UNCHANGED thread => SameStops
    BY DEF SameStops, Up
  <2> QED
    BY <1>5, <2>1, <2>2, SentStops, StopsKept DEF ApplyVolume
<1>6. ASSUME \/ TakeDesired \/ EndStops \/ EndStarts \/ SeeDesired \/ SeeStop \/ EndTeardown
             \/ Reattach \/ \E p \in Players : BuildFails(p)
      PROVE  StopsAreJoined'
  <2>1. UNCHANGED <<thread, joining>>
    BY <1>6 DEF TakeDesired, EndStops, EndStarts, SeeDesired, SeeStop, EndTeardown, Reattach,
       BuildFails
  <2> QED
    BY <2>1 DEF StopsAreJoined, Up
<1> QED
  BY <1>1, <1>2, <1>3, <1>4, <1>5, <1>6 DEF Supervisor

\* Whoever is told to stop is waited for, and nobody else: the join the
\* supervisor awaits is that of a thread that ended or has a stop to see, so it
\* is answered as soon as that thread runs, and no thread is told to stop and
\* then left to itself with its card open (stop_player).
THEOREM JoinsAreAnswered ==
  Spec => []( /\ StopsAreJoined
              /\ joining # None => /\ thread[joining] # None
                                   /\ Up(joining) => thread[joining].stop )
<1>1. Init => StopsAreJoined
  BY DEF Init, StopsAreJoined, Up
<1>2. IInv /\ StopsAreJoined /\ [Next]_vars => StopsAreJoined'
  <2>1. ASSUME IInv, StopsAreJoined, AudioThreads PROVE StopsAreJoined'
    <3>1. PICK t \in Threads : \/ ReportStatus(t) \/ TakeSettings(t) \/ SeeThreadStop(t)
                               \/ SessionEnds(t) \/ SessionMoves(t)
      BY <2>1 DEF AudioThreads
    <3>2. joining' = joining
      BY <3>1 DEF ReportStatus, TakeSettings, SeeThreadStop, SessionEnds, SessionMoves
    <3> QED
      BY <2>1, <3>1, <3>2, ThreadsStop, StopsKept DEF IInv
  <2>2. ASSUME StopsAreJoined, Poll \/ StopPolling \/ Press \/ Plug \/ UNCHANGED vars
        PROVE  StopsAreJoined'
    <3>1. UNCHANGED <<thread, joining>>
      BY <2>2 DEF Poll, StopPolling, Press, Plug, vars
    <3> QED
      BY <2>2, <3>1 DEF StopsAreJoined, Up
  <2> QED
    BY <2>1, <2>2, SupervisorStops DEF Next
<1>3. IInv /\ StopsAreJoined
        => /\ StopsAreJoined
           /\ joining # None => /\ thread[joining] # None
                                /\ Up(joining) => thread[joining].stop
  BY DEF IInv, TypeOK, Accounted, StopsAreJoined
<1> QED
  BY <1>1, <1>2, <1>3, Invariance, PTL DEF Spec

-----------------------------------------------------------------------------
(* The end of a pass *)

\* The supervisor is between two awaits of its loop: reconciling, or leaving.
UnderWay == pc \in {"stopping", "starting", "teardown"}

\* The steps left when n players are to stop and m to be looked at.
StepsWith(place, n, j, m) ==
  IF place = "starting" THEN m + 1
  ELSE IF place \in {"stopping", "teardown"}
       THEN 2 * n + (IF j = None THEN 0 ELSE 1) + 1
              + (IF place = "stopping" THEN Cardinality(Players) + 1 ELSE 0)
  ELSE 0

\* The steps a pass has left at most: a stop and a join for each player that is
\* stale, a look at each that is wanted.
StepsLeft == StepsWith(pc, Cardinality(stale), joining, Cardinality(todo))

\* A step of the supervisor is one of those; the others leave it where it is.
NearerTheEnd == UnderWay => StepsLeft' < StepsLeft \/ UNCHANGED <<pc, stale, joining, todo>>

\* Both sets are finite, and no larger than that of the players.
LEMMA PlayersCounted ==
  ASSUME IsFiniteSet(Players), TypeOK
  PROVE  /\ Cardinality(Players) \in Nat
         /\ Cardinality(stale) \in 0..Cardinality(Players)
         /\ Cardinality(todo) \in 0..Cardinality(Players)
         /\ \A p \in stale : Cardinality(stale \ {p}) = Cardinality(stale) - 1
         /\ \A p \in todo : Cardinality(todo \ {p}) = Cardinality(todo) - 1
         /\ Cardinality(Wanted(current)) \in 0..Cardinality(Players)
<1>1. stale \subseteq Players /\ todo \subseteq Players /\ Wanted(current) \subseteq Players
  BY DEF TypeOK, Wanted
<1>2. IsFiniteSet(stale) /\ IsFiniteSet(todo) /\ IsFiniteSet(Wanted(current))
  BY <1>1, FS_Subset
<1>3. /\ Cardinality(Players) \in Nat /\ Cardinality(stale) \in Nat /\ Cardinality(todo) \in Nat
      /\ Cardinality(Wanted(current)) \in Nat
      /\ Cardinality(stale) <= Cardinality(Players)
      /\ Cardinality(todo) <= Cardinality(Players)
      /\ Cardinality(Wanted(current)) <= Cardinality(Players)
  BY <1>1, <1>2, FS_Subset, FS_CardinalityType
<1> QED
  BY <1>2, <1>3, FS_RemoveElement

\* Each step takes the pass nearer to its end.
LEMMA StepNearerTheEnd ==
  ASSUME IsFiniteSet(Players), TypeOK, Phases, Next, UnderWay PROVE NearerTheEnd
<1> USE PlayersCounted DEF NearerTheEnd, StepsLeft, StepsWith, UnderWay
<1>1. ASSUME NEW p \in Players, StopPlayer(p) PROVE NearerTheEnd
  <2>1. running[p].thread # None
    BY <1>1, NoneAssumption DEF StopPlayer, Phases, TypeOK, RunningPlayer
  <2> QED
    BY <1>1, <2>1 DEF StopPlayer
<1>2. CASE JoinThread
  BY <1>2 DEF JoinThread, Phases
<1>3. CASE EndStops
  BY <1>3 DEF EndStops
<1>4. ASSUME NEW p \in Players,
             AdjustPlayer(p) \/ BuildFails(p) \/ \E t \in Threads : SpawnPlayer(p, t)
      PROVE  NearerTheEnd
  BY <1>4 DEF AdjustPlayer, BuildFails, SpawnPlayer
<1>5. CASE EndStarts
  BY <1>5, NoneAssumption DEF EndStarts, Phases
<1>6. CASE EndTeardown
  BY <1>6 DEF EndTeardown
<1>7. CASE TakeDesired \/ SeeDesired \/ ApplyVolume \/ SeeStop \/ Reattach
  BY <1>7 DEF TakeDesired, SeeDesired, ApplyVolume, SeeStop, Reattach
<1>8. CASE AudioThreads \/ Poll \/ StopPolling \/ Press \/ Plug
  <2>1. UNCHANGED <<pc, stale, joining, todo>>
    BY <1>8 DEF AudioThreads, ReportStatus, TakeSettings, SeeThreadStop, SessionEnds, SessionMoves,
       Poll, StopPolling, Press, Plug
  <2> QED
    BY <2>1
<1> QED
  BY <1>1, <1>2, <1>3, <1>4, <1>5, <1>6, <1>7, <1>8 DEF Next, Supervisor

\* A pass of the supervisor, and its teardown, are over after a number of its
\* own steps that depends on the number of players alone: what arrives
\* meanwhile -- desired states, presses, reports, cards -- never adds to the
\* work in hand (reconcile_players).  With JoinsAreAnswered, all that is left
\* to fairness is that the thread being joined sees its stop.
THEOREM PassesEnd ==
  ASSUME IsFiniteSet(Players)
  PROVE  Spec => /\ [](StepsLeft \in 0 .. 3 * Cardinality(Players) + 3)
                 /\ [][NearerTheEnd]_vars
<1>1. IInv => StepsLeft \in 0 .. 3 * Cardinality(Players) + 3
  BY PlayersCounted DEF IInv, StepsLeft, StepsWith
<1>2. IInv /\ [Next]_vars => [NearerTheEnd]_vars
  BY StepNearerTheEnd DEF IInv, NearerTheEnd
<1> QED
  BY <1>1, <1>2, Invariance, PTL DEF Spec

-----------------------------------------------------------------------------
(* A comment that holds where its exception cannot occur *)

\* "A removed room stops being reported" (status.rs:249) is so of a server that
\* always names an endpoint: the early return of a pass without one is the only
\* way a room stays on show that nobody wants.
THEOREM RemovedRoomsGo ==
  ASSUME \A c \in Configs : c.url # None
  PROVE  Spec => []RemovedRoomsAreNotReported
<1>1. TypeOK /\ SettledAsDesired => RemovedRoomsAreNotReported
  BY DEF TypeOK, SettledAsDesired, RemovedRoomsAreNotReported
<1> QED
  BY <1>1, TypeCorrect, SleepsSettled, PTL

====
