------------------------------- MODULE Sources -------------------------------
(***************************************************************************)
(* Inputs offered as sources (reconcile_sources in src/src/supervisor.rs,  *)
(* src/src/source.rs, the source rows of src/src/status.rs).               *)
(*                                                                         *)
(* The supervisor stops the sources that must not go on, waits for each    *)
(* thread, hands live settings to the others and starts what is missing.   *)
(* A source thread decides from measured levels whether there is a signal: *)
(* a change has to outlast the hold before the server hears of it.  Polls, *)
(* levels, settings and stops arrive in any order.                         *)
(***************************************************************************)
EXTENDS Integers

CONSTANTS
  Clients,    \* ids of sources
  Inputs,     \* capture devices, and whatever else only a restart changes
  Levels,     \* measured levels, and thresholds, on one scale
  Holds,      \* hold times, in ticks
  MaxAge,     \* bound: up to where ages are counted, past the longest hold
  Configs,    \* the desired states the server may send
  None        \* "absent", of every optional value

RowStates == {"ok", "error"}
Settings == [threshold : Levels, hold : Holds]
Wish == [input : Inputs, signal : Settings]
Entry == [key : Inputs, asked : Settings]
DesiredSources == [url : BOOLEAN, sources : [Clients -> Wish \cup {None}]]

ASSUME SourcesAssumption ==
  /\ Levels \subseteq Int /\ Holds \subseteq Nat
  /\ MaxAge \in Nat /\ \A h \in Holds : h < MaxAge
  /\ Configs \subseteq DesiredSources
  /\ None \notin Clients \cup Wish \cup Entry \cup Nat \cup RowStates

Ages == 0 .. MaxAge
Older(age) == IF age < MaxAge THEN age + 1 ELSE age

-----------------------------------------------------------------------------
VARIABLES
  desired, changed,  \* the watch channel of desired states
  pc,        \* where the supervisor is: "select", "stopping", "starting"
  current,   \* the desired state being reconciled
  stale,     \* the sources still to stop
  joining,   \* the source whose thread is awaited
  todo,      \* the wanted sources not visited yet
  running,   \* the supervisor's map
  thread,    \* of each source, its thread: "none", "alive", "ended"
  stop,      \* whether a thread was told to stop
  handed, unread,  \* the watch channel of settings of each source
  settings,  \* SignalPolicy: the settings in force
  settled,   \* whether a first level was seen
  present,   \* the signal last reported: whether there is one
  candidate, \* the age of a change that is being timed
  level, fresh,  \* the measured level, and whether it was looked at
  differs,   \* since when every level looked at told of a change (not in the code)
  row        \* the source's row in the registry

channel == <<desired, changed>>
loop == <<pc, current, stale, joining, todo>>
policy == <<settings, settled, present, candidate, differs>>
input == <<level, fresh>>
live == <<handed, unread>>
vars == <<channel, loop, running, thread, stop, live, policy, input, row>>

ThreadStates == {"none", "alive", "ended"}

Init ==
  /\ desired \in Configs /\ changed = TRUE
  /\ pc = "select" /\ current = desired
  /\ stale = {} /\ joining = None /\ todo = {}
  /\ running = [c \in Clients |-> None]
  /\ thread = [c \in Clients |-> "none"]
  /\ stop = [c \in Clients |-> FALSE]
  /\ handed \in [Clients -> Settings] /\ settings = handed
  /\ unread = [c \in Clients |-> FALSE]
  /\ settled = [c \in Clients |-> FALSE]
  /\ present = [c \in Clients |-> FALSE]
  /\ candidate = [c \in Clients |-> None]
  /\ level \in [Clients -> Levels]
  /\ fresh = [c \in Clients |-> FALSE]
  /\ differs = [c \in Clients |-> 0]
  /\ row = [c \in Clients |-> None]

-----------------------------------------------------------------------------
(* The supervisor: reconcile_sources. *)

Wanted(d) == {c \in Clients : d.url /\ d.sources[c] # None}
Running == {c \in Clients : running[c] # None}
Keeps(d, c) == c \in Wanted(d) /\ d.sources[c].input = running[c].key

Poll(d) ==
  /\ desired' = d /\ changed' = TRUE
  /\ UNCHANGED <<loop, running, thread, stop, live, policy, input, row>>

\* Without an endpoint and with nothing running there is nothing to do, the
\* rows included.
NothingToDo ==
  /\ pc = "select" /\ changed
  /\ ~desired.url /\ Running = {}
  /\ changed' = FALSE
  /\ current' = desired
  /\ UNCHANGED <<desired, pc, stale, joining, todo, running, thread, stop, live, policy, input, row>>

TakeDesired ==
  /\ pc = "select" /\ changed
  /\ desired.url \/ Running # {}
  /\ changed' = FALSE
  /\ current' = desired
  /\ stale' = {c \in Running : ~Keeps(desired, c)}
  /\ pc' = "stopping"
  /\ UNCHANGED <<desired, joining, todo, running, thread, stop, live, policy, input, row>>

StopSource(c) ==
  /\ pc = "stopping" /\ joining = None
  /\ c \in stale
  /\ stale' = stale \ {c}
  /\ stop' = [stop EXCEPT ![c] = TRUE]
  /\ running' = [running EXCEPT ![c] = None]
  /\ joining' = c
  /\ UNCHANGED <<channel, pc, current, todo, thread, live, policy, input, row>>

\* Mutant: the thread is not waited for.
JoinNothing ==
  /\ joining # None
  /\ joining' = None
  /\ UNCHANGED <<channel, pc, current, stale, todo, running, thread, stop, live, policy, input, row>>

JoinThread ==
  /\ joining # None
  /\ thread[joining] = "ended"
  /\ thread' = [thread EXCEPT ![joining] = "none"]
  /\ joining' = None
  /\ UNCHANGED <<channel, pc, current, stale, todo, running, stop, live, policy, input, row>>

\* Without an endpoint all rows go, and that was it.
EndStops ==
  /\ pc = "stopping" /\ stale = {} /\ joining = None
  /\ pc' = IF current.url THEN "starting" ELSE "select"
  /\ todo' = Wanted(current)
  /\ row' = IF current.url THEN row ELSE [c \in Clients |-> None]
  /\ UNCHANGED <<channel, current, stale, joining, running, thread, stop, live, policy, input>>

Visits(c) ==
  /\ pc = "starting" /\ c \in todo
  /\ todo' = todo \ {c}

Asked(c) == current.sources[c].signal

\* Mutant: the settings are noted and not handed over.
AdjustNotHanded(c) ==
  /\ Visits(c) /\ running[c] # None
  /\ running' = [running EXCEPT ![c].asked = Asked(c)]
  /\ UNCHANGED <<channel, pc, current, stale, joining, thread, stop, live, policy, input, row>>

\* A source that goes on gets the settings that changed.
Adjust(c) ==
  /\ Visits(c) /\ running[c] # None
  /\ IF running[c].asked = Asked(c)
       THEN UNCHANGED <<running, live>>
       ELSE /\ running' = [running EXCEPT ![c].asked = Asked(c)]
            /\ handed' = [handed EXCEPT ![c] = Asked(c)]
            /\ unread' = [unread EXCEPT ![c] = TRUE]
  /\ UNCHANGED <<channel, pc, current, stale, joining, thread, stop, policy, input, row>>

\* The device cannot be opened: the row says so.
BuildFails(c) ==
  /\ Visits(c) /\ running[c] = None
  /\ row' = [row EXCEPT ![c] = "error"]
  /\ UNCHANGED <<channel, pc, current, stale, joining, running, thread, stop, live, policy, input>>

\* A thread with a policy of its own.
SpawnSource(c) ==
  /\ Visits(c) /\ running[c] = None
  /\ running' = [running EXCEPT ![c] = [key |-> current.sources[c].input, asked |-> Asked(c)]]
  /\ thread' = [thread EXCEPT ![c] = "alive"]
  /\ stop' = [stop EXCEPT ![c] = FALSE]
  /\ handed' = [handed EXCEPT ![c] = Asked(c)]
  /\ unread' = [unread EXCEPT ![c] = FALSE]
  /\ settings' = [settings EXCEPT ![c] = Asked(c)]
  /\ settled' = [settled EXCEPT ![c] = FALSE]
  /\ present' = [present EXCEPT ![c] = FALSE]
  /\ candidate' = [candidate EXCEPT ![c] = None]
  /\ differs' = [differs EXCEPT ![c] = 0]
  /\ fresh' = [fresh EXCEPT ![c] = FALSE]
  /\ row' = [row EXCEPT ![c] = "ok"]
  /\ UNCHANGED <<channel, pc, current, stale, joining, level>>

\* retain_sources.
EndStarts ==
  /\ pc = "starting" /\ todo = {}
  /\ pc' = "select"
  /\ row' = [c \in Clients |-> IF c \in Wanted(current) THEN row[c] ELSE None]
  /\ UNCHANGED <<channel, current, stale, joining, todo, running, thread, stop, live, policy, input>>

\* The device leaves its server: everything stops, and so do the rows. The next
\* supervisor starts with a desired state it has not seen.
TearDown ==
  /\ pc = "select"
  /\ current' = [current EXCEPT !.url = FALSE]
  /\ changed' = TRUE
  /\ stale' = Running
  /\ pc' = "stopping"
  /\ UNCHANGED <<desired, joining, todo, running, thread, stop, live, policy, input, row>>

-----------------------------------------------------------------------------
(* A source's thread: source::run. *)

Alive(c) == thread[c] = "alive"

\* A row that was removed is not written.
Says(c, state) == [row EXCEPT ![c] = IF row[c] = None THEN None ELSE state]

\* The level watch keeps the last measurement only.
LevelMoves(c, l) ==
  /\ Alive(c)
  /\ level' = [level EXCEPT ![c] = l]
  /\ fresh' = [fresh EXCEPT ![c] = TRUE]
  /\ UNCHANGED <<channel, loop, running, thread, stop, live, policy, row>>

\* Time passes: a change that is timed gets older.
Tick(c) ==
  /\ Alive(c)
  /\ candidate' = [candidate EXCEPT ![c] = IF @ = None THEN None ELSE Older(@)]
  /\ differs' = [differs EXCEPT ![c] = Older(@)]
  /\ UNCHANGED <<channel, loop, running, thread, stop, live, settings, settled, present, input, row>>

Raw(c) == level[c] >= settings[c].threshold

Looks(c) ==
  /\ Alive(c) /\ fresh[c]
  /\ fresh' = [fresh EXCEPT ![c] = FALSE]
  /\ UNCHANGED <<channel, loop, running, thread, stop, live, settings, level, row>>

\* observe: the first measurement is the baseline.
Settle(c) ==
  /\ Looks(c) /\ ~settled[c]
  /\ settled' = [settled EXCEPT ![c] = TRUE]
  /\ present' = [present EXCEPT ![c] = Raw(c)]
  /\ differs' = [differs EXCEPT ![c] = 0]
  /\ UNCHANGED candidate

\* Nothing has changed, whatever was being timed.
Agree(c) ==
  /\ Looks(c) /\ settled[c] /\ Raw(c) = present[c]
  /\ candidate' = [candidate EXCEPT ![c] = None]
  /\ differs' = [differs EXCEPT ![c] = 0]
  /\ UNCHANGED <<settled, present>>

\* A change is timed from here on.
Suspect(c) ==
  /\ Looks(c) /\ settled[c] /\ Raw(c) # present[c]
  /\ candidate[c] = None
  /\ candidate' = [candidate EXCEPT ![c] = 0]
  /\ UNCHANGED <<settled, present, differs>>

\* It has not lasted long enough.
Wait(c) ==
  /\ Looks(c) /\ settled[c] /\ Raw(c) # present[c]
  /\ candidate[c] # None /\ candidate[c] < settings[c].hold
  /\ UNCHANGED <<settled, present, candidate, differs>>

\* It has: the server is told.
Confirm(c) ==
  /\ Looks(c) /\ settled[c] /\ Raw(c) # present[c]
  /\ candidate[c] # None /\ candidate[c] >= settings[c].hold
  /\ present' = [present EXCEPT ![c] = Raw(c)]
  /\ candidate' = [candidate EXCEPT ![c] = None]
  /\ differs' = [differs EXCEPT ![c] = 0]
  /\ UNCHANGED settled

\* Mutant: a candidate goes on being timed under the new settings.
TakeSettingsOnly(c) ==
  /\ Alive(c) /\ unread[c]
  /\ unread' = [unread EXCEPT ![c] = FALSE]
  /\ settings' = [settings EXCEPT ![c] = handed[c]]
  /\ differs' = [differs EXCEPT ![c] = 0]
  /\ UNCHANGED <<channel, loop, running, thread, stop, handed, settled, present, candidate, input, row>>

\* update: a change that is being timed is dropped.
TakeSettings(c) ==
  /\ Alive(c) /\ unread[c]
  /\ unread' = [unread EXCEPT ![c] = FALSE]
  /\ settings' = [settings EXCEPT ![c] = handed[c]]
  /\ candidate' = [candidate EXCEPT ![c] = None]
  /\ differs' = [differs EXCEPT ![c] = 0]
  /\ UNCHANGED <<channel, loop, running, thread, stop, handed, settled, present, input, row>>

\* report: what the session says of itself.
Report(c) ==
  /\ Alive(c)
  /\ \E s \in RowStates : row' = Says(c, s)
  /\ UNCHANGED <<channel, loop, running, thread, stop, live, policy, input>>

SeeStop(c) ==
  /\ Alive(c) /\ stop[c]
  /\ thread' = [thread EXCEPT ![c] = "ended"]
  /\ UNCHANGED <<channel, loop, running, stop, live, policy, input, row>>

\* The session returns for good, with an error or without one.
SessionEnds(c) ==
  /\ Alive(c)
  /\ thread' = [thread EXCEPT ![c] = "ended"]
  /\ row' \in {row, Says(c, "error")}
  /\ UNCHANGED <<channel, loop, running, stop, live, policy, input>>

-----------------------------------------------------------------------------
Visit(c) == Adjust(c) \/ BuildFails(c) \/ SpawnSource(c)
Reconcile ==
  \/ NothingToDo \/ TakeDesired \/ JoinThread \/ EndStops \/ EndStarts
  \/ \E c \in Clients : StopSource(c) \/ Visit(c)

Observe(c) == Settle(c) \/ Agree(c) \/ Suspect(c) \/ Wait(c) \/ Confirm(c)
Thread(c) == Observe(c) \/ TakeSettings(c) \/ Report(c) \/ SeeStop(c) \/ SessionEnds(c)
World(c) == Tick(c) \/ \E l \in Levels : LevelMoves(c, l)

Next ==
  \/ Reconcile \/ TearDown
  \/ \E d \in Configs : Poll(d)
  \/ \E c \in Clients : Thread(c) \/ World(c)

Spec == Init /\ [][Next]_vars

\* The supervisor is scheduled, and so is each thread: `select!` picks at random
\* among what is ready, so neither settings nor a stop are passed over for ever.
Fairness ==
  /\ WF_vars(Reconcile)
  /\ \A c \in Clients : SF_vars(TakeSettings(c)) /\ SF_vars(SeeStop(c))

FairSpec == Spec /\ Fairness

-----------------------------------------------------------------------------
(* Properties. *)

\* Every variable has its type.
TypeOK ==
  /\ desired \in Configs /\ changed \in BOOLEAN
  /\ pc \in {"select", "stopping", "starting"} /\ current \in DesiredSources
  /\ stale \subseteq Clients /\ joining \in Clients \cup {None} /\ todo \subseteq Clients
  /\ running \in [Clients -> Entry \cup {None}]
  /\ thread \in [Clients -> ThreadStates]
  /\ stop \in [Clients -> BOOLEAN]
  /\ handed \in [Clients -> Settings] /\ unread \in [Clients -> BOOLEAN]
  /\ settings \in [Clients -> Settings]
  /\ settled \in [Clients -> BOOLEAN] /\ present \in [Clients -> BOOLEAN]
  /\ candidate \in [Clients -> Ages \cup {None}]
  /\ level \in [Clients -> Levels] /\ fresh \in [Clients -> BOOLEAN]
  /\ differs \in [Clients -> Ages]
  /\ row \in [Clients -> RowStates \cup {None}]

\* Between two polls, what runs is what was asked: on the right input, with the
\* right settings on their way, nothing else capturing, and a source that is
\* missing shown as an error (reconcile_sources).
SourcesAsDesired ==
  (pc = "select" /\ ~changed) =>
    \A c \in Clients :
      /\ running[c] # None => /\ Keeps(current, c)
                              /\ running[c].asked = Asked(c)
                              /\ row[c] # None
      /\ running[c] = None => /\ thread[c] = "none"
                              /\ c \in Wanted(current) => row[c] = "error"

\* "A quiet passage is not the end of a record, and a click is not the start of
\* one" (source.rs:244): the server hears of a change only when every level
\* looked at has told of it, under the settings in force, for as long as the
\* hold says; settings that arrive meanwhile start the time anew.
ChangesAreHeld ==
  [][\A c \in Clients :
       (settled[c] /\ settled'[c] /\ present'[c] # present[c])
         => differs[c] >= settings[c].hold]_vars

\* Settings the server keeps asking for are those the policy uses in the end.
SettingsReach ==
  \A c \in Clients : \A d \in {e \in Configs : c \in Wanted(e)} :
    <>[](desired = d /\ Alive(c) /\ running[c] # None)
      => <>[](settings[c] = d.sources[c].signal)
=============================================================================
