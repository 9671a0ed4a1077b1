---------------------------- MODULE Sources_proofs ----------------------------
(***************************************************************************)
(* What Sources promises for any inputs, levels, settings and desired      *)
(* states: the types, that a change of signal is only told after it was    *)
(* held, that between two polls what runs is what was asked for, and that  *)
(* a pass, with the threads it waits for, comes to an end.                 *)
(***************************************************************************)
EXTENDS Sources, FiniteSetTheorems, TLAPS

-----------------------------------------------------------------------------
(* Types. *)

\* Of what the supervisor keeps.
LoopTyped ==
  /\ desired \in Configs /\ current \in DesiredSources
  /\ pc \in {"select", "stopping", "starting"}
  /\ stale \subseteq Clients /\ joining \in Clients \cup {None} /\ todo \subseteq Wanted(current)
  /\ running \in [Clients -> Entry \cup {None}]
  /\ handed \in [Clients -> Settings]
  /\ pc # "starting" => todo = {}

\* Of what the threads keep.
ThreadTyped ==
  /\ thread \in [Clients -> ThreadStates]
  /\ settings \in [Clients -> Settings]
  /\ candidate \in [Clients -> Ages \cup {None}]
  /\ differs \in [Clients -> Ages]
  /\ level \in [Clients -> Levels]
  /\ row \in [Clients -> RowStates \cup {None}]

\* Of the flags.
Flags ==
  /\ changed \in BOOLEAN
  /\ stop \in [Clients -> BOOLEAN] /\ unread \in [Clients -> BOOLEAN]
  /\ settled \in [Clients -> BOOLEAN] /\ present \in [Clients -> BOOLEAN]
  /\ fresh \in [Clients -> BOOLEAN]

\* A desired state, and what it asks of a source.
LEMMA WishTyped ==
  ASSUME NEW d \in DesiredSources
  PROVE  /\ Wanted(d) \subseteq Clients
         /\ \A c \in Wanted(d) : /\ d.sources[c] \in Wish
                                 /\ d.sources[c].signal \in Settings
                                 /\ [key |-> d.sources[c].input, asked |-> d.sources[c].signal] \in Entry
<1>1. d.sources \in [Clients -> Wish \cup {None}]
  BY DEF DesiredSources
<1>2. ASSUME NEW c \in Wanted(d) PROVE d.sources[c] \in Wish
  BY <1>1 DEF Wanted
<1>3. \A w \in Wish : w.signal \in Settings /\ [key |-> w.input, asked |-> w.signal] \in Entry
  BY DEF Wish, Entry
<1> QED
  BY <1>2, <1>3 DEF Wanted

\* An entry whose settings are replaced is an entry.
LEMMA EntryTyped ==
  ASSUME NEW e \in Entry, NEW s \in Settings
  PROVE  /\ e # None
         /\ [e EXCEPT !.asked = s] \in Entry
         /\ [e EXCEPT !.asked = s].key = e.key /\ [e EXCEPT !.asked = s].asked = s
BY SourcesAssumption DEF Entry

\* Ages are numbers that only grow, and keep their order.
LEMMA AgesGrow ==
  /\ Ages \subseteq Nat /\ 0 \in Ages /\ None \notin Ages
  /\ \A a \in Ages : Older(a) \in Ages
  /\ \A a, b \in Ages : a <= b => Older(a) <= Older(b)
BY SourcesAssumption, SMT DEF Ages, Older

\* A flag that is set leaves the others.
LEMMA FlagSet ==
  ASSUME NEW f \in [Clients -> BOOLEAN], NEW c \in Clients, NEW v \in BOOLEAN
  PROVE  /\ [f EXCEPT ![c] = v] \in [Clients -> BOOLEAN]
         /\ [f EXCEPT ![c] = v][c] = v
         /\ \A e \in Clients \ {c} : [f EXCEPT ![c] = v][e] = f[e]
OBVIOUS

\* A source that is visited: its entry is kept or replaced.
LEMMA AdjustTyped ==
  ASSUME LoopTyped, NEW c \in Clients, Adjust(c)
  PROVE  /\ running[c] \in Entry /\ c \in Wanted(current) /\ Asked(c) \in Settings
         /\ running' \in [Clients -> Entry \cup {None}] /\ handed' \in [Clients -> Settings]
         /\ running'[c] # None /\ running'[c].key = running[c].key /\ running'[c].asked = Asked(c)
         /\ \A e \in Clients \ {c} : running'[e] = running[e]
<1>1. c \in Wanted(current) /\ running[c] \in Entry
  BY DEF LoopTyped, Adjust, Visits
<1>2. Asked(c) \in Settings
  BY <1>1, WishTyped DEF LoopTyped, Asked
<1>3. CASE running[c].asked = Asked(c)
  BY <1>1, <1>2, <1>3, EntryTyped DEF Adjust, live, LoopTyped
<1>4. CASE running[c].asked # Asked(c)
  <2>1. /\ running' = [running EXCEPT ![c] = [running[c] EXCEPT !.asked = Asked(c)]]
        /\ handed' = [handed EXCEPT ![c] = Asked(c)]
    BY <1>4 DEF Adjust
  <2> QED
    BY <1>1, <1>2, <2>1, EntryTyped DEF LoopTyped
<1> QED
  BY <1>3, <1>4

\* The supervisor's steps keep the types of what is not a flag.
LEMMA ReconcileTyped ==
  ASSUME LoopTyped, ThreadTyped, Reconcile \/ TearDown PROVE LoopTyped' /\ ThreadTyped'
<1> USE SourcesAssumption
    DEF LoopTyped, ThreadTyped, ThreadStates, channel, loop, policy, input, live
<1>1. CASE NothingToDo
  <2>1. /\ pc' = pc /\ current' = desired /\ pc = "select"
        /\ UNCHANGED <<desired, stale, joining, todo, running, handed,
                       thread, settings, candidate, differs, level, row>>
    BY <1>1 DEF NothingToDo
  <2> QED
    BY <2>1
<1>2. CASE TakeDesired
  <2>1. /\ pc' = "stopping" /\ current' = desired /\ stale' \subseteq Clients /\ pc = "select"
        /\ UNCHANGED <<desired, joining, todo, running, handed,
                       thread, settings, candidate, differs, level, row>>
    BY <1>2 DEF TakeDesired, Running
  <2> QED
    BY <2>1
<1>3. ASSUME NEW c \in Clients, StopSource(c) PROVE LoopTyped' /\ ThreadTyped'
  <2>1. /\ stale' \subseteq stale /\ joining' = c
        /\ running' = [running EXCEPT ![c] = None]
        /\ UNCHANGED <<desired, current, pc, todo, handed,
                       thread, settings, candidate, differs, level, row>>
    BY <1>3 DEF StopSource
  <2> QED
    BY <2>1
<1>4. CASE JoinThread
  <2>1. /\ joining' = None /\ thread' \in [Clients -> ThreadStates]
        /\ UNCHANGED <<desired, current, pc, stale, todo, running, handed,
                       settings, candidate, differs, level, row>>
    BY <1>4 DEF JoinThread
  <2> QED
    BY <2>1
<1>5. CASE EndStops
  <2>1. /\ pc' \in {"starting", "select"} /\ todo' = Wanted(current)
        /\ (pc' # "starting" => Wanted(current) = {})
        /\ row' \in [Clients -> RowStates \cup {None}]
        /\ UNCHANGED <<desired, current, stale, joining, running, handed,
                       thread, settings, candidate, differs, level>>
    BY <1>5 DEF EndStops, Wanted
  <2> QED
    BY <2>1, WishTyped DEF Wanted
<1>6. ASSUME NEW c \in Clients, Adjust(c) PROVE LoopTyped' /\ ThreadTyped'
  <2>1. /\ todo' \subseteq todo
        /\ UNCHANGED <<desired, current, pc, stale, joining,
                       thread, settings, candidate, differs, level, row>>
    BY <1>6 DEF Adjust, Visits
  <2> QED
    BY <1>6, <2>1, AdjustTyped DEF Wanted
<1>7. ASSUME NEW c \in Clients, BuildFails(c) PROVE LoopTyped' /\ ThreadTyped'
  <2>1. /\ todo' \subseteq todo /\ row' = [row EXCEPT ![c] = "error"]
        /\ UNCHANGED <<desired, current, pc, stale, joining, running, handed,
                       thread, settings, candidate, differs, level>>
    BY <1>7 DEF BuildFails, Visits
  <2> QED
    BY <2>1 DEF RowStates, Wanted
<1>8. ASSUME NEW c \in Clients, SpawnSource(c) PROVE LoopTyped' /\ ThreadTyped'
  <2>1. /\ c \in Wanted(current) /\ todo' \subseteq todo
        /\ running' = [running EXCEPT ![c] = [key |-> current.sources[c].input, asked |-> Asked(c)]]
        /\ thread' = [thread EXCEPT ![c] = "alive"]
        /\ handed' = [handed EXCEPT ![c] = Asked(c)]
        /\ settings' = [settings EXCEPT ![c] = Asked(c)]
        /\ candidate' = [candidate EXCEPT ![c] = None]
        /\ differs' = [differs EXCEPT ![c] = 0]
        /\ row' = [row EXCEPT ![c] = "ok"]
        /\ UNCHANGED <<desired, current, pc, stale, joining, level>>
    BY <1>8 DEF SpawnSource, Visits
  <2>2. /\ Asked(c) \in Settings
        /\ [key |-> current.sources[c].input, asked |-> Asked(c)] \in Entry
    BY <2>1, WishTyped DEF Asked
  <2>3. LoopTyped'
    BY <2>1, <2>2 DEF Wanted
  <2>4. ThreadTyped'
    BY <2>1, <2>2, AgesGrow DEF RowStates
  <2> QED
    BY <2>3, <2>4
<1>9. CASE EndStarts
  <2>1. /\ pc' = "select" /\ todo = {} /\ row' \in [Clients -> RowStates \cup {None}]
        /\ UNCHANGED <<desired, current, stale, joining, todo, running, handed,
                       thread, settings, candidate, differs, level>>
    BY <1>9 DEF EndStarts
  <2> QED
    BY <2>1
<1>10. CASE TearDown
  <2>1. /\ pc' = "stopping" /\ stale' \subseteq Clients /\ pc = "select"
        /\ current' = [current EXCEPT !.url = FALSE]
        /\ UNCHANGED <<desired, joining, todo, running, handed,
                       thread, settings, candidate, differs, level, row>>
    BY <1>10 DEF TearDown, Running
  <2>2. current' \in DesiredSources
    BY <2>1 DEF DesiredSources
  <2>3. todo' \subseteq Wanted(current)'
    BY <2>1
  <2> QED
    BY <2>1, <2>2, <2>3
<1> QED
  BY <1>1, <1>2, <1>3, <1>4, <1>5, <1>6, <1>7, <1>8, <1>9, <1>10 DEF Reconcile, Visit

\* So do polls and a source's steps.
LEMMA SourceTyped ==
  ASSUME LoopTyped, ThreadTyped,
         (\E d \in Configs : Poll(d)) \/ \E c \in Clients : Thread(c) \/ World(c)
  PROVE  LoopTyped' /\ ThreadTyped'
<1> USE SourcesAssumption DEF channel, loop, policy, input, live
<1>1. ASSUME NEW d \in Configs, Poll(d) PROVE LoopTyped' /\ ThreadTyped'
  <2>1. /\ desired' = d
        /\ UNCHANGED <<pc, current, stale, joining, todo, running, handed,
                       thread, settings, candidate, differs, level, row>>
    BY <1>1 DEF Poll
  <2> QED
    BY <2>1 DEF LoopTyped, ThreadTyped, Wanted
<1>2. ASSUME NEW c \in Clients, Thread(c) \/ World(c) PROVE LoopTyped'
  <2>1. UNCHANGED <<desired, pc, current, stale, joining, todo, running, handed>>
    BY <1>2 DEF Thread, World, Observe, Looks, Settle, Agree, Suspect, Wait, Confirm,
       TakeSettings, Report, SeeStop, SessionEnds, Tick, LevelMoves
  <2> QED
    BY <2>1 DEF LoopTyped, Wanted
<1>3. ASSUME NEW c \in Clients, Observe(c) PROVE ThreadTyped'
  <2>1. /\ candidate' = candidate \/ candidate' = [candidate EXCEPT ![c] = None]
                                  \/ candidate' = [candidate EXCEPT ![c] = 0]
        /\ differs' = differs \/ differs' = [differs EXCEPT ![c] = 0]
        /\ UNCHANGED <<thread, settings, level, row>>
    BY <1>3, Zenon DEF Observe, Looks, Settle, Agree, Suspect, Wait, Confirm
  <2> QED
    BY <2>1, AgesGrow DEF ThreadTyped
<1>4. ASSUME NEW c \in Clients, TakeSettings(c) PROVE ThreadTyped'
  <2>1. /\ settings' = [settings EXCEPT ![c] = handed[c]]
        /\ candidate' = [candidate EXCEPT ![c] = None]
        /\ differs' = [differs EXCEPT ![c] = 0]
        /\ UNCHANGED <<thread, level, row>>
    BY <1>4 DEF TakeSettings
  <2> QED
    BY <2>1, AgesGrow DEF ThreadTyped, LoopTyped
<1>5. ASSUME NEW c \in Clients, Report(c) \/ SeeStop(c) \/ SessionEnds(c) PROVE ThreadTyped'
  <2>1. /\ thread' = thread \/ thread' = [thread EXCEPT ![c] = "ended"]
        /\ row' = row \/ \E s \in RowStates : row' = Says(c, s)
        /\ UNCHANGED <<settings, candidate, differs, level>>
    BY <1>5 DEF Report, SeeStop, SessionEnds, RowStates
  <2>2. \A s \in RowStates : Says(c, s) \in [Clients -> RowStates \cup {None}]
    BY DEF Says, ThreadTyped
  <2> QED
    BY <2>1, <2>2 DEF ThreadTyped, ThreadStates
<1>6. ASSUME NEW c \in Clients, Tick(c) PROVE ThreadTyped'
  <2>1. /\ candidate' = [candidate EXCEPT ![c] = IF @ = None THEN None ELSE Older(@)]
        /\ differs' = [differs EXCEPT ![c] = Older(@)]
        /\ UNCHANGED <<thread, settings, level, row>>
    BY <1>6 DEF Tick
  <2> QED
    BY <2>1, AgesGrow DEF ThreadTyped
<1>7. ASSUME NEW c \in Clients, NEW l \in Levels, LevelMoves(c, l) PROVE ThreadTyped'
  <2>1. /\ level' = [level EXCEPT ![c] = l]
        /\ UNCHANGED <<thread, settings, candidate, differs, row>>
    BY <1>7 DEF LevelMoves
  <2> QED
    BY <2>1 DEF ThreadTyped
<1> QED
  BY <1>1, <1>2, <1>3, <1>4, <1>5, <1>6, <1>7 DEF Thread, World

\* The flags stay flags.
LEMMA FlagStep == ASSUME Flags, Next PROVE Flags'
<1> USE DEF channel, loop, policy, input, live
<1>0. CASE TearDown
  BY <1>0, Zenon DEF TearDown, Flags
<1>1. CASE Reconcile
  <2>1. CASE \/ NothingToDo \/ TakeDesired \/ JoinThread \/ EndStops \/ EndStarts
             \/ \E c \in Clients : BuildFails(c)
    BY <2>1, Zenon DEF NothingToDo, TakeDesired, JoinThread, EndStops, EndStarts, BuildFails, Flags
  <2>2. ASSUME NEW c \in Clients, StopSource(c) PROVE Flags'
    BY <2>2, FlagSet, Zenon DEF StopSource, Flags
  <2>3. ASSUME NEW c \in Clients, Adjust(c) PROVE Flags'
    <3>1. unread' = unread \/ unread' = [unread EXCEPT ![c] = TRUE]
      BY <2>3, Zenon DEF Adjust
    <3>2. UNCHANGED <<changed, stop, settled, present, fresh>>
      BY <2>3, Zenon DEF Adjust
    <3>3. unread \in [Clients -> BOOLEAN]
      BY Zenon DEF Flags
    <3>4. unread' \in [Clients -> BOOLEAN]
      BY <3>1, <3>3
    <3> QED
      BY <3>2, <3>4, Zenon DEF Flags
  <2>4. ASSUME NEW c \in Clients, SpawnSource(c) PROVE Flags'
    BY <2>4, FlagSet, Zenon DEF SpawnSource, Flags
  <2> QED
    BY <1>1, <2>1, <2>2, <2>3, <2>4, Zenon DEF Reconcile, Visit
<1>2. ASSUME NEW d \in Configs, Poll(d) PROVE Flags'
  BY <1>2, Zenon DEF Poll, Flags
<1>3. ASSUME NEW c \in Clients, Observe(c) PROVE Flags'
  <2>1. Raw(c) \in BOOLEAN
    BY DEF Raw
  <2>2. Looks(c)
    BY <1>3, Zenon DEF Observe, Settle, Agree, Suspect, Wait, Confirm
  <2>3. fresh' \in [Clients -> BOOLEAN] /\ UNCHANGED <<changed, stop, unread>>
    BY <2>2, FlagSet, Zenon DEF Looks, Flags
  <2>4. settled' = settled \/ settled' = [settled EXCEPT ![c] = TRUE]
    BY <1>3, Zenon DEF Observe, Settle, Agree, Suspect, Wait, Confirm
  <2>5. present' = present \/ present' = [present EXCEPT ![c] = Raw(c)]
    BY <1>3, Zenon DEF Observe, Settle, Agree, Suspect, Wait, Confirm
  <2>6. settled' \in [Clients -> BOOLEAN]
    BY <2>4, FlagSet, Zenon DEF Flags
  <2>7. present' \in [Clients -> BOOLEAN]
    BY <2>1, <2>5, FlagSet, Zenon DEF Flags
  <2> QED
    BY <2>3, <2>6, <2>7, Zenon DEF Flags
<1>4. ASSUME NEW c \in Clients, TakeSettings(c) PROVE Flags'
  <2>1. unread' = [unread EXCEPT ![c] = FALSE] /\ UNCHANGED <<changed, stop, settled, present, fresh>>
    BY <1>4, Zenon DEF TakeSettings
  <2> QED
    BY <2>1, FlagSet, Zenon DEF Flags
<1>6. ASSUME NEW c \in Clients, Report(c) \/ SeeStop(c) \/ SessionEnds(c) \/ Tick(c) PROVE Flags'
  <2>1. UNCHANGED <<changed, stop, unread, settled, present, fresh>>
    BY <1>6, Zenon DEF Report, SeeStop, SessionEnds, Tick
  <2> QED
    BY <2>1, Zenon DEF Flags
<1>5. ASSUME NEW c \in Clients, NEW l \in Levels, LevelMoves(c, l) PROVE Flags'
  BY <1>5, FlagSet, Zenon DEF LevelMoves, Flags
<1> QED
  BY <1>0, <1>1, <1>2, <1>3, <1>4, <1>5, <1>6, Zenon DEF Next, Thread, World

\* The initial states are typed.
LEMMA InitTyped == Init => LoopTyped /\ ThreadTyped /\ Flags
<1> SUFFICES ASSUME Init PROVE LoopTyped /\ ThreadTyped /\ Flags
  OBVIOUS
<1>1. [c \in Clients |-> FALSE] \in [Clients -> BOOLEAN]
  OBVIOUS
<1>2. Flags
  BY <1>1, Zenon DEF Init, Flags
<1>3. LoopTyped
  BY SourcesAssumption DEF Init, LoopTyped
<1>4. ThreadTyped
  BY AgesGrow DEF Init, ThreadTyped, ThreadStates
<1> QED
  BY <1>2, <1>3, <1>4

\* Types hold all along.
LEMMA AlwaysTyped == Spec => [](LoopTyped /\ ThreadTyped /\ Flags)
<1>1. LoopTyped /\ ThreadTyped /\ Flags /\ [Next]_vars => LoopTyped' /\ ThreadTyped' /\ Flags'
  <2> SUFFICES ASSUME LoopTyped, ThreadTyped, Flags, [Next]_vars
               PROVE  LoopTyped' /\ ThreadTyped' /\ Flags'
    OBVIOUS
  <2>1. CASE UNCHANGED vars
    <3>1. LoopTyped' /\ ThreadTyped'
      BY <2>1 DEF vars, channel, loop, policy, input, live, LoopTyped, ThreadTyped, Wanted
    <3>2. Flags'
      BY <2>1, Zenon DEF vars, channel, loop, policy, input, live, Flags
    <3> QED
      BY <3>1, <3>2
  <2>2. CASE Next
    BY <2>2, ReconcileTyped, SourceTyped, FlagStep DEF Next
  <2> QED
    BY <2>1, <2>2
<1> QED
  BY <1>1, InitTyped, PTL DEF Spec

\* Every variable has its type.
THEOREM TypeCorrect == Spec => []TypeOK
<1>1. LoopTyped /\ ThreadTyped /\ Flags => TypeOK
  <2> SUFFICES ASSUME LoopTyped, ThreadTyped, Flags PROVE TypeOK
    OBVIOUS
  <2>1. todo \subseteq Clients
    BY WishTyped DEF LoopTyped
  <2> QED
    BY <2>1, Zenon DEF LoopTyped, ThreadTyped, Flags, TypeOK
<1> QED
  BY <1>1, AlwaysTyped, PTL

-----------------------------------------------------------------------------
(* Changes are held. *)

\* Only a source that has a baseline times a change.
Settled == \A c \in Clients : candidate[c] # None => settled[c] = TRUE

\* A change that is being timed has been told of by every level since.
Timed == \A c \in Clients : candidate[c] # None => candidate[c] <= differs[c]

\* What the steps do to what is timed.
LEMMA TimedSteps ==
  ASSUME Next
  PROVE  \/ UNCHANGED <<candidate, settled>> /\ differs' = differs
         \/ \E c \in Clients :
              /\ candidate' = [candidate EXCEPT ![c] = None]
              /\ \E v \in BOOLEAN : settled' \in {settled, [settled EXCEPT ![c] = v]}
              /\ differs' = [differs EXCEPT ![c] = 0]
         \/ \E c \in Clients :
              /\ candidate' = [candidate EXCEPT ![c] = 0]
              /\ settled[c] /\ settled' = settled /\ differs' = differs
         \/ \E c \in Clients :
              /\ candidate' = candidate /\ ~settled[c]
              /\ settled' = [settled EXCEPT ![c] = TRUE]
              /\ differs' = [differs EXCEPT ![c] = 0]
         \/ \E c \in Clients :
              /\ candidate' = [candidate EXCEPT ![c] = IF @ = None THEN None ELSE Older(@)]
              /\ settled' = settled
              /\ differs' = [differs EXCEPT ![c] = Older(@)]
<1> USE DEF channel, loop, policy, input, live
<1>1. CASE \/ \E d \in Configs : Poll(d)
           \/ NothingToDo \/ TakeDesired \/ JoinThread \/ EndStops \/ EndStarts \/ TearDown
           \/ \E c \in Clients : \/ StopSource(c) \/ Adjust(c) \/ BuildFails(c)
                                 \/ Wait(c) \/ Report(c) \/ SeeStop(c) \/ SessionEnds(c)
                                 \/ \E l \in Levels : LevelMoves(c, l)
  BY <1>1, Zenon DEF Poll, NothingToDo, TakeDesired, JoinThread, EndStops, EndStarts, StopSource,
     TearDown, Adjust, Visits, BuildFails, Wait, Looks, Report, SeeStop, SessionEnds, LevelMoves
<1>2. ASSUME NEW c \in Clients, SpawnSource(c) \/ Agree(c) \/ Confirm(c) \/ TakeSettings(c)
      PROVE  /\ candidate' = [candidate EXCEPT ![c] = None]
             /\ \E v \in BOOLEAN : settled' \in {settled, [settled EXCEPT ![c] = v]}
             /\ differs' = [differs EXCEPT ![c] = 0]
  BY <1>2, Zenon DEF SpawnSource, Agree, Confirm, TakeSettings
<1>3. ASSUME NEW c \in Clients, Suspect(c)
      PROVE  /\ candidate' = [candidate EXCEPT ![c] = 0]
             /\ settled[c] /\ settled' = settled /\ differs' = differs
  BY <1>3, Zenon DEF Suspect
<1>4. ASSUME NEW c \in Clients, Settle(c)
      PROVE  /\ candidate' = candidate /\ ~settled[c]
             /\ settled' = [settled EXCEPT ![c] = TRUE]
             /\ differs' = [differs EXCEPT ![c] = 0]
  BY <1>4, Zenon DEF Settle
<1>5. ASSUME NEW c \in Clients, Tick(c)
      PROVE  /\ candidate' = [candidate EXCEPT ![c] = IF @ = None THEN None ELSE Older(@)]
             /\ settled' = settled
             /\ differs' = [differs EXCEPT ![c] = Older(@)]
  BY <1>5, Zenon DEF Tick
<1> QED
  BY <1>1, <1>2, <1>3, <1>4, <1>5, Zenon DEF Next, Reconcile, Visit, Thread, Observe, World

\* Every step keeps both.
LEMMA TimedStep ==
  ASSUME ThreadTyped, Flags, Settled, Timed, Next PROVE Settled' /\ Timed'
<1> USE AgesGrow
<1>0. /\ candidate \in [Clients -> Ages \cup {None}] /\ differs \in [Clients -> Ages]
      /\ settled \in [Clients -> BOOLEAN]
  BY Zenon DEF ThreadTyped, Flags
<1>1. CASE UNCHANGED <<candidate, settled>> /\ differs' = differs
  BY <1>1, Zenon DEF Settled, Timed
<1>2. ASSUME NEW c \in Clients, NEW v \in BOOLEAN,
             candidate' = [candidate EXCEPT ![c] = None],
             settled' \in {settled, [settled EXCEPT ![c] = v]},
             differs' = [differs EXCEPT ![c] = 0]
      PROVE  Settled' /\ Timed'
  <2>1. candidate'[c] = None /\ \A e \in Clients \ {c} : candidate'[e] = candidate[e]
    BY <1>0, <1>2
  <2>2. \A e \in Clients \ {c} : differs'[e] = differs[e]
    BY <1>0, <1>2
  <2>3. \A e \in Clients \ {c} : settled'[e] = settled[e]
    <3>1. CASE settled' = settled
      BY <3>1, Zenon
    <3>2. CASE settled' = [settled EXCEPT ![c] = v]
      BY <1>0, <3>2
    <3> QED
      BY <1>2, <3>1, <3>2, Zenon
  <2>4. Settled'
    BY <2>1, <2>3, Zenon DEF Settled
  <2> QED
    BY <2>1, <2>2, <2>4 DEF Timed
<1>3. ASSUME NEW c \in Clients,
             candidate' = [candidate EXCEPT ![c] = 0], settled[c], settled' = settled,
             differs' = differs
      PROVE  Settled' /\ Timed'
  <2>1. candidate'[c] = 0 /\ \A e \in Clients \ {c} : candidate'[e] = candidate[e]
    BY <1>0, <1>3
  <2>2. settled[c] = TRUE
    BY <1>0, <1>3
  <2>3. Settled'
    BY <1>3, <2>1, <2>2, Zenon DEF Settled
  <2>4. Timed'
    <3>1. differs[c] \in Nat
      BY <1>0
    <3>2. candidate'[c] <= differs'[c]
      BY <1>3, <2>1, <3>1
    <3> QED
      BY <1>3, <2>1, <3>2 DEF Timed
  <2> QED
    BY <2>3, <2>4
<1>4. ASSUME NEW c \in Clients,
             candidate' = candidate, ~settled[c], settled' = [settled EXCEPT ![c] = TRUE],
             differs' = [differs EXCEPT ![c] = 0]
      PROVE  Settled' /\ Timed'
  <2>1. candidate[c] = None
    BY <1>4, Zenon DEF Settled
  <2>2. \A e \in Clients \ {c} : differs'[e] = differs[e]
    BY <1>0, <1>4
  <2>3. settled'[c] = TRUE /\ \A e \in Clients \ {c} : settled'[e] = settled[e]
    <3>1. settled'[c] = TRUE
      BY <1>0, <1>4
    <3>2. \A e \in Clients \ {c} : settled'[e] = settled[e]
      BY <1>0, <1>4
    <3> QED
      BY <3>1, <3>2, Zenon
  <2>4. Settled'
    BY <1>4, <2>3, Zenon DEF Settled
  <2>5. Timed'
    BY <1>4, <2>1, <2>2 DEF Timed
  <2> QED
    BY <2>4, <2>5
<1>5. ASSUME NEW c \in Clients,
             candidate' = [candidate EXCEPT ![c] = IF @ = None THEN None ELSE Older(@)],
             settled' = settled,
             differs' = [differs EXCEPT ![c] = Older(@)]
      PROVE  Settled' /\ Timed'
  <2>1. /\ candidate'[c] = IF candidate[c] = None THEN None ELSE Older(candidate[c])
        /\ \A e \in Clients \ {c} : candidate'[e] = candidate[e]
    BY <1>0, <1>5
  <2>2. differs'[c] = Older(differs[c]) /\ \A e \in Clients \ {c} : differs'[e] = differs[e]
    BY <1>0, <1>5
  <2>3. \A e \in Clients : candidate'[e] # None => candidate[e] # None
    BY <2>1, Zenon
  <2>4. Settled'
    BY <1>5, <2>3, Zenon DEF Settled
  <2>5. Timed'
    <3>1. candidate'[c] # None => candidate'[c] <= differs'[c]
      <4>1. SUFFICES ASSUME candidate[c] # None PROVE Older(candidate[c]) <= Older(differs[c])
        BY <2>1, <2>2
      <4>2. candidate[c] \in Ages /\ differs[c] \in Ages /\ candidate[c] <= differs[c]
        BY <1>0, <4>1 DEF Timed
      <4> QED
        BY <4>2
    <3> QED
      BY <2>1, <2>2, <3>1 DEF Timed
  <2> QED
    BY <2>4, <2>5
<1> QED
  BY TimedSteps, <1>1, <1>2, <1>3, <1>4, <1>5, Zenon

\* They hold all along.
LEMMA AlwaysTimed == Spec => [](Settled /\ Timed)
<1>1. Init => Settled /\ Timed
  BY Zenon DEF Init, Settled, Timed
<1>2. ThreadTyped /\ Flags /\ Settled /\ Timed /\ [Next]_vars => Settled' /\ Timed'
  <2> SUFFICES ASSUME ThreadTyped, Flags, Settled, Timed, [Next]_vars PROVE Settled' /\ Timed'
    OBVIOUS
  <2>1. CASE UNCHANGED vars
    BY <2>1, Zenon DEF vars, policy, Settled, Timed
  <2> QED
    BY <2>1, TimedStep
<1> QED
  BY <1>1, <1>2, AlwaysTyped, PTL DEF Spec

\* Only a change that was timed for the hold in force is told.
LEMMA OnlyConfirm ==
  ASSUME Flags, Next, NEW c \in Clients, settled[c], settled'[c], present'[c] # present[c]
  PROVE  candidate[c] # None /\ candidate[c] >= settings[c].hold
<1> USE DEF channel, loop, policy, input, live
<1>0. settled \in [Clients -> BOOLEAN] /\ present \in [Clients -> BOOLEAN]
  BY Zenon DEF Flags
<1>1. ~UNCHANGED present
  BY Zenon
<1>2. \E e \in Clients : SpawnSource(e) \/ Settle(e) \/ Confirm(e)
  BY <1>1, Zenon DEF Next, Poll, TearDown, Reconcile, NothingToDo, TakeDesired, JoinThread, EndStops,
     EndStarts, StopSource, Visit, Adjust, Visits, BuildFails, Thread, Observe, Agree, Suspect, Wait,
     Looks, TakeSettings, Report, SeeStop, SessionEnds, World, Tick, LevelMoves
<1>3. PICK e \in Clients : SpawnSource(e) \/ Settle(e) \/ Confirm(e)
  BY <1>2
<1>4. ASSUME NEW v \in BOOLEAN, present' = [present EXCEPT ![e] = v] PROVE c = e
  BY <1>0, <1>4, FlagSet, Zenon
<1>5. CASE SpawnSource(e)
  <2>1. c = e
    BY <1>4, <1>5, Zenon DEF SpawnSource
  <2>2. settled'[e] = FALSE
    BY <1>0, <1>5, FlagSet, Zenon DEF SpawnSource
  <2> QED
    BY <2>1, <2>2, Zenon
<1>6. Raw(e) \in BOOLEAN
  BY DEF Raw
<1>7. CASE Settle(e)
  BY <1>4, <1>6, <1>7, Zenon DEF Settle
<1>8. CASE Confirm(e)
  BY <1>4, <1>6, <1>8, Zenon DEF Confirm
<1> QED
  BY <1>3, <1>5, <1>7, <1>8

\* The server only hears of a change that every level told of for as long as
\* the hold in force says, whatever levels, polls and settings came between.
THEOREM ChangesOutlastTheHold == Spec => ChangesAreHeld
<1> DEFINE Held ==
      \A c \in Clients :
        (settled[c] /\ settled'[c] /\ present'[c] # present[c]) => differs[c] >= settings[c].hold
<1>1. ThreadTyped /\ Flags /\ Timed /\ [Next]_vars => [Held]_vars
  <2> SUFFICES ASSUME ThreadTyped, Flags, Timed, Next,
                      NEW c \in Clients, settled[c], settled'[c], present'[c] # present[c]
               PROVE  differs[c] >= settings[c].hold
    BY Zenon
  <2>1. candidate[c] # None /\ candidate[c] >= settings[c].hold
    BY OnlyConfirm
  <2>2. candidate[c] \in Nat /\ differs[c] \in Nat /\ settings[c].hold \in Nat
    BY <2>1, AgesGrow, SourcesAssumption DEF ThreadTyped, Settings
  <2> QED
    BY <2>1, <2>2 DEF Timed
<1> QED
  BY <1>1, AlwaysTyped, AlwaysTimed, PTL DEF Spec, ChangesAreHeld

-----------------------------------------------------------------------------
(* What runs is what was asked for. *)

\* A source the supervisor knows nothing of has no thread, or the one that is
\* waited for; one it knows of has a row.
Accounted ==
  /\ pc # "stopping" => joining = None
  /\ \A c \in Clients :
       /\ running[c] = None /\ thread[c] # "none" => joining = c
       /\ running[c] # None => row[c] # None

\* A source that runs on the wrong input is still to be stopped.
Stopping ==
  pc = "stopping" => \A c \in Clients : running[c] # None => c \in stale \/ Keeps(current, c)

\* A source that was visited is as asked for, or shown as an error.
Starting ==
  pc = "starting" =>
    /\ current.url
    /\ \A c \in Clients :
         /\ running[c] # None => Keeps(current, c) /\ (c \notin todo => running[c].asked = Asked(c))
         /\ running[c] = None /\ c \in Wanted(current) /\ c \notin todo => row[c] = "error"

\* All of them are.
Done ==
  \A c \in Clients :
    /\ running[c] # None => /\ Keeps(current, c)
                            /\ running[c].asked = Asked(c)
                            /\ row[c] # None
    /\ running[c] = None => /\ thread[c] = "none"
                            /\ c \in Wanted(current) => row[c] = "error"

Resting == pc = "select" /\ ~changed => Done

\* The rows there are.
LEMMA RowsAre == "error" # None /\ "ok" # None /\ None \notin RowStates
BY SourcesAssumption DEF RowStates

\* The supervisor's steps keep the account, and end in the state that was asked for.
LEMMA ReconcileAccounts ==
  ASSUME LoopTyped, ThreadTyped, Accounted, Stopping, Starting, Reconcile \/ TearDown
  PROVE  /\ Accounted' /\ Stopping' /\ Starting'
         /\ pc' = "select" => Done'
<1>0. None \notin Clients
  BY SourcesAssumption
<1> USE <1>0, RowsAre DEF Accounted, Stopping, Starting, Done, Keeps, Wanted, Asked,
        channel, loop, policy, input, live
<1>1. CASE NothingToDo
  <2>1. /\ pc = "select" /\ pc' = "select" /\ current' = desired /\ ~desired.url
        /\ \A c \in Clients : running[c] = None
        /\ UNCHANGED <<joining, running, thread, row>>
    BY <1>1 DEF NothingToDo, Running
  <2>2. Accounted' /\ Done'
    BY <2>1
  <2> QED
    BY <2>1, <2>2
<1>2. CASE TakeDesired
  <2>1. /\ pc = "select" /\ pc' = "stopping" /\ current' = desired
        /\ stale' = {c \in Running : ~Keeps(desired, c)}
        /\ UNCHANGED <<joining, running, thread, row>>
    BY <1>2 DEF TakeDesired
  <2>2. Accounted'
    BY <2>1
  <2>3. Stopping'
    BY <2>1 DEF Running
  <2> QED
    BY <2>1, <2>2, <2>3
<1>3. ASSUME NEW c \in Clients, StopSource(c)
      PROVE  Accounted' /\ Stopping' /\ Starting' /\ pc' = "stopping"
  <2>1. /\ pc = "stopping" /\ joining = None /\ stale' = stale \ {c} /\ joining' = c
        /\ running' = [running EXCEPT ![c] = None]
        /\ UNCHANGED <<pc, current, thread, row>>
    BY <1>3 DEF StopSource
  <2>2. running'[c] = None /\ \A e \in Clients \ {c} : running'[e] = running[e]
    BY <2>1 DEF LoopTyped
  <2>3. Accounted'
    BY <2>1, <2>2
  <2>4. Stopping'
    BY <2>1, <2>2
  <2> QED
    BY <2>1, <2>3, <2>4
<1>4. CASE JoinThread
  <2>1. /\ joining # None /\ joining' = None
        /\ thread' = [thread EXCEPT ![joining] = "none"]
        /\ UNCHANGED <<pc, current, stale, todo, running, row>>
    BY <1>4 DEF JoinThread
  <2>2. /\ joining \in Clients /\ thread'[joining] = "none"
        /\ \A e \in Clients \ {joining} : thread'[e] = thread[e]
    BY <2>1 DEF ThreadTyped, LoopTyped
  <2>3. pc = "stopping"
    BY <2>1
  <2>4. Accounted'
    BY <2>1, <2>2, <2>3
  <2>5. Stopping'
    BY <2>1
  <2> QED
    BY <2>1, <2>3, <2>4, <2>5
<1>5. CASE EndStops
  <2>1. /\ pc = "stopping" /\ stale = {} /\ joining = None
        /\ UNCHANGED <<current, joining, running, thread>>
        /\ todo' = Wanted(current)
    BY <1>5 DEF EndStops
  <2>2. CASE current.url
    <3>1. pc' = "starting" /\ row' = row
      BY <1>5, <2>2 DEF EndStops
    <3>2. Accounted' /\ Stopping'
      BY <2>1, <3>1
    <3>3. Starting'
      BY <2>1, <2>2
    <3> QED
      BY <3>1, <3>2, <3>3
  <2>3. CASE ~current.url
    <3>1. pc' = "select" /\ row' = [c \in Clients |-> None]
      BY <1>5, <2>3 DEF EndStops
    <3>2. \A c \in Clients : running[c] = None
      BY <2>1, <2>3
    <3>3. Accounted' /\ Done'
      BY <2>1, <2>3, <3>1, <3>2
    <3> QED
      BY <3>1, <3>3
  <2> QED
    BY <2>2, <2>3
<1>6. ASSUME NEW c \in Clients, Adjust(c)
      PROVE  Accounted' /\ Stopping' /\ Starting' /\ pc' = "starting"
  <2>1. /\ pc = "starting" /\ todo' = todo \ {c}
        /\ UNCHANGED <<pc, current, joining, thread, row>>
        /\ running[c] # None
    BY <1>6 DEF Adjust, Visits
  <2>2. /\ running'[c] # None /\ running'[c].key = running[c].key
        /\ running'[c].asked = Asked(c)
        /\ \A e \in Clients \ {c} : running'[e] = running[e]
    BY <1>6, AdjustTyped
  <2>3. Accounted'
    BY <2>1, <2>2
  <2>4. Starting'
    BY <2>1, <2>2
  <2> QED
    BY <2>1, <2>3, <2>4
<1>7. ASSUME NEW c \in Clients, BuildFails(c)
      PROVE  Accounted' /\ Stopping' /\ Starting' /\ pc' = "starting"
  <2>1. /\ pc = "starting" /\ running[c] = None /\ todo' = todo \ {c} /\ row' = [row EXCEPT ![c] = "error"]
        /\ UNCHANGED <<pc, current, joining, running, thread>>
    BY <1>7 DEF BuildFails, Visits
  <2>2. row'[c] = "error" /\ \A e \in Clients \ {c} : row'[e] = row[e]
    BY <2>1 DEF ThreadTyped
  <2>3. Accounted'
    BY <2>1, <2>2
  <2>4. Starting'
    BY <2>1, <2>2
  <2> QED
    BY <2>1, <2>3, <2>4
<1>8. ASSUME NEW c \in Clients, SpawnSource(c)
      PROVE  Accounted' /\ Stopping' /\ Starting' /\ pc' = "starting"
  <2>1. /\ pc = "starting" /\ c \in todo /\ todo' = todo \ {c}
        /\ running' = [running EXCEPT ![c] = [key |-> current.sources[c].input, asked |-> Asked(c)]]
        /\ thread' = [thread EXCEPT ![c] = "alive"]
        /\ row' = [row EXCEPT ![c] = "ok"]
        /\ UNCHANGED <<pc, current, joining>>
    BY <1>8 DEF SpawnSource, Visits
  <2>2. c \in Wanted(current) /\ [key |-> current.sources[c].input, asked |-> Asked(c)] \in Entry
    BY <2>1, WishTyped DEF LoopTyped
  <2>3. /\ running'[c] # None /\ running'[c].key = current.sources[c].input
        /\ running'[c].asked = Asked(c)
        /\ \A e \in Clients \ {c} : running'[e] = running[e]
    BY <2>1, <2>2, EntryTyped DEF LoopTyped
  <2>4. /\ row'[c] = "ok" /\ \A e \in Clients \ {c} : row'[e] = row[e]
        /\ \A e \in Clients \ {c} : thread'[e] = thread[e]
    BY <2>1 DEF ThreadTyped
  <2>5. Accounted'
    BY <2>1, <2>3, <2>4
  <2>6. Starting'
    BY <2>1, <2>2, <2>3, <2>4
  <2> QED
    BY <2>1, <2>5, <2>6
<1>9. CASE EndStarts
  <2>1. /\ pc = "starting" /\ todo = {} /\ pc' = "select"
        /\ row' = [c \in Clients |-> IF c \in Wanted(current) THEN row[c] ELSE None]
        /\ UNCHANGED <<current, joining, running, thread>>
    BY <1>9 DEF EndStarts
  <2>2. \A c \in Clients : /\ c \in Wanted(current) => row'[c] = row[c]
                           /\ running[c] # None => c \in Wanted(current)
    BY <2>1
  <2> QED
    BY <2>1, <2>2
<1>10. CASE TearDown
  <2>1. /\ pc = "select" /\ pc' = "stopping" /\ stale' = Running
        /\ UNCHANGED <<joining, running, thread, row>>
    BY <1>10 DEF TearDown
  <2>2. Accounted' /\ Stopping'
    BY <2>1 DEF Running
  <2> QED
    BY <2>1, <2>2
<1> QED
  BY <1>1, <1>2, <1>3, <1>4, <1>5, <1>6, <1>7, <1>8, <1>9, <1>10 DEF Reconcile, Visit

\* A source's steps keep the account, and what was reached.
LEMMA SourceAccounts ==
  ASSUME LoopTyped, ThreadTyped, Accounted, Stopping, Starting,
         NEW c \in Clients, Thread(c) \/ World(c)
  PROVE  /\ Accounted' /\ Stopping' /\ Starting'
         /\ pc = "select" /\ Done => Done'
         /\ UNCHANGED <<pc, changed>>
<1> USE DEF channel, loop, policy, input, live
<1>1. UNCHANGED <<pc, changed, current, stale, joining, todo, running>>
  BY Zenon DEF Thread, World, Observe, Looks, Settle, Agree, Suspect, Wait, Confirm,
     TakeSettings, Report, SeeStop, SessionEnds, Tick, LevelMoves
<1>2. \/ UNCHANGED <<thread, row>>
      \/ thread[c] = "alive" /\ \E t \in {"alive", "ended"}, s \in RowStates :
           /\ thread' = [thread EXCEPT ![c] = t]
           /\ row' \in {row, Says(c, s)}
  <2>1. CASE World(c) \/ Observe(c) \/ TakeSettings(c)
    BY <2>1, Zenon DEF World, Observe, Looks, Settle, Agree, Suspect, Wait, Confirm,
       TakeSettings, Tick, LevelMoves
  <2>2. CASE Report(c)
    <3>1. thread' = [thread EXCEPT ![c] = "alive"]
      BY <2>2 DEF Report, Alive, ThreadTyped
    <3> QED
      BY <2>2, <3>1 DEF Report, Alive
  <2>3. CASE SeeStop(c) \/ SessionEnds(c)
    BY <2>3 DEF SeeStop, SessionEnds, Alive, RowStates
  <2> QED
    BY <2>1, <2>2, <2>3 DEF Thread
<1>3. /\ \A e \in Clients : thread[e] = "none" <=> thread'[e] = "none"
      /\ \A e \in Clients : row[e] = None <=> row'[e] = None
      /\ \A e \in Clients : thread[e] = "none" => row'[e] = row[e]
  <2>1. CASE UNCHANGED <<thread, row>>
    BY <2>1
  <2>2. ASSUME NEW t \in {"alive", "ended"}, NEW s \in RowStates,
               thread[c] = "alive", thread' = [thread EXCEPT ![c] = t], row' \in {row, Says(c, s)}
        PROVE  <1>3!:
    <3>1. thread'[c] = t /\ \A e \in Clients \ {c} : thread'[e] = thread[e]
      BY <2>2 DEF ThreadTyped
    <3>2. \A e \in Clients \ {c} : row'[e] = row[e]
      BY <2>2 DEF Says, ThreadTyped
    <3>3. row[c] = None <=> row'[c] = None
      BY <2>2, RowsAre DEF Says, ThreadTyped
    <3> QED
      BY <2>2, <3>1, <3>2, <3>3
  <2> QED
    BY <1>2, <2>1, <2>2
<1>4. Stopping' /\ Accounted'
  BY <1>1, <1>3 DEF Stopping, Accounted, Keeps, Wanted
<1>5. Starting'
  <2> SUFFICES ASSUME pc = "starting" PROVE Starting'
    BY <1>1 DEF Starting
  <2>1. \A e \in Clients : running[e] = None => thread[e] = "none"
    BY RowsAre, SourcesAssumption DEF Accounted
  <2> QED
    BY <1>1, <1>3, <2>1 DEF Starting, Keeps, Wanted, Asked
<1>6. pc = "select" /\ Done => Done'
  BY <1>1, <1>3 DEF Done, Keeps, Wanted, Asked
<1> QED
  BY <1>1, <1>4, <1>5, <1>6

\* Between two polls what runs is what was asked for, whatever levels, reports
\* and ends of sessions fall between the supervisor's steps.
THEOREM WhatRunsIsAsked == Spec => []SourcesAsDesired
<1> DEFINE Inv == Accounted /\ Stopping /\ Starting /\ Resting
<1>1. Init => Inv
  <2> SUFFICES ASSUME Init PROVE Inv
    OBVIOUS
  <2>1. Resting
    BY Zenon DEF Init, Resting
  <2>2. Accounted /\ Stopping /\ Starting
    BY DEF Init, Accounted, Stopping, Starting
  <2> QED
    BY <2>1, <2>2
<1>2. LoopTyped /\ ThreadTyped /\ Inv /\ [Next]_vars => Inv'
  <2> SUFFICES ASSUME LoopTyped, ThreadTyped, Inv, [Next]_vars PROVE Inv'
    OBVIOUS
  <2>1. CASE Reconcile \/ TearDown
    <3>1. pc' = "select" => Done'
      BY <2>1, ReconcileAccounts
    <3>2. Resting'
      BY <3>1, Zenon DEF Resting
    <3> QED
      BY <2>1, <3>2, ReconcileAccounts
  <2>2. ASSUME NEW d \in Configs, Poll(d) PROVE Inv'
    <3>1. Resting'
      BY <2>2, Zenon DEF Poll, Resting
    <3>2. UNCHANGED <<pc, current, stale, joining, todo, running, thread, row>>
      BY <2>2, Zenon DEF Poll, loop
    <3>3. Accounted' /\ Stopping' /\ Starting'
      BY <3>2 DEF Accounted, Stopping, Starting, Keeps, Wanted, Asked
    <3> QED
      BY <3>1, <3>3
  <2>3. ASSUME NEW c \in Clients, Thread(c) \/ World(c) PROVE Inv'
    <3>1. Resting'
      BY <2>3, SourceAccounts, Zenon DEF Resting
    <3> QED
      BY <2>3, <3>1, SourceAccounts
  <2>4. CASE UNCHANGED vars
    <3>1. UNCHANGED <<pc, changed, current, stale, joining, todo, running, thread, row>>
      BY <2>4, Zenon DEF vars, channel, loop
    <3>2. Accounted' /\ Stopping' /\ Starting' /\ (Done => Done')
      BY <3>1 DEF Accounted, Stopping, Starting, Done, Keeps, Wanted, Asked
    <3> QED
      BY <3>1, <3>2, Zenon DEF Resting
  <2> QED
    BY <2>1, <2>2, <2>3, <2>4 DEF Next
<1>3. Inv => SourcesAsDesired
  BY Zenon DEF Resting, Done, SourcesAsDesired
<1> QED
  BY <1>1, <1>2, <1>3, AlwaysTyped, PTL DEF Spec

-----------------------------------------------------------------------------
(* The end of a pass. *)

\* Who is told to stop is who is waited for, and is there to hear it.
StopsAreJoined ==
  /\ pc # "stopping" => joining = None
  /\ stale \subseteq Running
  /\ \A c \in Clients : running[c] # None => thread[c] # "none"
  /\ joining # None => running[joining] = None /\ thread[joining] # "none"
  /\ \A c \in Clients : Alive(c) => (stop[c] <=> joining = c)

\* The supervisor's steps keep that.
LEMMA ReconcileJoins ==
  ASSUME LoopTyped, ThreadTyped, Flags, StopsAreJoined, Reconcile \/ TearDown
  PROVE  StopsAreJoined'
<1>0. None \notin Clients /\ None \notin Entry
  BY SourcesAssumption
<1> USE <1>0 DEF LoopTyped, ThreadTyped, Flags, StopsAreJoined, Alive, Running
<1>1. CASE NothingToDo \/ TakeDesired \/ TearDown \/ EndStops \/ EndStarts
  BY <1>1 DEF NothingToDo, TakeDesired, TearDown, EndStops, EndStarts, live
<1>2. CASE JoinThread
  BY <1>2 DEF JoinThread
<1>3. ASSUME NEW c \in Clients, StopSource(c) PROVE StopsAreJoined'
  BY <1>3 DEF StopSource
<1>4. ASSUME NEW c \in Clients, Adjust(c) PROVE StopsAreJoined'
  <2>1. \A b \in Clients : running'[b] = None <=> running[b] = None
    <3>1. running[c] # None /\ (running' = running \/ running' = [running EXCEPT ![c].asked = Asked(c)])
      BY <1>4 DEF Adjust
    <3>2. [running[c] EXCEPT !.asked = Asked(c)] # None
      BY <1>4, <3>1, WishTyped, EntryTyped DEF Adjust, Visits, Asked
    <3> QED
      BY <3>1, <3>2
  <2>2. UNCHANGED <<pc, joining, stale, thread, stop>>
    BY <1>4 DEF Adjust, Visits
  <2> QED
    BY <2>1, <2>2
<1>5. ASSUME NEW c \in Clients, BuildFails(c) PROVE StopsAreJoined'
  BY <1>5 DEF BuildFails, Visits
<1>6. ASSUME NEW c \in Clients, SpawnSource(c) PROVE StopsAreJoined'
  <2>1. /\ pc = "starting" /\ UNCHANGED <<pc, joining, stale>>
        /\ running[c] = None /\ \A b \in Clients \ {c} : running'[b] = running[b]
        /\ thread' = [thread EXCEPT ![c] = "alive"] /\ stop' = [stop EXCEPT ![c] = FALSE]
    BY <1>6 DEF SpawnSource, Visits
  <2> QED
    BY <2>1
<1> QED
  BY <1>1, <1>2, <1>3, <1>4, <1>5, <1>6 DEF Reconcile, Visit

\* The threads tell each other nothing, and leave only by ending.
LEMMA SourceJoins ==
  ASSUME LoopTyped, ThreadTyped, StopsAreJoined, NEW c \in Clients, Thread(c) \/ World(c)
  PROVE  StopsAreJoined'
<1>1. /\ UNCHANGED <<pc, joining, stale, running, stop>>
      /\ UNCHANGED thread \/ (Alive(c) /\ thread' = [thread EXCEPT ![c] = "ended"])
  <2>1. CASE SeeStop(c) \/ SessionEnds(c)
    BY <2>1, Zenon DEF SeeStop, SessionEnds, loop
  <2>2. CASE Observe(c) \/ TakeSettings(c) \/ Report(c) \/ World(c)
    <3>1. UNCHANGED <<loop, running, stop, thread>>
      BY <2>2, Zenon DEF Observe, Settle, Agree, Suspect, Wait, Confirm, Looks, TakeSettings, Report,
         World, LevelMoves, Tick
    <3> QED
      BY <3>1 DEF loop
  <2> QED
    BY <2>1, <2>2, Zenon DEF Thread
<1>2. \A b \in Clients : (Alive(b)' => Alive(b)) /\ (thread'[b] = "none" <=> thread[b] = "none")
  BY <1>1 DEF ThreadTyped, Alive
<1>3. joining # None => joining \in Clients
  BY DEF LoopTyped
<1> QED
  BY <1>1, <1>2, <1>3 DEF StopsAreJoined, Alive, Running

\* Whoever is told to stop is waited for, and nobody else: the thread a pass
\* awaits has ended or has a stop to see, and no source is told to stop and
\* then left to itself (stop_source).
THEOREM JoinsAreAnswered == Spec => []StopsAreJoined
<1>1. Init => StopsAreJoined
  BY DEF Init, StopsAreJoined, Alive, Running
<1>2. LoopTyped /\ ThreadTyped /\ Flags /\ StopsAreJoined /\ [Next]_vars => StopsAreJoined'
  <2> SUFFICES ASSUME LoopTyped, ThreadTyped, Flags, StopsAreJoined, [Next]_vars
               PROVE  StopsAreJoined'
    OBVIOUS
  <2>1. CASE (\E d \in Configs : Poll(d)) \/ UNCHANGED vars
    <3>1. UNCHANGED <<pc, joining, stale, running, stop, thread>>
      BY <2>1, Zenon DEF Poll, vars, loop
    <3> QED
      BY <3>1 DEF StopsAreJoined, Alive, Running
  <2> QED
    BY <2>1, ReconcileJoins, SourceJoins DEF Next
<1> QED
  BY <1>1, <1>2, AlwaysTyped, PTL DEF Spec

\* The steps left when n sources are to stop and m to be visited.
StepsWith(place, n, j, m) ==
  IF place = "starting" THEN m + 1
  ELSE IF place = "stopping"
       THEN 2 * n + (IF j = None THEN 0 ELSE 1) + Cardinality(Clients) + 2
  ELSE 0

\* The steps a pass has left at most: a stop and a join for each source that is
\* stale, a visit to each that is wanted.
StepsLeft == StepsWith(pc, Cardinality(stale), joining, Cardinality(todo))

\* A step of the supervisor is one of those; the others leave it where it is.
NearerTheEnd ==
  pc # "select" => StepsLeft' < StepsLeft \/ UNCHANGED <<pc, stale, joining, todo>>

\* The sets are finite, and no larger than that of the clients.
LEMMA ClientsCounted ==
  ASSUME IsFiniteSet(Clients), LoopTyped
  PROVE  /\ Cardinality(Clients) \in Nat
         /\ Cardinality(stale) \in 0 .. Cardinality(Clients)
         /\ Cardinality(todo) \in 0 .. Cardinality(Clients)
         /\ Cardinality(Wanted(current)) \in 0 .. Cardinality(Clients)
         /\ \A c \in stale : Cardinality(stale \ {c}) = Cardinality(stale) - 1
         /\ \A c \in todo : Cardinality(todo \ {c}) = Cardinality(todo) - 1
<1>1. stale \subseteq Clients /\ todo \subseteq Clients /\ Wanted(current) \subseteq Clients
  BY DEF LoopTyped, Wanted
<1>2. IsFiniteSet(stale) /\ IsFiniteSet(todo) /\ IsFiniteSet(Wanted(current))
  BY <1>1, FS_Subset
<1>3. /\ Cardinality(Clients) \in Nat /\ Cardinality(stale) \in Nat /\ Cardinality(todo) \in Nat
      /\ Cardinality(Wanted(current)) \in Nat
      /\ Cardinality(stale) <= Cardinality(Clients)
      /\ Cardinality(todo) <= Cardinality(Clients)
      /\ Cardinality(Wanted(current)) <= Cardinality(Clients)
  BY <1>1, <1>2, FS_Subset, FS_CardinalityType
<1> QED
  BY <1>2, <1>3, FS_RemoveElement

\* Each step takes the pass nearer to its end.
LEMMA StepNearerTheEnd ==
  ASSUME IsFiniteSet(Clients), LoopTyped, StopsAreJoined, Next, pc # "select"
  PROVE  NearerTheEnd
<1>0. None \notin Clients
  BY SourcesAssumption
<1> USE <1>0, ClientsCounted DEF NearerTheEnd, StepsLeft, StepsWith
<1>1. ASSUME NEW c \in Clients, StopSource(c) PROVE NearerTheEnd
  BY <1>1 DEF StopSource
<1>2. CASE JoinThread
  BY <1>2 DEF JoinThread, StopsAreJoined
<1>3. CASE EndStops
  BY <1>3 DEF EndStops, LoopTyped
<1>4. ASSUME NEW c \in Clients, Visit(c) PROVE NearerTheEnd
  <2>1. Visits(c) /\ UNCHANGED <<pc, stale, joining>>
    BY <1>4, Zenon DEF Visit, Adjust, BuildFails, SpawnSource
  <2> QED
    BY <2>1 DEF Visits
<1>5. CASE EndStarts
  BY <1>5 DEF EndStarts
<1>6. CASE NothingToDo \/ TakeDesired \/ TearDown
  BY <1>6 DEF NothingToDo, TakeDesired, TearDown
<1>7. CASE (\E d \in Configs : Poll(d)) \/ \E c \in Clients : Thread(c) \/ World(c)
  <2>1. UNCHANGED <<pc, stale, joining, todo>>
    BY <1>7, Zenon DEF Poll, Thread, World, Observe, Settle, Agree, Suspect, Wait, Confirm, Looks,
       TakeSettings, Report, SeeStop, SessionEnds, LevelMoves, Tick, loop
  <2> QED
    BY <2>1
<1> QED
  BY <1>1, <1>2, <1>3, <1>4, <1>5, <1>6, <1>7 DEF Next, Reconcile

\* A pass over the sources is over after a number of its own steps that depends
\* on how many sources there are alone: desired states, levels and settings that
\* arrive meanwhile never add to the work in hand (reconcile_sources).
THEOREM PassesEnd ==
  ASSUME IsFiniteSet(Clients)
  PROVE  Spec => /\ [](StepsLeft \in 0 .. 3 * Cardinality(Clients) + 3)
                 /\ [][NearerTheEnd]_vars
<1>1. LoopTyped => StepsLeft \in 0 .. 3 * Cardinality(Clients) + 3
  BY ClientsCounted DEF StepsLeft, StepsWith
<1>2. LoopTyped /\ StopsAreJoined /\ [Next]_vars => [NearerTheEnd]_vars
  BY StepNearerTheEnd DEF NearerTheEnd
<1> QED
  BY <1>1, <1>2, AlwaysTyped, JoinsAreAnswered, PTL DEF Spec

=============================================================================
