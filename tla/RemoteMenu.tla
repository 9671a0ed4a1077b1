----------------------------- MODULE RemoteMenu -----------------------------
(***************************************************************************)
(* The menu on a Beoremote (src/src/beoremote/mod.rs, gatt.rs, api.rs;     *)
(* reconcile_beoremote in src/src/supervisor.rs).                          *)
(*                                                                         *)
(* The bridge registers a GATT service with BlueZ, writes the server's     *)
(* menu to it, and answers the remote's picks.  A remote reads the lists   *)
(* once per connection and reports positions only, so a pick goes up with  *)
(* the revision last published.  Meanwhile the menu moves, the server and  *)
(* bluetoothd come and go, and the supervisor may abort the bridge between *)
(* any two steps.                                                          *)
(***************************************************************************)
EXTENDS Integers, Sequences, FiniteSets

CONSTANTS
  Menus,         \* what the server may offer
  Remotes,       \* the paired remotes
  WriteQueue,    \* how many writes of a remote wait to be handled
  MaxRestarts,   \* bound: restarts of bluetoothd and the bridge, signals refused
  RestartsUnseen,\* whether bluetoothd may restart while its name is asked for
  Empty,         \* the menu published when there is none
  None           \* "absent", of every optional value

Published == Menus \cup {Empty}

ASSUME MenuAssumption ==
  /\ Empty \notin Menus /\ None \notin Menus \cup {Empty}
  /\ WriteQueue \in Nat \ {0} /\ MaxRestarts \in Nat
  /\ RestartsUnseen \in BOOLEAN

-----------------------------------------------------------------------------
VARIABLES
  menu,      \* the server's menu
  up,        \* whether the server answers
  restarts,  \* how often bluetoothd or the bridge was restarted, or a signal refused
  app,       \* the applications BlueZ has of us: "ours", "left" by an earlier session
  owner,     \* OWNER: the connection an application can be taken back from
  attrs,     \* the menu the attributes hold
  sameDaemon,\* whether bluetoothd is still the one the bridge knows
  link,      \* of each remote, whether it is connected
  shown,     \* of each remote, the menu it has read
  pc,        \* where the bridge is
  published, \* the menu the bridge believes published
  next,      \* the menu it is about to write
  tells,     \* whether the remotes are made to come back for it
  listed,    \* the remotes it has listed as connected
  writes,    \* picks to be handled: the menu each was made from
  pick,      \* the one being handled
  started    \* the last pick that was started (not in the code)

session == <<pc, published, next, tells, writes, pick>>
server == <<menu, up>>
bluez == <<app, owner, attrs, sameDaemon>>
remotes == <<link, shown>>
vars == <<server, restarts, bluez, remotes, session, listed, started>>

\* No bridge; or one that waits to register, takes back what is left, registers,
\* asks for the daemon's name, fetches a menu, writes it, sends remotes away,
\* serves, has a pick at the server, or polls.
Places == {"off", "waiting", "leftovers", "registering", "owning", "fetching",
           "writing", "telling", "serving", "selecting", "polling"}

\* A pick that was started: the menu it was made from, and the one it was
\* looked up in.
Start == [from : Menus, in : Menus]

Init ==
  /\ menu \in Menus /\ up \in BOOLEAN /\ restarts = 0
  /\ app = {} /\ owner = None /\ attrs = Empty /\ sameDaemon = FALSE
  /\ link = [r \in Remotes |-> FALSE]
  /\ shown = [r \in Remotes |-> None]
  /\ pc = "off" /\ published = Empty /\ next = Empty /\ tells = FALSE
  /\ listed = {}
  /\ writes = <<>> /\ pick = None
  /\ started = None

-----------------------------------------------------------------------------
(* The server, BlueZ and the remotes. *)

MenuMoves ==
  /\ menu' \in Menus \ {menu}
  /\ UNCHANGED <<up, restarts, bluez, remotes, session, listed, started>>

ServerComesOrGoes ==
  /\ up' = ~up
  /\ UNCHANGED <<menu, restarts, bluez, remotes, session, listed, started>>

\* systemd has bluetoothd back in well under a second, without applications
\* and links.
BluezRestarts ==
  /\ restarts < MaxRestarts
  /\ RestartsUnseen \/ pc # "owning"
  /\ restarts' = restarts + 1
  /\ app' = {}
  /\ sameDaemon' = FALSE
  /\ link' = [r \in Remotes |-> FALSE]
  /\ UNCHANGED <<server, owner, attrs, shown, session, listed, started>>

\* A remote is picked up: it will read the lists again.
Connects(r) ==
  /\ ~link[r]
  /\ link' = [link EXCEPT ![r] = TRUE]
  /\ shown' = [shown EXCEPT ![r] = None]
  /\ UNCHANGED <<server, restarts, bluez, session, listed, started>>

Sleeps(r) ==
  /\ link[r]
  /\ link' = [link EXCEPT ![r] = FALSE]
  /\ UNCHANGED <<server, restarts, bluez, shown, session, listed, started>>

\* read_value, once per connection.
ReadValue(r) ==
  /\ link[r] /\ shown[r] = None
  /\ app # {}
  /\ shown' = [shown EXCEPT ![r] = attrs]
  /\ UNCHANGED <<server, restarts, bluez, link, session, listed, started>>

\* write_value: a pick waits in the queue, or is dropped.
WriteValue(r) ==
  /\ link[r] /\ shown[r] \in Menus
  /\ "ours" \in app
  /\ Len(writes) < WriteQueue
  /\ writes' = Append(writes, shown[r])
  /\ UNCHANGED <<server, restarts, bluez, remotes, pc, published, next, tells, pick, listed, started>>

-----------------------------------------------------------------------------
(* The supervisor. *)

Connected == {r \in Remotes : link[r]}

\* What was this session's is now an earlier session's.
Leave(s) == IF "ours" \in s THEN {"left"} ELSE s

\* A session is over: its receiver is dropped, its application is not.  Only a
\* connection that OWNER does not hold is closed, and its application goes.
EndSession ==
  /\ app' = IF owner = "ours" THEN Leave(app) ELSE app \ {"ours"}
  /\ owner' = IF owner = "ours" THEN "left" ELSE owner
  /\ published' = Empty /\ next' = Empty /\ tells' = FALSE
  /\ writes' = <<>> /\ pick' = None
  /\ sameDaemon' = FALSE

\* reconcile_beoremote: a bridge is started; it reads the list of remotes.
StartBridge ==
  /\ pc = "off"
  /\ pc' = "leftovers"
  /\ listed' = Connected
  /\ UNCHANGED <<server, restarts, bluez, remotes, published, next, tells, writes, pick, started>>

\* stop_beoremote: it is aborted where it is.
StopBridge ==
  /\ pc # "off"
  /\ restarts < MaxRestarts
  /\ restarts' = restarts + 1
  /\ pc' = "off"
  /\ EndSession
  /\ listed' = {}
  /\ UNCHANGED <<server, attrs, remotes, started>>

-----------------------------------------------------------------------------
(* The bridge: run, serve_remote. *)

\* RECONNECT_DELAY is over.
Retry ==
  /\ pc = "waiting"
  /\ pc' = "leftovers"
  /\ listed' = Connected
  /\ UNCHANGED <<server, restarts, bluez, remotes, published, next, tells, writes, pick, started>>

\* Mutant: the application is asked back from a new connection.
UnregisterFromNew ==
  /\ pc = "leftovers"
  /\ pc' = "registering"
  /\ UNCHANGED <<server, restarts, bluez, remotes, published, next, tells, writes, pick, listed, started>>

\* unregister_leftovers: BlueZ gives an application back to the connection that
\* registered it.
UnregisterLeftovers ==
  /\ pc = "leftovers"
  /\ app' = app \ {owner}
  /\ pc' = "registering"
  /\ UNCHANGED <<server, restarts, owner, attrs, sameDaemon, remotes, published, next, tells, writes, pick, listed, started>>

\* register: fresh attributes, and an application of ours; the daemon may be
\* away just now.
RegisterApplication ==
  /\ pc = "registering"
  /\ app' = app \cup {"ours"}
  /\ attrs' = Empty
  /\ pc' = "owning"
  /\ UNCHANGED <<server, restarts, owner, sameDaemon, remotes, published, next, tells, writes, pick, listed, started>>

RegisterFails ==
  /\ pc = "registering"
  /\ pc' = "waiting"
  /\ UNCHANGED <<server, restarts, bluez, remotes, published, next, tells, writes, pick, listed, started>>

\* The daemon that has the name now is the one it will be compared with.
Own ==
  /\ pc = "owning"
  /\ owner' = "ours"
  /\ sameDaemon' = TRUE
  /\ pc' = "fetching"
  /\ UNCHANGED <<server, restarts, app, attrs, remotes, published, next, tells, writes, pick, listed, started>>

\* publish: the server's menu, or an empty one.
Publish ==
  /\ pc = "fetching"
  /\ next' = IF up THEN menu ELSE Empty
  /\ tells' = FALSE
  /\ pc' = "writing"
  /\ UNCHANGED <<server, restarts, bluez, remotes, published, writes, pick, listed, started>>

\* write_menu.
WriteMenu ==
  /\ pc = "writing"
  /\ attrs' = next
  /\ published' = next
  /\ pc' = IF tells THEN "telling" ELSE "serving"
  /\ UNCHANGED <<server, restarts, app, owner, sameDaemon, remotes, next, tells, writes, pick, listed, started>>

\* The attributes are set, but the change cannot be announced.
AnnounceFails ==
  /\ pc = "writing"
  /\ restarts < MaxRestarts
  /\ restarts' = restarts + 1
  /\ attrs' = next
  /\ pc' = "waiting"
  /\ app' = Leave(app)
  /\ owner' = "left"
  /\ published' = Empty /\ next' = Empty /\ tells' = FALSE
  /\ writes' = <<>> /\ pick' = None
  /\ sameDaemon' = FALSE
  /\ UNCHANGED <<server, remotes, listed, started>>

\* refresh_connected_remotes: a remote that was listed is sent away and called
\* straight back, which it may hear or not.
TellRemote(r) ==
  /\ pc = "telling"
  /\ r \in listed
  /\ listed' = listed \ {r}
  /\ link' \in {[link EXCEPT ![r] = b] : b \in BOOLEAN}
  /\ shown' = [shown EXCEPT ![r] = None]
  /\ UNCHANGED <<server, restarts, bluez, session, started>>

RemotesTold ==
  /\ pc = "telling"
  /\ listed = {}
  /\ pc' = "serving"
  /\ UNCHANGED <<server, restarts, bluez, remotes, published, next, tells, writes, pick, listed, started>>

TakeWrite ==
  /\ pc = "serving"
  /\ writes # <<>>
  /\ pick' = Head(writes)
  /\ writes' = Tail(writes)
  /\ pc' = "selecting"
  /\ UNCHANGED <<server, restarts, bluez, remotes, published, next, tells, listed, started>>

\* Mutant: the pick is started whatever revision it goes with.
SelectStartsAny ==
  /\ pc = "selecting"
  /\ up
  /\ started' = [from |-> pick, in |-> menu]
  /\ pick' = None
  /\ pc' = "serving"
  /\ UNCHANGED <<server, restarts, bluez, remotes, published, next, tells, writes, listed>>

\* select: the position is looked up in the menu there is, if it still has the
\* revision that was published ...
SelectStarts ==
  /\ pc = "selecting"
  /\ up /\ published = menu
  /\ started' = [from |-> pick, in |-> menu]
  /\ pick' = None
  /\ pc' = "serving"
  /\ UNCHANGED <<server, restarts, bluez, remotes, published, next, tells, writes, listed>>

\* ... or the menu is published anew: it moved, or has nothing at a position
\* that comes from another menu ...
SelectRefreshes ==
  /\ pc = "selecting"
  /\ up /\ (published # menu \/ pick # published)
  /\ pick' = None
  /\ pc' = "fetching"
  /\ UNCHANGED <<server, restarts, bluez, remotes, published, next, tells, writes, listed, started>>

\* ... or nothing comes of it: a header row, or no answer.
SelectFails ==
  /\ pc = "selecting"
  /\ pick' = None
  /\ pc' = "serving"
  /\ UNCHANGED <<server, restarts, bluez, remotes, published, next, tells, writes, listed, started>>

\* The menu poll: the remotes are listed first.
PollTick ==
  /\ pc = "serving"
  /\ listed' = Connected
  /\ pc' = "polling"
  /\ UNCHANGED <<server, restarts, bluez, remotes, published, next, tells, writes, pick, started>>

\* Mutant: once a menu is published it is left alone.
PollSeesFirstChange ==
  /\ pc = "polling"
  /\ up /\ published = Empty
  /\ next' = menu
  /\ tells' = TRUE
  /\ pc' = "writing"
  /\ UNCHANGED <<server, restarts, bluez, remotes, published, writes, pick, listed, started>>

PollSeesChange ==
  /\ pc = "polling"
  /\ up /\ published # menu
  /\ next' = menu
  /\ tells' = TRUE
  /\ pc' = "writing"
  /\ UNCHANGED <<server, restarts, bluez, remotes, published, writes, pick, listed, started>>

PollSeesNothing ==
  /\ pc = "polling"
  /\ ~up \/ published = menu
  /\ pc' = "serving"
  /\ UNCHANGED <<server, restarts, bluez, remotes, published, next, tells, writes, pick, listed, started>>

\* wait_until_bluez_goes_away: another daemon has the name.
DaemonReplaced ==
  /\ pc = "serving"
  /\ ~sameDaemon
  /\ pc' = "waiting"
  /\ EndSession
  /\ UNCHANGED <<server, restarts, attrs, remotes, listed, started>>

-----------------------------------------------------------------------------
Write == WriteMenu \/ AnnounceFails
Register == RegisterApplication \/ RegisterFails
Tell == RemotesTold \/ \E r \in Remotes : TellRemote(r)
Select == SelectStarts \/ SelectRefreshes \/ SelectFails
Poll == PollSeesChange \/ PollSeesNothing

Bridge ==
  \/ Retry \/ UnregisterLeftovers \/ Register \/ Own \/ Publish \/ Write \/ Tell
  \/ TakeWrite \/ Select \/ PollTick \/ Poll \/ DaemonReplaced

Outside ==
  \/ MenuMoves \/ ServerComesOrGoes \/ BluezRestarts
  \/ \E r \in Remotes : Connects(r) \/ Sleeps(r) \/ ReadValue(r) \/ WriteValue(r)

Next == Bridge \/ StartBridge \/ StopBridge \/ Outside

Spec == Init /\ [][Next]_vars

\* The bridge is asked for, and everything it waits for is a timer or a call
\* that returns; a daemon that is there accepts an application now and then;
\* `select!` picks at random among what is ready.
Fairness ==
  /\ WF_vars(StartBridge) /\ WF_vars(Retry) /\ WF_vars(UnregisterLeftovers)
  /\ WF_vars(Register) /\ SF_vars(RegisterApplication) /\ WF_vars(Own)
  /\ WF_vars(Publish) /\ WF_vars(WriteMenu) /\ WF_vars(Tell)
  /\ WF_vars(Select)
  /\ SF_vars(PollTick) /\ WF_vars(Poll) /\ SF_vars(DaemonReplaced)

FairSpec == Spec /\ Fairness

-----------------------------------------------------------------------------
(* Properties. *)

\* Every variable has its type, and the queue of writes its limit.
TypeOK ==
  /\ menu \in Menus /\ up \in BOOLEAN /\ restarts \in 0..MaxRestarts
  /\ app \subseteq {"ours", "left"} /\ owner \in {"ours", "left", None}
  /\ attrs \in Published /\ sameDaemon \in BOOLEAN
  /\ link \in [Remotes -> BOOLEAN]
  /\ shown \in [Remotes -> Published \cup {None}]
  /\ pc \in Places
  /\ published \in Published /\ next \in Published /\ tells \in BOOLEAN
  /\ listed \subseteq Remotes
  /\ writes \in Seq(Menus) /\ Len(writes) <= WriteQueue
  /\ pick \in Menus \cup {None}
  /\ started \in Start \cup {None}

\* The service is never registered above one that an earlier session left
\* behind, which would move it to handles the remote does not know
\* (unregister_leftovers, register; gatt.rs:373).
HandlesStay == app # {"ours", "left"}

\* A pick is started only while the lists a remote can read are the server's
\* (handle_write, select): a menu that moved since it was written is noticed.
StartsFromServed == [][started' # started => attrs = menu]_vars

\* A menu that the server settles on is the one served in the end, although
\* bluetoothd, the bridge and the server itself were away in between
\* (serve_remote, wait_until_bluez_goes_away).
EventuallyServed ==
  \A m \in Menus :
    <>[](up /\ menu = m) => <>[]("ours" \in app /\ attrs = m)

\* "Without that check a list which changed since publishing would start the
\* wrong thing" (api.rs:7): what is started is what the remote showed.  It does
\* not hold: a remote that keeps its link shows the lists it read, while its
\* pick goes up with the revision that was published since.
StartsWhatIsShown == started # None => started.from = started.in
=============================================================================
