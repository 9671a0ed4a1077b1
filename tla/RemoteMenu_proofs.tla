-------------------------- MODULE RemoteMenu_proofs --------------------------
(***************************************************************************)
(* What RemoteMenu promises for any menus, remotes, queue and number of    *)
(* restarts: the types, that the service keeps the handles remotes know,   *)
(* and that a pick is started from the menu that is served.                *)
(***************************************************************************)
EXTENDS RemoteMenu, TLAPS

-----------------------------------------------------------------------------
(* Types. *)

\* The flags have two values.
Flags ==
  /\ up \in BOOLEAN
  /\ sameDaemon \in BOOLEAN
  /\ link \in [Remotes -> BOOLEAN]
  /\ tells \in BOOLEAN

\* All types but those of the flags.
Typed ==
  /\ menu \in Menus /\ restarts \in 0..MaxRestarts
  /\ app \subseteq {"ours", "left"} /\ owner \in {"ours", "left", None}
  /\ attrs \in Published
  /\ shown \in [Remotes -> Published \cup {None}]
  /\ pc \in Places
  /\ published \in Published /\ next \in Published
  /\ listed \subseteq Remotes
  /\ writes \in Seq(Menus) /\ Len(writes) <= WriteQueue
  /\ pick \in Menus \cup {None}
  /\ started \in Start \cup {None}
  /\ pc = "selecting" => pick \in Menus

\* A queue of picks, one added and one taken.
LEMMA WritesTyped ==
  ASSUME NEW s \in Seq(Menus), NEW m \in Menus
  PROVE  /\ <<>> \in Seq(Menus) /\ Len(<<>>) = 0
         /\ Append(s, m) \in Seq(Menus) /\ Len(Append(s, m)) = Len(s) + 1
         /\ s # <<>> => Head(s) \in Menus /\ Tail(s) \in Seq(Menus) /\ Len(Tail(s)) <= Len(s)
BY SMT

\* Steps outside of the bridge keep the types.
LEMMA OutsideTyped == ASSUME Typed, Outside PROVE Typed'
<1> USE MenuAssumption DEF Typed, server, bluez, remotes, session
<1>1. CASE MenuMoves
  BY <1>1, SMT DEF MenuMoves
<1>2. CASE BluezRestarts
  BY <1>2, SMT DEF BluezRestarts
<1>3. CASE ServerComesOrGoes
  BY <1>3, Zenon DEF ServerComesOrGoes
<1>5. ASSUME NEW r \in Remotes, Connects(r) PROVE Typed'
  BY <1>5, SMT DEF Connects
<1>6. ASSUME NEW r \in Remotes, Sleeps(r) PROVE Typed'
  BY <1>6, SMT DEF Sleeps
<1>7. ASSUME NEW r \in Remotes, ReadValue(r) PROVE Typed'
  BY <1>7, SMT DEF ReadValue
<1>4. ASSUME NEW r \in Remotes, WriteValue(r) PROVE Typed'
  <2>1. shown[r] \in Menus /\ writes' = Append(writes, shown[r]) /\ Len(writes) < WriteQueue
    BY <1>4 DEF WriteValue
  <2>2. writes' \in Seq(Menus) /\ Len(writes') <= WriteQueue
    BY <2>1, WritesTyped
  <2> QED
    BY <1>4, <2>2 DEF WriteValue
<1> QED
  BY <1>1, <1>2, <1>3, <1>4, <1>5, <1>6, <1>7 DEF Outside

\* Nothing is queued any more.
LEMMA NoWritesTyped == <<>> \in Seq(Menus) /\ Len(<<>>) <= WriteQueue
BY MenuAssumption, SMT

\* The end of a session keeps them.
LEMMA EndTyped ==
  ASSUME Typed, EndSession
  PROVE  /\ app' \subseteq {"ours", "left"} /\ owner' \in {"ours", "left", None}
         /\ published' \in Published /\ next' \in Published
         /\ writes' \in Seq(Menus) /\ Len(writes') <= WriteQueue
         /\ pick' \in Menus \cup {None}
BY NoWritesTyped DEF Typed, EndSession, Leave, Published

\* The bridge's steps, and those of the supervisor, keep them.
LEMMA BridgeTyped == ASSUME Typed, Bridge \/ StartBridge \/ StopBridge PROVE Typed'
<1> USE MenuAssumption DEF Typed, server, bluez, remotes, session, Places, Published, Connected
<1>1. CASE StartBridge
  BY <1>1, SMT DEF StartBridge
<1>2. CASE Retry
  BY <1>2, SMT DEF Retry
<1>3. CASE PollTick
  BY <1>3, SMT DEF PollTick
<1>4. CASE StopBridge
  <2>1. EndSession /\ pc' = "off" /\ UNCHANGED <<menu, attrs, shown, started>>
        /\ listed' = {} /\ restarts' \in 0..MaxRestarts
    BY <1>4, SMT DEF StopBridge
  <2> QED
    BY <2>1, EndTyped
<1>5. CASE DaemonReplaced
  <2>1. EndSession /\ pc' = "waiting" /\ UNCHANGED <<menu, restarts, attrs, shown, listed, started>>
    BY <1>5, Zenon DEF DaemonReplaced
  <2> QED
    BY <2>1, EndTyped
<1>6. CASE UnregisterLeftovers
  <2>1. /\ pc' = "registering"
        /\ UNCHANGED <<menu, restarts, owner, attrs, shown, published, next, writes, pick, listed, started>>
    BY <1>6, Zenon DEF UnregisterLeftovers
  <2>2. app' \subseteq {"ours", "left"}
    BY <1>6 DEF UnregisterLeftovers
  <2> QED
    BY <2>1, <2>2
<1>7. CASE RegisterApplication
  BY <1>7, SMT DEF RegisterApplication
<1>8. CASE RegisterFails
  BY <1>8, SMT DEF RegisterFails
<1>9. CASE Own
  <2>1. /\ pc' = "fetching" /\ owner' = "ours"
        /\ UNCHANGED <<menu, restarts, app, attrs, shown, published, next, writes, pick, listed, started>>
    BY <1>9, Zenon DEF Own
  <2> QED
    BY <2>1, SMT
<1>10. CASE Publish
  <2>1. /\ pc' = "writing" /\ next' \in {menu, Empty}
        /\ UNCHANGED <<menu, restarts, app, owner, attrs, shown, published, writes, pick, listed, started>>
    BY <1>10, Zenon DEF Publish
  <2> QED
    BY <2>1, SMT
<1>11. CASE WriteMenu
  BY <1>11, SMT DEF WriteMenu
<1>12. CASE AnnounceFails
  BY <1>12, NoWritesTyped DEF AnnounceFails, Leave
<1>13. ASSUME NEW r \in Remotes, TellRemote(r) PROVE Typed'
  BY <1>13, SMT DEF TellRemote
<1>14. CASE RemotesTold
  BY <1>14, SMT DEF RemotesTold
<1>15. CASE TakeWrite
  <2>1. Head(writes) \in Menus /\ Tail(writes) \in Seq(Menus) /\ Len(Tail(writes)) <= Len(writes)
    BY <1>15, WritesTyped DEF TakeWrite
  <2>2. Len(Tail(writes)) <= WriteQueue
    BY <2>1, SMT
  <2> QED
    BY <1>15, <2>1, <2>2 DEF TakeWrite
<1>16. CASE SelectStarts
  <2>1. [from |-> pick, in |-> menu] \in Start
    BY <1>16 DEF SelectStarts, Start
  <2> QED
    BY <1>16, <2>1 DEF SelectStarts
<1>17. CASE SelectRefreshes
  BY <1>17, SMT DEF SelectRefreshes
<1>18. CASE SelectFails
  BY <1>18, SMT DEF SelectFails
<1>19. CASE PollSeesChange
  <2>1. /\ pc' = "writing" /\ next' = menu
        /\ UNCHANGED <<menu, restarts, app, owner, attrs, shown, published, writes, pick, listed, started>>
    BY <1>19, Zenon DEF PollSeesChange
  <2> QED
    BY <2>1, SMT
<1>20. CASE PollSeesNothing
  BY <1>20, SMT DEF PollSeesNothing
<1> QED
  BY <1>1, <1>2, <1>3, <1>4, <1>5, <1>6, <1>7, <1>8, <1>9, <1>10, <1>11, <1>12, <1>13, <1>14,
     <1>15, <1>16, <1>17, <1>18, <1>19, <1>20
  DEF Bridge, Register, Write, Tell, Select, Poll

\* The flags keep their values.
LEMMA FlagStep == ASSUME Flags, Next PROVE Flags'
<1> USE DEF Flags, server, bluez, remotes, session
<1>1. CASE Outside
  <2>1. ASSUME NEW r \in Remotes, NEW b \in BOOLEAN, link' = [link EXCEPT ![r] = b]
        PROVE  link' \in [Remotes -> BOOLEAN]
    BY <2>1
  <2>2. CASE MenuMoves \/ ServerComesOrGoes
    BY <2>2, Zenon DEF MenuMoves, ServerComesOrGoes
  <2>3. CASE BluezRestarts
    <3>1. [r \in Remotes |-> FALSE] \in [Remotes -> BOOLEAN]
      OBVIOUS
    <3> QED
      BY <2>3, <3>1, Zenon DEF BluezRestarts
  <2>4. ASSUME NEW r \in Remotes, Connects(r) \/ Sleeps(r) PROVE Flags'
    BY <2>1, <2>4, Zenon DEF Connects, Sleeps
  <2>5. ASSUME NEW r \in Remotes, ReadValue(r) \/ WriteValue(r) PROVE Flags'
    BY <2>5, Zenon DEF ReadValue, WriteValue
  <2> QED
    BY <1>1, <2>2, <2>3, <2>4, <2>5, Zenon DEF Outside
<1>2. CASE StartBridge \/ StopBridge
  BY <1>2, Zenon DEF StartBridge, StopBridge, EndSession
<1>3. CASE Bridge
  <2>1. CASE Retry \/ UnregisterLeftovers \/ Register \/ Own \/ Publish \/ Write
    BY <2>1, Zenon DEF Retry, UnregisterLeftovers, Register, RegisterApplication, RegisterFails,
       Own, Publish, Write, WriteMenu, AnnounceFails
  <2>2. CASE TakeWrite \/ Select \/ PollTick \/ Poll \/ DaemonReplaced \/ RemotesTold
    BY <2>2, Zenon DEF TakeWrite, Select, SelectStarts, SelectRefreshes, SelectFails, PollTick,
       Poll, PollSeesChange, PollSeesNothing, DaemonReplaced, EndSession, RemotesTold
  <2>3. ASSUME NEW r \in Remotes, TellRemote(r) PROVE Flags'
    <3>1. PICK b \in BOOLEAN : link' = [link EXCEPT ![r] = b]
      BY <2>3, Zenon DEF TellRemote
    <3>2. link' \in [Remotes -> BOOLEAN]
      BY <3>1
    <3> QED
      BY <2>3, <3>2, Zenon DEF TellRemote
  <2> QED
    BY <1>3, <2>1, <2>2, <2>3, Zenon DEF Bridge, Tell
<1> QED
  BY <1>1, <1>2, <1>3 DEF Next

\* The initial states are typed.
LEMMA InitTyped == Init => Typed /\ Flags
<1> SUFFICES ASSUME Init PROVE Typed /\ Flags
  OBVIOUS
<1>1. Flags
  <2>1. [r \in Remotes |-> FALSE] \in [Remotes -> BOOLEAN]
    OBVIOUS
  <2> QED
    BY <2>1, Zenon DEF Init, Flags
<1>2. Typed
  BY MenuAssumption, NoWritesTyped DEF Init, Typed, Published, Places
<1> QED
  BY <1>1, <1>2

\* Types hold all along.
LEMMA AlwaysTyped == Spec => [](Typed /\ Flags)
<1>1. Typed /\ Flags /\ [Next]_vars => Typed' /\ Flags'
  <2> SUFFICES ASSUME Typed, Flags, [Next]_vars PROVE Typed' /\ Flags'
    OBVIOUS
  <2>1. CASE UNCHANGED vars
    BY <2>1, Zenon DEF vars, server, bluez, remotes, session, Typed, Flags
  <2>2. CASE Next
    BY <2>2, OutsideTyped, BridgeTyped, FlagStep DEF Next
  <2> QED
    BY <2>1, <2>2
<1> QED
  BY <1>1, InitTyped, PTL DEF Spec

\* Every variable has its type, and the queue of writes its limit.
THEOREM TypeCorrect == Spec => []TypeOK
<1>1. Typed /\ Flags => TypeOK
  BY Zenon DEF Typed, Flags, TypeOK
<1> QED
  BY <1>1, AlwaysTyped, PTL

-----------------------------------------------------------------------------
(* The handles. *)

\* The applications BlueZ has of us: none of this session's before it
\* registers one, none of an earlier one after that, and an earlier one's can
\* be taken back from the connection that is kept.
OneApplication ==
  /\ pc \in {"off", "waiting", "leftovers", "registering"} => "ours" \notin app
  /\ pc \notin {"off", "waiting", "leftovers"} => "left" \notin app
  /\ "left" \in app => owner = "left"

\* Every step keeps it.
LEMMA ApplicationStep == ASSUME Typed, OneApplication, Next PROVE OneApplication'
<1> USE DEF OneApplication, Typed, server, bluez, remotes, session
<1>1. CASE Outside
  <2>1. app' \in {app, {}} /\ UNCHANGED <<owner, pc>>
    BY <1>1, Zenon DEF Outside, MenuMoves, ServerComesOrGoes, BluezRestarts, Connects, Sleeps,
       ReadValue, WriteValue
  <2> QED
    BY <2>1
<1>2. ASSUME EndSession, pc' \in {"off", "waiting"} PROVE OneApplication'
  BY <1>2 DEF EndSession, Leave
<1>3. CASE StopBridge \/ DaemonReplaced
  BY <1>2, <1>3, Zenon DEF StopBridge, DaemonReplaced
<1>4. CASE StartBridge \/ Retry \/ RegisterFails
  <2>1. pc \in {"off", "waiting", "registering"} /\ pc' \in {"leftovers", "waiting"}
        /\ UNCHANGED <<app, owner>>
    BY <1>4, Zenon DEF StartBridge, Retry, RegisterFails
  <2> QED
    BY <2>1
<1>5. CASE UnregisterLeftovers
  BY <1>5, MenuAssumption, SMT DEF UnregisterLeftovers
<1>6. CASE RegisterApplication
  BY <1>6, SMT DEF RegisterApplication
<1>7. CASE Own
  <2>1. pc = "owning" /\ pc' = "fetching" /\ UNCHANGED app
    BY <1>7, Zenon DEF Own
  <2> QED
    BY <2>1
<1>8. CASE AnnounceFails
  <2>1. pc = "writing" /\ pc' = "waiting" /\ app' = Leave(app) /\ owner' = "left"
    BY <1>8, Zenon DEF AnnounceFails
  <2> QED
    BY <2>1 DEF Leave
<1>9. CASE Publish \/ WriteMenu \/ Tell \/ TakeWrite \/ Select \/ PollTick \/ Poll
  <2>1. /\ pc \notin {"off", "waiting", "leftovers", "registering"}
        /\ pc' \notin {"off", "waiting", "leftovers", "registering"}
        /\ UNCHANGED <<app, owner>>
    BY <1>9 DEF Publish, WriteMenu, Tell, TellRemote, RemotesTold, TakeWrite, Select,
       SelectStarts, SelectRefreshes, SelectFails, PollTick, Poll, PollSeesChange, PollSeesNothing
  <2> QED
    BY <2>1
<1> QED
  BY <1>1, <1>3, <1>4, <1>5, <1>6, <1>7, <1>8, <1>9 DEF Next, Bridge, Register, Write

\* No service is registered above one that an earlier session left behind,
\* wherever that one was aborted: the handles stay those the remotes know.
THEOREM ServiceKeepsItsHandles == Spec => []HandlesStay
<1>1. Init => OneApplication
  BY DEF Init, OneApplication
<1>2. Typed /\ OneApplication /\ [Next]_vars => OneApplication'
  <2>1. OneApplication /\ UNCHANGED vars => OneApplication'
    BY Zenon DEF vars, bluez, session, OneApplication
  <2> QED
    BY <2>1, ApplicationStep
<1>3. OneApplication => HandlesStay
  BY DEF OneApplication, HandlesStay
<1> QED
  BY <1>1, <1>2, <1>3, AlwaysTyped, PTL DEF Spec

-----------------------------------------------------------------------------
(* The picks. *)

\* Where no write is on its way, the attributes hold what is believed published.
ServesPublished ==
  pc \in {"telling", "serving", "selecting", "polling"} => attrs = published

\* Every step keeps it.
LEMMA ServesStep == ASSUME ServesPublished, Next PROVE ServesPublished'
<1> USE DEF ServesPublished, server, bluez, remotes, session
<1>1. CASE Outside
  <2>1. UNCHANGED <<pc, attrs, published>>
    BY <1>1, Zenon DEF Outside, MenuMoves, ServerComesOrGoes, BluezRestarts, Connects, Sleeps,
       ReadValue, WriteValue
  <2> QED
    BY <2>1
<1>2. CASE WriteMenu
  <2>1. attrs' = next /\ published' = next
    BY <1>2, Zenon DEF WriteMenu
  <2> QED
    BY <2>1
<1>3. CASE Tell \/ TakeWrite \/ SelectStarts \/ SelectFails \/ PollTick \/ PollSeesNothing
  <2>1. pc \in {"telling", "serving", "selecting", "polling"} /\ UNCHANGED <<attrs, published>>
    BY <1>3 DEF Tell, TellRemote, RemotesTold, TakeWrite, SelectStarts, SelectFails, PollTick,
       PollSeesNothing
  <2> QED
    BY <2>1
<1>4. CASE \/ StartBridge \/ StopBridge \/ Retry \/ UnregisterLeftovers \/ Register \/ Own
           \/ Publish \/ AnnounceFails \/ SelectRefreshes \/ PollSeesChange \/ DaemonReplaced
  <2>1. pc' \in {"off", "waiting", "leftovers", "registering", "owning", "fetching", "writing"}
    BY <1>4, Zenon DEF StartBridge, StopBridge, Retry, UnregisterLeftovers, Register,
       RegisterApplication, RegisterFails, Own, Publish, AnnounceFails, SelectRefreshes,
       PollSeesChange, DaemonReplaced
  <2> QED
    BY <2>1
<1> QED
  BY <1>1, <1>2, <1>3, <1>4 DEF Next, Bridge, Write, Select, Poll

\* A pick is only started while what a remote can read is the server's menu.
THEOREM PicksStartFromServed == Spec => StartsFromServed
<1>1. Init => ServesPublished
  BY DEF Init, ServesPublished
<1>2. ServesPublished /\ [Next]_vars => ServesPublished'
  <2>1. ServesPublished /\ UNCHANGED vars => ServesPublished'
    BY Zenon DEF vars, bluez, session, ServesPublished
  <2> QED
    BY <2>1, ServesStep
<1>3. ServesPublished /\ [Next]_vars => [started' # started => attrs = menu]_vars
  <2> SUFFICES ASSUME ServesPublished, Next, started' # started PROVE attrs = menu
    BY DEF vars
  <2>1. SelectStarts
    <3>1. ~(Outside \/ StartBridge \/ StopBridge)
      BY DEF Outside, MenuMoves, ServerComesOrGoes, BluezRestarts, Connects, Sleeps, ReadValue,
         WriteValue, StartBridge, StopBridge
    <3>2. ~(Retry \/ UnregisterLeftovers \/ Register \/ Own \/ Publish \/ Write \/ Tell)
      BY DEF Retry, UnregisterLeftovers, Register, RegisterApplication, RegisterFails, Own,
         Publish, Write, WriteMenu, AnnounceFails, Tell, TellRemote, RemotesTold
    <3>3. ~(TakeWrite \/ SelectRefreshes \/ SelectFails \/ PollTick \/ Poll \/ DaemonReplaced)
      BY DEF TakeWrite, SelectRefreshes, SelectFails, PollTick, Poll, PollSeesChange,
         PollSeesNothing, DaemonReplaced
    <3> QED
      BY <3>1, <3>2, <3>3 DEF Next, Bridge, Select
  <2> QED
    BY <2>1 DEF SelectStarts, ServesPublished
<1> QED
  BY <1>1, <1>2, <1>3, PTL DEF Spec, StartsFromServed
=============================================================================
