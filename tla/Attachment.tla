----------------------------- MODULE Attachment -----------------------------
(***************************************************************************)
(* Which server a device belongs to (src/src/main.rs, src/src/config.rs).  *)
(*                                                                         *)
(* The outer loop of `run` announces the device to every server it finds,  *)
(* one register request after the other, chooses the one that has it,      *)
(* writes that down, says goodbye to the others, and polls the chosen one  *)
(* until contact is lost.  The servers -- and the persons in front of them *)
(* -- change their minds at any moment, come and go, and the device may    *)
(* lose power between any two steps, in the middle of a write too.         *)
(***************************************************************************)
EXTENDS Integers, FiniteSets

CONSTANTS
  Servers,           \* the audioservers of a house
  Addresses,         \* the base URLs they can be found at
  FirstAt,           \* where each is found to begin with
  Ids,               \* device ids a device may generate
  RegisterAttempts,  \* REGISTER_ATTEMPTS
  MaxStatusFailures, \* MAX_STATUS_FAILURES
  Pins,              \* what an operator may write as server_url
  WritableSets,      \* which configuration paths can be written
  LosesRights,       \* whether a path can become read-only later on
  Typos,             \* whether an operator may break the file
  CrashesAt,         \* where `run` may be when power is lost
  TornWrites,        \* whether power can be lost while a file is written
  Moves,             \* whether a server's address can change
  ReleaseForgets,    \* whether a server that lets go answers 409 from then on
  Named404,          \* addresses whose text contains "404"
  None               \* "absent", of every optional value

Preferred == "preferred"
Fallback == "fallback"
Paths == {Preferred, Fallback}

\* The part of config.toml that matters here.
Config == [id : Ids, attached : Addresses \cup {None}, pin : Addresses \cup {None}]

\* A file that is not TOML, and the device id that can be rescued from it.
Broken == [rescued : Ids \cup {None}]

\* What `announce` remembers of a server that said it has this device.
Claim == [addr : Addresses, hand : BOOLEAN]

\* A configuration on its way to the disk, and whether its file is open: it
\* has been truncated and has nothing in it yet.
Writing == [config : Config, path : Paths, open : BOOLEAN]

\* A new configuration, and one with another server remembered or pinned.
Fresh(i) == [id |-> i, attached |-> None, pin |-> None]
Attached(c, a) == [c EXCEPT !.attached = a]
Pinned(c, a) == [c EXCEPT !.pin = a]

\* A broken file with id i still to be read in it.
Unreadable(i) == [rescued |-> i]

\* The stages of a write: the preferred path first, then the other one.
Unopened(c) == [config |-> c, path |-> Preferred, open |-> FALSE]
Opened(w) == [w EXCEPT !.open = TRUE]
OnFallback(w) == [w EXCEPT !.path = Fallback]

ASSUME AddressesAssumption ==
  /\ FirstAt \in [Servers -> Addresses]
  /\ \A r, s \in Servers : r # s => FirstAt[r] # FirstAt[s]
  /\ Named404 \subseteq Addresses
  /\ Pins \subseteq Addresses \cup {None}

ASSUME BoundsAssumption ==
  /\ RegisterAttempts \in Nat \ {0}
  /\ MaxStatusFailures \in Nat \ {0}
  /\ WritableSets \subseteq SUBSET Paths
  /\ {LosesRights, Typos, TornWrites, Moves, ReleaseForgets} \subseteq BOOLEAN

ASSUME CrashesAssumption == "off" \notin CrashesAt

ASSUME AbsentAssumption ==
  None \notin Addresses \cup Ids \cup Config \cup Broken \cup Writing

-----------------------------------------------------------------------------
VARIABLES
  at,         \* where each server is
  up,         \* the servers that answer
  claim,      \* what each says of this device: "noApi", "none", "claimed", "hand"
  knows,      \* the servers that know its hardware
  introduced, \* the ids it has registered with
  disk,       \* the two configuration files
  writable,   \* the paths that can be written
  pc,         \* where `run` is
  config,     \* the configuration in memory
  write,      \* the write under way
  declined,   \* servers that answered "no such endpoint"
  toAsk,      \* candidates still to be registered with
  tries,      \* failed attempts so far, of the candidate in `asking`
  asking,     \* a candidate that has failed before and is tried again
  claimedBy,  \* the answers that claimed the device ...
  others,     \* ... and the servers whose answer did not
  server,     \* the server chosen
  farewell,   \* the servers still to be told
  failures    \* status posts that failed in a row

servers == <<at, up, claim, knows>>
announcing == <<toAsk, tries, asking, claimedBy, others>>
attaching == <<server, farewell, failures>>
files == <<disk, writable>>
vars == <<servers, introduced, files, pc, config, write, declined, announcing, attaching>>

Init ==
  /\ at = FirstAt
  /\ up = Servers
  /\ claim = [s \in Servers |-> "none"]
  /\ knows = {}
  /\ introduced = {}
  /\ disk = [p \in Paths |-> None]
  /\ writable \in WritableSets
  /\ pc = "off"
  /\ config = None
  /\ write = None
  /\ declined = {}
  /\ toAsk = {} /\ tries = 0 /\ asking = None /\ claimedBy = {} /\ others = {}
  /\ server = None /\ farewell = {} /\ failures = 0

-----------------------------------------------------------------------------
(* The configuration file *)

\* Mutation of Loaded: only the preferred path is looked at.
LoadedPreferred == IF disk[Preferred] \in Config THEN disk[Preferred] ELSE None

\* What a start finds: the preferred file if it can be parsed, or the other one.
Loaded ==
  IF disk[Preferred] \in Config THEN disk[Preferred]
  ELSE IF disk[Fallback] \in Config THEN disk[Fallback]
  ELSE None

\* Files that cannot be parsed are moved out of the way, as far as a start
\* comes to read them.
MovedAside(read) ==
  [p \in Paths |-> IF p \in read /\ disk[p] \notin Config THEN None ELSE disk[p]]

\* A broken file that cannot be moved ends the program.
CanMoveAside(read) == \A p \in read : disk[p] \in Broken => p \in writable

\* load_or_create_config, with a file that can be read.
Boot ==
  /\ pc = "off"
  /\ CanMoveAside({Preferred})
  /\ Loaded # None
  /\ config' = Loaded
  /\ disk' = MovedAside({Preferred})
  /\ pc' = "search"
  /\ UNCHANGED <<servers, introduced, writable, write, declined, announcing, attaching>>

\* The ids that can be rescued from what is there.
Rescued(p) == IF disk[p] \in Broken /\ disk[p].rescued # None THEN {disk[p].rescued} ELSE {}

\* Mutation of FreshId: nothing is rescued.
FreshIdUnrescued == Ids \ introduced

\* The id of a new configuration: a rescued one, or one never seen before.
FreshId ==
  IF Rescued(Preferred) # {} THEN Rescued(Preferred)
  ELSE IF Rescued(Fallback) # {} THEN Rescued(Fallback)
  ELSE Ids \ introduced

\* load_or_create_config, with none: a new one is made up and written.
BootAfresh ==
  /\ pc = "off"
  /\ CanMoveAside(Paths)
  /\ Loaded = None
  /\ \E i \in FreshId :
       /\ config' = Fresh(i)
       /\ write' = Unopened(Fresh(i))
  /\ disk' = MovedAside(Paths)
  /\ pc' = "booting"
  /\ UNCHANGED <<servers, introduced, writable, declined, announcing, attaching>>

\* try_write, first half: the file is opened, which empties it.
OpenFile ==
  /\ write # None
  /\ ~write.open
  /\ write.path \in writable
  /\ write' = Opened(write)
  /\ disk' = [disk EXCEPT ![write.path] = Unreadable(None)]
  /\ UNCHANGED <<servers, introduced, writable, pc, config, declined, announcing, attaching>>

\* The preferred path cannot be written: the other one is tried.
TryFallback ==
  /\ write # None
  /\ write.path = Preferred
  /\ Preferred \notin writable
  /\ write' = OnFallback(write)
  /\ UNCHANGED <<servers, introduced, files, pc, config, declined, announcing, attaching>>

\* try_write, second half: the contents are there.
FillFile ==
  /\ write # None
  /\ write.open
  /\ disk' = [disk EXCEPT ![write.path] = write.config]
  /\ write' = None
  /\ pc' = IF pc = "booting" THEN "search" ELSE pc
  /\ UNCHANGED <<servers, introduced, writable, config, declined, announcing, attaching>>

\* Neither path can be written. A first start ends here; afterwards it is only
\* a memory lost.
GiveUpWriting ==
  /\ write # None
  /\ write.path = Fallback
  /\ Fallback \notin writable
  /\ write' = None
  /\ IF pc = "booting" THEN pc' = "off" /\ config' = None ELSE UNCHANGED <<pc, config>>
  /\ UNCHANGED <<servers, introduced, files, declined, announcing, attaching>>

\* remember_server: nothing is written when nothing changes.
Remember(a) ==
  IF config.attached = a
  THEN UNCHANGED <<config, write>>
  ELSE /\ config' = Attached(config, a)
       /\ write' = Unopened(Attached(config, a))

-----------------------------------------------------------------------------
(* Announcing *)

Found == {at[s] : s \in up}

\* discover_candidates: the pinned server, or every one found that has not
\* just said it cannot use this device.
Discover ==
  /\ pc = "search"
  /\ toAsk' = IF config.pin # None THEN {config.pin} ELSE Found \ declined
  /\ toAsk' # {}
  /\ pc' = "announce"
  /\ UNCHANGED <<servers, introduced, files, config, write, declined, tries, asking,
                 claimedBy, others, attaching>>

\* Ten minutes after a server declined it is asked again.
Expire(a) ==
  /\ a \in declined
  /\ declined' = declined \ {a}
  /\ UNCHANGED <<servers, introduced, files, pc, config, write, announcing, attaching>>

\* The next attempt may go to a: it is being tried again, or nobody is.
MayAsk(a) == pc = "announce" /\ write = None /\ a \in toAsk /\ asking \in {None, a}

Asked(a) == toAsk' = toAsk \ {a} /\ asking' = None /\ tries' = 0

Answering(a) == {s \in up : at[s] = a}

ClaimOf(s, a) == [addr |-> a, hand |-> claim[s] = "hand"]

\* The server says it has this device.
RegisterClaimed(a) ==
  /\ MayAsk(a)
  /\ \E s \in Answering(a) :
       /\ claim[s] \in {"claimed", "hand"}
       /\ claimedBy' = claimedBy \cup {ClaimOf(s, a)}
       /\ knows' = knows \cup {s}
  /\ introduced' = introduced \cup {config.id}
  /\ Asked(a)
  /\ UNCHANGED <<at, up, claim, files, pc, config, write, declined, others, attaching>>

\* Mutation of RegisterUnclaimed: its own server's answer is one like others.
RegisterUnclaimedKept(a) ==
  /\ MayAsk(a)
  /\ \E s \in Answering(a) : claim[s] = "none" /\ knows' = knows \cup {s}
  /\ introduced' = introduced \cup {config.id}
  /\ others' = others \cup {a}
  /\ Asked(a)
  /\ UNCHANGED <<at, up, claim, files, pc, config, write, declined, claimedBy, attaching>>

\* The server can see the device and does not have it. If it is the one the
\* device belongs to, it has let the device go.
RegisterUnclaimed(a) ==
  /\ MayAsk(a)
  /\ \E s \in Answering(a) : claim[s] = "none" /\ knows' = knows \cup {s}
  /\ introduced' = introduced \cup {config.id}
  /\ IF config.attached = a THEN Remember(None) ELSE UNCHANGED <<config, write>>
  /\ others' = others \cup {a}
  /\ Asked(a)
  /\ UNCHANGED <<at, up, claim, files, pc, declined, claimedBy, attaching>>

\* The server has no client API; or an error mentions its address, which has
\* a 404 in it.
RegisterDeclined(a) ==
  /\ MayAsk(a)
  /\ \/ \E s \in Answering(a) : claim[s] = "noApi"
     \/ Answering(a) = {} /\ a \in Named404
  /\ declined' = declined \cup {a}
  /\ Asked(a)
  /\ UNCHANGED <<servers, introduced, files, pc, config, write, claimedBy, others, attaching>>

\* Nobody answers. After a few attempts, the next candidate.
RegisterFails(a) ==
  /\ MayAsk(a)
  /\ Answering(a) = {}
  /\ a \notin Named404
  /\ IF tries + 1 < RegisterAttempts
     THEN asking' = a /\ tries' = tries + 1 /\ UNCHANGED toAsk
     ELSE Asked(a)
  /\ UNCHANGED <<servers, introduced, files, pc, config, write, declined, claimedBy,
                 others, attaching>>

Claimants == {c.addr : c \in claimedBy}
ByHand == {c.addr : c \in {d \in claimedBy : d.hand}}

\* Mutation of Waits: whoever claims the device gets it.
WaitsForNobody == FALSE

\* Its own server has not claimed the device and nobody did so by hand: the
\* device waits, whoever else claims it.
Waits == config.attached # None /\ config.attached \notin Claimants /\ ByHand = {}

\* Mutation of Foremost: the device's own memory does not count.
ForemostByHand == IF ByHand # {} THEN ByHand ELSE Claimants

\* The claimants that come first: its own server, then whoever a person just
\* picked. Among equals, whoever heard from the device last.
Foremost ==
  IF config.attached \in Claimants THEN {config.attached}
  ELSE IF ByHand # {} THEN ByHand
  ELSE Claimants

Announced == pc = "announce" /\ toAsk = {} /\ write = None

\* Nobody has this device: it announces itself again.
NobodyHasIt ==
  /\ Announced
  /\ Waits \/ claimedBy = {}
  /\ pc' = "search"
  /\ claimedBy' = {} /\ others' = {}
  /\ UNCHANGED <<servers, introduced, files, config, write, declined, toAsk, tries,
                 asking, attaching>>

\* Mutation of Choose: the servers that were not chosen include the chosen one.
ChooseAndTellAll ==
  /\ Announced
  /\ ~Waits
  /\ claimedBy # {}
  /\ \E a \in Foremost :
       /\ server' = a
       /\ Remember(a)
       /\ farewell' = others \cup Claimants
  /\ pc' = "farewell"
  /\ claimedBy' = {} /\ others' = {}
  /\ UNCHANGED <<servers, introduced, files, declined, toAsk, tries, asking, failures>>

\* Mutation of Choose: nothing is written down.
ChooseUnremembered ==
  /\ Announced
  /\ ~Waits
  /\ claimedBy # {}
  /\ \E a \in Foremost :
       /\ server' = a
       /\ config' = Attached(config, a)
       /\ farewell' = (others \cup Claimants) \ {a}
  /\ pc' = "farewell"
  /\ claimedBy' = {} /\ others' = {}
  /\ UNCHANGED <<servers, introduced, files, write, declined, toAsk, tries, asking, failures>>

\* One of the claimants is chosen and written down; the others will be told.
Choose ==
  /\ Announced
  /\ ~Waits
  /\ claimedBy # {}
  /\ \E a \in Foremost :
       /\ server' = a
       /\ Remember(a)
       /\ farewell' = (others \cup Claimants) \ {a}
  /\ pc' = "farewell"
  /\ claimedBy' = {} /\ others' = {}
  /\ UNCHANGED <<servers, introduced, files, declined, toAsk, tries, asking, failures>>

\* A server lets go of the device.
LetsGo(s) ==
  /\ claim' = [claim EXCEPT ![s] = "none"]
  /\ knows' = IF ReleaseForgets THEN knows \ {s} ELSE knows

\* say_goodbye: one attempt. The server that gets it lets go.
SayGoodbye(a) ==
  /\ pc = "farewell"
  /\ write = None
  /\ a \in farewell
  /\ farewell' = farewell \ {a}
  /\ IF \E s \in Answering(a) : claim[s] # "noApi"
     THEN \E s \in Answering(a) : LetsGo(s)
     ELSE UNCHANGED <<claim, knows>>
  /\ UNCHANGED <<at, up, introduced, files, pc, config, write, declined, announcing,
                 server, failures>>

\* The device attaches: supervisor and status loop are started.
Attach ==
  /\ pc = "farewell"
  /\ write = None
  /\ farewell = {}
  /\ pc' = "serving"
  /\ failures' = 0
  /\ UNCHANGED <<servers, introduced, files, config, write, declined, announcing,
                 server, farewell>>

-----------------------------------------------------------------------------
(* The status loop *)

Speaking(a) == {s \in Answering(a) : claim[s] # "noApi"}

\* The server answers with a desired state, the device's or an empty one.
PollAnswered ==
  /\ pc = "serving"
  /\ \E s \in Speaking(server) : s \in knows
  /\ failures' = 0
  /\ UNCHANGED <<servers, introduced, files, pc, config, write, declined, announcing,
                 server, farewell>>

\* The server does not know this device: it is left, to register again.
PollUnknown ==
  /\ pc = "serving"
  /\ \E s \in Speaking(server) : s \notin knows
  /\ pc' = "leaving"
  /\ UNCHANGED <<servers, introduced, files, config, write, declined, announcing, attaching>>

\* The server does not answer. It is left after a few times, unless pinned.
PollFails ==
  /\ pc = "serving"
  /\ Speaking(server) = {}
  /\ failures' = IF failures < MaxStatusFailures THEN failures + 1 ELSE failures
  /\ pc' = IF failures' = MaxStatusFailures /\ config.pin = None THEN "leaving" ELSE pc
  /\ UNCHANGED <<servers, introduced, files, config, write, declined, announcing,
                 server, farewell>>

\* The supervisor has returned: discovery starts over.
Detach ==
  /\ pc = "leaving"
  /\ pc' = "search"
  /\ server' = None
  /\ failures' = 0
  /\ UNCHANGED <<servers, introduced, files, config, write, declined, announcing, farewell>>

Device ==
  \/ Boot \/ BootAfresh
  \/ OpenFile \/ TryFallback \/ FillFile \/ GiveUpWriting
  \/ Discover
  \/ \E a \in Addresses :
       RegisterClaimed(a) \/ RegisterUnclaimed(a) \/ RegisterDeclined(a) \/ RegisterFails(a)
  \/ NobodyHasIt \/ Choose
  \/ \E a \in Addresses : SayGoodbye(a)
  \/ Attach
  \/ PollAnswered \/ PollUnknown \/ PollFails
  \/ Detach

-----------------------------------------------------------------------------
(* Everything around it *)

device == <<introduced, files, pc, config, write, declined, announcing, attaching>>

\* A person claims the device on a server, or the server adopts it, or its
\* claim is no longer one a person made just now.
Claims(s) ==
  /\ claim[s] # "noApi"
  /\ \E c \in {"claimed", "hand"} : claim' = [claim EXCEPT ![s] = c]
  /\ UNCHANGED <<at, up, knows, device>>

\* A person releases the device on a server.
Releases(s) ==
  /\ claim[s] # "noApi"
  /\ LetsGo(s)
  /\ UNCHANGED <<at, up, device>>

\* A server is replaced by a build without the client API, or by one with it.
Rebuilt(s) ==
  /\ claim' = [claim EXCEPT ![s] = IF claim[s] = "noApi" THEN "none" ELSE "noApi"]
  /\ knows' = knows \ {s}
  /\ UNCHANGED <<at, up, device>>

\* A server stops answering; if it was restarted, it has forgotten the
\* hardware of its devices, but not which ones it has.
Fails(s) ==
  /\ s \in up
  /\ up' = up \ {s}
  /\ knows' \in {knows, knows \ {s}}
  /\ UNCHANGED <<at, claim, device>>

Returns(s) ==
  /\ s \notin up
  /\ up' = up \cup {s}
  /\ UNCHANGED <<at, claim, knows, device>>

\* A server that is down gets another address.
MovesTo(s, a) ==
  /\ Moves
  /\ s \notin up
  /\ \A r \in Servers : at[r] # a
  /\ at' = [at EXCEPT ![s] = a]
  /\ knows' = knows \ {s}
  /\ UNCHANGED <<up, claim, device>>

\* Power is lost.
Crash ==
  /\ pc \in CrashesAt
  /\ (write # None /\ ~TornWrites) => ~write.open
  /\ pc' = "off"
  /\ config' = None
  /\ write' = None
  /\ declined' = {}
  /\ toAsk' = {} /\ tries' = 0 /\ asking' = None /\ claimedBy' = {} /\ others' = {}
  /\ server' = None /\ farewell' = {} /\ failures' = 0
  /\ UNCHANGED <<servers, introduced, files>>

\* An operator edits the file: pins a server, or makes a mistake.
Edit(p) ==
  /\ pc = "off"
  /\ disk[p] \in Config
  /\ \/ \E a \in Pins : disk' = [disk EXCEPT ![p] = Pinned(disk[p], a)]
     \/ Typos /\ disk' = [disk EXCEPT ![p] = Unreadable(disk[p].id)]
  /\ UNCHANGED <<servers, introduced, writable, pc, config, write, declined, announcing, attaching>>

\* The device is set up to run with other rights.
Remount ==
  /\ pc = "off"
  /\ writable' \in WritableSets
  /\ LosesRights \/ writable \subseteq writable'
  /\ UNCHANGED <<servers, introduced, disk, pc, config, write, declined, announcing, attaching>>

Environment ==
  \/ \E s \in Servers : Claims(s) \/ Releases(s) \/ Rebuilt(s) \/ Fails(s) \/ Returns(s)
  \/ \E s \in Servers, a \in Addresses : MovesTo(s, a)
  \/ \E p \in Paths : Edit(p)
  \/ Crash
  \/ Remount

Next == Device \/ (\E a \in Addresses : Expire(a)) \/ Environment

Spec == Init /\ [][Next]_vars

\* The program keeps running (systemd starts it again), its requests are
\* answered or time out, and time passes.
Fairness == WF_vars(Device) /\ \A a \in Addresses : WF_vars(Expire(a))

FairSpec == Spec /\ Fairness
-----------------------------------------------------------------------------
(* Properties *)

TypeOK ==
  /\ at \in [Servers -> Addresses]
  /\ up \subseteq Servers
  /\ claim \in [Servers -> {"noApi", "none", "claimed", "hand"}]
  /\ knows \subseteq Servers
  /\ introduced \subseteq Ids
  /\ disk \in [Paths -> Config \cup Broken \cup {None}]
  /\ writable \in WritableSets
  /\ pc \in {"off", "booting", "search", "announce", "farewell", "serving", "leaving"}
  /\ config \in Config \cup {None}
  /\ (config = None) <=> (pc = "off")
  /\ write \in Writing \cup {None}
  /\ declined \subseteq Addresses
  /\ toAsk \subseteq Addresses
  /\ tries \in 0..(RegisterAttempts - 1)
  /\ asking \in Addresses \cup {None}
  /\ claimedBy \subseteq Claim
  /\ others \subseteq Addresses
  /\ server \in Addresses \cup {None}
  /\ farewell \subseteq Addresses
  /\ failures \in 0..MaxStatusFailures

\* However often the device is started, interrupted and misconfigured, the
\* servers get to know it under one id (config.rs: "changing it makes the
\* server treat this as a new device").
OneIdentity == Cardinality(introduced) <= 1

\* The server remembered changes in two ways only: it let the device go in its
\* own answer, or somebody claimed the device by hand and it did not claim it
\* itself (main.rs: "only left behind on purpose").
LeavesOnlyOnPurpose ==
  [][\A a \in Addresses :
       (config # None /\ config' # None /\ config.attached = a /\ config'.attached # a) =>
         \/ /\ config'.attached = None
            /\ \E s \in Answering(a) : claim[s] = "none"
         \/ a \notin Claimants /\ config'.attached \in ByHand]_vars

\* When a server is told that the device went elsewhere, the device does belong
\* elsewhere, and still would after losing power at that moment.
GoodbyesToOthers ==
  [][\A s \in Servers :
       (farewell' # farewell /\ claim'[s] # claim[s]) =>
         /\ at[s] # config.attached
         /\ Loaded # None /\ Loaded.attached = config.attached]_vars

\* Whatever the device plays for, a restart would bring it back to.
RemembersItsServer ==
  pc \in {"serving", "leaving"} => Loaded # None /\ Loaded.attached = server

\* The server, answering or not, stays where it is and does not let the device
\* go, and nobody claims it by hand elsewhere.
Keeps(s) ==
  /\ at[s] = FirstAt[s]
  /\ claim[s] \in {"claimed", "hand"}
  /\ \A r \in Servers \ {s} : claim[r] # "hand"

\* The server a device plays for keeps it, through outages and restarts of
\* either, for as long as it does not let go and nobody claims the device by
\* hand elsewhere: no other server, however eager, ever gets it.
StaysHome ==
  \A s \in Servers :
    []((pc = "serving" /\ server = at[s] /\ []Keeps(s))
         => [](pc = "serving" => server = FirstAt[s]))

\* One server has the device, the others say that they do not, all answer.
Sole(s) ==
  /\ up = Servers
  /\ claim[s] \in {"claimed", "hand"}
  /\ \A r \in Servers \ {s} : claim[r] = "none"
  /\ pc # "off" => config.pin \in {None, at[s]}

\* If one server has the device for good, none moves any more, and the device is
\* left running, it ends up playing for that server.
EventuallyServed ==
  \A s \in Servers :
    (<>[]Sole(s) /\ <>[][FALSE]_at /\ <>[](pc # "off"))
      => <>[](pc = "serving" /\ server = at[s])

-----------------------------------------------------------------------------
(* Refinement *)

\* The server a restart would find in the file; a file being written counts as
\* written.
HomeOnDisk ==
  IF write # None /\ write.open THEN write.config.attached
  ELSE IF Loaded # None THEN Loaded.attached
  ELSE None

H == INSTANCE Home WITH Nobody <- None,
                        home <- HomeOnDisk,
                        serving <- IF pc = "serving" THEN server ELSE None

\* The device plays for the server it remembers, and its memory is only
\* changed while it plays for none.
ImplementsHome == H!Spec
====
