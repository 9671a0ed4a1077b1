-------------------------- MODULE Attachment_proofs -------------------------
(***************************************************************************)
(* Theorems about Attachment, for any servers, addresses and limits.       *)
(*                                                                         *)
(* That a restart comes back to the server a device plays for rests on     *)
(* what is known of the two files: a path that cannot be written holds     *)
(* nothing that could be read in place of what was written last.  It is    *)
(* only true of a device that keeps its rights, and the theorems say so;   *)
(* that power may be lost in the middle of a write does not matter here.   *)
(* That it stays with that server, for as long as the server keeps it,     *)
(* follows from what memory, files and answers heard say of it by then.    *)
(***************************************************************************)
EXTENDS Attachment, FiniteSetTheorems, TLAPS

-----------------------------------------------------------------------------
(* Data *)

\* A configuration keeps its form when a server is remembered or pinned in it.
LEMMA ConfigData ==
  ASSUME NEW c \in Config, NEW a \in Addresses \cup {None}
  PROVE  /\ Attached(c, a) \in Config /\ Attached(c, a).attached = a /\ Attached(c, a).id = c.id
         /\ Pinned(c, a) \in Config /\ Pinned(c, a).id = c.id
         /\ c.id \in Ids
         /\ c.attached \in Addresses \cup {None}
         /\ c.pin \in Addresses \cup {None}
BY DEF Config, Attached, Pinned

\* A new configuration remembers no server.
LEMMA FreshData ==
  ASSUME NEW i \in Ids
  PROVE  Fresh(i) \in Config /\ Fresh(i).attached = None /\ Fresh(i).id = i
BY DEF Fresh, Config

\* A broken file, and what can be rescued from one.
LEMMA BrokenData ==
  /\ \A i \in Ids \cup {None} : Unreadable(i) \in Broken /\ Unreadable(i).rescued = i
  /\ \A f \in Broken : f.rescued \in Ids \cup {None}
BY DEF Unreadable, Broken

\* A broken file is not a configuration.
LEMMA BrokenIsBroken == \A i : Unreadable(i) \notin Config
BY DEF Unreadable, Config

\* A write starts on the preferred path, with its file closed.
LEMMA UnopenedData ==
  ASSUME NEW c \in Config
  PROVE  /\ Unopened(c) \in Writing
         /\ Unopened(c).config = c
         /\ Unopened(c).path = Preferred
         /\ Unopened(c).open = FALSE
BY DEF Unopened, Writing, Paths

\* Opening the file, or turning to the other path, changes nothing else.
LEMMA WritingData ==
  ASSUME NEW w \in Writing
  PROVE  /\ w.config \in Config /\ w.path \in Paths
         /\ Opened(w) \in Writing
         /\ Opened(w).config = w.config /\ Opened(w).path = w.path /\ Opened(w).open = TRUE
         /\ OnFallback(w) \in Writing
         /\ OnFallback(w).config = w.config /\ OnFallback(w).path = Fallback
         /\ OnFallback(w).open = w.open
BY DEF Opened, OnFallback, Writing, Paths

\* "Absent" is none of the values it stands for the absence of.
LEMMA NoneIsNothing ==
  /\ None \notin Addresses /\ None \notin Ids
  /\ None \notin Config /\ None \notin Broken /\ None \notin Writing
BY AbsentAssumption

\* The claimants are addresses, and so is whoever is chosen among them.
LEMMA ClaimantsData ==
  ASSUME claimedBy \subseteq Claim
  PROVE  /\ Claimants \subseteq Addresses
         /\ ByHand \subseteq Claimants
         /\ Foremost \subseteq Claimants
<1>1. Claimants \subseteq Addresses
  BY DEF Claimants, Claim
<1>2. ByHand \subseteq Claimants
  BY DEF ByHand, Claimants
<1> QED
  BY <1>1, <1>2 DEF Foremost

\* An answer is remembered as a claim.
LEMMA ClaimData ==
  ASSUME NEW s \in Servers, NEW a \in Addresses
  PROVE  ClaimOf(s, a) \in Claim
BY DEF ClaimOf, Claim

\* What a start finds is a configuration.
LEMMA LoadedData == Loaded # None => Loaded \in Config
BY DEF Loaded

-----------------------------------------------------------------------------
(* Type correctness *)

\* A device starts with nothing.
LEMMA InitTypeOK == Init => TypeOK
<1> SUFFICES ASSUME Init PROVE TypeOK
  OBVIOUS
<1>1. disk \in [Paths -> Config \cup Broken \cup {None}]
  BY DEF Init
<1>2. claim \in [Servers -> {"noApi", "none", "claimed", "hand"}]
  BY DEF Init
<1>3. tries \in 0..(RegisterAttempts - 1) /\ failures \in 0..MaxStatusFailures
  BY BoundsAssumption DEF Init
<1> QED
  BY <1>1, <1>2, <1>3, AddressesAssumption DEF Init, TypeOK

\* Starting: what was found or made up is a configuration.
LEMMA BootTypeOK == TypeOK /\ (Boot \/ BootAfresh) => TypeOK'
<1>1. ASSUME TypeOK, NEW R \in SUBSET Paths
      PROVE  MovedAside(R) \in [Paths -> Config \cup Broken \cup {None}]
  BY <1>1 DEF MovedAside, TypeOK
<1>2. ASSUME TypeOK, Boot PROVE TypeOK'
  <2>1. config' \in Config /\ config' # None
    BY <1>2, LoadedData DEF Boot
  <2>2. disk' \in [Paths -> Config \cup Broken \cup {None}]
    BY <1>2, <1>1 DEF Boot, Paths
  <2> QED
    BY <1>2, <2>1, <2>2 DEF Boot, TypeOK, servers, announcing, attaching
<1>3. ASSUME TypeOK, BootAfresh PROVE TypeOK'
  <2>1. FreshId \subseteq Ids
    <3>1. \A p \in Paths : Rescued(p) \subseteq Ids
      BY <1>3, BrokenData DEF Rescued, TypeOK
    <3> QED
      BY <3>1 DEF FreshId, Paths
  <2>2. config' \in Config /\ config' # None /\ write' \in Writing
    BY <1>3, <2>1, FreshData, UnopenedData, NoneIsNothing DEF BootAfresh
  <2>3. disk' \in [Paths -> Config \cup Broken \cup {None}]
    BY <1>3, <1>1 DEF BootAfresh
  <2> QED
    BY <1>3, <2>2, <2>3 DEF BootAfresh, TypeOK, servers, announcing, attaching
<1> QED
  BY <1>2, <1>3

\* Writing: what reaches the disk is a configuration or a broken file.
LEMMA WriteTypeOK == TypeOK /\ (OpenFile \/ TryFallback \/ FillFile \/ GiveUpWriting) => TypeOK'
<1>1. ASSUME TypeOK, OpenFile PROVE TypeOK'
  <2>1. write' \in Writing
    BY <1>1, WritingData DEF OpenFile, TypeOK
  <2>2. disk' \in [Paths -> Config \cup Broken \cup {None}]
    BY <1>1, BrokenData DEF OpenFile, TypeOK
  <2> QED
    BY <1>1, <2>1, <2>2 DEF OpenFile, TypeOK, servers, announcing, attaching
<1>2. ASSUME TypeOK, TryFallback PROVE TypeOK'
  <2>1. write' \in Writing
    BY <1>2, WritingData DEF TryFallback, TypeOK
  <2> QED
    BY <1>2, <2>1 DEF TryFallback, TypeOK, servers, files, announcing, attaching
<1>3. ASSUME TypeOK, FillFile PROVE TypeOK'
  <2>1. write.config \in Config
    BY <1>3, WritingData DEF FillFile, TypeOK
  <2>2. disk' \in [Paths -> Config \cup Broken \cup {None}]
    BY <1>3, <2>1 DEF FillFile, TypeOK
  <2> QED
    BY <1>3, <2>2 DEF FillFile, TypeOK, servers, announcing, attaching
<1>4. ASSUME TypeOK, GiveUpWriting PROVE TypeOK'
  BY <1>4 DEF GiveUpWriting, TypeOK, servers, files, announcing, attaching
<1> QED
  BY <1>1, <1>2, <1>3, <1>4

\* remember_server leaves a configuration in memory, and perhaps one to write.
LEMMA RememberData ==
  ASSUME TypeOK, pc # "off", NEW a \in Addresses \cup {None}, Remember(a)
  PROVE  /\ config' \in Config /\ config' # None
         /\ config'.attached = a /\ config'.id = config.id
         /\ write' \in Writing \cup {None}
         /\ write = None /\ write' # None => ~write'.open
<1>1. config \in Config /\ config # None
  BY DEF TypeOK
<1>2. CASE config.attached = a
  BY <1>1, <1>2 DEF Remember, TypeOK
<1>3. CASE config.attached # a
  <2>1. /\ Attached(config, a) \in Config /\ Attached(config, a).attached = a
        /\ Attached(config, a).id = config.id
    BY <1>1, ConfigData
  <2>2. Unopened(Attached(config, a)) \in Writing /\ Unopened(Attached(config, a)).open = FALSE
    BY <2>1, UnopenedData
  <2> QED
    BY <1>3, <2>1, <2>2, NoneIsNothing DEF Remember
<1> QED
  BY <1>2, <1>3

\* Announcing: candidates, answers and the server chosen are addresses.
LEMMA AnnounceTypeOK ==
  ASSUME TypeOK, pc # "off"
  PROVE  /\ Discover => TypeOK'
         /\ \A a \in Addresses : RegisterClaimed(a) \/ RegisterDeclined(a) \/ RegisterFails(a) => TypeOK'
         /\ \A a \in Addresses : RegisterUnclaimed(a) => TypeOK'
         /\ NobodyHasIt \/ Choose => TypeOK'
<1>1. config \in Config
  BY DEF TypeOK
<1>2. ASSUME Discover PROVE TypeOK'
  <2>1. toAsk' \subseteq Addresses
    <3>1. Found \subseteq Addresses
      BY DEF TypeOK, Found
    <3>2. config.pin \in Addresses \cup {None}
      BY <1>1, ConfigData
    <3> QED
      BY <1>2, <3>1, <3>2 DEF Discover
  <2> QED
    BY <1>2, <2>1 DEF Discover, TypeOK, servers, files, attaching
<1>3. ASSUME NEW a \in Addresses, Asked(a)
      PROVE  /\ toAsk' \subseteq Addresses
             /\ asking' \in Addresses \cup {None}
             /\ tries' \in 0..(RegisterAttempts - 1)
  BY <1>3, BoundsAssumption DEF Asked, TypeOK
<1>4. config.id \in Ids
  BY <1>1, ConfigData
<1>5. ASSUME NEW a \in Addresses, RegisterClaimed(a) PROVE TypeOK'
  <2>1. PICK s \in Answering(a) : claimedBy' = claimedBy \cup {ClaimOf(s, a)} /\ knows' = knows \cup {s}
    BY <1>5 DEF RegisterClaimed
  <2>2. s \in Servers
    BY <2>1 DEF Answering, TypeOK
  <2>3. claimedBy' \subseteq Claim
    BY <2>1, <2>2, ClaimData DEF TypeOK
  <2> QED
    BY <1>3, <1>4, <1>5, <2>1, <2>2, <2>3 DEF RegisterClaimed, MayAsk, TypeOK, files, attaching
<1>6. ASSUME NEW a \in Addresses, RegisterDeclined(a) PROVE TypeOK'
  BY <1>3, <1>6 DEF RegisterDeclined, MayAsk, TypeOK, servers, files, attaching
<1>7. ASSUME NEW a \in Addresses, RegisterFails(a) PROVE TypeOK'
  <2>1. CASE tries + 1 < RegisterAttempts
    <3>1. tries' \in 0..(RegisterAttempts - 1)
      BY <1>7, <2>1, BoundsAssumption DEF RegisterFails, TypeOK
    <3> QED
      BY <1>7, <2>1, <3>1 DEF RegisterFails, MayAsk, TypeOK, servers, files, attaching
  <2>2. CASE ~(tries + 1 < RegisterAttempts)
    BY <1>3, <1>7, <2>2 DEF RegisterFails, MayAsk, TypeOK, servers, files, attaching
  <2> QED
    BY <2>1, <2>2
<1>8. ASSUME NEW a \in Addresses, RegisterUnclaimed(a) PROVE TypeOK'
  <2>1. config' \in Config /\ config' # None /\ write' \in Writing \cup {None}
    BY <1>1, <1>8, RememberData, NoneIsNothing DEF RegisterUnclaimed, TypeOK
  <2>2. knows' \subseteq Servers
    BY <1>8 DEF RegisterUnclaimed, Answering, TypeOK
  <2> QED
    BY <1>3, <1>4, <1>8, <2>1, <2>2 DEF RegisterUnclaimed, MayAsk, TypeOK, files, attaching
<1>9. ASSUME NobodyHasIt PROVE TypeOK'
  BY <1>9 DEF NobodyHasIt, Announced, TypeOK, servers, files, attaching
<1>10. ASSUME Choose PROVE TypeOK'
  <2>1. PICK a \in Foremost : server' = a /\ Remember(a) /\ farewell' = (others \cup Claimants) \ {a}
    BY <1>10 DEF Choose
  <2>2. Claimants \subseteq Addresses /\ a \in Addresses
    BY ClaimantsData DEF TypeOK
  <2>3. config' \in Config /\ config' # None /\ write' \in Writing \cup {None}
    BY <2>1, <2>2, RememberData
  <2> QED
    BY <1>10, <2>1, <2>2, <2>3 DEF Choose, Announced, TypeOK, servers, files
<1> QED
  BY <1>2, <1>5, <1>6, <1>7, <1>8, <1>9, <1>10

\* Saying goodbye, attaching, polling and detaching.
LEMMA AttachTypeOK ==
  ASSUME TypeOK
  PROVE  /\ \A a \in Addresses : SayGoodbye(a) => TypeOK'
         /\ Attach \/ PollAnswered \/ PollUnknown \/ PollFails \/ Detach => TypeOK'
<1>1. ASSUME NEW a \in Addresses, SayGoodbye(a) PROVE TypeOK'
  <2>1. claim' \in [Servers -> {"noApi", "none", "claimed", "hand"}] /\ knows' \subseteq Servers
    BY <1>1 DEF SayGoodbye, LetsGo, TypeOK
  <2> QED
    BY <1>1, <2>1 DEF SayGoodbye, TypeOK, files, announcing
<1>2. ASSUME Attach \/ PollAnswered \/ PollUnknown \/ Detach PROVE TypeOK'
  BY <1>2, BoundsAssumption
     DEF Attach, PollAnswered, PollUnknown, Detach, TypeOK, servers, files, announcing, attaching
<1>3. ASSUME PollFails PROVE TypeOK'
  <2>1. failures' \in 0..MaxStatusFailures
    BY <1>3, BoundsAssumption DEF PollFails, TypeOK
  <2> QED
    BY <1>3, <2>1 DEF PollFails, TypeOK, servers, files, announcing
<1> QED
  BY <1>1, <1>2, <1>3

\* The servers, time, power and operators.
LEMMA AroundTypeOK ==
  ASSUME TypeOK
  PROVE  /\ \A s \in Servers : Claims(s) \/ Releases(s) \/ Rebuilt(s) \/ Fails(s) \/ Returns(s) => TypeOK'
         /\ \A s \in Servers, a \in Addresses : MovesTo(s, a) => TypeOK'
         /\ \A a \in Addresses : Expire(a) => TypeOK'
         /\ \A p \in Paths : Edit(p) => TypeOK'
         /\ Crash \/ Remount => TypeOK'
<1>1. ASSUME NEW s \in Servers, Claims(s) \/ Releases(s) \/ Rebuilt(s) \/ Fails(s) \/ Returns(s)
      PROVE  TypeOK'
  <2>1. /\ up' \subseteq Servers /\ knows' \subseteq Servers
        /\ claim' \in [Servers -> {"noApi", "none", "claimed", "hand"}]
    BY <1>1 DEF Claims, Releases, LetsGo, Rebuilt, Fails, Returns, TypeOK, device
  <2>2. UNCHANGED <<at, device>>
    BY <1>1 DEF Claims, Releases, LetsGo, Rebuilt, Fails, Returns
  <2> QED
    BY <2>1, <2>2 DEF TypeOK, device, files, announcing, attaching
<1>2. ASSUME NEW s \in Servers, NEW a \in Addresses, MovesTo(s, a) PROVE TypeOK'
  BY <1>2 DEF MovesTo, TypeOK, device, files, announcing, attaching
<1>3. ASSUME NEW a \in Addresses, Expire(a) PROVE TypeOK'
  BY <1>3 DEF Expire, TypeOK, servers, files, announcing, attaching
<1>4. ASSUME NEW p \in Paths, Edit(p) PROVE TypeOK'
  <2>1. \A a \in Pins : Pinned(disk[p], a) \in Config
    BY <1>4, ConfigData, AddressesAssumption DEF Edit
  <2>2. Unreadable(disk[p].id) \in Broken
    BY <1>4, ConfigData, BrokenData DEF Edit
  <2>3. disk' \in [Paths -> Config \cup Broken \cup {None}]
    BY <1>4, <2>1, <2>2 DEF Edit, TypeOK
  <2> QED
    BY <1>4, <2>3 DEF Edit, TypeOK, servers, announcing, attaching
<1>5. ASSUME Crash PROVE TypeOK'
  BY <1>5, BoundsAssumption DEF Crash, TypeOK, servers, files
<1>6. ASSUME Remount PROVE TypeOK'
  BY <1>6 DEF Remount, TypeOK, servers, announcing, attaching
<1> QED
  BY <1>1, <1>2, <1>3, <1>4, <1>5, <1>6

\* No step of the device or of anything around it breaks the type invariant.
LEMMA NextTypeOK == TypeOK /\ [Next]_vars => TypeOK'
<1> SUFFICES ASSUME TypeOK, [Next]_vars PROVE TypeOK'
  OBVIOUS
<1>1. CASE Device
  <2>1. CASE Boot \/ BootAfresh \/ OpenFile \/ TryFallback \/ FillFile \/ GiveUpWriting
    BY <2>1, BootTypeOK, WriteTypeOK
  <2>2. CASE Discover \/ NobodyHasIt \/ Choose
    <3>1. pc # "off"
      BY <2>2 DEF Discover, NobodyHasIt, Choose, Announced
    <3> QED
      BY <2>2, <3>1, AnnounceTypeOK
  <2>3. ASSUME NEW a \in Addresses,
               RegisterClaimed(a) \/ RegisterUnclaimed(a) \/ RegisterDeclined(a) \/ RegisterFails(a)
        PROVE  TypeOK'
    <3>1. pc # "off"
      BY <2>3 DEF RegisterClaimed, RegisterUnclaimed, RegisterDeclined, RegisterFails, MayAsk
    <3> QED
      BY <2>3, <3>1, AnnounceTypeOK
  <2>4. CASE Attach \/ PollAnswered \/ PollUnknown \/ PollFails \/ Detach
    BY <2>4, AttachTypeOK
  <2>5. CASE \E a \in Addresses : SayGoodbye(a)
    BY <2>5, AttachTypeOK
  <2> QED
    BY <1>1, <2>1, <2>2, <2>3, <2>4, <2>5 DEF Device
<1>2. CASE \E a \in Addresses : Expire(a)
  BY <1>2, AroundTypeOK
<1>3. CASE Environment
  BY <1>3, AroundTypeOK DEF Environment
<1>4. CASE UNCHANGED vars
  BY <1>4 DEF vars, servers, announcing, attaching, files, TypeOK
<1> QED
  BY <1>1, <1>2, <1>3, <1>4 DEF Next

\* Type correctness: among others, a device has a configuration in memory
\* exactly when it runs, and never tries a server more often than it may.
THEOREM TypeCorrect == Spec => []TypeOK
<1>1. Init => TypeOK
  BY InitTypeOK
<1>2. TypeOK /\ [Next]_vars => TypeOK'
  BY NextTypeOK
<1> QED
  BY <1>1, <1>2, PTL DEF Spec

-----------------------------------------------------------------------------
(* What is known of the two files *)

\* A path that cannot be written holds nothing.
NothingWhereNotWritable == \A p \in Paths : p \notin writable => disk[p] = None

\* What is being written is what is in memory; it goes to the other path only
\* if the preferred one cannot be written, and a file is open only where it can.
WritesMemory ==
  write # None =>
    /\ write.config = config
    /\ write.path = Fallback => Preferred \notin writable
    /\ write.open => write.path \in writable

\* Between two writes, a restart would find what is in memory; and a device
\* that has come to its first search has a place to write to.
MemoryOnDisk ==
  /\ pc # "off" /\ write = None => Loaded = config
  /\ pc \notin {"off", "booting"} => writable # {}

\* Where in the loop a write may be under way, and where a server is chosen.
Places ==
  /\ pc \in {"off", "search", "serving", "leaving"} => write = None
  /\ pc = "booting" => write # None
  /\ pc \in {"farewell", "serving", "leaving"} => server # None /\ config.attached = server

FilesOK == NothingWhereNotWritable /\ WritesMemory /\ MemoryOnDisk /\ Places

\* The inductive invariant.
IInv == TypeOK /\ FilesOK

\* A device starts with two empty paths and no memory.
LEMMA InitIInv == Init => IInv
<1>1. Init => FilesOK
  BY DEF Init, FilesOK, NothingWhereNotWritable, WritesMemory, MemoryOnDisk, Places
<1> QED
  BY <1>1, InitTypeOK DEF IInv, FilesOK

\* A step that leaves the device's memory, the files and the writing alone, and
\* neither starts nor stops the device, keeps what is known of them.
LEMMA QuietStep ==
  ASSUME IInv, UNCHANGED <<disk, writable, config, write>>,
         pc' = pc \/ (pc \notin {"off", "booting"} /\ pc' \notin {"off", "booting"}),
         Places'
  PROVE  FilesOK'
<1>1. NothingWhereNotWritable' /\ WritesMemory'
  BY DEF IInv, FilesOK, NothingWhereNotWritable, WritesMemory
<1>2. MemoryOnDisk'
  BY DEF IInv, FilesOK, MemoryOnDisk, Loaded
<1> QED
  BY <1>1, <1>2 DEF FilesOK

\* A start reads what the last write left.
LEMMA BootFilesOK == IInv /\ (Boot \/ BootAfresh) => FilesOK'
<1>1. ASSUME IInv, Boot PROVE FilesOK'
  <2>1. write' = None /\ config' = Loaded /\ pc' = "search" /\ writable' = writable
    BY <1>1 DEF Boot, IInv, FilesOK, Places
  <2>2. \A p \in Paths : disk'[p] = IF p = Preferred /\ disk[p] \notin Config THEN None ELSE disk[p]
    BY <1>1 DEF Boot, MovedAside
  <2>3. Loaded' = Loaded
    BY <2>2, NoneIsNothing DEF Loaded, Paths, Preferred, Fallback
  <2>4. writable # {}
    <3>1. disk[Preferred] # None \/ disk[Fallback] # None
      BY <1>1, NoneIsNothing DEF Boot, Loaded
    <3> QED
      BY <1>1, <3>1 DEF IInv, FilesOK, NothingWhereNotWritable, Paths
  <2>5. NothingWhereNotWritable'
    BY <1>1, <2>1, <2>2 DEF IInv, FilesOK, NothingWhereNotWritable
  <2> QED
    BY <2>1, <2>3, <2>4, <2>5 DEF FilesOK, WritesMemory, MemoryOnDisk, Places
<1>2. ASSUME IInv, BootAfresh PROVE FilesOK'
  <2>1. PICK i \in FreshId : config' = Fresh(i) /\ write' = Unopened(Fresh(i))
    BY <1>2 DEF BootAfresh
  <2>2. i \in Ids
    <3>1. \A p \in Paths : Rescued(p) \subseteq Ids
      BY <1>2, BrokenData DEF Rescued, IInv, TypeOK
    <3> QED
      BY <3>1 DEF FreshId, Paths
  <2>3. write' # None /\ write'.config = config' /\ write'.path = Preferred /\ write'.open = FALSE
    BY <2>1, <2>2, FreshData, UnopenedData, NoneIsNothing
  <2>4. NothingWhereNotWritable'
    BY <1>2 DEF BootAfresh, MovedAside, IInv, FilesOK, NothingWhereNotWritable
  <2>5. pc' = "booting"
    BY <1>2 DEF BootAfresh
  <2> QED
    BY <2>3, <2>4, <2>5 DEF FilesOK, WritesMemory, MemoryOnDisk, Places, Preferred, Fallback
<1> QED
  BY <1>1, <1>2

\* A write ends with its file in the place that is read first, or where nothing
\* is found in that place.
LEMMA WriteFilesOK == IInv /\ (OpenFile \/ TryFallback \/ FillFile \/ GiveUpWriting) => FilesOK'
<1> SUFFICES ASSUME IInv, OpenFile \/ TryFallback \/ FillFile \/ GiveUpWriting PROVE FilesOK'
  OBVIOUS
<1>1. write \in Writing /\ write # None /\ write.config = config /\ write.path \in Paths
  <2>1. write \in Writing /\ write # None
    BY DEF OpenFile, TryFallback, FillFile, GiveUpWriting, IInv, TypeOK
  <2> QED
    BY <2>1, WritingData DEF IInv, FilesOK, WritesMemory
<1>2. config \in Config /\ pc # "off" /\ pc \notin {"search", "serving", "leaving"}
  BY <1>1 DEF IInv, FilesOK, TypeOK, Places
<1>3. CASE OpenFile
  <2>1. /\ write' \in Writing /\ write'.config = write.config
        /\ write'.path = write.path /\ write'.open = TRUE
    BY <1>1, <1>3, WritingData DEF OpenFile
  <2>2. write' # None /\ UNCHANGED <<writable, config, pc, server>> /\ write.path \in writable
    BY <1>3, <2>1, NoneIsNothing DEF OpenFile, attaching
  <2>3. NothingWhereNotWritable'
    BY <1>1, <1>3, <2>2 DEF OpenFile, IInv, FilesOK, TypeOK, NothingWhereNotWritable
  <2> QED
    BY <1>1, <1>2, <2>1, <2>2, <2>3 DEF IInv, FilesOK, WritesMemory, MemoryOnDisk, Places
<1>4. CASE TryFallback
  <2>1. /\ write' \in Writing /\ write'.config = write.config
        /\ write'.path = Fallback /\ write'.open = write.open
    BY <1>1, <1>4, WritingData DEF TryFallback
  <2>2. /\ write' # None /\ UNCHANGED <<disk, writable, config, pc, server>>
        /\ Preferred \notin writable /\ write.path = Preferred
    BY <1>4, <2>1, NoneIsNothing DEF TryFallback, files, attaching
  <2>3. ~write.open
    BY <1>1, <2>2 DEF IInv, FilesOK, WritesMemory
  <2> QED
    BY <1>1, <1>2, <2>1, <2>2, <2>3
    DEF IInv, FilesOK, NothingWhereNotWritable, WritesMemory, MemoryOnDisk, Places
<1>5. CASE FillFile
  <2>1. /\ write' = None /\ UNCHANGED <<writable, config, server>>
        /\ pc' # "off" /\ pc' # "booting" /\ (pc # "booting" => pc' = pc)
        /\ pc = "booting" => pc' = "search"
    BY <1>2, <1>5 DEF FillFile, attaching
  <2>2. write.path \in writable
    BY <1>1, <1>5 DEF FillFile, IInv, FilesOK, WritesMemory
  <2>3. \A p \in Paths : disk'[p] = IF p = write.path THEN config ELSE disk[p]
    BY <1>1, <1>5 DEF FillFile, IInv, TypeOK
  <2>4. Loaded' = config
    <3>1. CASE write.path = Preferred
      BY <1>2, <2>3, <3>1 DEF Loaded, Paths
    <3>2. CASE write.path = Fallback
      <4>1. disk[Preferred] = None
        BY <1>1, <3>2 DEF IInv, FilesOK, WritesMemory, NothingWhereNotWritable, Paths
      <4>2. disk'[Preferred] = None /\ disk'[Fallback] = config
        BY <2>3, <3>2, <4>1 DEF Paths, Preferred, Fallback
      <4> QED
        BY <1>2, <4>2, NoneIsNothing DEF Loaded
    <3> QED
      BY <1>1, <3>1, <3>2 DEF Paths
  <2>5. NothingWhereNotWritable'
    BY <2>1, <2>2, <2>3 DEF IInv, FilesOK, NothingWhereNotWritable
  <2> QED
    BY <1>2, <2>1, <2>2, <2>4, <2>5 DEF IInv, FilesOK, WritesMemory, MemoryOnDisk, Places
<1>6. CASE GiveUpWriting
  <2>1. writable = {}
    <3>1. Preferred \notin writable /\ Fallback \notin writable
      BY <1>1, <1>6 DEF GiveUpWriting, IInv, FilesOK, WritesMemory
    <3>2. writable \subseteq Paths
      BY BoundsAssumption DEF IInv, TypeOK
    <3> QED
      BY <3>1, <3>2 DEF Paths
  <2>2. pc = "booting"
    BY <1>2, <2>1 DEF IInv, FilesOK, MemoryOnDisk
  <2>3. write' = None /\ pc' = "off" /\ UNCHANGED <<disk, writable>>
    BY <1>6, <2>2 DEF GiveUpWriting, files
  <2> QED
    BY <2>3 DEF IInv, FilesOK, NothingWhereNotWritable, WritesMemory, MemoryOnDisk, Places
<1> QED
  BY <1>3, <1>4, <1>5, <1>6

\* Remembering a server starts a write of what is now in memory.
LEMMA RememberFilesOK ==
  ASSUME IInv, pc \notin {"off", "booting"}, write = None,
         NEW a \in Addresses \cup {None}, Remember(a), UNCHANGED files,
         pc' \notin {"off", "booting", "search", "serving", "leaving"},
         pc' = "farewell" => server' = a /\ a # None
  PROVE  FilesOK'
<1>1. config' \in Config /\ config'.attached = a
  BY RememberData DEF IInv
<1>2. NothingWhereNotWritable'
  BY DEF IInv, FilesOK, NothingWhereNotWritable, files
<1>3. writable' # {}
  BY DEF IInv, FilesOK, MemoryOnDisk, files
<1>4. Places'
  BY <1>1 DEF Places
<1>5. CASE config.attached = a
  <2>1. write' = None /\ config' = config /\ Loaded' = Loaded /\ Loaded = config
    BY <1>5 DEF Remember, Loaded, files, IInv, FilesOK, MemoryOnDisk
  <2> QED
    BY <2>1, <1>2, <1>3, <1>4 DEF FilesOK, WritesMemory, MemoryOnDisk
<1>6. CASE config.attached # a
  <2>1. config' = Attached(config, a) /\ write' = Unopened(config')
    BY <1>6 DEF Remember
  <2>2. write' \in Writing /\ write'.config = config' /\ write'.path = Preferred /\ write'.open = FALSE
    BY <1>1, <2>1, UnopenedData
  <2>3. write' # None
    BY <2>2, NoneIsNothing
  <2> QED
    BY <2>2, <2>3, <1>2, <1>3, <1>4 DEF FilesOK, WritesMemory, MemoryOnDisk, Preferred, Fallback
<1> QED
  BY <1>5, <1>6

\* Announcing touches the files only through remember_server.
LEMMA AnnounceFilesOK ==
  ASSUME IInv
  PROVE  /\ Discover \/ NobodyHasIt => FilesOK'
         /\ \A a \in Addresses : RegisterClaimed(a) \/ RegisterDeclined(a) \/ RegisterFails(a) => FilesOK'
         /\ \A a \in Addresses : RegisterUnclaimed(a) => FilesOK'
         /\ Choose => FilesOK'
<1>1. ASSUME Discover \/ NobodyHasIt PROVE FilesOK'
  <2>1. /\ UNCHANGED <<disk, writable, config, write, server>> /\ write = None
        /\ pc \in {"search", "announce"} /\ pc' \in {"search", "announce"}
    BY <1>1 DEF Discover, NobodyHasIt, Announced, files, attaching, IInv, FilesOK, Places
  <2>2. Places'
    BY <2>1 DEF Places
  <2> QED
    BY <2>1, <2>2, QuietStep
<1>2. ASSUME NEW a \in Addresses, RegisterClaimed(a) \/ RegisterDeclined(a) \/ RegisterFails(a)
      PROVE  FilesOK'
  <2>1. UNCHANGED <<disk, writable, config, write, server, pc>> /\ pc = "announce"
    BY <1>2 DEF RegisterClaimed, RegisterDeclined, RegisterFails, MayAsk, files, attaching
  <2>2. Places'
    BY <2>1 DEF Places
  <2> QED
    BY <2>1, <2>2, QuietStep
<1>3. ASSUME NEW a \in Addresses, RegisterUnclaimed(a) PROVE FilesOK'
  <2>1. UNCHANGED <<files, disk, writable, server, pc>> /\ pc = "announce" /\ write = None
    BY <1>3 DEF RegisterUnclaimed, MayAsk, files, attaching
  <2>2. CASE config.attached = a
    <3>1. Remember(None)
      BY <1>3, <2>2 DEF RegisterUnclaimed
    <3> QED
      BY <2>1, <3>1, RememberFilesOK
  <2>3. CASE config.attached # a
    <3>1. UNCHANGED <<config, write>>
      BY <1>3, <2>3 DEF RegisterUnclaimed
    <3>2. Places'
      BY <2>1 DEF Places
    <3> QED
      BY <2>1, <3>1, <3>2, QuietStep
  <2> QED
    BY <2>2, <2>3
<1>4. ASSUME Choose PROVE FilesOK'
  <2>1. PICK a \in Foremost : server' = a /\ Remember(a)
    BY <1>4 DEF Choose
  <2>2. a \in Addresses /\ a # None
    BY ClaimantsData, NoneIsNothing DEF IInv, TypeOK
  <2>3. UNCHANGED files /\ pc = "announce" /\ write = None /\ pc' = "farewell"
    BY <1>4 DEF Choose, Announced
  <2> QED
    BY <2>1, <2>2, <2>3, RememberFilesOK
<1> QED
  BY <1>1, <1>2, <1>3, <1>4

\* From the goodbyes to the end of a session nothing is written.
LEMMA AttachFilesOK ==
  ASSUME IInv
  PROVE  /\ \A a \in Addresses : SayGoodbye(a) => FilesOK'
         /\ Attach \/ PollAnswered \/ PollUnknown \/ PollFails \/ Detach => FilesOK'
<1>1. ASSUME NEW a \in Addresses, SayGoodbye(a) PROVE FilesOK'
  <2>1. UNCHANGED <<disk, writable, config, write, server, pc>>
    BY <1>1 DEF SayGoodbye, files
  <2>2. Places'
    BY <2>1 DEF IInv, FilesOK, Places
  <2> QED
    BY <2>1, <2>2, QuietStep
<1>2. ASSUME Attach \/ PollAnswered \/ PollUnknown \/ PollFails PROVE FilesOK'
  <2>1. /\ UNCHANGED <<disk, writable, config, write, server>> /\ write = None
        /\ pc \in {"farewell", "serving"} /\ pc' \in {"serving", "leaving"}
    BY <1>2 DEF Attach, PollAnswered, PollUnknown, PollFails, files, attaching, IInv, FilesOK, Places
  <2>2. Places'
    BY <2>1 DEF IInv, FilesOK, Places
  <2> QED
    BY <2>1, <2>2, QuietStep
<1>3. ASSUME Detach PROVE FilesOK'
  <2>1. UNCHANGED <<disk, writable, config, write>> /\ write = None /\ pc = "leaving" /\ pc' = "search"
    BY <1>3 DEF Detach, files, IInv, FilesOK, Places
  <2>2. Places'
    BY <2>1 DEF Places
  <2> QED
    BY <2>1, <2>2, QuietStep
<1> QED
  BY <1>1, <1>2, <1>3

\* Power loss and edits only happen to a device without memory; and no path
\* becomes read-only.
LEMMA AroundFilesOK ==
  ASSUME IInv, ~LosesRights
  PROVE  /\ \A s \in Servers : Claims(s) \/ Releases(s) \/ Rebuilt(s) \/ Fails(s) \/ Returns(s) => FilesOK'
         /\ \A s \in Servers, a \in Addresses : MovesTo(s, a) => FilesOK'
         /\ \A a \in Addresses : Expire(a) => FilesOK'
         /\ UNCHANGED vars => FilesOK'
         /\ \A p \in Paths : Edit(p) => FilesOK'
         /\ Crash \/ Remount => FilesOK'
<1>1. ASSUME UNCHANGED <<disk, writable, config, write, server, pc>> PROVE FilesOK'
  <2>1. Places'
    BY <1>1 DEF IInv, FilesOK, Places
  <2> QED
    BY <1>1, <2>1, QuietStep
<1>2. ASSUME NEW s \in Servers, Claims(s) \/ Releases(s) \/ Rebuilt(s) \/ Fails(s) \/ Returns(s)
      PROVE  FilesOK'
  BY <1>1, <1>2 DEF Claims, Releases, Rebuilt, Fails, Returns, device, files, attaching
<1>3. ASSUME NEW s \in Servers, NEW a \in Addresses, MovesTo(s, a) PROVE FilesOK'
  BY <1>1, <1>3 DEF MovesTo, device, files, attaching
<1>4. ASSUME NEW a \in Addresses, Expire(a) PROVE FilesOK'
  BY <1>1, <1>4 DEF Expire, files, attaching
<1>5. ASSUME UNCHANGED vars PROVE FilesOK'
  BY <1>1, <1>5 DEF vars, files, attaching
<1>6. ASSUME NEW p \in Paths, Edit(p) PROVE FilesOK'
  <2>1. p \in writable
    BY <1>6, NoneIsNothing DEF Edit, IInv, FilesOK, NothingWhereNotWritable
  <2>2. \A q \in Paths : q # p => disk'[q] = disk[q]
    BY <1>6 DEF Edit, IInv, TypeOK
  <2>3. pc' = "off" /\ write' = None /\ writable' = writable
    BY <1>6 DEF Edit, IInv, FilesOK, Places
  <2> QED
    BY <2>1, <2>2, <2>3 DEF IInv, FilesOK, NothingWhereNotWritable, WritesMemory, MemoryOnDisk, Places
<1>7. ASSUME Crash PROVE FilesOK'
  BY <1>7 DEF Crash, files, IInv, FilesOK, NothingWhereNotWritable, WritesMemory, MemoryOnDisk, Places
<1>8. ASSUME Remount PROVE FilesOK'
  <2>1. writable \subseteq writable' /\ disk' = disk /\ write' = None /\ pc' = "off"
    BY <1>8 DEF Remount, IInv, FilesOK, Places
  <2> QED
    BY <2>1 DEF IInv, FilesOK, NothingWhereNotWritable, WritesMemory, MemoryOnDisk, Places
<1> QED
  BY <1>2, <1>3, <1>4, <1>5, <1>6, <1>7, <1>8

\* The invariant is inductive.
LEMMA NextIInv == ASSUME ~LosesRights PROVE IInv /\ [Next]_vars => IInv'
<1> SUFFICES ASSUME IInv, [Next]_vars PROVE IInv'
  OBVIOUS
<1>1. TypeOK'
  BY NextTypeOK DEF IInv
<1>2. FilesOK'
  <2>1. CASE Device
    <3>1. Boot \/ BootAfresh => FilesOK'
      BY BootFilesOK
    <3>2. OpenFile \/ TryFallback \/ FillFile \/ GiveUpWriting => FilesOK'
      BY WriteFilesOK
    <3> QED
      BY <2>1, <3>1, <3>2, AnnounceFilesOK, AttachFilesOK DEF Device
  <2>2. CASE (\E a \in Addresses : Expire(a)) \/ Environment \/ UNCHANGED vars
    BY <2>2, AroundFilesOK DEF Environment
  <2> QED
    BY <2>1, <2>2 DEF Next
<1> QED
  BY <1>1, <1>2 DEF IInv, FilesOK

\* Every reachable state of a device that keeps its rights satisfies it.
LEMMA AlwaysIInv == ASSUME ~LosesRights PROVE Spec => []IInv
<1>1. Init => IInv
  BY InitIInv
<1>2. IInv /\ [Next]_vars => IInv'
  BY NextIInv
<1> QED
  BY <1>1, <1>2, PTL DEF Spec

\* A restart comes back to the server the device plays for, whichever path its
\* memory was written to, and whenever power was lost before.
THEOREM RestartComesBack == ASSUME ~LosesRights PROVE Spec => []RemembersItsServer
<1>1. IInv => RemembersItsServer
  <2> SUFFICES ASSUME IInv, pc \in {"serving", "leaving"}
               PROVE  Loaded # None /\ Loaded.attached = server
    BY DEF RemembersItsServer
  <2>1. write = None /\ Loaded = config /\ config.attached = server
    BY DEF IInv, FilesOK, Places, MemoryOnDisk
  <2> QED
    BY <2>1 DEF IInv, TypeOK
<1> QED
  BY <1>1, AlwaysIInv, PTL

-----------------------------------------------------------------------------
(* Leaving a server *)

\* The server remembered is only left on purpose, whatever the servers answer
\* and in whatever order; this needs nothing but type correctness.
THEOREM OnlyOnPurpose == Spec => LeavesOnlyOnPurpose
<1> DEFINE Purpose ==
      \A a \in Addresses :
        (config # None /\ config' # None /\ config.attached = a /\ config'.attached # a) =>
          \/ /\ config'.attached = None
             /\ \E s \in Answering(a) : claim[s] = "none"
          \/ a \notin Claimants /\ config'.attached \in ByHand
<1>1. ASSUME TypeOK, [Next]_vars PROVE [Purpose]_vars
  <2> SUFFICES ASSUME NEW a \in Addresses, config # None, config' # None,
                      config.attached = a, config'.attached # a
               PROVE  \/ /\ config'.attached = None
                         /\ \E s \in Answering(a) : claim[s] = "none"
                      \/ a \notin Claimants /\ config'.attached \in ByHand
    OBVIOUS
  <2>1. pc # "off" /\ config' # config
    BY <1>1 DEF TypeOK
  <2>2. (\E b \in Addresses : RegisterUnclaimed(b)) \/ Choose
    <3>1. ~Boot /\ ~BootAfresh /\ ~Remount /\ (\A p \in Paths : ~Edit(p)) /\ ~Crash
      BY <2>1 DEF Boot, BootAfresh, Remount, Edit, Crash
    <3>2. ~OpenFile /\ ~TryFallback /\ ~FillFile /\ ~GiveUpWriting
      BY <2>1 DEF OpenFile, TryFallback, FillFile, GiveUpWriting
    <3>3. ~Discover /\ ~NobodyHasIt /\ ~Attach /\ ~PollAnswered /\ ~PollUnknown /\ ~PollFails /\ ~Detach
      BY <2>1 DEF Discover, NobodyHasIt, Attach, PollAnswered, PollUnknown, PollFails, Detach
    <3>4. \A b \in Addresses : /\ ~RegisterClaimed(b) /\ ~RegisterDeclined(b) /\ ~RegisterFails(b)
                               /\ ~SayGoodbye(b) /\ ~Expire(b)
      BY <2>1 DEF RegisterClaimed, RegisterDeclined, RegisterFails, SayGoodbye, Expire
    <3>5. \A s \in Servers : /\ ~Claims(s) /\ ~Releases(s) /\ ~Rebuilt(s) /\ ~Fails(s) /\ ~Returns(s)
                             /\ \A b \in Addresses : ~MovesTo(s, b)
      BY <2>1 DEF Claims, Releases, Rebuilt, Fails, Returns, MovesTo, device
    <3>6. ~UNCHANGED vars
      BY <2>1 DEF vars
    <3> QED
      BY <1>1, <3>1, <3>2, <3>3, <3>4, <3>5, <3>6 DEF Next, Device, Environment
  <2>3. CASE \E b \in Addresses : RegisterUnclaimed(b)
    <3>1. PICK b \in Addresses : RegisterUnclaimed(b)
      BY <2>3
    <3>2. b = a /\ Remember(None)
      BY <2>1, <3>1 DEF RegisterUnclaimed
    <3>3. config'.attached = None
      BY <1>1, <2>1, <3>2, RememberData
    <3>4. \E s \in Answering(a) : claim[s] = "none"
      BY <3>1, <3>2 DEF RegisterUnclaimed
    <3> QED
      BY <3>3, <3>4
  <2>4. CASE Choose
    <3>1. PICK b \in Foremost : Remember(b)
      BY <2>4 DEF Choose
    <3>2. b \in Addresses
      BY <1>1, ClaimantsData DEF TypeOK
    <3>3. config'.attached = b
      BY <1>1, <2>1, <3>1, <3>2, RememberData
    <3>4. a \notin Claimants
      BY <3>1, <3>3 DEF Foremost
    <3>5. ByHand # {}
      BY <2>4, <3>4, NoneIsNothing DEF Choose, Waits
    <3> QED
      BY <3>1, <3>3, <3>4, <3>5 DEF Foremost
  <2> QED
    BY <2>2, <2>3, <2>4
<1> QED
  BY <1>1, TypeCorrect, PTL DEF Spec, LeavesOnlyOnPurpose

-----------------------------------------------------------------------------
(* The device keeps its promises: Home is implemented *)

serving == IF pc = "serving" THEN server ELSE None

\* The server in the file is one, or none.
LEMMA HomeType == TypeOK => HomeOnDisk \in Addresses \cup {None} /\ serving \in Addresses \cup {None}
<1> SUFFICES ASSUME TypeOK PROVE HomeOnDisk \in Addresses \cup {None}
  BY DEF serving, TypeOK
<1>1. CASE write # None /\ write.open
  <2>1. write.config \in Config
    BY <1>1, WritingData DEF TypeOK
  <2> QED
    BY <1>1, <2>1, ConfigData DEF HomeOnDisk
<1>2. CASE ~(write # None /\ write.open)
  BY <1>2, LoadedData, ConfigData DEF HomeOnDisk
<1> QED
  BY <1>1, <1>2

\* A device that plays has nothing to write, and its server is in the file.
LEMMA HomeWhileServing ==
  IInv /\ pc = "serving" => write = None /\ server # None /\ HomeOnDisk = server
<1> SUFFICES ASSUME IInv, pc = "serving" PROVE write = None /\ server # None /\ HomeOnDisk = server
  OBVIOUS
<1>1. write = None /\ Loaded = config /\ config.attached = server /\ server # None
  BY DEF IInv, FilesOK, Places, MemoryOnDisk
<1>2. config # None
  BY DEF IInv, TypeOK
<1> QED
  BY <1>1, <1>2 DEF HomeOnDisk

\* While it plays, a step can touch neither files nor writing, nor the choice.
LEMMA ServingStep ==
  ASSUME IInv, [Next]_vars, pc = "serving"
  PROVE  /\ HomeOnDisk' = HomeOnDisk
         /\ pc' = "serving" => server' = server
<1>1. write = None
  BY DEF IInv, FilesOK, Places
<1>2. /\ ~Boot /\ ~BootAfresh /\ ~Discover /\ ~NobodyHasIt /\ ~Choose /\ ~Attach /\ ~Detach
      /\ \A a \in Addresses : ~RegisterClaimed(a) /\ ~RegisterUnclaimed(a) /\ ~RegisterDeclined(a)
                            /\ ~RegisterFails(a) /\ ~SayGoodbye(a)
      /\ ~Remount /\ \A p \in Paths : ~Edit(p)
  BY DEF Boot, BootAfresh, Discover, NobodyHasIt, Choose, Attach, Detach, Announced, MayAsk,
         RegisterClaimed, RegisterUnclaimed, RegisterDeclined, RegisterFails, SayGoodbye, Remount, Edit
<1>3. ~OpenFile /\ ~TryFallback /\ ~FillFile /\ ~GiveUpWriting
  BY <1>1 DEF OpenFile, TryFallback, FillFile, GiveUpWriting
<1>4. UNCHANGED disk /\ write' = None /\ (pc' = "serving" => server' = server)
  <2>1. CASE PollAnswered \/ PollUnknown \/ PollFails \/ Crash
    BY <1>1, <2>1 DEF PollAnswered, PollUnknown, PollFails, Crash, files, attaching
  <2>2. CASE \E s \in Servers : Claims(s) \/ Releases(s) \/ Rebuilt(s) \/ Fails(s) \/ Returns(s)
                               \/ \E a \in Addresses : MovesTo(s, a)
    BY <1>1, <2>2 DEF Claims, Releases, Rebuilt, Fails, Returns, MovesTo, device, files, attaching
  <2>3. CASE (\E a \in Addresses : Expire(a)) \/ UNCHANGED vars
    BY <1>1, <2>3 DEF Expire, vars, files, attaching
  <2> QED
    BY <1>2, <1>3, <2>1, <2>2, <2>3 DEF Next, Device, Environment
<1> QED
  BY <1>1, <1>4 DEF HomeOnDisk, Loaded

\* A device comes to play in one way: it attaches, to the server in the file.
LEMMA StartsServing ==
  ASSUME IInv, [Next]_vars, pc # "serving", pc' = "serving"
  PROVE  Attach
<1>1. /\ ~Boot /\ ~BootAfresh /\ ~Discover /\ ~NobodyHasIt /\ ~Choose /\ ~Detach
      /\ ~PollAnswered /\ ~PollUnknown /\ ~PollFails
      /\ ~OpenFile /\ ~TryFallback /\ ~FillFile /\ ~GiveUpWriting
  BY DEF Boot, BootAfresh, Discover, NobodyHasIt, Choose, Detach, PollAnswered, PollUnknown,
         PollFails, OpenFile, TryFallback, FillFile, GiveUpWriting
<1>2. \A a \in Addresses : /\ ~RegisterClaimed(a) /\ ~RegisterUnclaimed(a) /\ ~RegisterDeclined(a)
                         /\ ~RegisterFails(a) /\ ~SayGoodbye(a) /\ ~Expire(a)
  BY DEF RegisterClaimed, RegisterUnclaimed, RegisterDeclined, RegisterFails, SayGoodbye, Expire
<1>3. \A s \in Servers : /\ ~Claims(s) /\ ~Releases(s) /\ ~Rebuilt(s) /\ ~Fails(s) /\ ~Returns(s)
                       /\ \A a \in Addresses : ~MovesTo(s, a)
  BY DEF Claims, Releases, Rebuilt, Fails, Returns, MovesTo, device
<1>4. ~Crash /\ ~Remount /\ (\A p \in Paths : ~Edit(p)) /\ ~UNCHANGED vars
  BY DEF Crash, Remount, Edit, vars
<1> QED
  BY <1>1, <1>2, <1>3, <1>4 DEF Next, Device, Environment

\* What is known of a state is known of the next one.
LEMMA HomeNext ==
  /\ TypeOK' => (HomeOnDisk \in Addresses \cup {None} /\ serving \in Addresses \cup {None})'
  /\ (IInv /\ pc = "serving")' => (write = None /\ server # None /\ HomeOnDisk = server)'
BY HomeType, HomeWhileServing, PTL

\* Any step settles the device, has it play or stop, or changes neither.
LEMMA HomeStep == IInv /\ [Next]_vars /\ IInv' => [H!Next]_<<HomeOnDisk, serving>>
<1> SUFFICES ASSUME IInv, [Next]_vars, IInv' PROVE [H!Next]_<<HomeOnDisk, serving>>
  OBVIOUS
<1>1. HomeOnDisk' \in Addresses \cup {None}
  BY HomeNext DEF IInv
<1>2. CASE pc = "serving"
  <2>1. serving = server /\ HomeOnDisk' = HomeOnDisk /\ (pc' = "serving" => serving' = serving)
    BY <1>2, ServingStep DEF serving
  <2>2. pc' # "serving" => serving' = None
    BY DEF serving
  <2> QED
    BY <2>1, <2>2 DEF H!Next, H!Stop, serving
<1>3. CASE pc # "serving" /\ pc' # "serving"
  BY <1>1, <1>3 DEF H!Next, H!Settle, serving
<1>4. CASE pc # "serving" /\ pc' = "serving"
  <2>1. Attach
    BY <1>4, StartsServing
  <2>2. HomeOnDisk' = HomeOnDisk
    BY <2>1 DEF Attach, HomeOnDisk, Loaded, files
  <2>3. HomeOnDisk' = server' /\ server' # None
    BY <1>4, HomeNext
  <2> QED
    BY <1>4, <2>2, <2>3 DEF H!Next, H!Serve, serving
<1> QED
  BY <1>2, <1>3, <1>4

\* A device that keeps its rights plays for the server it remembers, and that
\* memory, on the disk, only changes while it plays for none.
THEOREM DeviceImplementsHome == ASSUME ~LosesRights PROVE Spec => ImplementsHome
<1>1. Init => H!Init
  BY NoneIsNothing DEF Init, H!Init, HomeOnDisk, Loaded, Paths
<1>2. IInv /\ [Next]_vars /\ IInv' => [H!Next]_<<HomeOnDisk, serving>>
  BY HomeStep
<1> QED
  BY <1>1, <1>2, AlwaysIInv, PTL DEF Spec, ImplementsHome, H!Spec, serving

-----------------------------------------------------------------------------
(* One identity *)

\* The ids a file carries: that of a configuration, or the one still to be
\* read in a broken file.
IdsOn(p) ==
  IF disk[p] \in Config THEN {disk[p].id}
  ELSE IF disk[p] \in Broken /\ disk[p].rescued # None THEN {disk[p].rescued}
  ELSE {}

OnDisk == IdsOn(Preferred) \cup IdsOn(Fallback)

InMemory == IF config = None THEN {} ELSE {config.id}

\* Every id there is: at the servers, in memory, on the disk.
Known == introduced \cup InMemory \cup OnDisk

\* They are one and the same, and once a server knows it, it is on the disk
\* whenever power may be lost; a first write cannot fail then.
OneId ==
  /\ \A i, j \in Known : i = j
  /\ pc = "off" /\ introduced # {} => OnDisk # {}
  /\ pc \notin {"off", "booting"} /\ (write # None => ~write.open) => OnDisk # {}
  /\ pc = "booting" /\ introduced # {} => writable # {}

\* Before anything is known there is nothing to differ.
LEMMA InitOneId == Init => OneId
BY NoneIsNothing DEF Init, OneId, Known, InMemory, OnDisk, IdsOn, Paths

\* A step that leaves the disk alone and makes nothing new known.
LEMMA SameIds ==
  ASSUME OneId, UNCHANGED <<disk, writable>>, introduced' \subseteq introduced \cup InMemory,
         InMemory' \subseteq InMemory,
         pc = pc' \/ (pc \notin {"off", "booting"} /\ pc' \notin {"off", "booting"}),
         pc \notin {"off", "booting"} \/ introduced' = introduced,
         (write = None => write' = None \/ ~write'.open),
         (write # None => write' = write \/ ~write.open)
  PROVE  OneId'
<1>1. OnDisk' = OnDisk
  BY DEF OnDisk, IdsOn
<1>2. Known' \subseteq Known
  BY <1>1 DEF Known
<1>3. \A i, j \in Known' : i = j
  BY <1>2 DEF OneId
<1> QED
  BY <1>1, <1>3 DEF OneId

\* A start takes an id that is there, or makes one up when none was ever known.
LEMMA BootOneId == IInv /\ OneId /\ (Boot \/ BootAfresh) => OneId'
<1>1. ASSUME IInv, OneId, Boot PROVE OneId'
  <2>1. \A p \in Paths : disk'[p] = disk[p] \/ disk'[p] = None
    BY <1>1 DEF Boot, MovedAside
  <2>2. \A p \in Paths : disk[p] \in Config => disk'[p] = disk[p]
    BY <1>1 DEF Boot, MovedAside
  <2>3. OnDisk' \subseteq OnDisk
    BY <2>1, NoneIsNothing DEF OnDisk, IdsOn, Paths
  <2>4. config' \in Config /\ config'.id \in OnDisk /\ config'.id \in OnDisk'
    BY <1>1, <2>2, LoadedData DEF Boot, Loaded, OnDisk, IdsOn, Paths
  <2>5. InMemory' = {config'.id}
    BY <2>4, NoneIsNothing DEF InMemory
  <2>6. Known' \subseteq Known
    BY <1>1, <2>3, <2>4, <2>5 DEF Known, Boot
  <2>7. \A i, j \in Known' : i = j
    BY <1>1, <2>6 DEF OneId
  <2>8. pc' = "search"
    BY <1>1 DEF Boot
  <2> QED
    BY <2>4, <2>7, <2>8 DEF OneId
<1>2. ASSUME IInv, OneId, BootAfresh PROVE OneId'
  <2>1. PICK i \in FreshId : config' = Fresh(i)
    BY <1>2 DEF BootAfresh
  <2>2. \A p \in Paths : disk[p] \notin Config /\ Rescued(p) = IdsOn(p) /\ Rescued(p) \subseteq Ids
    <3>1. \A p \in Paths : disk[p] \notin Config
      BY <1>2, NoneIsNothing DEF BootAfresh, Loaded, Paths
    <3> QED
      BY <1>2, <3>1, BrokenData DEF Rescued, IdsOn, IInv, TypeOK
  <2>3. i \in Ids /\ (OnDisk # {} => i \in OnDisk)
    BY <2>1, <2>2 DEF FreshId, OnDisk, Paths
  <2>4. \A p \in Paths : disk'[p] = None
    BY <1>2, <2>2 DEF BootAfresh, MovedAside
  <2>5. OnDisk' = {}
    BY <2>4, NoneIsNothing DEF OnDisk, IdsOn, Paths
  <2>6. InMemory' = {i}
    BY <2>1, <2>3, FreshData, NoneIsNothing DEF InMemory
  <2>7. introduced' = introduced /\ pc' = "booting" /\ pc = "off" /\ writable' = writable
    BY <1>2 DEF BootAfresh
  <2>8. Known' = introduced \cup {i}
    BY <2>5, <2>6, <2>7 DEF Known
  <2>9. introduced # {} => i \in Known /\ writable # {}
    <3> SUFFICES ASSUME introduced # {} PROVE i \in Known /\ writable # {}
      OBVIOUS
    <3>1. OnDisk # {}
      BY <1>2, <2>7 DEF OneId
    <3>2. disk[Preferred] # None \/ disk[Fallback] # None
      BY <3>1, NoneIsNothing DEF OnDisk, IdsOn
    <3> QED
      BY <1>2, <2>3, <3>1, <3>2 DEF Known, IInv, FilesOK, NothingWhereNotWritable, Paths
  <2>10. \A j, k \in Known' : j = k
    <3>1. CASE introduced = {}
      BY <2>8, <3>1
    <3>2. CASE introduced # {}
      <4>1. Known' \subseteq Known
        BY <2>8, <2>9, <3>2 DEF Known
      <4> QED
        BY <1>2, <4>1 DEF OneId
    <3> QED
      BY <3>1, <3>2
  <2> QED
    BY <2>7, <2>9, <2>10 DEF OneId
<1> QED
  BY <1>1, <1>2

\* What is written carries the id that is in memory.
LEMMA WriteOneId == IInv /\ OneId /\ (OpenFile \/ TryFallback \/ FillFile \/ GiveUpWriting) => OneId'
<1> SUFFICES ASSUME IInv, OneId, OpenFile \/ TryFallback \/ FillFile \/ GiveUpWriting PROVE OneId'
  OBVIOUS
<1>1. write \in Writing /\ write # None /\ write.config = config /\ write.path \in Paths
  <2>1. write \in Writing /\ write # None
    BY DEF OpenFile, TryFallback, FillFile, GiveUpWriting, IInv, TypeOK
  <2> QED
    BY <2>1, WritingData DEF IInv, FilesOK, WritesMemory
<1>2. config \in Config /\ pc # "off" /\ InMemory = {config.id}
  <2>1. config \in Config
    BY <1>1, WritingData
  <2> QED
    BY <2>1, NoneIsNothing DEF IInv, TypeOK, InMemory
<1>3. CASE OpenFile
  <2>1. write' \in Writing /\ write'.open = TRUE
    BY <1>1, <1>3, WritingData DEF OpenFile
  <2>2. /\ write' # None /\ UNCHANGED <<writable, config, pc, introduced>>
    BY <1>3, <2>1, NoneIsNothing DEF OpenFile
  <2>3. \A p \in Paths : disk'[p] = IF p = write.path THEN Unreadable(None) ELSE disk[p]
    BY <1>1, <1>3 DEF OpenFile, IInv, TypeOK
  <2>4. OnDisk' \subseteq OnDisk
    <3>1. \A p \in Paths : IdsOn(p)' \subseteq IdsOn(p)
      BY <2>3, BrokenData, BrokenIsBroken DEF IdsOn
    <3> QED
      BY <3>1 DEF OnDisk, Paths
  <2>5. InMemory' = InMemory
    BY <2>2 DEF InMemory
  <2>6. Known' \subseteq Known
    BY <2>2, <2>4, <2>5 DEF Known
  <2>7. \A j, k \in Known' : j = k
    BY <2>6 DEF OneId
  <2> QED
    BY <1>2, <2>1, <2>2, <2>7 DEF OneId
<1>4. CASE TryFallback
  <2>1. /\ write' # None /\ write'.open = write.open
        /\ UNCHANGED <<disk, writable, config, pc, introduced>>
    BY <1>1, <1>4, WritingData, NoneIsNothing DEF TryFallback, files
  <2>2. OnDisk' = OnDisk /\ InMemory' = InMemory
    BY <2>1 DEF OnDisk, IdsOn, InMemory
  <2>3. Known' = Known
    BY <2>1, <2>2 DEF Known
  <2> QED
    BY <1>1, <2>1, <2>2, <2>3 DEF OneId
<1>5. CASE FillFile
  <2>1. /\ UNCHANGED <<writable, config, introduced>>
        /\ pc' \notin {"off", "booting"}
    BY <1>2, <1>5 DEF FillFile
  <2>2. \A p \in Paths : disk'[p] = IF p = write.path THEN config ELSE disk[p]
    BY <1>1, <1>5 DEF FillFile, IInv, TypeOK
  <2>3. \A p \in Paths : IdsOn(p)' = IF p = write.path THEN {config.id} ELSE IdsOn(p)
    BY <1>2, <2>2 DEF IdsOn
  <2>4. OnDisk' \subseteq OnDisk \cup {config.id} /\ OnDisk' # {}
    BY <1>1, <2>3 DEF OnDisk, Paths
  <2>5. InMemory' = InMemory
    BY <2>1 DEF InMemory
  <2>6. Known' \subseteq Known
    BY <1>2, <2>1, <2>4, <2>5 DEF Known
  <2>7. \A j, k \in Known' : j = k
    BY <2>6 DEF OneId
  <2> QED
    BY <2>1, <2>4, <2>7 DEF OneId
<1>6. CASE GiveUpWriting
  <2>1. writable = {}
    <3>1. Preferred \notin writable /\ Fallback \notin writable
      BY <1>1, <1>6 DEF GiveUpWriting, IInv, FilesOK, WritesMemory
    <3>2. writable \subseteq Paths
      BY BoundsAssumption DEF IInv, TypeOK
    <3> QED
      BY <3>1, <3>2 DEF Paths
  <2>2. pc = "booting"
    BY <1>2, <2>1 DEF IInv, FilesOK, MemoryOnDisk
  <2>3. introduced = {}
    BY <2>1, <2>2 DEF OneId
  <2>4. config' = None /\ pc' = "off" /\ UNCHANGED <<disk, introduced>>
    BY <1>6, <2>2 DEF GiveUpWriting, files
  <2>5. OnDisk' = OnDisk /\ InMemory' = {}
    BY <2>4 DEF OnDisk, IdsOn, InMemory
  <2>6. Known' \subseteq Known
    BY <2>4, <2>5 DEF Known
  <2>7. \A j, k \in Known' : j = k
    BY <2>6 DEF OneId
  <2> QED
    BY <2>3, <2>4, <2>7 DEF OneId
<1> QED
  BY <1>3, <1>4, <1>5, <1>6

\* Announcing tells servers the id in memory, and remembering one keeps it.
LEMMA AnnounceOneId ==
  ASSUME IInv, OneId
  PROVE  /\ Discover \/ NobodyHasIt => OneId'
         /\ \A a \in Addresses : RegisterClaimed(a) \/ RegisterDeclined(a) \/ RegisterFails(a) => OneId'
         /\ \A a \in Addresses : RegisterUnclaimed(a) => OneId'
         /\ Choose => OneId'
<1>1. ASSUME UNCHANGED <<disk, writable, config, write>>,
             pc \notin {"off", "booting"}, pc' \notin {"off", "booting"},
             introduced' \subseteq introduced \cup InMemory
      PROVE  OneId'
  <2>1. InMemory' = InMemory
    BY <1>1 DEF InMemory
  <2> QED
    BY <1>1, <2>1, SameIds
<1>2. pc # "off" => InMemory = {config.id}
  BY DEF IInv, TypeOK, InMemory
<1>3. ASSUME Discover \/ NobodyHasIt PROVE OneId'
  BY <1>1, <1>3 DEF Discover, NobodyHasIt, Announced, files
<1>4. ASSUME NEW a \in Addresses, RegisterClaimed(a) \/ RegisterDeclined(a) \/ RegisterFails(a)
      PROVE  OneId'
  BY <1>1, <1>2, <1>4 DEF RegisterClaimed, RegisterDeclined, RegisterFails, MayAsk, files
<1>5. ASSUME pc # "off", pc # "booting", pc' \notin {"off", "booting"}, write = None,
             UNCHANGED files, introduced' \subseteq introduced \cup InMemory,
             NEW a \in Addresses \cup {None}, Remember(a)
      PROVE  OneId'
  <2>1. config'.id = config.id /\ config' # None /\ (write' # None => ~write'.open)
    BY <1>5, RememberData DEF IInv
  <2>2. InMemory' = InMemory
    BY <1>2, <1>5, <2>1 DEF InMemory
  <2> QED
    BY <1>5, <2>1, <2>2, SameIds DEF files
<1>6. ASSUME NEW a \in Addresses, RegisterUnclaimed(a) PROVE OneId'
  <2>1. /\ pc = "announce" /\ pc' = "announce" /\ write = None /\ UNCHANGED files
        /\ introduced' \subseteq introduced \cup InMemory
    BY <1>2, <1>6 DEF RegisterUnclaimed, MayAsk
  <2>2. CASE config.attached = a
    <3>1. Remember(None)
      BY <1>6, <2>2 DEF RegisterUnclaimed
    <3> QED
      BY <1>5, <2>1, <3>1
  <2>3. CASE config.attached # a
    BY <1>1, <1>6, <2>1, <2>3 DEF RegisterUnclaimed, files
  <2> QED
    BY <2>2, <2>3
<1>7. ASSUME Choose PROVE OneId'
  <2>1. PICK a \in Foremost : Remember(a)
    BY <1>7 DEF Choose
  <2>2. a \in Addresses
    BY ClaimantsData DEF IInv, TypeOK
  <2>3. /\ pc = "announce" /\ pc' = "farewell" /\ write = None /\ UNCHANGED files
        /\ introduced' = introduced
    BY <1>7 DEF Choose, Announced
  <2> QED
    BY <1>5, <2>1, <2>2, <2>3
<1> QED
  BY <1>3, <1>4, <1>6, <1>7

\* Nothing else concerns the id, but an operator who breaks the file, and power
\* lost, which a device survives that has its id on the disk.
LEMMA AroundOneId ==
  ASSUME IInv, OneId, ~TornWrites, "booting" \notin CrashesAt
  PROVE  /\ \A a \in Addresses : SayGoodbye(a) \/ Expire(a) => OneId'
         /\ Attach \/ PollAnswered \/ PollUnknown \/ PollFails \/ Detach => OneId'
         /\ \A s \in Servers : Claims(s) \/ Releases(s) \/ Rebuilt(s) \/ Fails(s) \/ Returns(s) => OneId'
         /\ \A s \in Servers, a \in Addresses : MovesTo(s, a) => OneId'
         /\ UNCHANGED vars => OneId'
         /\ \A p \in Paths : Edit(p) => OneId'
         /\ Crash \/ Remount => OneId'
<1>1. ASSUME UNCHANGED <<disk, writable, config, write, introduced>>,
             pc = pc' \/ (pc \notin {"off", "booting"} /\ pc' \notin {"off", "booting"})
      PROVE  OneId'
  <2>1. InMemory' = InMemory
    BY <1>1 DEF InMemory
  <2> QED
    BY <1>1, <2>1, SameIds
<1>2. ASSUME NEW a \in Addresses, SayGoodbye(a) \/ Expire(a) PROVE OneId'
  BY <1>1, <1>2 DEF SayGoodbye, Expire, files
<1>3. ASSUME Attach \/ PollAnswered \/ PollUnknown \/ PollFails \/ Detach PROVE OneId'
  BY <1>1, <1>3 DEF Attach, PollAnswered, PollUnknown, PollFails, Detach, files
<1>4. ASSUME NEW s \in Servers, Claims(s) \/ Releases(s) \/ Rebuilt(s) \/ Fails(s) \/ Returns(s)
      PROVE  OneId'
  BY <1>1, <1>4 DEF Claims, Releases, Rebuilt, Fails, Returns, device, files
<1>5. ASSUME NEW s \in Servers, NEW a \in Addresses, MovesTo(s, a) PROVE OneId'
  BY <1>1, <1>5 DEF MovesTo, device, files
<1>6. ASSUME UNCHANGED vars PROVE OneId'
  BY <1>1, <1>6 DEF vars, files
<1>7. ASSUME NEW p \in Paths, Edit(p) PROVE OneId'
  <2>1. disk[p] \in Config /\ disk[p].id \in Ids /\ pc = "off" /\ pc' = "off"
    BY <1>7, ConfigData DEF Edit
  <2>2. \/ \E a \in Pins : disk' = [disk EXCEPT ![p] = Pinned(disk[p], a)]
        \/ disk' = [disk EXCEPT ![p] = Unreadable(disk[p].id)]
    BY <1>7 DEF Edit
  <2>3. IdsOn(p)' = {disk[p].id} /\ IdsOn(p) = {disk[p].id}
    <3>1. \A a \in Pins : Pinned(disk[p], a) \in Config /\ Pinned(disk[p], a).id = disk[p].id
      BY <2>1, ConfigData, AddressesAssumption
    <3>2. /\ Unreadable(disk[p].id) \in Broken /\ Unreadable(disk[p].id) \notin Config
          /\ Unreadable(disk[p].id).rescued = disk[p].id /\ disk[p].id # None
      BY <2>1, BrokenData, BrokenIsBroken, NoneIsNothing
    <3>3. (disk'[p] \in Config /\ disk'[p].id = disk[p].id) \/ disk'[p] = Unreadable(disk[p].id)
      BY <2>2, <3>1 DEF IInv, TypeOK
    <3> QED
      BY <2>1, <3>2, <3>3 DEF IdsOn
  <2>4. \A q \in Paths : q # p => IdsOn(q)' = IdsOn(q)
    BY <2>2 DEF IdsOn, IInv, TypeOK
  <2>5. OnDisk' = OnDisk
    BY <2>3, <2>4 DEF OnDisk, Paths
  <2>6. Known' = Known
    BY <1>7, <2>5 DEF Known, InMemory, Edit
  <2> QED
    BY <1>7, <2>1, <2>5, <2>6 DEF OneId, Edit
<1>8. ASSUME Crash PROVE OneId'
  <2>1. pc \notin {"off", "booting"} /\ (write # None => ~write.open)
    BY <1>8, CrashesAssumption DEF Crash
  <2>2. OnDisk' = OnDisk /\ InMemory' = {} /\ introduced' = introduced /\ pc' = "off"
    BY <1>8 DEF Crash, files, OnDisk, IdsOn, InMemory
  <2>3. Known' \subseteq Known
    BY <2>2 DEF Known
  <2>4. \A j, k \in Known' : j = k
    BY <2>3 DEF OneId
  <2> QED
    BY <2>1, <2>2, <2>4 DEF OneId
<1>9. ASSUME Remount PROVE OneId'
  <2>1. OnDisk' = OnDisk /\ InMemory' = InMemory /\ introduced' = introduced /\ pc' = "off"
    BY <1>9 DEF Remount, OnDisk, IdsOn, InMemory
  <2>2. Known' = Known
    BY <2>1 DEF Known
  <2> QED
    BY <1>9, <2>1, <2>2 DEF OneId, Remount
<1> QED
  BY <1>2, <1>3, <1>4, <1>5, <1>6, <1>7, <1>8, <1>9

\* The servers get to know one id, through typos, restarts and changes of the
\* path, of a device that keeps its rights and loses power neither while a file
\* is written nor between moving a broken one aside and writing its successor.
\* Both conditions are needed: the device comes back as another without them.
THEOREM KeepsItsIdentity ==
  ASSUME ~LosesRights, ~TornWrites, "booting" \notin CrashesAt
  PROVE  Spec => []OneIdentity
<1>1. Init => OneId
  BY InitOneId
<1>2. IInv /\ OneId /\ [Next]_vars => OneId'
  <2> SUFFICES ASSUME IInv, OneId, [Next]_vars PROVE OneId'
    OBVIOUS
  <2>1. CASE Device
    <3>1. Boot \/ BootAfresh => OneId'
      BY BootOneId
    <3>2. OpenFile \/ TryFallback \/ FillFile \/ GiveUpWriting => OneId'
      BY WriteOneId
    <3> QED
      BY <2>1, <3>1, <3>2, AnnounceOneId, AroundOneId DEF Device
  <2>2. CASE (\E a \in Addresses : Expire(a)) \/ Environment \/ UNCHANGED vars
    BY <2>2, AroundOneId DEF Environment
  <2> QED
    BY <2>1, <2>2 DEF Next
<1>3. OneId => OneIdentity
  <2> SUFFICES ASSUME OneId PROVE Cardinality(introduced) <= 1
    BY DEF OneIdentity
  <2>1. CASE introduced = {}
    BY <2>1, FS_EmptySet
  <2>2. CASE introduced # {}
    <3>1. PICK i \in introduced : TRUE
      BY <2>2
    <3>2. introduced = {i}
      BY <3>1 DEF OneId, Known
    <3> QED
      BY <3>2, FS_Singleton
  <2> QED
    BY <2>1, <2>2
<1> QED
  BY <1>1, <1>2, <1>3, AlwaysIInv, PTL DEF Spec

-----------------------------------------------------------------------------
(* Goodbyes *)

\* The server that was chosen is never among those to be told that it was not.
ChosenIsNotTold == pc = "farewell" => server \notin farewell

\* Only Choose makes up the list, and it leaves the one chosen out.
LEMMA NotToldNext == ChosenIsNotTold /\ [Next]_vars => ChosenIsNotTold'
<1> SUFFICES ASSUME ChosenIsNotTold, [Next]_vars PROVE ChosenIsNotTold'
  OBVIOUS
<1>1. CASE UNCHANGED <<pc, server, farewell>>
  BY <1>1 DEF ChosenIsNotTold
<1>2. CASE pc' # "farewell"
  BY <1>2 DEF ChosenIsNotTold
<1>3. CASE Choose
  BY <1>3 DEF Choose, ChosenIsNotTold
<1>4. ASSUME NEW a \in Addresses, SayGoodbye(a) PROVE ChosenIsNotTold'
  BY <1>4 DEF SayGoodbye, ChosenIsNotTold
<1>5. Boot \/ BootAfresh \/ Discover \/ NobodyHasIt \/ Attach \/ Detach \/ Crash => pc' # "farewell"
  BY DEF Boot, BootAfresh, Discover, NobodyHasIt, Attach, Detach, Crash
<1>6. PollAnswered \/ PollUnknown \/ PollFails => pc' # "farewell"
  BY DEF PollAnswered, PollUnknown, PollFails
<1>7. OpenFile \/ TryFallback => UNCHANGED <<pc, server, farewell>>
  BY DEF OpenFile, TryFallback, attaching
<1>8. FillFile \/ GiveUpWriting => UNCHANGED <<pc, server, farewell>> \/ pc' # "farewell"
  BY DEF FillFile, GiveUpWriting, attaching
<1>9. \A a \in Addresses :
        RegisterClaimed(a) \/ RegisterUnclaimed(a) \/ RegisterDeclined(a) \/ RegisterFails(a) \/ Expire(a)
          => UNCHANGED <<pc, server, farewell>>
  BY DEF RegisterClaimed, RegisterUnclaimed, RegisterDeclined, RegisterFails, Expire, attaching
<1>10. \A s \in Servers :
         /\ Claims(s) \/ Releases(s) \/ Rebuilt(s) \/ Fails(s) \/ Returns(s)
              => UNCHANGED <<pc, server, farewell>>
         /\ \A a \in Addresses : MovesTo(s, a) => UNCHANGED <<pc, server, farewell>>
  BY DEF Claims, Releases, Rebuilt, Fails, Returns, MovesTo, device, attaching
<1>11. /\ \A p \in Paths : Edit(p) => UNCHANGED <<pc, server, farewell>>
       /\ Remount \/ UNCHANGED vars => UNCHANGED <<pc, server, farewell>>
  BY DEF Edit, Remount, vars, attaching
<1> QED
  BY <1>1, <1>2, <1>3, <1>4, <1>5, <1>6, <1>7, <1>8, <1>9, <1>10, <1>11, Zenon DEF Next, Device, Environment

\* A step that both changes the list and makes a server let go is a goodbye.
LEMMA OnlyGoodbyesTell ==
  ASSUME [Next]_vars, farewell' # farewell, claim' # claim
  PROVE  \E a \in Addresses : SayGoodbye(a)
<1>1. ~Boot /\ ~BootAfresh /\ ~OpenFile /\ ~TryFallback /\ ~FillFile /\ ~GiveUpWriting /\ ~Discover
  BY DEF Boot, BootAfresh, OpenFile, TryFallback, FillFile, GiveUpWriting, Discover, attaching
<1>2. ~NobodyHasIt /\ ~Choose /\ ~Attach /\ ~PollAnswered /\ ~PollUnknown /\ ~PollFails /\ ~Detach
  BY DEF NobodyHasIt, Choose, Attach, PollAnswered, PollUnknown, PollFails, Detach, attaching, servers
<1>3. \A a \in Addresses :
        ~(RegisterClaimed(a) \/ RegisterUnclaimed(a) \/ RegisterDeclined(a) \/ RegisterFails(a) \/ Expire(a))
  BY DEF RegisterClaimed, RegisterUnclaimed, RegisterDeclined, RegisterFails, Expire, attaching
<1>4. \A s \in Servers :
        /\ ~(Claims(s) \/ Releases(s) \/ Rebuilt(s) \/ Fails(s) \/ Returns(s))
        /\ \A a \in Addresses : ~MovesTo(s, a)
  BY DEF Claims, Releases, Rebuilt, Fails, Returns, MovesTo, device, attaching
<1>5. ~Crash /\ ~Remount /\ ~UNCHANGED vars /\ \A p \in Paths : ~Edit(p)
  BY DEF Crash, Edit, Remount, vars, attaching, servers
<1> QED
  BY <1>1, <1>2, <1>3, <1>4, <1>5, Zenon DEF Next, Device, Environment

\* A server is only told that the device went elsewhere when it did, and when
\* a restart at that moment would find the device there.
THEOREM OthersAreTold == ASSUME ~LosesRights PROVE Spec => GoodbyesToOthers
<1> DEFINE Told(s) == farewell' # farewell /\ claim'[s] # claim[s]
           Elsewhere(s) == /\ at[s] # config.attached
                           /\ Loaded # None /\ Loaded.attached = config.attached
<1>1. ASSUME IInv, ChosenIsNotTold, [Next]_vars, NEW s \in Servers, Told(s) PROVE Elsewhere(s)
  <2>1. claim' # claim
    BY <1>1
  <2>2. PICK a \in Addresses : SayGoodbye(a)
    BY <1>1, <2>1, OnlyGoodbyesTell
  <2>3. pc = "farewell" /\ write = None /\ a \in farewell
    BY <2>2 DEF SayGoodbye
  <2>4. PICK r \in Answering(a) : LetsGo(r)
    BY <2>1, <2>2 DEF SayGoodbye
  <2>5. claim' = [claim EXCEPT ![r] = "none"] /\ claim \in [Servers -> {"noApi", "none", "claimed", "hand"}]
    BY <1>1, <2>4 DEF LetsGo, IInv, TypeOK
  <2>6. at[s] = a
    BY <1>1, <2>4, <2>5 DEF Answering
  <2>7. config.attached = server /\ server \notin farewell
    BY <1>1, <2>3 DEF IInv, FilesOK, Places, ChosenIsNotTold
  <2>8. Loaded = config /\ config # None
    BY <1>1, <2>3 DEF IInv, TypeOK, FilesOK, MemoryOnDisk
  <2> QED
    BY <2>3, <2>6, <2>7, <2>8
<1>2. IInv /\ ChosenIsNotTold /\ [Next]_vars => [\A s \in Servers : Told(s) => Elsewhere(s)]_vars
  BY <1>1
<1>3. Init => ChosenIsNotTold
  BY DEF Init, ChosenIsNotTold
<1> QED
  BY <1>2, <1>3, NotToldNext, AlwaysIInv, PTL DEF GoodbyesToOthers, Spec

-----------------------------------------------------------------------------
(* Staying home *)

\* No two servers are found at one address.
Apart == \A r, s \in Servers : r # s => at[r] # at[s]

\* Answers are only collected while the device announces itself.
NothingHeardElsewhere == claimedBy # {} => pc = "announce"

\* A server only ever moves to an address nobody has, and each round of
\* announcements starts with no answer.
LEMMA RoundsNext ==
  TypeOK /\ Apart /\ NothingHeardElsewhere /\ [Next]_vars => Apart' /\ NothingHeardElsewhere'
<1> SUFFICES ASSUME TypeOK, Apart, NothingHeardElsewhere, [Next]_vars
             PROVE  Apart' /\ NothingHeardElsewhere'
  OBVIOUS
<1>1. CASE UNCHANGED <<at, claimedBy, pc>>
  BY <1>1 DEF Apart, NothingHeardElsewhere
<1>2. CASE UNCHANGED at /\ claimedBy' = {}
  BY <1>2 DEF Apart, NothingHeardElsewhere
<1>3. CASE UNCHANGED <<at, claimedBy>> /\ pc # "announce"
  BY <1>3 DEF Apart, NothingHeardElsewhere
<1>4. CASE UNCHANGED at /\ pc' = "announce"
  BY <1>4 DEF Apart, NothingHeardElsewhere
<1>5. ASSUME NEW s \in Servers, NEW a \in Addresses, MovesTo(s, a)
      PROVE  Apart' /\ NothingHeardElsewhere'
  <2>1. /\ \A r \in Servers : at'[r] = IF r = s THEN a ELSE at[r]
        /\ \A r \in Servers : at[r] # a
        /\ UNCHANGED <<claimedBy, pc>>
    BY <1>5 DEF MovesTo, TypeOK, device, announcing
  <2> QED
    BY <2>1 DEF Apart, NothingHeardElsewhere
<1>6. /\ Boot \/ BootAfresh => UNCHANGED <<at, claimedBy>> /\ pc # "announce"
      /\ OpenFile \/ TryFallback => UNCHANGED <<at, claimedBy, pc>>
      /\ FillFile \/ GiveUpWriting => UNCHANGED <<at, claimedBy>> /\ (pc' = pc \/ pc # "announce")
  BY DEF Boot, BootAfresh, OpenFile, TryFallback, FillFile, GiveUpWriting, announcing, servers
<1>7. /\ Discover => UNCHANGED at /\ pc' = "announce"
      /\ \A a \in Addresses :
           RegisterClaimed(a) \/ RegisterUnclaimed(a) \/ RegisterDeclined(a) \/ RegisterFails(a)
             => UNCHANGED at /\ pc' = "announce"
      /\ NobodyHasIt \/ Choose \/ Crash => UNCHANGED at /\ claimedBy' = {}
  BY DEF Discover, RegisterClaimed, RegisterUnclaimed, RegisterDeclined, RegisterFails, MayAsk,
         NobodyHasIt, Choose, Crash, announcing, servers
<1>8. /\ \A a \in Addresses : SayGoodbye(a) => UNCHANGED <<at, claimedBy, pc>>
      /\ Attach \/ PollAnswered \/ PollUnknown \/ PollFails \/ Detach
           => UNCHANGED <<at, claimedBy>> /\ pc # "announce"
  BY DEF SayGoodbye, Attach, PollAnswered, PollUnknown, PollFails, Detach, announcing, servers
<1>9. \A s \in Servers :
        Claims(s) \/ Releases(s) \/ Rebuilt(s) \/ Fails(s) \/ Returns(s) => UNCHANGED <<at, claimedBy, pc>>
  BY DEF Claims, Releases, Rebuilt, Fails, Returns, device, announcing
<1>10. /\ \A a \in Addresses : Expire(a) => UNCHANGED <<at, claimedBy, pc>>
       /\ \A p \in Paths : Edit(p) => UNCHANGED <<at, claimedBy, pc>>
       /\ Remount \/ UNCHANGED vars => UNCHANGED <<at, claimedBy, pc>>
  BY DEF Expire, Edit, Remount, vars, announcing, servers
<1>11. CASE Device
  <2>1. CASE Boot \/ BootAfresh \/ OpenFile \/ TryFallback \/ FillFile \/ GiveUpWriting
    BY <2>1, <1>1, <1>3, <1>6
  <2>2. CASE \/ Discover \/ NobodyHasIt \/ Choose
             \/ \E a \in Addresses :
                  RegisterClaimed(a) \/ RegisterUnclaimed(a) \/ RegisterDeclined(a) \/ RegisterFails(a)
    BY <2>2, <1>2, <1>4, <1>7
  <2>3. CASE \/ \E a \in Addresses : SayGoodbye(a)
             \/ Attach \/ PollAnswered \/ PollUnknown \/ PollFails \/ Detach
    BY <2>3, <1>1, <1>3, <1>8
  <2> QED
    BY <1>11, <2>1, <2>2, <2>3 DEF Device
<1>12. CASE Environment
  BY <1>12, <1>1, <1>2, <1>5, <1>7, <1>9, <1>10 DEF Environment
<1>13. CASE (\E a \in Addresses : Expire(a)) \/ UNCHANGED vars
  BY <1>13, <1>1, <1>10
<1> QED
  BY <1>11, <1>12, <1>13 DEF Next

\* What a device that belongs at a remembers, whether it runs or not, and that
\* it has heard of nobody else who claimed it by hand.
AtHome(a) ==
  /\ pc = "off" => Loaded # None /\ Loaded.attached = a
  /\ pc # "off" => write = None /\ config.attached = a
  /\ ByHand \subseteq {a}

\* A step that leaves its memory and what it heard alone, and keeps it running.
LEMMA HomeQuiet ==
  ASSUME NEW a, AtHome(a), pc # "off", pc' # "off", UNCHANGED <<config, write, claimedBy>>
  PROVE  AtHome(a)'
BY DEF AtHome, ByHand

\* A start comes back to it, and it has nothing to write.
LEMMA HomeBoot ==
  ASSUME NEW a, IInv, AtHome(a),
         Boot \/ BootAfresh \/ OpenFile \/ TryFallback \/ FillFile \/ GiveUpWriting
  PROVE  AtHome(a)'
<1>1. pc # "off" => ~OpenFile /\ ~TryFallback /\ ~FillFile /\ ~GiveUpWriting
  BY DEF AtHome, OpenFile, TryFallback, FillFile, GiveUpWriting
<1>2. pc = "off" => ~OpenFile /\ ~TryFallback /\ ~FillFile /\ ~GiveUpWriting
  BY DEF IInv, FilesOK, Places, OpenFile, TryFallback, FillFile, GiveUpWriting
<1>3. ~BootAfresh
  BY DEF AtHome, BootAfresh
<1>4. Boot
  BY <1>1, <1>2, <1>3
<1>5. pc = "off" /\ pc' = "search" /\ config' = Loaded /\ UNCHANGED <<write, claimedBy>>
  BY <1>4 DEF Boot, announcing
<1>6. write = None /\ Loaded # None /\ Loaded.attached = a
  BY <1>5 DEF AtHome, IInv, FilesOK, Places
<1> QED
  BY <1>5, <1>6 DEF AtHome, ByHand

\* Its server claims it, or says nothing: whatever the others answer, it waits
\* or goes back.
LEMMA HomeAnnounce ==
  ASSUME IInv, Apart, NEW s \in Servers, Keeps(s), AtHome(FirstAt[s])
  PROVE  /\ Discover \/ NobodyHasIt \/ Choose => AtHome(FirstAt[s])'
         /\ \A a \in Addresses :
              RegisterClaimed(a) \/ RegisterUnclaimed(a) \/ RegisterDeclined(a) \/ RegisterFails(a)
                => AtHome(FirstAt[s])'
<1> DEFINE home == FirstAt[s]
<1>1. at[s] = home /\ home \in Addresses
  BY AddressesAssumption DEF Keeps
<1>2. pc = "announce" => write = None /\ config.attached = home
  BY DEF AtHome
<1>3. ASSUME Discover \/ NobodyHasIt PROVE AtHome(home)'
  <2>1. pc # "off" /\ pc' # "off" /\ UNCHANGED <<config, write>> /\ claimedBy' \in {claimedBy, {}}
    BY <1>3 DEF Discover, NobodyHasIt, Announced
  <2> QED
    BY <2>1 DEF AtHome, ByHand
<1>4. ASSUME Choose PROVE AtHome(home)'
  <2>1. PICK a \in Foremost : Remember(a)
    BY <1>4 DEF Choose
  <2>2. pc = "announce" /\ pc' = "farewell" /\ ~Waits /\ claimedBy' = {}
    BY <1>4 DEF Choose, Announced
  <2>3. config.attached = home /\ home # None
    BY <1>1, <1>2, <2>2, NoneIsNothing
  <2>4. ByHand \subseteq {home}
    BY DEF AtHome
  <2>5. a = home
    BY <2>1, <2>2, <2>3, <2>4 DEF Waits, Foremost
  <2>6. UNCHANGED <<config, write>>
    BY <2>1, <2>3, <2>5 DEF Remember
  <2> QED
    BY <1>2, <2>2, <2>6 DEF AtHome, ByHand
<1>5. ASSUME NEW a \in Addresses, RegisterClaimed(a) PROVE AtHome(home)'
  <2>1. PICK r \in Answering(a) : claimedBy' = claimedBy \cup {ClaimOf(r, a)}
    BY <1>5 DEF RegisterClaimed
  <2>2. r \in Servers /\ at[r] = a
    BY <2>1 DEF Answering, IInv, TypeOK
  <2>3. ClaimOf(r, a).hand => ClaimOf(r, a).addr = home
    BY <1>1, <2>2 DEF ClaimOf, Keeps
  <2>4. ByHand' \subseteq {home}
    BY <2>1, <2>3 DEF ByHand, AtHome
  <2>5. pc = "announce" /\ pc' = "announce" /\ UNCHANGED <<config, write>>
    BY <1>5 DEF RegisterClaimed, MayAsk
  <2> QED
    BY <1>2, <2>4, <2>5 DEF AtHome
<1>6. ASSUME NEW a \in Addresses, RegisterUnclaimed(a) PROVE AtHome(home)'
  <2>1. PICK r \in Answering(a) : claim[r] = "none"
    BY <1>6 DEF RegisterUnclaimed
  <2>2. r \in Servers /\ at[r] = a /\ r # s
    BY <2>1 DEF Answering, IInv, TypeOK, Keeps
  <2>3. a # home
    BY <1>1, <2>2 DEF Apart
  <2>4. pc = "announce" /\ pc' = "announce" /\ UNCHANGED claimedBy
    BY <1>6 DEF RegisterUnclaimed, MayAsk
  <2>5. UNCHANGED <<config, write>>
    BY <1>2, <1>6, <2>3, <2>4 DEF RegisterUnclaimed
  <2> QED
    BY <2>4, <2>5, HomeQuiet
<1>7. ASSUME NEW a \in Addresses, RegisterDeclined(a) \/ RegisterFails(a) PROVE AtHome(home)'
  <2>1. pc = "announce" /\ pc' = "announce" /\ UNCHANGED <<config, write, claimedBy>>
    BY <1>7 DEF RegisterDeclined, RegisterFails, MayAsk
  <2> QED
    BY <2>1, HomeQuiet
<1> QED
  BY <1>3, <1>4, <1>5, <1>6, <1>7

\* Losing power, or another pin, does not change what it remembers.
LEMMA HomeAround ==
  ASSUME IInv, ~Typos, NEW a, AtHome(a)
  PROVE  /\ Crash \/ Remount \/ UNCHANGED vars => AtHome(a)'
         /\ \A p \in Paths : Edit(p) => AtHome(a)'
<1>1. ASSUME UNCHANGED <<disk, pc, config, write, claimedBy>> PROVE AtHome(a)'
  BY <1>1 DEF AtHome, Loaded, ByHand
<1>2. ASSUME Crash PROVE AtHome(a)'
  <2>1. pc' = "off" /\ Loaded' = Loaded /\ ByHand' = {}
    BY <1>2 DEF Crash, files, Loaded, ByHand
  <2>2. Loaded # None /\ Loaded.attached = a
    BY DEF AtHome, IInv, FilesOK, MemoryOnDisk, TypeOK
  <2> QED
    BY <2>1, <2>2 DEF AtHome
<1>3. ASSUME NEW p \in Paths, Edit(p) PROVE AtHome(a)'
  <2>1. PICK b \in Pins : disk' = [disk EXCEPT ![p] = Pinned(disk[p], b)]
    BY <1>3 DEF Edit
  <2>2. pc = "off" /\ pc' = "off" /\ disk[p] \in Config /\ UNCHANGED claimedBy
    BY <1>3 DEF Edit, announcing
  <2>3. /\ disk'[p] = Pinned(disk[p], b)
        /\ \A q \in Paths : q # p => disk'[q] = disk[q]
    BY <2>1 DEF IInv, TypeOK
  <2>4. Pinned(disk[p], b) \in Config /\ Pinned(disk[p], b).attached = disk[p].attached
    BY <2>2, AddressesAssumption DEF Pinned, Config
  <2>5. Loaded' # None /\ Loaded'.attached = a
    BY <2>2, <2>3, <2>4, NoneIsNothing DEF AtHome, Loaded, Paths, Preferred, Fallback
  <2> QED
    BY <2>2, <2>5 DEF AtHome, ByHand
<1> QED
  BY <1>1, <1>2, <1>3 DEF Remount, vars, files, announcing

\* While its server keeps it, no step takes the device elsewhere.
LEMMA HomeNextStep ==
  ASSUME ~Typos, NEW s \in Servers, IInv, Apart, Keeps(s), AtHome(FirstAt[s]), [Next]_vars
  PROVE  AtHome(FirstAt[s])'
<1> DEFINE home == FirstAt[s]
<1>1. CASE Device
  <2>1. CASE Boot \/ BootAfresh \/ OpenFile \/ TryFallback \/ FillFile \/ GiveUpWriting
    BY <2>1, HomeBoot
  <2>2. CASE \/ Discover \/ NobodyHasIt \/ Choose
             \/ \E a \in Addresses :
                  RegisterClaimed(a) \/ RegisterUnclaimed(a) \/ RegisterDeclined(a) \/ RegisterFails(a)
    BY <2>2, HomeAnnounce
  <2>3. CASE \/ \E a \in Addresses : SayGoodbye(a)
             \/ Attach \/ PollAnswered \/ PollUnknown \/ PollFails \/ Detach
    <3>1. pc # "off" /\ pc' # "off" /\ UNCHANGED <<config, write, claimedBy>>
      BY <2>3 DEF SayGoodbye, Attach, PollAnswered, PollUnknown, PollFails, Detach, announcing
    <3> QED
      BY <3>1, HomeQuiet
  <2> QED
    BY <1>1, <2>1, <2>2, <2>3 DEF Device
<1>2. CASE Environment
  <2>1. CASE Crash \/ Remount \/ \E p \in Paths : Edit(p)
    BY <2>1, HomeAround
  <2>2. CASE \/ \E r \in Servers : Claims(r) \/ Releases(r) \/ Rebuilt(r) \/ Fails(r) \/ Returns(r)
             \/ \E r \in Servers, a \in Addresses : MovesTo(r, a)
    <3>1. UNCHANGED <<disk, pc, config, write, claimedBy>>
      BY <2>2 DEF Claims, Releases, Rebuilt, Fails, Returns, MovesTo, device, files, announcing
    <3> QED
      BY <3>1 DEF AtHome, Loaded, ByHand
  <2> QED
    BY <1>2, <2>1, <2>2 DEF Environment
<1>3. CASE \E a \in Addresses : Expire(a)
  <2>1. UNCHANGED <<disk, pc, config, write, claimedBy>>
    BY <1>3 DEF Expire, files, announcing
  <2> QED
    BY <2>1 DEF AtHome, Loaded, ByHand
<1>4. CASE UNCHANGED vars
  BY <1>4, HomeAround
<1> QED
  BY <1>1, <1>2, <1>3, <1>4 DEF Next

\* A device that keeps its rights and whose file nobody breaks stays with the
\* server it plays for, for as long as that server does not let it go and
\* nobody claims it by hand elsewhere: through power loss at any moment, pins,
\* outages, restarts and address changes of the others.
THEOREM StaysWithItsServer == ASSUME ~LosesRights, ~Typos PROVE Spec => StaysHome
<1> SUFFICES ASSUME NEW s \in Servers
             PROVE  Spec => []((pc = "serving" /\ server = at[s] /\ []Keeps(s))
                               => [](pc = "serving" => server = FirstAt[s]))
  BY DEF StaysHome
<1>1. IInv /\ NothingHeardElsewhere /\ pc = "serving" /\ server = at[s] /\ Keeps(s)
        => AtHome(FirstAt[s])
  BY DEF IInv, FilesOK, Places, NothingHeardElsewhere, Keeps, AtHome, ByHand
<1>2. IInv /\ Apart /\ Keeps(s) /\ AtHome(FirstAt[s]) /\ [Next]_vars => AtHome(FirstAt[s])'
  BY HomeNextStep
<1>3. IInv /\ AtHome(FirstAt[s]) => (pc = "serving" => server = FirstAt[s])
  BY DEF IInv, FilesOK, Places, AtHome
<1>4. Init => Apart /\ NothingHeardElsewhere
  BY AddressesAssumption DEF Init, Apart, NothingHeardElsewhere
<1>5. IInv => TypeOK
  BY DEF IInv
<1> QED
  BY <1>1, <1>2, <1>3, <1>4, <1>5, RoundsNext, AlwaysIInv, PTL DEF Spec

-----------------------------------------------------------------------------
(* The end of a round *)

\* The device announces itself, says goodbye, or writes its first file.
UnderWay == pc \in {"booting", "announce", "farewell"}

\* The steps a write has left at most: on each path, opening and filling.
WriteSteps(w) ==
  IF w = None THEN 0
  ELSE (IF w.path = Preferred THEN 2 ELSE 0) + (IF w.open THEN 1 ELSE 2)

\* What each candidate may cost: all attempts, and a memory to be written.
PerCandidate == RegisterAttempts + 5

\* The steps left with n candidates, t attempts made, w under way and m to tell.
StepsWith(place, n, t, w, m) ==
  IF place = "announce"
  THEN n * PerCandidate + (RegisterAttempts - t) + w + Cardinality(Addresses) + 7
  ELSE IF place = "farewell" THEN m + w + 1
  ELSE IF place = "booting" THEN w + 1
  ELSE 0

\* The steps a round has left at most.
StepsLeft ==
  StepsWith(pc, Cardinality(toAsk), tries, WriteSteps(write), Cardinality(farewell))

\* A step of the device is one of those; the others leave it where it is.
NearerTheEnd ==
  UnderWay => StepsLeft' < StepsLeft \/ UNCHANGED <<pc, toAsk, tries, write, farewell>>

\* What one candidate less, and no more candidates than addresses, come to.
LEMMA Candidates ==
  ASSUME NEW n \in Nat, NEW k \in Nat
  PROVE  /\ n * k \in Nat
         /\ n > 0 => (n - 1) * k = n * k - k
         /\ \A m \in 0..n : m * k <= n * k
<1>1. n * k \in Nat /\ (n - 1) * k = n * k - k
  OBVIOUS
<1>2. ASSUME NEW m \in 0..n PROVE m * k <= n * k
  <2>1. n - m \in Nat /\ n = m + (n - m)
    OBVIOUS
  <2>2. (n - m) * k \in Nat
    BY <2>1
  <2>3. (n - m) * k = n * k - m * k
    OBVIOUS
  <2> QED
    BY <2>2, <2>3
<1> QED
  BY <1>1, <1>2

\* Sets of addresses are finite, and no larger than that of all.
LEMMA AddressesCounted ==
  ASSUME IsFiniteSet(Addresses)
  PROVE  /\ Cardinality(Addresses) \in Nat
         /\ \A S \in SUBSET Addresses :
              /\ Cardinality(S) \in 0 .. Cardinality(Addresses)
              /\ \A a \in S : Cardinality(S) > 0 /\ Cardinality(S \ {a}) = Cardinality(S) - 1
<1>1. Cardinality(Addresses) \in Nat
  BY FS_CardinalityType
<1>2. ASSUME NEW S \in SUBSET Addresses
      PROVE  /\ Cardinality(S) \in 0 .. Cardinality(Addresses)
             /\ \A a \in S : Cardinality(S) > 0 /\ Cardinality(S \ {a}) = Cardinality(S) - 1
  <2>1. IsFiniteSet(S) /\ Cardinality(S) \in Nat /\ Cardinality(S) <= Cardinality(Addresses)
    BY FS_Subset, FS_CardinalityType
  <2>2. \A a \in S : Cardinality(S \ {a}) = Cardinality(S) - 1 /\ Cardinality(S \ {a}) \in Nat
    BY <2>1, FS_RemoveElement, FS_CardinalityType
  <2> QED
    BY <1>1, <2>1, <2>2
<1> QED
  BY <1>1, <1>2

\* The stages of a write cost less and less.
LEMMA WriteNearer ==
  /\ WriteSteps(None) = 0
  /\ \A w \in Writing :
       /\ WriteSteps(w) \in 1..4
       /\ ~w.open => WriteSteps(Opened(w)) < WriteSteps(w)
       /\ w.path = Preferred => WriteSteps(OnFallback(w)) < WriteSteps(w)
  /\ \A c \in Config : Unopened(c) \in Writing
<1>1. \A w \in Writing : w # None
  BY AbsentAssumption
<1>2. \A c \in Config : Unopened(c) \in Writing
  BY DEF Writing, Unopened, Paths
<1>3. ASSUME NEW w \in Writing
      PROVE  /\ WriteSteps(w) \in 1..4
             /\ ~w.open => WriteSteps(Opened(w)) < WriteSteps(w)
             /\ w.path = Preferred => WriteSteps(OnFallback(w)) < WriteSteps(w)
  <2>1. /\ Opened(w) \in Writing /\ Opened(w).path = w.path /\ Opened(w).open = TRUE
        /\ OnFallback(w) \in Writing /\ OnFallback(w).path = Fallback /\ OnFallback(w).open = w.open
        /\ w.open \in BOOLEAN
    BY DEF Writing, Opened, OnFallback, Paths
  <2> QED
    BY <1>1, <2>1 DEF WriteSteps, Preferred, Fallback
<1>4. WriteSteps(None) = 0
  BY DEF WriteSteps
<1> QED
  BY <1>2, <1>3, <1>4

\* An attempt costs the candidate, or one of its attempts.
LEMMA RegisterNearer ==
  ASSUME IsFiniteSet(Addresses), TypeOK, TypeOK', NEW a \in Addresses, MayAsk(a), pc' = pc,
         \/ Asked(a) /\ (write' = write \/ \E c \in Config : write' = Unopened(c))
         \/ toAsk' = toAsk /\ tries' = tries + 1 /\ write' = write
  PROVE  StepsLeft' < StepsLeft
<1>1. pc = "announce" /\ write = None /\ a \in toAsk
  BY DEF MayAsk
<1> DEFINE n == Cardinality(toAsk)  k == PerCandidate
<1>2. /\ Cardinality(Addresses) \in Nat /\ n \in Nat /\ n > 0
      /\ Cardinality(toAsk \ {a}) = n - 1
      /\ RegisterAttempts \in Nat /\ k = RegisterAttempts + 5 /\ k \in Nat
      /\ tries \in 0 .. RegisterAttempts - 1 /\ tries' \in 0 .. RegisterAttempts - 1
  BY <1>1, AddressesCounted, BoundsAssumption DEF TypeOK, PerCandidate
<1>3. n * k \in Nat /\ (n - 1) * k = n * k - k
  BY <1>2, Candidates
<1>4. StepsLeft = n * k + (RegisterAttempts - tries) + Cardinality(Addresses) + 7
  BY <1>1, <1>2, <1>3, WriteNearer DEF StepsLeft, StepsWith
<1>5. CASE Asked(a)
  <2>1. toAsk' = toAsk \ {a} /\ tries' = 0 /\ WriteSteps(write)' \in 0..4
    BY <1>1, <1>2, <1>5, WriteNearer DEF Asked
  <2>2. StepsLeft' = (n - 1) * k + RegisterAttempts + WriteSteps(write)' + Cardinality(Addresses) + 7
    BY <1>1, <1>2, <1>3, <2>1 DEF StepsLeft, StepsWith
  <2> HIDE DEF n, k
  <2> QED
    BY <1>2, <1>3, <1>4, <2>1, <2>2
<1>6. CASE toAsk' = toAsk /\ tries' = tries + 1 /\ write' = write
  <2>1. StepsLeft' = n * k + (RegisterAttempts - (tries + 1)) + Cardinality(Addresses) + 7
    BY <1>1, <1>2, <1>3, <1>6, WriteNearer DEF StepsLeft, StepsWith
  <2> HIDE DEF n, k
  <2> QED
    BY <1>2, <1>3, <1>4, <2>1
<1> QED
  BY <1>5, <1>6

\* Each step takes the round nearer to its end.
LEMMA StepNearerTheEnd ==
  ASSUME IsFiniteSet(Addresses), TypeOK, TypeOK', Next, UnderWay
  PROVE  StepsLeft' < StepsLeft \/ UNCHANGED <<pc, toAsk, tries, write, farewell>>
<1>0. /\ Cardinality(Addresses) \in Nat /\ RegisterAttempts \in Nat
      /\ Cardinality(toAsk) \in Nat /\ PerCandidate \in Nat
      /\ tries \in 0 .. RegisterAttempts - 1
      /\ Cardinality(farewell) \in 0 .. Cardinality(Addresses)
      /\ Cardinality(farewell') \in 0 .. Cardinality(Addresses)
  BY AddressesCounted, BoundsAssumption DEF TypeOK, PerCandidate
<1>a. Cardinality(toAsk) * PerCandidate \in Nat
  BY <1>0, Candidates
<1>1. /\ WriteSteps(write) \in 0..4 /\ WriteSteps(write') \in 0..4
      /\ write \in Writing \cup {None} /\ config \in Config \cup {None}
  BY WriteNearer DEF TypeOK
<1> USE <1>0, <1>a, <1>1 DEF StepsLeft, StepsWith, UnderWay
<1>2. ASSUME OpenFile \/ TryFallback \/ FillFile \/ GiveUpWriting PROVE StepsLeft' < StepsLeft
  <2>1. /\ WriteSteps(write') < WriteSteps(write) /\ UNCHANGED <<toAsk, tries, farewell>>
        /\ pc' = pc \/ (pc = "booting" /\ pc' \in {"search", "off"})
    BY <1>2, WriteNearer DEF OpenFile, TryFallback, FillFile, GiveUpWriting, announcing, attaching
  <2> QED
    BY <2>1
<1>3. ASSUME NEW a \in Addresses,
             RegisterClaimed(a) \/ RegisterUnclaimed(a) \/ RegisterDeclined(a) \/ RegisterFails(a)
      PROVE  StepsLeft' < StepsLeft
  <2>1. MayAsk(a) /\ pc' = pc
    BY <1>3, Zenon DEF RegisterClaimed, RegisterUnclaimed, RegisterDeclined, RegisterFails
  <2>2. config # None /\ config \in Config
    BY <2>1 DEF MayAsk, TypeOK
  <2>3. \/ Asked(a) /\ (write' = write \/ write' = Unopened(Attached(config, None)))
        \/ toAsk' = toAsk /\ tries' = tries + 1 /\ write' = write
    BY <1>3 DEF RegisterClaimed, RegisterUnclaimed, RegisterDeclined, RegisterFails, Remember
  <2> QED
    BY <2>1, <2>2, <2>3, ConfigData, RegisterNearer
<1>4. ASSUME NobodyHasIt PROVE StepsLeft' < StepsLeft
  BY <1>4 DEF NobodyHasIt, Announced
<1>5. ASSUME Choose PROVE StepsLeft' < StepsLeft
  <2>1. pc = "announce" /\ pc' = "farewell" /\ write = None
    BY <1>5 DEF Choose, Announced
  <2> QED
    BY <2>1
<1>6. ASSUME NEW a \in Addresses, SayGoodbye(a) PROVE StepsLeft' < StepsLeft
  <2>1. /\ pc = "farewell" /\ a \in farewell /\ farewell' = farewell \ {a}
        /\ UNCHANGED <<pc, write>>
    BY <1>6 DEF SayGoodbye
  <2> QED
    BY <2>1, AddressesCounted DEF TypeOK
<1>7. ASSUME Attach PROVE StepsLeft' < StepsLeft
  BY <1>7 DEF Attach
<1>8. ASSUME Crash PROVE StepsLeft' < StepsLeft
  BY <1>8 DEF Crash
<1>9. CASE Environment \/ \E a \in Addresses : Expire(a)
  <2>1. CASE Crash
    BY <1>8, <2>1
  <2>2. CASE \/ \E s \in Servers : Claims(s) \/ Releases(s) \/ Rebuilt(s) \/ Fails(s) \/ Returns(s)
             \/ \E s \in Servers, a \in Addresses : MovesTo(s, a)
             \/ \E a \in Addresses : Expire(a)
    BY <2>2, Zenon DEF Claims, Releases, Rebuilt, Fails, Returns, MovesTo, Expire, device, announcing,
       attaching
  <2>3. CASE Remount \/ \E p \in Paths : Edit(p)
    BY <2>3 DEF Remount, Edit
  <2> QED
    BY <1>9, <2>1, <2>2, <2>3 DEF Environment
<1>10. CASE Boot \/ BootAfresh \/ Discover \/ PollAnswered \/ PollUnknown \/ PollFails \/ Detach
  BY <1>10 DEF Boot, BootAfresh, Discover, PollAnswered, PollUnknown, PollFails, Detach
<1> QED
  BY <1>2, <1>3, <1>4, <1>5, <1>6, <1>7, <1>9, <1>10 DEF Next, Device

\* A round of announcements, with the goodbyes and the writes it takes, is over
\* after a number of the device's own steps that the addresses there are and
\* REGISTER_ATTEMPTS bound, whatever servers answer, fail, move or claim
\* meanwhile: no server, present or absent, keeps the device from choosing or
\* from looking around again (announce, say_goodbye).
THEOREM RoundsEnd ==
  ASSUME IsFiniteSet(Addresses)
  PROVE  Spec => /\ [](StepsLeft \in
                        0 .. Cardinality(Addresses) * (RegisterAttempts + 6) + RegisterAttempts + 11)
                 /\ [][NearerTheEnd]_vars
<1>1. TypeOK => StepsLeft \in
        0 .. Cardinality(Addresses) * (RegisterAttempts + 6) + RegisterAttempts + 11
  <2> SUFFICES ASSUME TypeOK
               PROVE  StepsLeft \in
                        0 .. Cardinality(Addresses) * (RegisterAttempts + 6) + RegisterAttempts + 11
    OBVIOUS
  <2> DEFINE n == Cardinality(Addresses)  m == Cardinality(toAsk)  k == PerCandidate
  <2>1. /\ n \in Nat /\ m \in 0..n /\ k \in Nat /\ k = RegisterAttempts + 5
        /\ RegisterAttempts \in Nat /\ tries \in 0 .. RegisterAttempts - 1
        /\ Cardinality(farewell) \in 0..n
    BY AddressesCounted, BoundsAssumption DEF TypeOK, PerCandidate
  <2>2. m * k \in Nat /\ n * k \in Nat /\ m * k <= n * k /\ n * (RegisterAttempts + 6) = n * k + n
    BY <2>1, Candidates
  <2>3. WriteSteps(write) \in 0..4
    BY WriteNearer DEF TypeOK
  <2>4. StepsLeft \in 0 .. n * k + RegisterAttempts + 4 + n + 7
    BY <2>1, <2>2, <2>3 DEF StepsLeft, StepsWith
  <2> HIDE DEF n, m, k
  <2>5. n * k + RegisterAttempts + 4 + n + 7 = n * (RegisterAttempts + 6) + RegisterAttempts + 11
    BY <2>1, <2>2
  <2> QED
    BY <2>4, <2>5 DEF n
<1>2. TypeOK /\ TypeOK' /\ [Next]_vars => [NearerTheEnd]_vars
  BY StepNearerTheEnd DEF NearerTheEnd
<1> QED
  BY <1>1, <1>2, TypeCorrect, PTL DEF Spec

====
