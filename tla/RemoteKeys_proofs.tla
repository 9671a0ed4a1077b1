-------------------------- MODULE RemoteKeys_proofs --------------------------
(***************************************************************************)
(* What RemoteKeys promises for any number of bridges, devices and any     *)
(* queue: the types, that keys are only reported while a device is open,   *)
(* that no task keeps a path it will never look at again, and that readers,*)
(* channels and lists of paths come to the protocol of Grabs.  The last two*)
(* rest on an account of each path on a list: a reader or one event, never *)
(* both.                                                                   *)
(***************************************************************************)
EXTENDS RemoteKeys, TLAPS

-----------------------------------------------------------------------------
(* Queues. *)

\* What is appended to a queue leaves what is in it.
LEMMA AppendKeeps ==
  ASSUME NEW S, NEW s \in Seq(S), NEW e \in S
  PROVE  /\ Append(s, e) \in Seq(S) /\ Len(Append(s, e)) = Len(s) + 1
         /\ \A i \in DOMAIN s : i \in DOMAIN Append(s, e) /\ Append(s, e)[i] = s[i]
         /\ Len(s) + 1 \in DOMAIN Append(s, e) /\ Append(s, e)[Len(s) + 1] = e
BY SMT

\* What is taken from a queue is its head only.
LEMMA TailKeeps ==
  ASSUME NEW S, NEW s \in Seq(S), s # <<>>
  PROVE  /\ Tail(s) \in Seq(S) /\ Len(Tail(s)) = Len(s) - 1
         /\ Head(s) \in S
         /\ \A i \in DOMAIN s :
              s[i] # Head(s) => i - 1 \in DOMAIN Tail(s) /\ Tail(s)[i - 1] = s[i]
BY SMT

\* A press is not the end of a device.
LEMMA KeyNotClosed == ASSUME NEW d PROVE [closed |-> d] \notin Key
<1> SUFFICES ASSUME NEW k \in {"volume", "other"}, [closed |-> d] = [key |-> k] PROVE FALSE
  BY DEF Key
<1>1. DOMAIN [closed |-> d] = {"closed"} /\ DOMAIN [key |-> k] = {"key"}
  OBVIOUS
<1> QED
  BY <1>1

-----------------------------------------------------------------------------
(* Types. *)

\* All types but that of the flag.
Typed ==
  /\ bridge \in Bridges \cup {None} /\ tasks \subseteq Bridges
  /\ present \subseteq Devices
  /\ reader \in [Bridges -> [Devices -> ReaderStates]]
  /\ open \in [Bridges -> SUBSET Devices]
  /\ keys \in [Bridges -> Seq(Key \cup Closed)]
  /\ \A b \in Bridges : Len(keys[b]) <= KeyQueue
  /\ busy \in [Bridges -> Key \cup {None}]
  /\ requests \in 0..VolumeQueue

\* The flag, if there is a report.
Flag == hid \in BOOLEAN \cup {None}

\* The initial states are typed.
LEMMA InitTyped == Init => Typed /\ Flag
<1> SUFFICES ASSUME Init PROVE Typed /\ Flag
  OBVIOUS
<1>1. Typed
  BY KeysAssumption, SMT DEF Init, Typed, ReaderStates
<1>2. Flag
  BY Zenon DEF Init, Flag
<1> QED
  BY <1>1, <1>2

\* The supervisor's and the kernel's steps keep the types.
LEMMA AroundTyped == ASSUME Typed, Supervisor \/ Kernel PROVE Typed'
<1> USE KeysAssumption DEF Typed, ReaderStates
<1>1. CASE StopBridge \/ Report
  BY <1>1, SMT DEF StopBridge, Report
<1>2. CASE TakeRequest
  BY <1>2, SMT DEF TakeRequest
<1>3. ASSUME NEW b \in Bridges, StartBridge(b) PROVE Typed'
  BY <1>3, SMT DEF StartBridge
<1>4. ASSUME NEW d \in Devices, Appears(d) PROVE Typed'
  BY <1>4, SMT DEF Appears
<1>5. ASSUME NEW d \in Devices, Disappears(d) PROVE Typed'
  BY <1>5, SMT DEF Disappears, Reads
<1> QED
  BY <1>1, <1>2, <1>3, <1>4, <1>5 DEF Supervisor, Kernel

\* The readers' steps keep them.
LEMMA ReadersTyped == ASSUME Typed, NEW b \in Bridges, Readers(b) PROVE Typed'
<1> USE KeysAssumption DEF Typed, ReaderStates
<1>1. ASSUME NEW d \in Devices, NEW e \in Key \cup Closed, Len(keys[b]) < KeyQueue,
             keys' = [keys EXCEPT ![b] = Append(@, e)]
      PROVE  keys' \in [Bridges -> Seq(Key \cup Closed)] /\ \A c \in Bridges : Len(keys'[c]) <= KeyQueue
  <2>1. Append(keys[b], e) \in Seq(Key \cup Closed) /\ Len(Append(keys[b], e)) = Len(keys[b]) + 1
    BY AppendKeeps
  <2> QED
    BY <1>1, <2>1, SMT
<1>2. ASSUME NEW d \in Devices, Press(b, d) PROVE Typed'
  BY <1>1, <1>2 DEF Press
<1>3. ASSUME NEW d \in Devices, ReaderCloses(b, d) PROVE Typed'
  <2>1. [closed |-> d] \in Closed
    BY DEF Closed
  <2> QED
    BY <1>1, <1>3, <2>1 DEF ReaderCloses
<1> QED
  BY <1>2, <1>3 DEF Readers

\* The task's steps keep them.
LEMMA TaskTyped == ASSUME Typed, NEW b \in Bridges, KeyTask(b) PROVE Typed'
<1> USE KeysAssumption DEF Typed, ReaderStates
<1>1. ASSUME keys[b] # <<>>, keys' = [keys EXCEPT ![b] = Tail(@)]
      PROVE  keys' \in [Bridges -> Seq(Key \cup Closed)] /\ \A c \in Bridges : Len(keys'[c]) <= KeyQueue
  <2>1. Tail(keys[b]) \in Seq(Key \cup Closed) /\ Len(Tail(keys[b])) = Len(keys[b]) - 1
    BY <1>1, TailKeeps
  <2> QED
    BY <1>1, <2>1, SMT
<1>2. CASE TakeClosed(b)
  BY <1>1, <1>2 DEF TakeClosed
<1>3. CASE TakeKey(b)
  <2>1. PICK k \in {Head(keys[b]), None} : busy' = [busy EXCEPT ![b] = k]
    BY <1>3 DEF TakeKey
  <2>2. k \in Key \cup {None}
    BY <1>3 DEF TakeKey
  <2>3. busy' \in [Bridges -> Key \cup {None}]
    BY <2>1, <2>2
  <2> QED
    BY <1>1, <1>3, <2>3 DEF TakeKey
<1>4. CASE SendVolume(b)
  BY <1>4, SMT DEF SendVolume
<1>5. CASE SendKey(b)
  BY <1>5, SMT DEF SendKey
<1>6. ASSUME NEW d \in Devices, Rescan(b, d) PROVE Typed'
  BY <1>6, SMT DEF Rescan
<1> QED
  BY <1>2, <1>3, <1>4, <1>5, <1>6 DEF KeyTask, Take, Finish

\* The flag keeps its type.
LEMMA FlagTyped == ASSUME Flag, Next PROVE Flag'
<1> USE DEF Flag
<1>1. ASSUME NEW on \in BOOLEAN, hid' = HidSet(on) PROVE Flag'
  BY <1>1, Zenon DEF HidSet
<1>2. ASSUME NEW b \in Bridges, NEW d \in Devices, Rescan(b, d) PROVE Flag'
  BY <1>1, <1>2, Zenon DEF Rescan
<1>3. ASSUME NEW b \in Bridges, TakeClosed(b) PROVE Flag'
  BY <1>1, <1>3, Zenon DEF TakeClosed
<1>4. ASSUME NEW b \in Bridges, StartBridge(b) \/ Report \/ StopBridge PROVE Flag'
  BY <1>4, Zenon DEF StartBridge, Report, StopBridge
<1>5. StopBridge \/ Report => Flag'
  BY Zenon DEF Report, StopBridge
<1>6. ASSUME NEW b \in Bridges, TakeKey(b) \/ SendVolume(b) \/ SendKey(b) \/ Readers(b)
      PROVE  Flag'
  BY <1>6, Zenon DEF TakeKey, SendVolume, SendKey, Readers, Press, ReaderCloses
<1>7. TakeRequest \/ Kernel => Flag'
  BY Zenon DEF TakeRequest, Kernel, Appears, Disappears
<1> QED
  BY <1>2, <1>3, <1>4, <1>5, <1>6, <1>7, Zenon DEF Next, Supervisor, KeyTask, Take, Finish

\* Types hold all along.
LEMMA AlwaysTyped == Spec => [](Typed /\ Flag)
<1>1. Typed /\ Flag /\ [Next]_vars => Typed' /\ Flag'
  <2> SUFFICES ASSUME Typed, Flag, [Next]_vars PROVE Typed' /\ Flag'
    OBVIOUS
  <2>1. CASE UNCHANGED vars
    BY <2>1, Zenon DEF vars, Typed, Flag
  <2>2. CASE Next
    BY <2>2, AroundTyped, ReadersTyped, TaskTyped, FlagTyped DEF Next
  <2> QED
    BY <2>1, <2>2
<1> QED
  BY <1>1, InitTyped, PTL DEF Spec

\* Every variable has its type, and no channel holds more than its capacity.
THEOREM TypeCorrect == Spec => []TypeOK
<1>1. Typed /\ Flag => TypeOK
  BY Zenon DEF Typed, Flag, TypeOK
<1> QED
  BY <1>1, AlwaysTyped, PTL

-----------------------------------------------------------------------------
(* The flag. *)

\* Only what makes a path open says that keys arrive.
LEMMA FlagStep == ASSUME Typed, Flag, HidMeansKeys, Next PROVE HidMeansKeys'
<1> USE DEF HidMeansKeys
<1>1. ASSUME hid' = FALSE \/ hid' = None PROVE HidMeansKeys'
  BY <1>1, KeysAssumption, Zenon
<1>2. ASSUME UNCHANGED <<hid, open>> PROVE HidMeansKeys'
  BY <1>2, Zenon
<1>3. ASSUME NEW b \in Bridges, NEW on \in BOOLEAN, hid' = HidSet(on), on => open'[b] # {}
      PROVE  HidMeansKeys'
  BY <1>3, KeysAssumption, Zenon DEF HidSet
<1>4. ASSUME NEW b \in Bridges, NEW d \in Devices, Rescan(b, d) PROVE HidMeansKeys'
  <2>1. open'[b] # {}
    BY <1>4 DEF Rescan, Typed
  <2> QED
    BY <1>3, <1>4, <2>1, Zenon DEF Rescan
<1>5. ASSUME NEW b \in Bridges, TakeClosed(b) PROVE HidMeansKeys'
  BY <1>3, <1>5, Zenon DEF TakeClosed
<1>6. Supervisor => HidMeansKeys'
  BY <1>1, <1>2, Zenon DEF Supervisor, StartBridge, StopBridge, Report, TakeRequest
<1>7. Kernel => HidMeansKeys'
  BY <1>2, Zenon DEF Kernel, Appears, Disappears
<1>8. ASSUME NEW b \in Bridges, TakeKey(b) \/ SendVolume(b) \/ SendKey(b) \/ Readers(b)
      PROVE  HidMeansKeys'
  BY <1>2, <1>8, Zenon DEF TakeKey, SendVolume, SendKey, Readers, Press, ReaderCloses
<1> QED
  BY <1>4, <1>5, <1>6, <1>7, <1>8, Zenon DEF Next, KeyTask, Take, Finish

\* Keys are reported to arrive only while a task has a device open, however
\* many tasks of earlier bridges write the same flag.
THEOREM ReportedKeysArrive == Spec => []HidMeansKeys
<1>1. Init => HidMeansKeys
  BY KeysAssumption, Zenon DEF Init, HidMeansKeys
<1>2. Typed /\ Flag /\ HidMeansKeys /\ [Next]_vars => HidMeansKeys'
  <2>1. HidMeansKeys /\ UNCHANGED vars => HidMeansKeys'
    BY Zenon DEF vars, HidMeansKeys
  <2> QED
    BY <2>1, FlagStep
<1> QED
  BY <1>1, <1>2, AlwaysTyped, PTL DEF Spec

-----------------------------------------------------------------------------
(* What is announced. *)

\* The end of a reader of d waits to be handled.
Announced(b, d) == \E i \in DOMAIN keys[b] : keys[b][i] = [closed |-> d]

\* A queue that only grows keeps what it announces.
LEMMA AppendAnnounces ==
  ASSUME Typed, NEW b \in Bridges, NEW e \in Key \cup Closed,
         keys' = [keys EXCEPT ![b] = Append(@, e)]
  PROVE  /\ \A c \in Bridges, d \in Devices : Announced(c, d) => Announced(c, d)'
         /\ \A d \in Devices : e = [closed |-> d] => Announced(b, d)'
<1>1. keys'[b] = Append(keys[b], e) /\ \A c \in Bridges \ {b} : keys'[c] = keys[c]
  BY DEF Typed
<1>2. /\ \A i \in DOMAIN keys[b] : i \in DOMAIN keys'[b] /\ keys'[b][i] = keys[b][i]
      /\ Len(keys[b]) + 1 \in DOMAIN keys'[b] /\ keys'[b][Len(keys[b]) + 1] = e
  BY <1>1, AppendKeeps DEF Typed
<1> QED
  BY <1>1, <1>2 DEF Announced

\* A queue that is read from loses its head only.
LEMMA TailAnnounces ==
  ASSUME Typed, NEW b \in Bridges, keys[b] # <<>>, keys' = [keys EXCEPT ![b] = Tail(@)]
  PROVE  /\ \A c \in Bridges \ {b}, d \in Devices : Announced(c, d) => Announced(c, d)'
         /\ \A d \in Devices :
              Announced(b, d) /\ Head(keys[b]) # [closed |-> d] => Announced(b, d)'
<1>1. keys'[b] = Tail(keys[b]) /\ \A c \in Bridges \ {b} : keys'[c] = keys[c]
  BY DEF Typed
<1>2. \A i \in DOMAIN keys[b] :
        keys[b][i] # Head(keys[b]) => i - 1 \in DOMAIN keys'[b] /\ keys'[b][i - 1] = keys[b][i]
  BY <1>1, TailKeeps DEF Typed
<1> QED
  BY <1>1, <1>2 DEF Announced

-----------------------------------------------------------------------------
(* Readers and paths. *)

\* A path is on a task's list as long as a reader or one event accounts for it,
\* and never both.
Accounted(b, d) ==
  /\ d \in open[b] <=> reader[b][d] # "none" \/ Announced(b, d)
  /\ reader[b][d] # "none" => ~Announced(b, d)
  /\ \A i, j \in DOMAIN keys[b] : keys[b][i] = [closed |-> d] /\ keys[b][j] = [closed |-> d] => i = j

\* Nobody reads a device together with another task.
Alone == \A d \in Devices, b, c \in Bridges : Reads(b, d) /\ Reads(c, d) => b = c

GrabInv == Alone /\ \A b \in Bridges, d \in Devices : Accounted(b, d)

\* What is in a queue that was appended to was in it, or is what was appended.
LEMMA AppendOnly ==
  ASSUME NEW S, NEW s \in Seq(S), NEW e \in S, NEW i \in DOMAIN Append(s, e)
  PROVE  \/ i = Len(s) + 1 /\ Append(s, e)[i] = e
         \/ i \in DOMAIN s /\ Append(s, e)[i] = s[i]
BY SMT

\* What is in a queue that was read from was in it, one place further back.
LEMMA TailOnly ==
  ASSUME NEW S, NEW s \in Seq(S), s # <<>>, NEW i \in DOMAIN Tail(s)
  PROVE  i + 1 \in DOMAIN s /\ Tail(s)[i] = s[i + 1] /\ i + 1 # 1
BY SMT

\* The head is the first.
LEMMA HeadFirst ==
  ASSUME NEW S, NEW s \in Seq(S), s # <<>>
  PROVE  1 \in DOMAIN s /\ s[1] = Head(s)
BY SMT

\* A press adds no notice.
LEMMA PressAccounts ==
  ASSUME Typed, GrabInv, NEW b \in Bridges, NEW e \in Devices, Press(b, e) PROVE GrabInv'
<1>1. PICK k \in Key : keys' = [keys EXCEPT ![b] = Append(@, k)]
  BY DEF Press
<1>2. keys'[b] = Append(keys[b], k) /\ \A c \in Bridges \ {b} : keys'[c] = keys[c]
  BY <1>1 DEF Typed
<1>3. UNCHANGED <<reader, open>>
  BY DEF Press
<1>4. \A d \in Devices : k # [closed |-> d]
  BY KeyNotClosed
<1>5. \A i \in DOMAIN keys'[b] :
        \/ i = Len(keys[b]) + 1 /\ keys'[b][i] = k
        \/ i \in DOMAIN keys[b] /\ keys'[b][i] = keys[b][i]
  BY <1>2, AppendOnly DEF Typed
<1>6. \A c \in Bridges, d \in Devices : Announced(c, d) => Announced(c, d)'
  BY <1>1, AppendAnnounces
<1>7. ASSUME NEW c \in Bridges, NEW d \in Devices PROVE Accounted(c, d)'
  <2>1. Announced(c, d)' => Announced(c, d)
    BY <1>2, <1>4, <1>5 DEF Announced
  <2>2. \A i, j \in DOMAIN keys'[c] :
          keys'[c][i] = [closed |-> d] /\ keys'[c][j] = [closed |-> d] => i = j
    <3>1. CASE c = b
      BY <1>4, <1>5, <3>1 DEF GrabInv, Accounted
    <3>2. CASE c # b
      BY <1>2, <3>2 DEF GrabInv, Accounted
    <3> QED
      BY <3>1, <3>2
  <2> QED
    BY <1>3, <1>6, <2>1, <2>2 DEF GrabInv, Accounted
<1> QED
  BY <1>3, <1>7 DEF GrabInv, Alone, Reads

\* A reader that ends leaves one notice in its place.
LEMMA CloseAccounts ==
  ASSUME Typed, GrabInv, NEW b \in Bridges, NEW e \in Devices, ReaderCloses(b, e) PROVE GrabInv'
<1> DEFINE last == [closed |-> e]
<1>1. last \in Key \cup Closed /\ keys' = [keys EXCEPT ![b] = Append(@, last)]
  BY DEF ReaderCloses, Closed
<1>2. keys'[b] = Append(keys[b], last) /\ \A c \in Bridges \ {b} : keys'[c] = keys[c]
  BY <1>1 DEF Typed
<1>3. /\ open' = open
      /\ reader[b][e] = "ended" /\ reader'[b][e] = "none"
      /\ \A c \in Bridges, d \in Devices : c # b \/ d # e => reader'[c][d] = reader[c][d]
  BY DEF ReaderCloses, Typed
<1>4. \A i \in DOMAIN keys'[b] :
        \/ i = Len(keys[b]) + 1 /\ keys'[b][i] = last
        \/ i \in DOMAIN keys[b] /\ keys'[b][i] = keys[b][i]
  BY <1>1, <1>2, AppendOnly DEF Typed
<1>5. /\ \A c \in Bridges, d \in Devices : Announced(c, d) => Announced(c, d)'
      /\ Announced(b, e)'
  BY <1>1, AppendAnnounces
<1>6. ASSUME NEW c \in Bridges, NEW d \in Devices, c # b \/ d # e PROVE Accounted(c, d)'
  <2>1. CASE c # b
    BY <1>2, <1>3, <2>1 DEF GrabInv, Accounted, Announced
  <2>2. CASE c = b /\ d # e
    <3>1. last # [closed |-> d]
      <4>1. last.closed # [closed |-> d].closed
        BY <2>2
      <4> QED
        BY <4>1
    <3> HIDE DEF last
    <3>2. Announced(b, d)' => Announced(b, d)
      BY <1>4, <3>1 DEF Announced
    <3>3. \A i, j \in DOMAIN keys'[b] :
            keys'[b][i] = [closed |-> d] /\ keys'[b][j] = [closed |-> d] => i = j
      BY <1>4, <3>1 DEF GrabInv, Accounted
    <3> QED
      BY <1>3, <1>5, <2>2, <3>2, <3>3 DEF GrabInv, Accounted
  <2> QED
    BY <1>6, <2>1, <2>2
<1>7. Accounted(b, e)'
  <2>1. ~Announced(b, e) /\ e \in open[b]
    BY <1>3 DEF GrabInv, Accounted
  <2>2. \A i, j \in DOMAIN keys'[b] : keys'[b][i] = last /\ keys'[b][j] = last => i = j
    <3>1. \A i \in DOMAIN keys[b] : keys[b][i] # last
      BY <2>1 DEF Announced
    <3> QED
      BY <1>4, <3>1
  <2> QED
    BY <1>3, <1>5, <2>1, <2>2 DEF Accounted
<1>8. Alone'
  BY <1>3 DEF GrabInv, Alone, Reads
<1> QED
  BY <1>6, <1>7, <1>8 DEF GrabInv

\* The task takes the only notice there is, or a press.
LEMMA TakeAccounts ==
  ASSUME Typed, GrabInv, NEW b \in Bridges, Take(b) PROVE GrabInv'
<1>1. /\ keys[b] # <<>> /\ keys' = [keys EXCEPT ![b] = Tail(@)]
      /\ reader' = reader
      /\ \A c \in Bridges \ {b} : open'[c] = open[c]
  BY DEF Take, TakeClosed, TakeKey, Typed
<1>2. keys'[b] = Tail(keys[b]) /\ \A c \in Bridges \ {b} : keys'[c] = keys[c]
  BY <1>1 DEF Typed
<1>3. \A i \in DOMAIN keys'[b] :
        i + 1 \in DOMAIN keys[b] /\ keys'[b][i] = keys[b][i + 1] /\ i + 1 # 1 /\ i \in Int
  <2>1. DOMAIN keys'[b] \subseteq Int
    BY <1>1, <1>2, TailKeeps DEF Typed
  <2> QED
    BY <1>1, <1>2, <2>1, TailOnly DEF Typed
<1>4. 1 \in DOMAIN keys[b] /\ keys[b][1] = Head(keys[b])
  BY <1>1, HeadFirst DEF Typed
<1>5. \A d \in Devices : Announced(b, d) /\ Head(keys[b]) # [closed |-> d] => Announced(b, d)'
  BY <1>1, TailAnnounces
<1>6. \A d \in Devices : Announced(b, d)' => Announced(b, d)
  BY <1>3 DEF Announced
<1>7. ASSUME NEW d \in Devices
      PROVE  \A i, j \in DOMAIN keys'[b] :
               keys'[b][i] = [closed |-> d] /\ keys'[b][j] = [closed |-> d] => i = j
  <2> SUFFICES ASSUME NEW i \in DOMAIN keys'[b], NEW j \in DOMAIN keys'[b],
                      keys'[b][i] = [closed |-> d], keys'[b][j] = [closed |-> d]
               PROVE  i = j
    OBVIOUS
  <2>1. i + 1 = j + 1
    BY <1>3 DEF GrabInv, Accounted
  <2> QED
    BY <1>3, <2>1
<1>8. ASSUME NEW d \in Devices PROVE Accounted(b, d)'
  <2>1. CASE Head(keys[b]) = [closed |-> d]
    <3>1. ~Announced(b, d)'
      BY <1>3, <1>4, <2>1 DEF Announced, GrabInv, Accounted
    <3>2. reader[b][d] = "none"
      BY <1>4, <2>1 DEF Announced, GrabInv, Accounted
    <3>3. d \notin open'[b]
      <4>1. Head(keys[b]) \notin Key
        BY <2>1, KeyNotClosed
      <4>2. open'[b] = open[b] \ {Head(keys[b]).closed}
        BY <4>1 DEF Take, TakeClosed, TakeKey, Typed
      <4> QED
        BY <2>1, <4>2
    <3> QED
      BY <1>1, <1>7, <3>1, <3>2, <3>3 DEF Accounted
  <2>2. CASE Head(keys[b]) # [closed |-> d]
    <3>1. d \in open'[b] <=> d \in open[b]
      <4>1. CASE TakeKey(b)
        BY <4>1 DEF TakeKey
      <4>2. CASE TakeClosed(b)
        <5>1. Head(keys[b]) \in Key \cup Closed
          BY <1>1, TailKeeps DEF Typed
        <5>2. PICK f \in Devices : Head(keys[b]) = [closed |-> f]
          BY <4>2, <5>1 DEF TakeClosed, Closed
        <5>3. f # d /\ Head(keys[b]).closed = f
          BY <2>2, <5>2
        <5>4. open'[b] = open[b] \ {f}
          BY <4>2, <5>3 DEF TakeClosed, Typed
        <5> QED
          BY <5>3, <5>4
      <4> QED
        BY <4>1, <4>2 DEF Take
    <3> QED
      BY <1>1, <1>5, <1>6, <1>7, <2>2, <3>1 DEF GrabInv, Accounted
  <2> QED
    BY <2>1, <2>2
<1>9. ASSUME NEW c \in Bridges \ {b}, NEW d \in Devices PROVE Accounted(c, d)'
  BY <1>1, <1>2 DEF GrabInv, Accounted, Announced
<1> QED
  BY <1>1, <1>8, <1>9 DEF GrabInv, Alone, Reads

\* A device that is found is new to the list, and nobody reads it.
LEMMA RescanAccounts ==
  ASSUME Typed, GrabInv, NEW b \in Bridges, NEW e \in Devices, Rescan(b, e) PROVE GrabInv'
<1>1. /\ keys' = keys /\ e \notin open[b] /\ ~Grabbed(e)
      /\ reader'[b][e] = "reading"
      /\ \A c \in Bridges, d \in Devices : c # b \/ d # e => reader'[c][d] = reader[c][d]
      /\ \A c \in Bridges, d \in Devices : d \in open'[c] <=> d \in open[c] \/ (c = b /\ d = e)
  BY DEF Rescan, Typed
<1>2. \A c \in Bridges, d \in Devices : Accounted(c, d)'
  BY <1>1 DEF GrabInv, Accounted, Announced
<1>3. Alone'
  BY <1>1 DEF GrabInv, Alone, Grabbed, Reads
<1> QED
  BY <1>2, <1>3 DEF GrabInv

\* No step breaks the account.
LEMMA GrabInvNext == Typed /\ GrabInv /\ [Next]_vars => GrabInv'
<1> SUFFICES ASSUME Typed, GrabInv, [Next]_vars PROVE GrabInv'
  OBVIOUS
<1>1. CASE UNCHANGED <<reader, open, keys>>
  BY <1>1 DEF GrabInv, Alone, Accounted, Announced, Reads
<1>2. Supervisor \/ UNCHANGED vars => UNCHANGED <<reader, open, keys>>
  BY DEF Supervisor, StartBridge, StopBridge, Report, TakeRequest, vars
<1>3. \A b \in Bridges : Finish(b) => UNCHANGED <<reader, open, keys>>
  BY DEF Finish, SendVolume, SendKey
<1>4. \A d \in Devices : Appears(d) => UNCHANGED <<reader, open, keys>>
  BY DEF Appears
<1>5. ASSUME NEW d \in Devices, Disappears(d) PROVE GrabInv'
  <2>1. /\ UNCHANGED <<open, keys>>
        /\ \A c \in Bridges, e \in Devices :
             reader'[c][e] = IF e = d /\ Reads(c, d) THEN "ended" ELSE reader[c][e]
    BY <1>5 DEF Disappears, Typed
  <2>2. \A c \in Bridges, e \in Devices :
          /\ reader'[c][e] = "none" <=> reader[c][e] = "none"
          /\ reader'[c][e] = "reading" => reader[c][e] = "reading"
    BY <2>1 DEF Reads
  <2> QED
    BY <2>1, <2>2 DEF GrabInv, Alone, Accounted, Announced, Reads
<1> QED
  BY <1>1, <1>2, <1>3, <1>4, <1>5, PressAccounts, CloseAccounts, TakeAccounts, RescanAccounts
  DEF Next, Kernel, KeyTask, Readers

\* At first nobody reads anything.
LEMMA InitGrabInv == Init => GrabInv
BY DEF Init, GrabInv, Alone, Accounted, Announced, Reads

\* The account holds all along.
LEMMA AlwaysGrabInv == Spec => []GrabInv
BY InitGrabInv, GrabInvNext, AlwaysTyped, PTL DEF Spec

\* No task keeps a path open that neither a reader nor a pending event will
\* take off its list: a device that comes back under its path is found.
THEOREM PathsAreForgotten == Spec => []NoForgottenPath
<1>1. Typed /\ GrabInv => NoForgottenPath
  BY DEF Typed, GrabInv, Accounted, Announced, NoForgottenPath
<1> QED
  BY <1>1, AlwaysTyped, AlwaysGrabInv, PTL

-----------------------------------------------------------------------------
(* The refinement. *)

\* The lives of all tasks and devices.
Lives == [b \in Bridges |-> [d \in Devices |-> Life(b, d)]]

\* The lives start as they should.
LEMMA LivesInit == Init => G!Init
<1> SUFFICES ASSUME Init PROVE G!Init
  OBVIOUS
<1>1. \A b \in Bridges, d \in Devices : Life(b, d) = "free"
  BY DEF Init, Life
<1> QED
  BY <1>1 DEF G!Init

\* Only a reader and a list of paths make up a life.
LEMMA LifeSame ==
  ASSUME NEW b \in Bridges, NEW d \in Devices,
         reader'[b][d] = reader[b][d], d \in open'[b] <=> d \in open[b]
  PROVE  Life(b, d)' = Life(b, d)
BY DEF Life

\* Each step of the tasks and readers is a step of the lives, or none.
LEMMA LivesStep == Typed /\ GrabInv /\ [Next]_vars => [G!Next]_Lives
<1> SUFFICES ASSUME Typed, GrabInv, [Next]_vars PROVE [G!Next]_Lives
  OBVIOUS
<1>1. CASE UNCHANGED <<reader, open>>
  BY <1>1, LifeSame DEF Lives
<1>2. Supervisor \/ UNCHANGED vars => UNCHANGED <<reader, open>>
  BY DEF Supervisor, StartBridge, StopBridge, Report, TakeRequest, vars
<1>3. \A b \in Bridges : Finish(b) \/ TakeKey(b) => UNCHANGED <<reader, open>>
  BY DEF Finish, SendVolume, SendKey, TakeKey
<1>4. \A d \in Devices : Appears(d) => UNCHANGED <<reader, open>>
  BY DEF Appears
<1>5. \A b \in Bridges, d \in Devices : Press(b, d) => UNCHANGED <<reader, open>>
  BY DEF Press
<1>6. \A b \in Bridges, d \in Devices : Lives[b][d] = Life(b, d) /\ Lives'[b][d] = Life(b, d)'
  BY DEF Lives
<1>7. ASSUME NEW d \in Devices, Disappears(d) PROVE G!Lose(d)
  <2>1. /\ UNCHANGED open
        /\ \A c \in Bridges, e \in Devices :
             reader'[c][e] = IF e = d /\ Reads(c, d) THEN "ended" ELSE reader[c][e]
    BY <1>7 DEF Disappears, Typed
  <2>2. \A c \in Bridges : Life(c, d)' = IF Life(c, d) = "reading" THEN "lost" ELSE Life(c, d)
    BY <2>1 DEF Life, Reads, Typed, ReaderStates
  <2>3. \A c \in Bridges, e \in Devices : e # d => Life(c, e)' = Life(c, e)
    BY <2>1, LifeSame
  <2>4. ASSUME NEW c \in Bridges
        PROVE  Lives'[c] = IF Lives[c][d] = "reading" THEN [Lives[c] EXCEPT ![d] = "lost"] ELSE Lives[c]
    <3>1. Lives'[c] = [e \in Devices |-> Life(c, e)'] /\ Lives[c] = [e \in Devices |-> Life(c, e)]
      BY DEF Lives
    <3> QED
      BY <2>2, <2>3, <3>1
  <2> QED
    BY <2>4 DEF G!Lose, Lives
<1>8. ASSUME NEW b \in Bridges, NEW d \in Devices, NEW l,
             Life(b, d)' = l,
             \A c \in Bridges, e \in Devices : c # b \/ e # d => Life(c, e)' = Life(c, e)
      PROVE  Lives' = [Lives EXCEPT ![b][d] = l]
  <2>1. ASSUME NEW c \in Bridges PROVE Lives'[c] = [Lives EXCEPT ![b][d] = l][c]
    <3>1. Lives'[c] = [e \in Devices |-> Life(c, e)'] /\ Lives[c] = [e \in Devices |-> Life(c, e)]
      BY DEF Lives
    <3>2. c \in DOMAIN Lives /\ b \in DOMAIN Lives
      BY DEF Lives
    <3> HIDE DEF Lives
    <3>3. [Lives EXCEPT ![b][d] = l][c] = IF c = b THEN [Lives[b] EXCEPT ![d] = l] ELSE Lives[c]
      BY <3>2
    <3> QED
      BY <1>8, <3>1, <3>3
  <2> QED
    BY <2>1 DEF Lives
<1>9. ASSUME NEW b \in Bridges, NEW d \in Devices, Rescan(b, d) PROVE G!Grab(b, d)
  <2>1. /\ d \notin open[b] /\ ~Grabbed(d)
        /\ reader'[b][d] = "reading"
        /\ \A c \in Bridges, e \in Devices : c # b \/ e # d => reader'[c][e] = reader[c][e]
        /\ \A c \in Bridges, e \in Devices : c # b \/ e # d => (e \in open'[c] <=> e \in open[c])
    BY <1>9 DEF Rescan, Typed
  <2>2. Life(b, d) = "free"
    BY <2>1 DEF Life, GrabInv, Accounted
  <2>3. \A c \in Bridges : Life(c, d) # "reading"
    BY <2>1 DEF Life, Grabbed, Reads, Typed, ReaderStates
  <2>4. Life(b, d)' = "reading"
    BY <2>1 DEF Life
  <2>5. Lives' = [Lives EXCEPT ![b][d] = "reading"]
    <3>1. \A c \in Bridges, e \in Devices : c # b \/ e # d => Life(c, e)' = Life(c, e)
      BY <2>1, LifeSame
    <3> QED
      BY <1>8, <2>4, <3>1
  <2> QED
    BY <1>6, <2>2, <2>3, <2>5 DEF G!Grab, Lives
<1>10. ASSUME NEW b \in Bridges, NEW d \in Devices, ReaderCloses(b, d) PROVE G!Tell(b, d)
  <2>1. /\ open' = open
        /\ reader[b][d] = "ended" /\ reader'[b][d] = "none"
        /\ \A c \in Bridges, e \in Devices : c # b \/ e # d => reader'[c][e] = reader[c][e]
    BY <1>10 DEF ReaderCloses, Typed
  <2>2. d \in open[b]
    BY <2>1 DEF GrabInv, Accounted
  <2>3. Life(b, d) = "lost" /\ Life(b, d)' = "told"
    BY <2>1, <2>2 DEF Life
  <2>4. Lives' = [Lives EXCEPT ![b][d] = "told"]
    BY <1>8, <2>1, <2>3, LifeSame
  <2> QED
    BY <1>6, <2>3, <2>4 DEF G!Tell, Lives
<1>11. ASSUME NEW b \in Bridges, TakeClosed(b) PROVE \E d \in Devices : G!Forget(b, d)
  <2>1. Head(keys[b]) \in Key \cup Closed /\ keys[b] # <<>> /\ keys[b] \in Seq(Key \cup Closed)
    BY <1>11, TailKeeps DEF TakeClosed, Typed
  <2>2. PICK d \in Devices : Head(keys[b]) = [closed |-> d]
    BY <1>11, <2>1 DEF TakeClosed, Closed
  <2>3. /\ reader' = reader
        /\ \A c \in Bridges, e \in Devices : e \in open'[c] <=> e \in open[c] /\ ~(c = b /\ e = d)
    BY <1>11, <2>2 DEF TakeClosed, Typed
  <2>4. Announced(b, d)
    BY <2>1, <2>2, HeadFirst DEF Announced
  <2>5. reader[b][d] = "none" /\ d \in open[b]
    BY <2>4 DEF GrabInv, Accounted
  <2>6. Life(b, d) = "told" /\ Life(b, d)' = "free"
    BY <2>3, <2>5 DEF Life
  <2>7. Lives' = [Lives EXCEPT ![b][d] = "free"]
    <3>1. \A c \in Bridges, e \in Devices : c # b \/ e # d => Life(c, e)' = Life(c, e)
      BY <2>3, LifeSame
    <3> QED
      BY <1>8, <2>6, <3>1
  <2> QED
    BY <1>6, <2>6, <2>7 DEF G!Forget, Lives
<1> QED
  BY <1>1, <1>2, <1>3, <1>4, <1>5, <1>7, <1>9, <1>10, <1>11, Zenon
  DEF Next, Kernel, KeyTask, Take, Readers, G!Next

\* Reader threads, channels and lists of paths come to what Grabs promises, for
\* any number of bridges that ever ran: one reader per device, one notice per
\* loss, and no device read anew before its loss was noticed.
THEOREM KeysImplementGrabs == Spec => ImplementsGrabs
<1>1. Typed /\ GrabInv /\ [Next]_vars => [G!Next]_Lives
  BY LivesStep
<1> QED
  BY <1>1, LivesInit, AlwaysTyped, AlwaysGrabInv, PTL DEF ImplementsGrabs, G!Spec, Spec, Lives
=============================================================================
