----------------------------- MODULE ScreensProofs -----------------------------
(***************************************************************************)
(* Theorems about Dashboard, for any number of changes, requests and       *)
(* breaks, and what the theorems about the parts say of Screens: a         *)
(* behaviour of it is one of each part.                                    *)
(***************************************************************************)
EXTENDS Screens, WatchProofs, SideChatProofs

-----------------------------------------------------------------------------
(* The dashboard *)

Fetches ==
  [Slots -> [state: {"free", "asked", "answered"}, token: Nat, fresh: BOOLEAN, running: BOOLEAN, found: BOOLEAN]]

(* Asking anew makes nothing fresh that was not. *)
LEMMA Refreshes ==
  ASSUME NEW token \in Nat, fetches \in Fetches, Refresh(token)
  PROVE  fetches' \in Fetches /\ \A s \in Slots : fetches'[s].fresh => fetches'[s] = fetches[s]
<1> DEFINE t == Min({s \in Slots : fetches[s].state = "free"})
           f == Asked(token)
           F == [state: {"free", "asked", "answered"}, token: Nat, fresh: BOOLEAN, running: BOOLEAN, found: BOOLEAN]
<1>1. fetches' = [fetches EXCEPT ![t] = f]
  BY DEF Refresh
<1>2. f \in F /\ ~f.fresh
  BY DEF Asked, NoFetch
<1>3. fetches \in [Slots -> F]
  BY DEF Fetches
<1> HIDE DEF t, f, F
<1>4. fetches' \in [Slots -> F] /\ \A s \in Slots : fetches'[s].fresh => fetches'[s] = fetches[s]
  BY <1>1, <1>2, <1>3
<1> QED
  BY <1>4 DEF F, Fetches

(* What is on disk changes: nothing drawn or answered is fresh any more. *)
LEMMA Outdates ==
  ASSUME DashInv, NEW d, d \in [changes: Nat, root: BOOLEAN, dir: Nat, inodes: Nat, running: BOOLEAN],
         Outdate(d), d.inodes >= disk.inodes, d.dir \in 0..d.inodes, d.dir # 0 => d.root,
         notes' \subseteq {<<"root", 0>>} \cup ({"dir"} \X (1..d.inodes)), untold' \in BOOLEAN
  PROVE  DashTypeOK' /\ StreamIsPages' /\ PageIsTimed' /\ FreshIsTrue'
         /\ disk'.dir = d.dir /\ disk'.root = d.root /\ stream' = stream
<1>1. /\ disk' \in [changes: Nat, root: BOOLEAN, dir: Nat, inodes: Nat, running: BOOLEAN]
      /\ disk'.dir = d.dir /\ disk'.root = d.root /\ disk'.inodes = d.inodes
  BY DEF Outdate
<1>2. stream' = stream /\ wire' = wire /\ upsets' = upsets
  BY DEF Outdate
<1>3. /\ page' \in [kind: Pages, token: Nat, live: {"no", "connecting", "open", "closed"}, poll: BOOLEAN,
                   grow: BOOLEAN, fresh: BOOLEAN, running: BOOLEAN, failed: BOOLEAN]
      /\ ~page'.fresh /\ page'.kind = page.kind /\ page'.live = page.live /\ page'.poll = page.poll
      /\ page'.grow = page.grow /\ page'.running = page.running /\ page'.failed = page.failed
  BY DEF Outdate, DashInv, DashTypeOK
<1>4. fetches' \in Fetches /\ \A s \in Slots : ~fetches'[s].fresh
  BY DEF Outdate, DashInv, DashTypeOK, Fetches
<1>5. DashTypeOK'
  <2>1. stream'.dirWatcher \in 1..d.inodes \cup {0} /\ d.dir \in 1..d.inodes \cup {0}
    BY <1>2 DEF DashInv, DashTypeOK, Inodes
  <2>2. /\ stream' \in [open: BOOLEAN, dirWatcher: Nat, timer: BOOLEAN]
        /\ wire' \in BOOLEAN /\ upsets' \in Nat
    BY <1>2 DEF DashInv, DashTypeOK
  <2> QED
    BY <1>1, <1>3, <1>4, <2>1, <2>2 DEF DashTypeOK, Inodes, Fetches
<1>6. StreamIsPages'
  BY <1>2, <1>3 DEF DashInv, StreamIsPages, NoStream
<1>7. PageIsTimed'
  BY <1>3 DEF DashInv, PageIsTimed
<1>8. FreshIsTrue'
  BY <1>3, <1>4 DEF FreshIsTrue
<1> QED
  BY <1>1, <1>2, <1>5, <1>6, <1>7, <1>8

(* Sessions write and directories come and go. *)
LEMMA DiskKeeps ==
  ASSUME DashInv, AppendRow \/ MakeDir \/ RemoveDir \/ RemoveRoot \/ Stales
  PROVE  DashInv'
<1> DEFINE Disks == [changes: Nat, root: BOOLEAN, dir: Nat, inodes: Nat, running: BOOLEAN]
<1>1. /\ disk \in Disks /\ disk.dir \in 0..disk.inodes /\ (disk.dir # 0 => disk.root)
      /\ notes \subseteq {<<"root", 0>>} \cup ({"dir"} \X (1..disk.inodes)) /\ untold \in BOOLEAN
      /\ stream.open \in BOOLEAN /\ stream.dirWatcher \in Nat
  BY DEF DashInv, DashTypeOK, Inodes
<1>2. ChangesAreHeard
  BY DEF DashInv
<1>n. \A inode : DirNote(inode) = {} \/ DirNote(inode) = {<<"dir", inode>>}
  BY DEF DirNote
<1>3. CASE AppendRow
  <2>1. PICK r \in BOOLEAN : Change([disk EXCEPT !.running = r], DirNote(disk.dir)) /\ disk.dir # 0
    BY <1>3 DEF AppendRow
  <2> DEFINE d == [disk EXCEPT !.running = r]
  <2>2. /\ d \in Disks /\ d.dir = disk.dir /\ d.root = disk.root /\ d.inodes = disk.inodes
        /\ Outdate(d) /\ notes' = notes \cup DirNote(disk.dir) /\ untold' = (untold \/ stream.open)
    BY <1>1, <2>1 DEF Change
  <2> HIDE DEF d
  <2>3. notes' \subseteq {<<"root", 0>>} \cup ({"dir"} \X (1..d.inodes)) /\ untold' \in BOOLEAN
    BY <1>1, <1>n, <2>1, <2>2
  <2>4. /\ DashTypeOK' /\ StreamIsPages' /\ PageIsTimed' /\ FreshIsTrue'
        /\ disk'.dir = disk.dir /\ disk'.root = disk.root /\ stream' = stream
    BY <1>1, <2>2, <2>3, Outdates
  <2>5. stream.dirWatcher = disk.dir => <<"dir", stream.dirWatcher>> \in DirNote(disk.dir)
    BY <2>1 DEF DirNote
  <2>6. ChangesAreHeard'
    BY <1>1, <1>2, <2>2, <2>4, <2>5 DEF ChangesAreHeard
  <2> QED
    BY <2>4, <2>6 DEF DashInv
<1>4. CASE MakeDir \/ RemoveDir \/ RemoveRoot
  <2>1. \E d \in Disks, told \in SUBSET ({<<"root", 0>>} \cup ({"dir"} \X (1..disk.inodes))) :
          /\ Change(d, told) /\ <<"root", 0>> \in told /\ d.inodes >= disk.inodes /\ d.dir \in 0..d.inodes
          /\ d.dir # 0 => d.root
    <3>1. CASE MakeDir
      <4> DEFINE n == disk.inodes + 1
                 d == [disk EXCEPT !.dir = n, !.inodes = n, !.running = TRUE]
                 told == {<<"root", 0>>}
      <4>1. Change(d, told) /\ disk.root
        BY <3>1 DEF MakeDir, Change, Outdate
      <4>2. n \in Nat /\ n >= disk.inodes /\ n \in 0..n
        BY <1>1
      <4> HIDE DEF n
      <4>3. d \in Disks /\ d.inodes = n /\ d.dir = n /\ d.root = disk.root
        BY <1>1, <4>2
      <4>4. told \in SUBSET ({<<"root", 0>>} \cup ({"dir"} \X (1..disk.inodes))) /\ <<"root", 0>> \in told
        OBVIOUS
      <4> HIDE DEF d, told, Disks
      <4> QED
        BY <4>1, <4>2, <4>3, <4>4
    <3>2. CASE RemoveDir
      <4> DEFINE d == [disk EXCEPT !.dir = 0]
      <4>1. d \in Disks /\ d.inodes = disk.inodes /\ d.dir = 0
        BY <1>1
      <4>2. PICK told \in SUBSET DirNote(disk.dir) : Change(d, told \cup {<<"root", 0>>}) /\ disk.dir # 0
        BY <3>2 DEF RemoveDir
      <4>3. told \cup {<<"root", 0>>} \in SUBSET ({<<"root", 0>>} \cup ({"dir"} \X (1..disk.inodes)))
        BY <1>1, <1>n, <4>2
      <4> HIDE DEF d
      <4> QED
        BY <1>1, <4>1, <4>2, <4>3
    <3>3. CASE RemoveRoot
      <4> DEFINE d == [disk EXCEPT !.dir = 0, !.root = FALSE]
      <4>1. d \in Disks /\ d.inodes = disk.inodes /\ d.dir = 0
        BY <1>1
      <4>2. Change(d, {<<"root", 0>>})
        BY <3>3 DEF RemoveRoot
      <4> HIDE DEF d
      <4> QED
        BY <1>1, <4>1, <4>2
    <3> QED
      BY <1>4, <3>1, <3>2, <3>3
  <2>2. PICK d \in Disks, told \in SUBSET ({<<"root", 0>>} \cup ({"dir"} \X (1..disk.inodes))) :
          /\ Change(d, told) /\ <<"root", 0>> \in told /\ d.inodes >= disk.inodes /\ d.dir \in 0..d.inodes
          /\ d.dir # 0 => d.root
    BY <2>1
  <2>3. Outdate(d) /\ notes' = notes \cup told /\ untold' = (untold \/ stream.open)
    BY <2>2 DEF Change
  <2>4. d.inodes \in Nat /\ 1..disk.inodes \subseteq 1..d.inodes
    BY <1>1, <2>2
  <2>5. notes' \subseteq {<<"root", 0>>} \cup ({"dir"} \X (1..d.inodes)) /\ untold' \in BOOLEAN
    BY <1>1, <2>2, <2>3, <2>4
  <2>6. DashTypeOK' /\ StreamIsPages' /\ PageIsTimed' /\ FreshIsTrue' /\ stream' = stream
    BY <2>2, <2>3, <2>5, Outdates
  <2>7. ChangesAreHeard'
    <3>1. <<"root", 0>> \in notes'
      BY <2>2, <2>3
    <3>2. untold' => stream'.open
      BY <1>2, <2>3, <2>6 DEF ChangesAreHeard
    <3> QED
      BY <3>1, <3>2 DEF ChangesAreHeard
  <2> QED
    BY <2>6, <2>7 DEF DashInv
<1>5. CASE Stales
  <2> DEFINE d == [disk EXCEPT !.running = FALSE]
  <2>1. /\ d \in Disks /\ d.dir = disk.dir /\ d.root = disk.root /\ d.inodes = disk.inodes
        /\ Outdate(d) /\ notes' = notes /\ untold' = untold
    BY <1>1, <1>5 DEF Stales
  <2> HIDE DEF d
  <2>2. /\ DashTypeOK' /\ StreamIsPages' /\ PageIsTimed' /\ FreshIsTrue'
        /\ disk'.dir = disk.dir /\ disk'.root = disk.root /\ stream' = stream
    BY <1>1, <2>1, Outdates
  <2>3. ChangesAreHeard'
    BY <1>2, <2>1, <2>2 DEF ChangesAreHeard
  <2> QED
    BY <2>2, <2>3 DEF DashInv
<1> QED
  BY <1>3, <1>4, <1>5

PageStates ==
  [kind: Pages, token: Nat, live: {"no", "connecting", "open", "closed"}, poll: BOOLEAN,
   grow: BOOLEAN, fresh: BOOLEAN, running: BOOLEAN, failed: BOOLEAN]
Streams == [open: BOOLEAN, dirWatcher: Nat, timer: BOOLEAN]

LEMMA DashParts ==
  ASSUME DashInv
  PROVE  /\ disk \in [changes: Nat, root: BOOLEAN, dir: Nat, inodes: Nat, running: BOOLEAN]
         /\ disk.dir \in Inodes \cup {0} /\ (disk.dir # 0 => disk.root) /\ 0 \notin Inodes /\ Inodes \subseteq Nat
         /\ stream \in Streams /\ stream.dirWatcher \in Inodes \cup {0}
         /\ notes \subseteq {<<"root", 0>>} \cup ({"dir"} \X Inodes)
         /\ wire \in BOOLEAN /\ untold \in BOOLEAN /\ upsets \in Nat
         /\ page \in PageStates /\ fetches \in Fetches
         /\ ChangesAreHeard /\ StreamIsPages /\ PageIsTimed /\ FreshIsTrue
BY DEF DashInv, DashTypeOK, Inodes, PageStates, Streams, Fetches

(* The same parts of the next state, with the disk as it was. *)
LEMMA DashJoins ==
  ASSUME DashInv, disk' = disk,
         stream' \in Streams, stream'.dirWatcher \in Inodes \cup {0},
         notes' \subseteq {<<"root", 0>>} \cup ({"dir"} \X Inodes),
         wire' \in BOOLEAN, untold' \in BOOLEAN, upsets' \in Nat, page' \in PageStates, fetches' \in Fetches,
         ChangesAreHeard', StreamIsPages', PageIsTimed', FreshIsTrue'
  PROVE  DashInv'
<1>1. Inodes' = Inodes
  BY DEF Inodes
<1>2. DashTypeOK'
  BY <1>1 DEF DashInv, DashTypeOK, PageStates, Streams, Fetches
<1> QED
  BY <1>2 DEF DashInv

LEMMA BreaksPage ==
  ASSUME NEW p \in PageStates
  PROVE  /\ Broken(p) \in PageStates /\ Broken(p).live = "connecting" /\ Broken(p).poll /\ Broken(p).failed
         /\ Broken(p).kind = p.kind /\ Broken(p).running = p.running /\ Broken(p).grow = p.grow
         /\ Broken(p).fresh = p.fresh
BY DEF Broken, PageStates

LEMMA PagesAreFresh ==
  ASSUME NEW kind \in Pages, NEW token \in Nat
  PROVE  /\ FreshPage(kind, token) \in PageStates /\ ~FreshPage(kind, token).fresh
         /\ ~FreshPage(kind, token).failed /\ ~FreshPage(kind, token).running
         /\ FreshPage(kind, token).live # "open"
BY DEF FreshPage, PageStates

LEMMA ClosedStream ==
  NoStream \in Streams /\ ~NoStream.open /\ NoStream.dirWatcher = 0
BY DEF NoStream, Streams

(* The stream is opened, or refused. *)
LEMMA OpeningKeeps ==
  ASSUME DashInv, OpenEventStream
  PROVE  DashInv'
<1>1. disk' = disk /\ wire' = wire /\ fetches' = fetches /\ upsets' = upsets /\ notes' = {} /\ ~untold'
      /\ untold' \in BOOLEAN /\ page.live = "connecting"
  BY DEF OpenEventStream
<1>2. CASE disk.root
  <2> DEFINE s == ScanProjectDirs([NoStream EXCEPT !.open = TRUE])
             p == [page EXCEPT !.live = "open"]
  <2>1. stream' = s /\ page' = p
    BY <1>2 DEF OpenEventStream
  <2>2. s = [open |-> TRUE, dirWatcher |-> disk.dir, timer |-> FALSE]
    BY DEF ScanProjectDirs, NoStream
  <2>3. s \in Streams /\ s.dirWatcher = disk.dir /\ s.open
    <3>1. disk.dir \in Nat
      BY DashParts
    <3> HIDE DEF s
    <3> QED
      BY <2>2, <3>1 DEF Streams
  <2>4. /\ p \in PageStates /\ p.live = "open" /\ p.failed = page.failed /\ p.poll = page.poll /\ p.kind = page.kind
        /\ p.running = page.running /\ p.grow = page.grow /\ p.fresh = page.fresh
    BY DashParts DEF PageStates
  <2> HIDE DEF s, p
  <2>5. ChangesAreHeard'
    BY <1>1, <1>2, <2>1, <2>3 DEF ChangesAreHeard
  <2>6. StreamIsPages' /\ PageIsTimed' /\ FreshIsTrue'
    BY <1>1, <2>1, <2>3, <2>4, DashParts DEF StreamIsPages, PageIsTimed, FreshIsTrue
  <2> QED
    BY <1>1, <2>1, <2>3, <2>4, <2>5, <2>6, DashParts, DashJoins
<1>3. CASE ~disk.root
  <2> DEFINE p == [page EXCEPT !.live = "closed", !.poll = TRUE, !.failed = TRUE]
  <2>1. stream' = stream /\ page' = p
    BY <1>3 DEF OpenEventStream
  <2>2. /\ p \in PageStates /\ p.live = "closed" /\ p.poll /\ p.kind = page.kind
        /\ p.running = page.running /\ p.grow = page.grow /\ p.fresh = page.fresh
    BY DashParts DEF PageStates
  <2> HIDE DEF p
  <2>3. ~stream.open /\ stream = NoStream
    BY <1>1, DashParts DEF StreamIsPages
  <2>4. ChangesAreHeard' /\ StreamIsPages'
    BY <1>1, <2>1, <2>2, <2>3 DEF ChangesAreHeard, StreamIsPages, NoStream
  <2>5. PageIsTimed' /\ FreshIsTrue'
    BY <1>1, <2>1, <2>2, DashParts DEF PageIsTimed, FreshIsTrue
  <2> QED
    BY <1>1, <2>1, <2>2, <2>4, <2>5, DashParts, DashJoins
<1> QED
  BY <1>2, <1>3

(* The root's watcher scans anew, or folds the stream. *)
LEMMA RootNoteKeeps ==
  ASSUME DashInv, RootNoteArrives
  PROVE  DashInv'
<1>1. /\ disk' = disk /\ wire' = wire /\ fetches' = fetches /\ upsets' = upsets
      /\ notes' = notes \ {<<"root", 0>>} /\ stream.open /\ OnRootChange
  BY DEF RootNoteArrives
<1>2. CASE disk.root
  <2> DEFINE s == ScanProjectDirs([EmitChange(stream) EXCEPT !.dirWatcher = 0])
  <2>1. stream' = s /\ page' = page /\ untold' = untold
    BY <1>1, <1>2 DEF OnRootChange
  <2>2. stream \in Streams
    BY DashParts
  <2>3. s \in Streams /\ s.dirWatcher = disk.dir /\ s.open /\ s.timer
    BY <1>1, <2>2, DashParts DEF ScanProjectDirs, EmitChange, Streams
  <2> HIDE DEF s
  <2>4. ChangesAreHeard' /\ StreamIsPages'
    BY <1>1, <1>2, <2>1, <2>3, DashParts DEF ChangesAreHeard, StreamIsPages
  <2>5. PageIsTimed' /\ FreshIsTrue'
    BY <1>1, <2>1, DashParts DEF PageIsTimed, FreshIsTrue
  <2> QED
    BY <1>1, <2>1, <2>3, <2>4, <2>5, DashParts, DashJoins
<1>3. CASE ~disk.root
  <2>1. stream' = NoStream /\ ~untold' /\ untold' \in BOOLEAN /\ page' = Broken(page)
    BY <1>1, <1>3 DEF OnRootChange
  <2>2. ChangesAreHeard' /\ StreamIsPages' /\ PageIsTimed' /\ FreshIsTrue'
    BY <1>1, <2>1, DashParts, ClosedStream, BreaksPage
       DEF ChangesAreHeard, StreamIsPages, PageIsTimed, FreshIsTrue
  <2> QED
    BY <1>1, <2>1, <2>2, DashParts, ClosedStream, BreaksPage, DashJoins
<1> QED
  BY <1>2, <1>3

(* A directory's watcher starts the debounce, unless it is closed. *)
LEMMA DirNoteKeeps ==
  ASSUME DashInv, NEW inode \in 1..disk.inodes, DirNoteArrives(inode)
  PROVE  DashInv'
<1>1. /\ disk' = disk /\ wire' = wire /\ page' = page /\ fetches' = fetches /\ upsets' = upsets /\ untold' = untold
      /\ notes' = notes \ {<<"dir", inode>>} /\ stream.open
  BY DEF DirNoteArrives
<1>2. inode # 0 /\ <<"root", 0>> # <<"dir", inode>>
  OBVIOUS
<1>3. /\ stream' \in Streams /\ stream'.open /\ stream'.dirWatcher \in {stream.dirWatcher, 0}
      /\ \/ stream.dirWatcher # inode /\ stream' = stream
         \/ stream'.timer /\ stream'.dirWatcher = stream.dirWatcher
         \/ stream'.timer /\ stream.dirWatcher # disk.dir
  <2>1. stream \in Streams
    BY DashParts
  <2>2. CASE stream.dirWatcher # inode /\ UNCHANGED stream
    BY <1>1, <2>1, <2>2
  <2>3. CASE stream.dirWatcher = inode /\ stream' = EmitChange(stream)
    <3>1. /\ EmitChange(stream) \in Streams /\ EmitChange(stream).open = stream.open /\ EmitChange(stream).timer
          /\ EmitChange(stream).dirWatcher = stream.dirWatcher
      BY <2>1 DEF EmitChange, Streams
    <3> QED
      BY <1>1, <2>3, <3>1
  <2>4. CASE /\ stream.dirWatcher = inode /\ disk.dir # inode
             /\ stream' = [EmitChange(stream) EXCEPT !.dirWatcher = 0]
    <3> DEFINE s == [EmitChange(stream) EXCEPT !.dirWatcher = 0]
    <3>1. s \in Streams /\ s.open = stream.open /\ s.timer /\ s.dirWatcher = 0
      BY <2>1 DEF EmitChange, Streams
    <3> HIDE DEF s
    <3>2. stream' = s
      BY <2>4 DEF s
    <3> QED
      BY <1>1, <2>4, <3>1, <3>2
  <2> QED
    BY <2>2, <2>3, <2>4 DEF DirNoteArrives
<1>4. ChangesAreHeard'
  <2>1. <<"root", 0>> \in notes => <<"root", 0>> \in notes'
    BY <1>1, <1>2
  <2>2. stream.dirWatcher # inode /\ <<"dir", stream.dirWatcher>> \in notes
          => <<"dir", stream.dirWatcher>> \in notes'
    BY <1>1
  <2>3. ChangesAreHeard
    BY DashParts
  <2> QED
    BY <1>1, <1>3, <2>1, <2>2, <2>3 DEF ChangesAreHeard
<1>5. StreamIsPages' /\ PageIsTimed' /\ FreshIsTrue'
  BY <1>1, <1>3, DashParts DEF StreamIsPages, PageIsTimed, FreshIsTrue
<1> QED
  BY <1>1, <1>3, <1>4, <1>5, DashParts, DashJoins

(* The debounce ends in a message, a break in a page that polls. *)
LEMMA StreamKeeps ==
  ASSUME DashInv, Tell \/ StreamBreaks
  PROVE  DashInv'
<1>1. CASE Tell
  <2> DEFINE s == [stream EXCEPT !.timer = FALSE]
  <2>1. /\ disk' = disk /\ notes' = notes /\ page' = page /\ fetches' = fetches /\ upsets' = upsets
        /\ wire' = TRUE /\ untold' = FALSE /\ stream.open /\ stream' = s
    BY <1>1 DEF Tell
  <2>2. s \in Streams /\ s.open = stream.open /\ s.dirWatcher = stream.dirWatcher
    BY DashParts DEF Streams
  <2> HIDE DEF s
  <2>3. ChangesAreHeard' /\ StreamIsPages' /\ PageIsTimed' /\ FreshIsTrue'
    BY <2>1, <2>2, DashParts DEF ChangesAreHeard, StreamIsPages, PageIsTimed, FreshIsTrue
  <2> QED
    BY <2>1, <2>2, <2>3, DashParts, DashJoins
<1>2. CASE StreamBreaks
  <2>1. /\ disk' = disk /\ fetches' = fetches /\ upsets' = upsets + 1
        /\ stream' = NoStream /\ wire' = FALSE /\ notes' = {} /\ untold' = FALSE /\ page' = Broken(page)
    BY <1>2 DEF StreamBreaks
  <2>2. ChangesAreHeard' /\ StreamIsPages' /\ PageIsTimed' /\ FreshIsTrue'
    BY <2>1, DashParts, ClosedStream, BreaksPage
       DEF ChangesAreHeard, StreamIsPages, PageIsTimed, FreshIsTrue
  <2>3. upsets' \in Nat /\ page' \in PageStates
    BY <2>1, DashParts, BreaksPage
  <2> QED
    BY <2>1, <2>2, <2>3, DashParts, ClosedStream, DashJoins
<1> QED
  BY <1>1, <1>2

(* The page's message and its timers ask anew. *)
LEMMA AskingKeeps ==
  ASSUME DashInv, OnMessage \/ PollTick \/ GrowTick
  PROVE  DashInv'
<1>1. /\ disk' = disk /\ notes' = notes /\ stream' = stream /\ upsets' = upsets /\ untold' = untold
      /\ page' = page /\ wire' \in BOOLEAN /\ Refresh(page.token)
  BY DashParts DEF OnMessage, PollTick, GrowTick, Elsewhere
<1>2. page.token \in Nat
  BY DashParts DEF PageStates
<1>3. fetches' \in Fetches /\ \A s \in Slots : fetches'[s].fresh => fetches'[s] = fetches[s]
  BY <1>1, <1>2, DashParts, Refreshes
<1>4. ChangesAreHeard' /\ StreamIsPages' /\ PageIsTimed' /\ FreshIsTrue'
  BY <1>1, <1>3, DashParts DEF ChangesAreHeard, StreamIsPages, PageIsTimed, FreshIsTrue
<1> QED
  BY <1>1, <1>3, <1>4, DashParts, DashJoins

(* An answer is what the disk says when it is given. *)
LEMMA AnswerKeeps ==
  ASSUME DashInv, NEW s \in Slots, Answer(s)
  PROVE  DashInv'
<1>1. /\ disk' = disk /\ notes' = notes /\ stream' = stream /\ upsets' = upsets /\ untold' = untold
      /\ page' = page /\ wire' = wire
  BY DEF Answer, Elsewhere
<1>2. /\ fetches' \in Fetches /\ fetches'[s].running = disk.running /\ fetches'[s].found = (disk.dir # 0)
      /\ \A t \in Slots \ {s} : fetches'[t] = fetches[t]
  <2>1. fetches \in Fetches /\ disk.running \in BOOLEAN /\ (disk.dir # 0) \in BOOLEAN
    BY DashParts
  <2> DEFINE found == disk.dir # 0
             f == [fetches[s] EXCEPT !.state = "answered", !.fresh = TRUE, !.running = disk.running, !.found = found]
  <2>2. fetches' = [fetches EXCEPT ![s] = f]
    BY <2>1 DEF Answer, Fetches
  <2> HIDE DEF found
  <2>3. f \in [state: {"free", "asked", "answered"}, token: Nat, fresh: BOOLEAN, running: BOOLEAN, found: BOOLEAN]
        /\ f.running = disk.running /\ f.found = found
    BY <2>1 DEF Fetches, found
  <2> HIDE DEF f
  <2> QED
    BY <2>1, <2>2, <2>3 DEF Fetches, found
<1>3. ChangesAreHeard' /\ StreamIsPages' /\ PageIsTimed'
  BY <1>1, DashParts DEF ChangesAreHeard, StreamIsPages, PageIsTimed
<1>4. FreshIsTrue'
  BY <1>1, <1>2, DashParts DEF FreshIsTrue
<1> QED
  BY <1>1, <1>2, <1>3, <1>4, DashParts, DashJoins

(* A page that is left leaves nothing on the server. *)
LEMMA NavigationKeeps ==
  ASSUME DashInv, NEW kind \in Pages, Navigate(kind), upsets' \in Nat, fetches' \in Fetches,
         \A s \in Slots : fetches'[s].fresh => fetches'[s] = fetches[s]
  PROVE  DashInv'
<1>1. /\ disk' = disk /\ page' = FreshPage(kind, page.token + 1) /\ page.token + 1 \in Nat
      /\ stream' = NoStream /\ wire' = FALSE /\ notes' = {} /\ untold' = FALSE
  BY DashParts DEF Navigate, PageStates
<1>2. ChangesAreHeard' /\ StreamIsPages' /\ PageIsTimed' /\ FreshIsTrue'
  BY <1>1, DashParts, ClosedStream, PagesAreFresh
     DEF ChangesAreHeard, StreamIsPages, PageIsTimed, FreshIsTrue
<1> QED
  BY <1>1, <1>2, DashParts, ClosedStream, PagesAreFresh, DashJoins

LEMMA LeavingKeeps ==
  ASSUME DashInv, NEW kind \in Pages, Leave(kind)
  PROVE  DashInv'
<1>1. upsets' \in Nat /\ Navigate(kind) /\ page.token + 1 \in Nat /\ Refresh(page.token + 1)
  BY DashParts DEF Leave, PageStates
<1>2. fetches' \in Fetches /\ \A s \in Slots : fetches'[s].fresh => fetches'[s] = fetches[s]
  BY <1>1, DashParts, Refreshes
<1> QED
  BY <1>1, <1>2, NavigationKeeps

LEMMA VanishKeeps ==
  ASSUME DashInv, NEW s \in Slots, Vanish(s)
  PROVE  DashInv'
<1> DEFINE f == Asked(page.token + 1)
<1>1. upsets' \in Nat /\ Navigate("landing") /\ fetches' = [fetches EXCEPT ![s] = f]
  BY DashParts DEF Vanish
<1>2. f \in [state: {"free", "asked", "answered"}, token: Nat, fresh: BOOLEAN, running: BOOLEAN, found: BOOLEAN]
      /\ ~f.fresh
  <2>1. page.token + 1 \in Nat
    BY DashParts DEF PageStates
  <2> QED
    BY <2>1 DEF Asked, NoFetch
<1> HIDE DEF f
<1>3. fetches' \in Fetches /\ \A t \in Slots : fetches'[t].fresh => fetches'[t] = fetches[t]
  BY <1>1, <1>2, DashParts DEF Fetches
<1> QED
  BY <1>1, <1>3, NavigationKeeps DEF Pages

(* Drawing keeps the page's kind and stream, takes the answer's state and sets the session page's timer by it. *)
LEMMA DrawnKeeps ==
  ASSUME NEW f, f.fresh \in BOOLEAN, f.running \in BOOLEAN, NEW p \in PageStates, NEW known,
         NEW q, q = Drawn(p, f, known)
  PROVE  /\ q \in PageStates /\ q.kind = p.kind /\ q.fresh = f.fresh /\ q.running = f.running
         /\ q.failed = p.failed /\ q.poll = p.poll /\ (q.live = "open" <=> p.live = "open")
         /\ q.kind = "session" => q.grow = q.running
  BY DEF Drawn, SyncGrowTimer, PageStates, Pages

(* What is drawn is an answer to this page, and sets its timers. *)
LEMMA DrawKeeps ==
  ASSUME DashInv, NEW s \in Slots, Draw(s)
  PROVE  DashInv'
<1>1. /\ disk' = disk /\ notes' = notes /\ stream' = stream /\ upsets' = upsets /\ untold' = untold /\ wire' = wire
      /\ fetches' = [fetches EXCEPT ![s] = NoFetch]
      /\ page' = page \/ \E known \in BOOLEAN : page' = Drawn(page, fetches[s], known)
  BY DEF Draw, Elsewhere
<1>2. fetches' \in Fetches /\ \A t \in Slots : fetches'[t].fresh => fetches'[t] = fetches[t]
  <2>1. NoFetch \in [state: {"free", "asked", "answered"}, token: Nat, fresh: BOOLEAN, running: BOOLEAN, found: BOOLEAN]
        /\ ~NoFetch.fresh
    BY DEF NoFetch
  <2> QED
    BY <1>1, <2>1, DashParts DEF Fetches
<1>4. /\ page' \in PageStates /\ (page'.live = "open" <=> page.live = "open")
      /\ PageIsTimed' /\ (page'.fresh => page'.running = disk.running)
  <2>1. CASE page' = page
    BY <2>1, DashParts DEF PageIsTimed, FreshIsTrue
  <2>2. ASSUME NEW known \in BOOLEAN, page' = Drawn(page, fetches[s], known)
        PROVE  /\ page' \in PageStates /\ (page'.live = "open" <=> page.live = "open")
               /\ PageIsTimed' /\ (page'.fresh => page'.running = disk.running)
    <3>1. fetches[s].fresh \in BOOLEAN /\ fetches[s].running \in BOOLEAN /\ page \in PageStates
      BY DashParts DEF Fetches
    <3>2. fetches[s].fresh => fetches[s].running = disk.running
      BY DashParts DEF FreshIsTrue
    <3>3. /\ page' \in PageStates /\ page'.kind = page.kind /\ page'.fresh = fetches[s].fresh
          /\ page'.running = fetches[s].running
          /\ page'.failed = page.failed /\ page'.poll = page.poll /\ (page'.live = "open" <=> page.live = "open")
          /\ page'.kind = "session" => page'.grow = page'.running
      <4> DEFINE f == fetches[s]
      <4>1. f.fresh \in BOOLEAN /\ f.running \in BOOLEAN /\ page' = Drawn(page, f, known)
        BY <2>2, <3>1
      <4> HIDE DEF f
      <4>2. /\ page' \in PageStates /\ page'.kind = page.kind /\ page'.fresh = f.fresh
            /\ page'.running = f.running
            /\ page'.failed = page.failed /\ page'.poll = page.poll /\ (page'.live = "open" <=> page.live = "open")
            /\ page'.kind = "session" => page'.grow = page'.running
        BY <3>1, <4>1, DrawnKeeps
      <4> QED
        BY <4>2 DEF f
    <3>4. PageIsTimed'
      BY <3>3, DashParts DEF PageIsTimed
    <3> QED
      BY <3>2, <3>3, <3>4
  <2> QED
    BY <1>1, <2>1, <2>2
<1>5. ChangesAreHeard' /\ StreamIsPages' /\ FreshIsTrue'
  BY <1>1, <1>2, <1>4, DashParts DEF ChangesAreHeard, StreamIsPages, FreshIsTrue
<1> QED
  BY <1>1, <1>2, <1>4, <1>5, DashParts, DashJoins

LEMMA DashInitInv ==
  ASSUME DashInit
  PROVE  DashInv
<1>1. /\ disk = FirstDisk /\ notes = {} /\ stream = NoStream /\ wire = FALSE
      /\ page = FreshPage("session", 0) /\ upsets = 0 /\ untold = FALSE
      /\ fetches = [s \in Slots |-> IF s = 1 THEN Asked(0) ELSE NoFetch]
  BY DEF DashInit
<1>2. page \in PageStates /\ ~page.fresh /\ ~page.failed /\ ~page.running /\ page.live # "open"
  BY <1>1, PagesAreFresh DEF Pages
<1>3. fetches \in Fetches /\ \A s \in Slots : ~fetches[s].fresh
  BY <1>1 DEF Fetches, Asked, NoFetch
<1>4. stream \in Streams /\ ~stream.open /\ stream.dirWatcher = 0
  BY <1>1, ClosedStream
<1>5. DashTypeOK
  <2>1. /\ disk \in [changes: Nat, root: BOOLEAN, dir: Nat, inodes: Nat, running: BOOLEAN]
        /\ disk.dir \in Inodes \cup {0} /\ (disk.dir # 0 => disk.root)
    BY <1>1 DEF FirstDisk, Inodes
  <2>2. notes \subseteq {<<"root", 0>>} \cup ({"dir"} \X Inodes)
    BY <1>1
  <2>3. wire \in BOOLEAN /\ untold \in BOOLEAN /\ upsets \in Nat
    BY <1>1
  <2> QED
    BY <1>2, <1>3, <1>4, <2>1, <2>2, <2>3 DEF DashTypeOK, Streams, PageStates, Fetches
<1>6. ChangesAreHeard /\ StreamIsPages /\ PageIsTimed /\ FreshIsTrue
  BY <1>1, <1>2, <1>3, <1>4 DEF ChangesAreHeard, StreamIsPages, PageIsTimed, FreshIsTrue
<1> QED
  BY <1>5, <1>6 DEF DashInv

LEMMA DashNextInv ==
  ASSUME DashInv, [DashNext]_dashVars
  PROVE  DashInv'
<1>1. CASE UNCHANGED dashVars
  <2>1. /\ disk' = disk /\ notes' = notes /\ stream' = stream /\ upsets' = upsets /\ untold' = untold
        /\ page' = page /\ wire' = wire /\ fetches' = fetches
    BY <1>1 DEF dashVars
  <2>2. ChangesAreHeard' /\ StreamIsPages' /\ PageIsTimed' /\ FreshIsTrue'
    BY <2>1, DashParts DEF ChangesAreHeard, StreamIsPages, PageIsTimed, FreshIsTrue
  <2> QED
    BY <2>1, <2>2, DashParts, DashJoins
<1>2. CASE DashNext
  BY <1>2, DiskKeeps, OpeningKeeps, RootNoteKeeps, DirNoteKeeps, StreamKeeps, AskingKeeps, AnswerKeeps,
     LeavingKeeps, VanishKeeps, DrawKeeps DEF DashNext
<1> QED
  BY <1>1, <1>2

(* The dashboard's inductive invariant: stream, page and disk agree, for any *)
(* number of changes, requests and breaks (dashboard-events.ts, app.js).     *)
THEOREM DashInvariant == DashSpec => []DashInv
<1>1. DashInit => DashInv
  BY DashInitInv
<1>2. DashInv /\ [DashNext]_dashVars => DashInv'
  BY DashNextInv
<1> QED
  BY <1>1, <1>2, PTL DEF DashSpec

(* No change goes unheard: until it is announced the debounce is running or  *)
(* a notification is on the way that starts it, also of a directory deleted  *)
(* and made anew (dashboard-events.ts, onRootChange, emitChange).            *)
THEOREM NoChangeUnheard == DashSpec => []ChangesAreHeard
  BY DashInvariant, PTL DEF DashInv

(* A page that lost its stream, or shows something running, asks again by    *)
(* itself (app.js, startLive, syncGrowTimer).                                *)
THEOREM NoPageWaits == DashSpec => []PageIsTimed
  BY DashInvariant, PTL DEF DashInv

(* What a page counts as drawn anew is what the disk says                    *)
(* (dashboard-api.ts; app.js, the renderers).                                *)
THEOREM DrawnIsTrue == DashSpec => []FreshIsTrue
  BY DashInvariant, PTL DEF DashInv

-----------------------------------------------------------------------------
(* The parts *)

(* The overlay of the screens is the watch overlay (child-watch.ts). *)
THEOREM OverlayIsPart == Spec => OverlaySpec
<1>1. Init => OverlayInit
  BY DEF Init
<1>2. [Next]_screens => [OverlayNext]_overlayVars
  BY DEF Next, screens
<1> QED
  BY <1>1, <1>2, PTL DEF Spec, OverlaySpec

(* The viewport of the screens is the watch view's (watch-viewport.ts). *)
THEOREM ViewportIsPart == Spec => ScrollSpec
<1>1. Init => ScrollInit
  BY DEF Init
<1>2. [Next]_screens => [ScrollNext]_scrollVars
  BY DEF Next, screens
<1> QED
  BY <1>1, <1>2, PTL DEF Spec, ScrollSpec

(* The transcript of the screens is the child's (child-view.ts). *)
THEOREM ViewIsPart == Spec => ViewSpec
<1>1. Init => ViewInit
  BY DEF Init
<1>2. [Next]_screens => [ViewNext]_viewVars
  BY DEF Next, screens
<1> QED
  BY <1>1, <1>2, PTL DEF Spec, ViewSpec

(* Once the overlay is closed (closeWatch, child-watch.ts), nothing of it   *)
(* is left, in any behaviour of the screens.                                *)
THEOREM ScreensLeaveNothing == Spec => []OverlayLeavesNothing
  BY OverlayIsPart, NothingIsLeft, PTL

(* The keys of the child view (stepCursor, child-watch-cursor.ts) reach     *)
(* every child, in any behaviour of the screens.                            *)
THEOREM ScreensReachAll == Spec => []EveryChildReached
  BY OverlayIsPart, AllChildrenReached, PTL

(* The jump keys show every divider (handoffJumpTarget, watch-viewport.ts), *)
(* in any behaviour of the screens.                                         *)
THEOREM ScreensShowAll == Spec => []JumpsShowAll
  BY ViewportIsPart, JumpsAlwaysShowAll, PTL

(* A child's calls are shown as what became of them (failNeverRunCalls,     *)
(* replay, child-view.ts), in any behaviour of the screens.                 *)
THEOREM ScreensSettleCalls == Spec => []CallsAreSettled
  BY ViewIsPart, CallsAlwaysSettled, PTL

(* The session and the chat of the screens are the side chat's              *)
(* (btw-context.ts, btw-thread.ts).                                         *)
THEOREM ChatIsPart == Spec => ChatSpec
<1>1. Init => ChatInit
  BY DEF Init
<1>2. [Next]_screens => [ChatNext]_chatVars
  BY DEF Next, screens
<1> QED
  BY <1>1, <1>2, PTL DEF Spec, ChatSpec

(* The view behind a swap starts at the longest whole tail                  *)
(* (selectContextTail, context-cap-view.ts), in any behaviour of the        *)
(* screens.                                                                 *)
THEOREM ScreensKeepLongestTail == Spec => []TailIsLongest
  BY ChatIsPart, TailIsAlwaysLongest, PTL

(* What the side chat sends is in pairs (buildBtwMessages, btw-context.ts), *)
(* in any behaviour of the screens.                                         *)
THEOREM ScreensPairFork == Spec => []ForkIsPaired
  BY ChatIsPart, ForkIsAlwaysPaired, PTL

(* The dashboard of the screens keeps its invariant (dashboard-events.ts,   *)
(* app.js), in any behaviour of the screens.                                *)
THEOREM ScreensKeepDashboard == Spec => []DashInv
<1>1. Init => DashInv
  BY DashInitInv DEF Init
<1>2. DashInv /\ [Next]_screens => DashInv'
  <2>1. [Next]_screens => [DashNext]_dashVars
    BY DEF Next, screens
  <2> QED
    BY <2>1, DashNextInv
<1> QED
  BY <1>1, <1>2, PTL DEF Spec
================================================================================
