------------------------------ MODULE Dashboard ------------------------------
(***************************************************************************)
(* The live dashboard: one project's directory under the sessions root,    *)
(* the server's event stream over file watchers (lib/dashboard-events.ts,  *)
(* lib/dashboard-server.ts) and the browser's page                         *)
(* (lib/dashboard-ui/app.js).  Linux notifications arrive later than the   *)
(* change they are about; requests and the stream may be slow or break.    *)
(***************************************************************************)
EXTENDS Naturals, FiniteSetsExt

CONSTANTS
  MaxFetches, \* requests under way at once
  MaxChanges, \* changes on disk
  MaxUpsets   \* breaks of the stream and navigations by hand

ASSUME DashboardAssumption ==
  MaxFetches \in Nat /\ MaxChanges \in Nat /\ MaxUpsets \in Nat

VARIABLES
  disk,    \* what is stored
  notes,   \* notifications on their way to the server
  stream,  \* the server's side of the page's event stream
  wire,    \* a "changed" message is on its way to the page
  page,    \* the page
  fetches, \* its requests, and those of pages it left
  upsets,  \* breaks and navigations so far
  untold   \* history: a change since the stream's last message

dashVars == <<disk, notes, stream, wire, page, fetches, upsets, untold>>

(* dir is the inode of the project's directory, 0 without one; a new one has a new inode. *)
FirstDisk == [changes |-> 0, root |-> TRUE, dir |-> 1, inodes |-> 1, running |-> TRUE]

NoStream == [open |-> FALSE, dirWatcher |-> 0, timer |-> FALSE]

Pages == {"landing", "session", "transcript"}

(* live: no stream is asked for, one is being connected, is open or refused.  fresh is whether
   what is drawn is what the disk says. *)
FreshPage(kind, token) ==
  [kind |-> kind, token |-> token, live |-> IF kind = "transcript" THEN "no" ELSE "connecting",
   poll |-> FALSE, grow |-> FALSE, fresh |-> FALSE, running |-> FALSE, failed |-> FALSE]

NoFetch == [state |-> "free", token |-> 0, fresh |-> FALSE, running |-> FALSE, found |-> FALSE]
Asked(token) == [NoFetch EXCEPT !.state = "asked", !.token = token]

Slots == 1..MaxFetches

(* Ask for the data of the page anew, whatever is under way. *)
Refresh(token) ==
  LET free == {s \in Slots : fetches[s].state = "free"}
  IN free # {} /\ fetches' = [fetches EXCEPT ![Min(free)] = Asked(token)]

DashInit ==
  /\ disk = FirstDisk /\ notes = {} /\ stream = NoStream /\ wire = FALSE
  /\ page = FreshPage("session", 0)
  /\ fetches = [s \in Slots |-> IF s = 1 THEN Asked(0) ELSE NoFetch]
  /\ upsets = 0 /\ untold = FALSE

-----------------------------------------------------------------------------
(* The disk: sessions write, directories come and go *)

(* What was read before is old now. *)
Outdate(d) ==
  /\ disk.root /\ disk.changes < MaxChanges
  /\ disk' = [d EXCEPT !.changes = @ + 1]
  /\ page' = [page EXCEPT !.fresh = FALSE]
  /\ fetches' = [s \in Slots |-> [fetches[s] EXCEPT !.fresh = FALSE]]
  /\ UNCHANGED <<stream, wire, upsets>>

(* A change that the stream's watchers have to report. *)
Change(d, told) ==
  /\ Outdate(d)
  /\ notes' = notes \cup told
  /\ untold' = (untold \/ stream.open)

(* A watcher holds on to its inode, with or without a name. *)
DirNote(inode) == IF inode # 0 /\ stream.dirWatcher = inode THEN {<<"dir", inode>>} ELSE {}

AppendRow ==
  /\ disk.dir # 0
  /\ \E r \in BOOLEAN : Change([disk EXCEPT !.running = r], DirNote(disk.dir))

MakeDir ==
  /\ disk.dir = 0
  /\ Change([disk EXCEPT !.dir = disk.inodes + 1, !.inodes = @ + 1, !.running = TRUE], {<<"root", 0>>})

(* The dead inode's watcher hears of it, or never does. *)
RemoveDir ==
  /\ disk.dir # 0
  /\ \E told \in SUBSET DirNote(disk.dir) : Change([disk EXCEPT !.dir = 0], told \cup {<<"root", 0>>})

RemoveRoot == Change([disk EXCEPT !.dir = 0, !.root = FALSE], {<<"root", 0>>})

(* Nobody writes: with the active window over, a running session counts as ended. *)
Stales ==
  /\ disk.dir # 0 /\ disk.running
  /\ Outdate([disk EXCEPT !.running = FALSE])
  /\ UNCHANGED <<notes, untold>>

-----------------------------------------------------------------------------
(* The server's stream *)

EmitChange(s) == [s EXCEPT !.timer = TRUE]

(* Watch what exists; a watched directory keeps the watcher it has. *)
ScanProjectDirs(s) == IF s.dirWatcher # 0 THEN s ELSE [s EXCEPT !.dirWatcher = disk.dir]

(* Watchers first; without a root the request fails and the page polls from then on.  An event
   source asks again by itself after a break, not after a refusal. *)
OpenEventStream ==
  /\ page.live = "connecting"
  /\ IF disk.root
     THEN /\ stream' = ScanProjectDirs([NoStream EXCEPT !.open = TRUE])
          /\ page' = [page EXCEPT !.live = "open"]
     ELSE /\ page' = [page EXCEPT !.live = "closed", !.poll = TRUE, !.failed = TRUE]
          /\ UNCHANGED stream
  /\ notes' = {} /\ untold' = FALSE
  /\ UNCHANGED <<disk, wire, fetches, upsets>>

(* The page's source ends with the stream: onerror starts the poll, the source tries again. *)
Broken(p) == [p EXCEPT !.live = "connecting", !.poll = TRUE, !.failed = TRUE]

Bug_OnRootChange ==
  IF disk.root
  THEN /\ stream' = ScanProjectDirs(EmitChange(stream))
       /\ UNCHANGED <<page, untold>>
  ELSE /\ stream' = NoStream /\ untold' = FALSE
       /\ page' = Broken(page)

(* Drop the named directory's watcher, it may sit on a dead inode, and scan anew; the root gone
   itself folds the stream. *)
OnRootChange ==
  IF disk.root
  THEN /\ stream' = ScanProjectDirs([EmitChange(stream) EXCEPT !.dirWatcher = 0])
       /\ UNCHANGED <<page, untold>>
  ELSE /\ stream' = NoStream /\ untold' = FALSE
       /\ page' = Broken(page)

RootNoteArrives ==
  /\ stream.open /\ <<"root", 0>> \in notes
  /\ notes' = notes \ {<<"root", 0>>}
  /\ OnRootChange
  /\ UNCHANGED <<disk, wire, fetches, upsets>>

(* A watcher's callback: a closed one's never runs, an error of a deleted one drops it too. *)
DirNoteArrives(inode) ==
  /\ stream.open /\ <<"dir", inode>> \in notes
  /\ notes' = notes \ {<<"dir", inode>>}
  /\ \/ stream.dirWatcher # inode /\ UNCHANGED stream
     \/ stream.dirWatcher = inode /\ stream' = EmitChange(stream)
     \/ /\ stream.dirWatcher = inode /\ disk.dir # inode
        /\ stream' = [EmitChange(stream) EXCEPT !.dirWatcher = 0]
  /\ UNCHANGED <<disk, wire, page, fetches, upsets, untold>>

(* The debounce is over: one message for all changes so far. *)
Tell ==
  /\ stream.open /\ stream.timer
  /\ stream' = [stream EXCEPT !.timer = FALSE]
  /\ wire' = TRUE /\ untold' = FALSE
  /\ UNCHANGED <<disk, notes, page, fetches, upsets>>

StreamBreaks ==
  /\ stream.open /\ upsets < MaxUpsets
  /\ upsets' = upsets + 1
  /\ stream' = NoStream /\ wire' = FALSE /\ notes' = {} /\ untold' = FALSE
  /\ page' = Broken(page)
  /\ UNCHANGED <<disk, fetches>>

-----------------------------------------------------------------------------
(* The page *)

Elsewhere == UNCHANGED <<disk, notes, stream, upsets, untold>>

OnMessage == wire /\ wire' = FALSE /\ Refresh(page.token) /\ UNCHANGED page /\ Elsewhere
PollTick == page.poll /\ Refresh(page.token) /\ UNCHANGED <<wire, page>> /\ Elsewhere
GrowTick == page.grow /\ Refresh(page.token) /\ UNCHANGED <<wire, page>> /\ Elsewhere

(* The server derives each answer anew from disk. *)
Answer(s) ==
  /\ fetches[s].state = "asked"
  /\ fetches' = [fetches EXCEPT ![s].state = "answered", ![s].fresh = TRUE,
                                ![s].running = disk.running, ![s].found = disk.dir # 0]
  /\ UNCHANGED <<wire, page>> /\ Elsewhere

(* Cleanups end the old page's stream and timers; a new token makes it ignore late answers. *)
Navigate(kind) ==
  /\ page' = FreshPage(kind, page.token + 1)
  /\ stream' = NoStream /\ wire' = FALSE /\ notes' = {} /\ untold' = FALSE
  /\ UNCHANGED disk

Leave(kind) ==
  /\ upsets < MaxUpsets
  /\ upsets' = upsets + 1
  /\ Navigate(kind)
  /\ Refresh(page.token + 1)

Bug_SyncGrowTimer(p, running) == [p EXCEPT !.grow = @ /\ running]

SyncGrowTimer(p, running) == [p EXCEPT !.grow = running]

(* The transcript page asks for a stream once it has drawn a session that runs, or one of
   which it cannot tell: the tree's data may not be there. *)
Drawn(p, f, known) ==
  LET q == [p EXCEPT !.fresh = f.fresh, !.running = f.running]
  IN CASE p.kind = "landing" -> q
       [] p.kind = "session" -> SyncGrowTimer(q, f.running)
       [] OTHER -> IF (~known \/ f.running) /\ p.live = "no" THEN [q EXCEPT !.live = "connecting"] ELSE q

(* Late answers of a page that was left are dropped. *)
Draw(s) ==
  /\ fetches[s].state = "answered"
  /\ fetches[s].token = page.token => fetches[s].found \/ page.kind = "landing"
  /\ \E known \in BOOLEAN :
       page' = IF fetches[s].token = page.token THEN Drawn(page, fetches[s], known) ELSE page
  /\ fetches' = [fetches EXCEPT ![s] = NoFetch]
  /\ UNCHANGED wire /\ Elsewhere

(* A session that is gone: back to the landing page. *)
Vanish(s) ==
  /\ fetches[s].state = "answered" /\ fetches[s].token = page.token
  /\ ~fetches[s].found /\ page.kind # "landing"
  /\ Navigate("landing") /\ UNCHANGED upsets
  /\ fetches' = [fetches EXCEPT ![s] = Asked(page.token + 1)]

DashNext ==
  \/ AppendRow \/ MakeDir \/ RemoveDir \/ RemoveRoot \/ Stales
  \/ OpenEventStream \/ RootNoteArrives \/ Tell \/ StreamBreaks
  \/ \E inode \in 1..disk.inodes : DirNoteArrives(inode)
  \/ OnMessage \/ PollTick \/ GrowTick
  \/ \E s \in Slots : Answer(s) \/ Draw(s) \/ Vanish(s)
  \/ \E kind \in Pages : Leave(kind)

(* Notifications and answers arrive in the end, timers fire: each of these steps is fair. *)
Fair(step) ==
  \/ step = "stream" /\ OpenEventStream
  \/ step = "root" /\ RootNoteArrives
  \/ step = "dir" /\ \E inode \in 1..disk.inodes : DirNoteArrives(inode)
  \/ step = "tell" /\ Tell
  \/ step = "message" /\ OnMessage
  \/ step = "poll" /\ PollTick
  \/ step = "grow" /\ GrowTick

FairSteps == {"stream", "root", "dir", "tell", "message", "poll", "grow"}

FetchGoesOn(s) == Answer(s) \/ Draw(s) \/ Vanish(s)

DashSpec ==
  /\ DashInit /\ [][DashNext]_dashVars
  /\ \A step \in FairSteps : WF_dashVars(Fair(step))
  /\ \A s \in Slots : WF_dashVars(FetchGoesOn(s))

-----------------------------------------------------------------------------
(* Properties *)

(* A change while the stream is open is followed by a message, or the stream ends, which the page
   takes as one; also for a directory that was deleted and made anew
   (dashboard-events.ts, onRootChange, emitChange). *)
ClientIsTold == untold ~> ~untold

CatchesUp == page.failed \/ (page.kind = "session" /\ page.running)

(* A page that shows a running session, or lost its stream, draws the last state in the end, or is
   left (app.js, syncGrowTimer and startLive's poll): no message needs to reach it. *)
PageCatchesUp == CatchesUp ~> page.fresh \/ ~CatchesUp

-----------------------------------------------------------------------------
(* Why they hold *)

Inodes == 1..disk.inodes

DashTypeOK ==
  /\ disk \in [changes: Nat, root: BOOLEAN, dir: Nat, inodes: Nat, running: BOOLEAN]
  /\ disk.dir \in Inodes \cup {0} /\ (disk.dir # 0 => disk.root)
  /\ stream \in [open: BOOLEAN, dirWatcher: Nat, timer: BOOLEAN] /\ stream.dirWatcher \in Inodes \cup {0}
  /\ notes \subseteq {<<"root", 0>>} \cup ({"dir"} \X Inodes)
  /\ wire \in BOOLEAN /\ untold \in BOOLEAN /\ upsets \in Nat
  /\ page \in [kind: Pages, token: Nat, live: {"no", "connecting", "open", "closed"}, poll: BOOLEAN,
               grow: BOOLEAN, fresh: BOOLEAN, running: BOOLEAN, failed: BOOLEAN]
  /\ fetches \in [Slots -> [state: {"free", "asked", "answered"}, token: Nat, fresh: BOOLEAN,
                           running: BOOLEAN, found: BOOLEAN]]

(* A change that was not announced has its debounce running, or a notification on the way that
   starts it; and the directory is watched, or a notification on the way has it watched
   (dashboard-events.ts, emitChange, onRootChange). *)
ChangesAreHeard ==
  /\ untold => /\ stream.open
               /\ stream.timer \/ <<"root", 0>> \in notes \/ <<"dir", stream.dirWatcher>> \in notes
  /\ stream.open /\ (stream.dirWatcher # disk.dir \/ ~disk.root) => <<"root", 0>> \in notes

(* The server's stream is open exactly while the page's source is, and only then knows of changes. *)
StreamIsPages ==
  /\ stream.open <=> page.live = "open"
  /\ ~stream.open => stream = NoStream

(* A page that lost its stream polls, one that shows a running session asks again by itself
   (app.js, startLive, syncGrowTimer). *)
PageIsTimed ==
  /\ page.failed => page.poll
  /\ page.kind = "session" /\ page.running => page.grow

(* What counts as drawn or answered anew is what the disk says. *)
FreshIsTrue ==
  /\ page.fresh => page.running = disk.running
  /\ \A s \in Slots : fetches[s].fresh =>
       fetches[s].running = disk.running /\ fetches[s].found = (disk.dir # 0)

DashInv == DashTypeOK /\ ChangesAreHeard /\ StreamIsPages /\ PageIsTimed /\ FreshIsTrue
=============================================================================
