------------------------------ MODULE ChildPool ------------------------------
(***************************************************************************)
(* The child sessions of the Agent and Explore tools: tool calls take a    *)
(* slot of their group, spawn a child or resume one (live, or evicted and  *)
(* reopened from its file), drive one run of it and give the slot back.    *)
(* Calls interleave at every await.  An agent child may call Explore.      *)
(***************************************************************************)
EXTENDS Naturals, FiniteSets

CONSTANTS
  MaxCalls,     \* tool calls in flight at a time, winding down included
  MaxIds,       \* children ever spawned
  MaxSessions,  \* child sessions in memory at a time
  Mains,        \* main sessions
  NoRoot,       \* stands for no root
  Parallel,     \* explorers at a time (PI_EXPLORER_PARALLEL)
  MaxFinished,  \* finished children kept in memory
  MaxResets     \* session shutdowns

ASSUME PoolAssumption ==
  /\ MaxCalls \in Nat /\ MaxIds \in Nat /\ MaxSessions \in Nat /\ MaxFinished \in Nat /\ MaxResets \in Nat
  /\ Parallel \in Nat \ {0}
  /\ NoRoot \notin Mains \cup (1..MaxIds)

VARIABLES
  call,       \* the calls, see Idle for one that is not in flight
  sess,       \* the session objects, each on the file of one child
  live,       \* liveChildren: each child's record, NoRecord without one
  order,      \* pairs of live children, the one inserted earlier first
  evicted,    \* children with a tombstone
  reopening,  \* children being reopened
  active,     \* slots taken, by group
  kindOf,     \* the kind of each child, "none" before it is spawned
  rootOf,     \* the root of each child's spawn row, NoRoot when it has none
  onDisk,     \* the children whose session file exists: pi writes it in the first run
  main,       \* the main session
  epoch,      \* shutdowns so far: each clears the registry and the groups
  expired,    \* history: busy sessions whose slot expired
  strays      \* history: the last shutdown came while a child was being reopened

registry == <<live, order, evicted, reopening>>
rows     == <<kindOf, rootOf, onDisk>>
where    == <<main, epoch, strays>>
vars == <<call, sess, registry, active, rows, where, expired>>

Calls    == 1..MaxCalls
Ids      == 1..MaxIds
Sessions == 1..MaxSessions
Kinds    == {"agent", "explorer"}
Roots    == Mains \cup Ids       \* a main session, or an agent that is in no registry

(* One call: opening awaits its session, opened holds the reservation for one more
   moment, return is on its way to give the slot back, settling waits for its child. *)
Places == {"off", "opening", "opened", "claimed", "running", "return", "settling"}

Idle == [pc |-> "off", kind |-> "agent", sess |-> 0, by |-> 0, main |-> NoRoot, epoch |-> 0,
         aborted |-> FALSE]

Unused == [id |-> 0, st |-> "gone", born |-> 0]

NoRecord == [sess |-> 0, running |-> FALSE]

Limit(kind) == IF kind = "agent" THEN 1 ELSE Parallel

CallType == [pc: Places, kind: Kinds, sess: Sessions \cup {0}, by: Sessions \cup {0},
             main: Mains \cup {NoRoot}, epoch: 0..MaxResets, aborted: BOOLEAN]

SessType == [id: Ids \cup {0}, st: {"gone", "opening", "idle", "queued", "busy"}, born: 0..MaxResets]

RecordType == [sess: Sessions \cup {0}, running: BOOLEAN]

PoolTypeOK ==
  /\ call \in [Calls -> CallType] /\ sess \in [Sessions -> SessType]
  /\ live \in [Ids -> RecordType] /\ order \subseteq Ids \X Ids
  /\ evicted \subseteq Ids /\ reopening \subseteq Ids
  /\ active \in [Kinds -> Nat] /\ \A kind \in Kinds : active[kind] <= Limit(kind)
  /\ kindOf \in [Ids -> Kinds \cup {"none"}] /\ rootOf \in [Ids -> Roots \cup {NoRoot}]
  /\ onDisk \subseteq Ids /\ main \in Mains /\ epoch \in 0..MaxResets /\ expired \subseteq Sessions /\ strays \in BOOLEAN

Init ==
  /\ call = [c \in Calls |-> Idle] /\ sess = [s \in Sessions |-> Unused]
  /\ live = [id \in Ids |-> NoRecord] /\ order = {} /\ evicted = {} /\ reopening = {}
  /\ active = [kind \in Kinds |-> 0]
  /\ kindOf = [id \in Ids |-> "none"] /\ rootOf = [id \in Ids |-> NoRoot]
  /\ onDisk = {} /\ main \in Mains /\ epoch = 0 /\ expired = {} /\ strays = FALSE

-----------------------------------------------------------------------------
(* The registry *)

LiveIds == {id \in Ids : live[id].sess # 0}

IsIdle(s) == sess[s].st \in {"idle", "queued"}     \* queued: idle, with input to come
(* Mutant: every record counts as finished. *)
Bug_Finished == LiveIds
Finished    == {id \in LiveIds : ~live[id].running /\ IsIdle(live[id].sess)}

(* The oldest finished children beyond MaxFinished: those with that many behind them. *)
Dropped ==
  {id \in Finished : Cardinality({other \in Finished : <<id, other>> \in order}) >= MaxFinished}

Remaining ==
  /\ live' = [id \in Ids |-> IF id \in Dropped THEN NoRecord ELSE live[id]]
  /\ order' = {pair \in order : pair[1] \notin Dropped /\ pair[2] \notin Dropped}

(* Mutant: no tombstone. *)
Bug_EvictFinishedChildren == Remaining /\ UNCHANGED evicted

EvictFinishedChildren == Remaining /\ evicted' = evicted \cup Dropped

Disposed == [s \in Sessions |-> IF \E id \in Dropped : live[id].sess = s THEN Unused ELSE sess[s]]

(* A claimed record, the newest one unless the child has one already. *)
Insert(id, s) ==
  /\ live' = [live EXCEPT ![id] = [sess |-> s, running |-> TRUE]]
  /\ order' = IF id \in LiveIds THEN order ELSE order \cup (LiveIds \X {id})

SetRunning(s, flag) ==
  /\ live' = [id \in Ids |-> IF live[id].sess = s THEN [live[id] EXCEPT !.running = flag] ELSE live[id]]
  /\ UNCHANGED order

(* The root of a child that the session `by` would spawn for a call of main session m. *)
RootFor(by, m) ==
  IF by = 0 THEN m
  ELSE IF sess[by].id \in LiveIds THEN rootOf[sess[by].id] ELSE sess[by].id

-----------------------------------------------------------------------------
(* A call starts: the slot, and the step to its first await.  A resume that is
   refused (unknown id, another kind, still running, no session file) gives the
   slot back at once: no step. *)

InFlight(c) == call[c].pc \notin {"off", "settling"}

(* The main session calls once the calls it aborted are back; an agent child calls
   Explore from within its run. *)
MayCall(by, kind) ==
  IF by = 0
  THEN \A c \in Calls : call[c].by = 0 /\ call[c].aborted => ~InFlight(c)
  ELSE /\ kind = "explorer" /\ sess[by].st = "busy" /\ kindOf[sess[by].id] = "agent"
       /\ \E c \in Calls : call[c].pc = "running" /\ call[c].sess = by /\ ~call[c].aborted

(* tryAcquireSlot; without a slot the call is over. *)
TakeSlot(c, kind, by, place, s) ==
  /\ call[c].pc = "off" /\ \A d \in Calls : call[d].pc = "off" => c <= d
  /\ MayCall(by, kind)
  /\ active[kind] < Limit(kind)
  /\ active' = [active EXCEPT ![kind] = @ + 1]
  /\ call' = [call EXCEPT ![c] = [pc |-> place, kind |-> kind, sess |-> s, by |-> by, main |-> main,
                                  epoch |-> epoch, aborted |-> FALSE]]

(* Mutant: a call from before a shutdown counts down the new group. *)
Bug_FreeSlot(c) ==
  /\ call' = [call EXCEPT ![c] = Idle]
  /\ active' = [active EXCEPT ![call[c].kind] = @ - 1]

(* The group of a call from before a shutdown is not this one's any more. *)
FreeSlot(c) ==
  /\ call' = [call EXCEPT ![c] = Idle]
  /\ active' = IF call[c].epoch = epoch THEN [active EXCEPT ![call[c].kind] = @ - 1] ELSE active

(* A session object nobody holds. *)
Free(s) == sess[s].st = "gone" /\ \A c \in Calls : s \notin {call[c].sess, call[c].by}

Opening(s, id) ==
  /\ Free(s) /\ \A t \in Sessions : Free(t) => s <= t
  /\ sess' = [Disposed EXCEPT ![s] = [id |-> id, st |-> "opening", born |-> epoch]]
  /\ expired' = expired \ {s}

SpawnStarts(c, kind, by) ==
  \E id \in Ids, s \in Sessions :
    /\ kindOf[id] = "none" /\ \A other \in Ids : kindOf[other] = "none" => id <= other
    /\ TakeSlot(c, kind, by, "opening", s)
    /\ EvictFinishedChildren /\ Opening(s, id)
    /\ kindOf' = [kindOf EXCEPT ![id] = kind]
    /\ UNCHANGED <<reopening, rootOf, onDisk, where>>

(* Mutant: a session that drains after an abort may be resumed. *)
Bug_ResumableLive(id, kind) ==
  /\ id \notin reopening /\ id \in LiveIds
  /\ kindOf[id] = kind /\ ~live[id].running

(* No await between the check and the claim. *)
ResumableLive(id, kind) ==
  /\ id \notin reopening /\ id \in LiveIds
  /\ kindOf[id] = kind /\ ~live[id].running /\ IsIdle(live[id].sess)

ResumeLive(c, kind, by) ==
  \E id \in Ids :
    /\ ResumableLive(id, kind)
    /\ TakeSlot(c, kind, by, "claimed", live[id].sess)
    /\ SetRunning(live[id].sess, TRUE)
    /\ UNCHANGED <<sess, evicted, reopening, rows, where, expired>>

(* Mutant: the reservation is not looked at. *)
Bug_Reopenable(id, kind, by) ==
  /\ id \notin LiveIds
  /\ kindOf[id] = kind /\ id \in onDisk
  /\ id \in evicted \/ rootOf[id] = RootFor(by, main)

(* A tombstone, or the spawn row of a child with the root this call would give; and a
   session file. *)
Reopenable(id, kind, by) ==
  /\ id \notin reopening /\ id \notin LiveIds
  /\ kindOf[id] = kind /\ id \in onDisk
  /\ id \in evicted \/ rootOf[id] = RootFor(by, main)

ReopenStarts(c, kind, by) ==
  \E id \in Ids, s \in Sessions :
    /\ Reopenable(id, kind, by)
    /\ TakeSlot(c, kind, by, "opening", s)
    /\ EvictFinishedChildren /\ Opening(s, id)
    /\ reopening' = reopening \cup {id}
    /\ UNCHANGED <<rows, where>>

-----------------------------------------------------------------------------
(* The session is created *)

Goes(c, place) == call' = [call EXCEPT ![c].pc = place]
IsReopen(c)  == rootOf[sess[call[c].sess].id] # NoRoot

(* A call between its reservation and its claim. *)
Reserves(c) == call[c].pc \in {"opening", "opened"} /\ IsReopen(c)

(* From here on the record is claimed; a spawn has written its row, a reopened child
   keeps its reservation until the caller's continuation runs. *)
Opened(c) ==
  LET s == call[c].sess  id == sess[s].id
  IN /\ call[c].pc = "opening"
     /\ sess' = [sess EXCEPT ![s].st = "idle"]
     /\ Insert(id, s)
     /\ IF IsReopen(c)
        THEN Goes(c, "opened") /\ evicted' = evicted \ {id} /\ UNCHANGED rootOf
        ELSE /\ Goes(c, "claimed") /\ UNCHANGED evicted
             /\ rootOf' = [rootOf EXCEPT ![id] = RootFor(call[c].by, call[c].main)]
     /\ UNCHANGED <<reopening, active, kindOf, onDisk, where, expired>>

(* It cannot be created, or the file holds another session: the call is over. *)
OpenFails(c) ==
  LET s == call[c].sess  id == sess[s].id
  IN /\ call[c].pc = "opening" /\ FreeSlot(c)
     /\ sess' = [sess EXCEPT ![s] = Unused]
     /\ reopening' = reopening \ {id}
     /\ kindOf' = IF IsReopen(c) THEN kindOf ELSE [kindOf EXCEPT ![id] = "none"]
     /\ UNCHANGED <<live, order, evicted, rootOf, onDisk, where, expired>>

Claims(c) ==
  /\ call[c].pc = "opened" /\ Goes(c, "claimed")
  /\ reopening' = reopening \ {sess[call[c].sess].id}
  /\ SetRunning(call[c].sess, TRUE)
  /\ UNCHANGED <<sess, evicted, active, rows, where, expired>>

-----------------------------------------------------------------------------
(* The run *)

(* An abort during the awaits so far means no prompt. *)
RunStarts(c) ==
  /\ call[c].pc = "claimed" /\ ~call[c].aborted /\ Goes(c, "running")
  /\ sess' = [sess EXCEPT ![call[c].sess].st = "busy"]
  /\ onDisk' = onDisk \cup {sess[call[c].sess].id}
  /\ UNCHANGED <<registry, active, kindOf, rootOf, where, expired>>

(* Nothing to run, or the watcher cannot be set up. *)
RunSkipped(c) ==
  /\ call[c].pc = "claimed" /\ Goes(c, "return")
  /\ SetRunning(call[c].sess, FALSE)
  /\ UNCHANGED <<sess, evicted, reopening, active, rows, where, expired>>

(* The child's own loop: its tool calls are back before it ends.  Input may be queued
   still; that matters to a call that waits for quiet only. *)
SessionRests(s) ==
  /\ sess[s].st = "busy"
  /\ \A c \in Calls : InFlight(c) => call[c].by # s
  /\ \/ sess' = [sess EXCEPT ![s].st = "idle"]
     \/ /\ \E c \in Calls : call[c].pc = "running" /\ call[c].sess = s /\ ~call[c].aborted
        /\ sess' = [sess EXCEPT ![s].st = "queued"]
  /\ expired' = expired \ {s}
  /\ UNCHANGED <<call, registry, active, rows, where>>

(* Queued input starts a run of its own while the call still waits for quiet. *)
FollowUp(c) ==
  /\ call[c].pc = "running" /\ ~call[c].aborted /\ sess[call[c].sess].st = "queued"
  /\ sess' = [sess EXCEPT ![call[c].sess].st = "busy"]
  /\ UNCHANGED <<call, registry, active, rows, where, expired>>

(* Mutant: an aborted call waits for its run. *)
Bug_CallSettles(c) ==
  /\ call[c].pc = "running" /\ IsIdle(call[c].sess)
  /\ Goes(c, "return")
  /\ sess' = [sess EXCEPT ![call[c].sess].st = "idle"]
  /\ SetRunning(call[c].sess, FALSE)
  /\ UNCHANGED <<evicted, reopening, active, rows, where, expired>>

(* Quiet, the budget for queued input spent, or the abort grace over: then the run
   is orphaned. *)
CallSettles(c) ==
  /\ call[c].pc = "running" /\ (IsIdle(call[c].sess) \/ call[c].aborted)
  /\ Goes(c, "return")
  /\ sess' = [sess EXCEPT ![call[c].sess].st = IF @ = "queued" THEN "idle" ELSE @]
  /\ SetRunning(call[c].sess, FALSE)
  /\ UNCHANGED <<evicted, reopening, active, rows, where, expired>>

-----------------------------------------------------------------------------
(* The slot is given back *)

Draining(c) == call[c].sess # 0 /\ sess[call[c].sess].st = "busy"

(* Mutant: a child that drains gives its slot back at once. *)
Bug_ReleaseSlot(c) ==
  /\ call[c].pc = "return" /\ FreeSlot(c)
  /\ UNCHANGED <<sess, registry, rows, where, expired>>

ReleaseSlot(c) ==
  /\ call[c].pc = "return"
  /\ IF Draining(c) THEN Goes(c, "settling") /\ UNCHANGED active ELSE FreeSlot(c)
  /\ UNCHANGED <<sess, registry, rows, where, expired>>

ChildSettled(c) ==
  /\ call[c].pc = "settling" /\ ~Draining(c)
  /\ FreeSlot(c)
  /\ UNCHANGED <<sess, registry, rows, where, expired>>

(* SETTLE_TIMEOUT_MS: a hung child gives its slot back. *)
SlotExpires(c) ==
  /\ call[c].pc = "settling" /\ Draining(c)
  /\ FreeSlot(c) /\ expired' = expired \cup {call[c].sess}
  /\ UNCHANGED <<sess, registry, rows, where>>

-----------------------------------------------------------------------------
(* The main session *)

(* ESC aborts every call of the main session, and with a running child its calls. *)
ByMain(c) == call[c].by = 0 /\ call[c].epoch = epoch /\ InFlight(c)

Esc ==
  /\ \E c \in Calls : ByMain(c) /\ ~call[c].aborted
  /\ LET hit == {c \in Calls : ByMain(c)}
         runs == {call[c].sess : c \in {d \in hit : call[d].pc = "running"}}
     IN call' = [c \in Calls |->
                   IF c \in hit \/ (InFlight(c) /\ call[c].by \in runs)
                   THEN [call[c] EXCEPT !.aborted = TRUE] ELSE call[c]]
  /\ UNCHANGED <<sess, registry, active, rows, where, expired>>

(* Mutant: the slots of the groups stay taken. *)
Bug_ResetChildState ==
  /\ live' = [id \in Ids |-> NoRecord] /\ order' = {} /\ evicted' = {} /\ reopening' = {}
  /\ UNCHANGED active

ResetChildState ==
  /\ live' = [id \in Ids |-> NoRecord] /\ order' = {} /\ evicted' = {} /\ reopening' = {}
  /\ active' = [kind \in Kinds |-> 0]

(* session_shutdown, then the same or another main session: what is in flight goes
   on, and sees the emptied registry; an idle session is out of anyone's reach. *)
SessionShutdown ==
  /\ epoch < MaxResets /\ epoch' = epoch + 1
  /\ main' \in Mains
  /\ ResetChildState
  /\ strays' = (\E c \in Calls : Reserves(c))
  /\ sess' = [s \in Sessions |->
                IF sess[s].st = "idle" /\ \A c \in Calls : call[c].sess # s THEN Unused ELSE sess[s]]
  /\ UNCHANGED <<call, rows, expired>>

(* pi ends and starts again: only the files are left. *)
PiRestarts ==
  /\ epoch < MaxResets /\ epoch' = epoch + 1
  /\ main' \in Mains
  /\ ResetChildState
  /\ strays' = FALSE
  /\ call' = [c \in Calls |-> Idle] /\ sess' = [s \in Sessions |-> Unused] /\ expired' = {}
  /\ kindOf' = [id \in Ids |-> IF rootOf[id] = NoRoot THEN "none" ELSE kindOf[id]]
  /\ UNCHANGED <<rootOf, onDisk>>

CallStarts(c) ==
  \E kind \in Kinds, by \in Sessions \cup {0} :
    SpawnStarts(c, kind, by) \/ ResumeLive(c, kind, by) \/ ReopenStarts(c, kind, by)

CallGoesOn(c) ==
  \/ Opened(c) \/ OpenFails(c) \/ Claims(c) \/ RunStarts(c) \/ RunSkipped(c)
  \/ CallSettles(c) \/ ReleaseSlot(c) \/ ChildSettled(c) \/ SlotExpires(c)

Next ==
  \/ \E c \in Calls : CallStarts(c) \/ CallGoesOn(c) \/ FollowUp(c)
  \/ \E s \in Sessions : SessionRests(s)
  \/ Esc \/ SessionShutdown \/ PiRestarts

Spec == Init /\ [][Next]_vars

(* A session is created or not in the end, continuations run and timeouts fire.
   Nothing is assumed of a child: its run may hang. *)
FairSpec == Spec /\ \A c \in Calls : WF_vars(CallGoesOn(c))

-----------------------------------------------------------------------------
(* Properties *)

Driving(c) == call[c].pc \in {"opened", "claimed", "running"}

(* A record says running exactly while one call drives it: a stale one would block
   every resume, a missing one would let a second call prompt (child-session.ts,
   runChildToolInSlot and startRun). *)
RunningIsDriven ==
  /\ \A c, d \in Calls : Driving(c) /\ Driving(d) /\ call[c].sess = call[d].sess => c = d
  /\ \A id \in LiveIds : live[id].running <=> \E c \in Calls : Driving(c) /\ call[c].sess = live[id].sess

Open(s) == sess[s].st # "gone" /\ sess[s].born = epoch

(* No child has two open sessions that would append to its file; not so for sessions
   from before a shutdown, nor when one fell into a reopening (child-reopen.ts,
   reopenEvictedChild). *)
OneWriter ==
  strays \/ \A s, t \in Sessions : Open(s) /\ Open(t) /\ sess[s].id = sess[t].id => s = t

(* A child is prompted only when its session is open and idle (child-session.ts,
   resumableLiveChild). *)
PromptOnIdle ==
  [][ \A c \in Calls : call[c].pc = "claimed" /\ call'[c].pc = "running" => IsIdle(call[c].sess) ]_vars

(* No more children of a group are at work than it has slots: a child that drains keeps
   its slot, unless it hung for too long (child-busy.ts, releaseSlot). *)
LimitHolds ==
  \A kind \in Kinds :
    Cardinality({s \in Sessions \ expired : Open(s) /\ sess[s].st = "busy" /\ kindOf[sess[s].id] = kind})
      <= Limit(kind)

(* Eviction takes no child that works or that a call has claimed (child-reopen.ts,
   evictFinishedChildren). *)
EvictsOnlyFinished ==
  [][ \A id \in evicted' \ evicted :
        IsIdle(live[id].sess) /\ \A c \in Calls : call[c].sess = live[id].sess => ~Driving(c) ]_vars

(* A child stays within a resume's reach, live or with a tombstone, whatever is evicted
   or fails to reopen (child-types.ts, "eviction is lossless"). *)
NothingLost ==
  [][ epoch' = epoch => LiveIds \cup evicted \subseteq LiveIds' \cup evicted' ]_vars

(* An aborted call gives its slot back in the end, hung child or not (abort-grace.ts,
   child-busy.ts). *)
AbortedFrees == \A c \in Calls : call[c].aborted ~> call[c].pc = "off"

-----------------------------------------------------------------------------
(* What the tools rely on *)

(* The group a call has a slot of: none of it is left once the groups were cleared. *)
SlotOf(c) ==
  IF call[c].pc = "off" THEN "none" ELSE IF call[c].epoch = epoch THEN call[c].kind ELSE "lost"

DrivenBy(c) == IF Driving(c) THEN call[c].sess ELSE 0

HeldSlots == [c \in Calls |-> SlotOf(c)]
Drives    == [c \in Calls |-> DrivenBy(c)]

Service ==
  INSTANCE ChildService
  WITH Groups <- Kinds, Slots <- [kind \in Kinds |-> Limit(kind)], NoSession <- 0,
       slot <- HeldSlots, drives <- Drives

(* The counters, the records and the reservations keep the promise of ChildService: the
   limit of a group holds for calls and not just for a number, a session has one driver,
   and a call that outlives a shutdown gives nothing back to the new groups
   (child-busy.ts, child-session.ts). *)
ServiceSpec == Service!Spec

-----------------------------------------------------------------------------
(* Why they hold: what every step relies on and restores *)

(* A call has its session for itself until it is on its way to give the slot back. *)
Works(c) == call[c].pc = "opening" \/ Driving(c)

OneWorker == \A c, d \in Calls : Works(c) /\ Works(d) /\ call[c].sess = call[d].sess => c = d

HoldsSession(c) ==
  /\ call[c].pc = "off" => call[c] = Idle
  /\ call[c].pc # "off" =>
       /\ call[c].sess # 0 /\ call[c].main \in Mains
       /\ sess[call[c].sess].born <= call[c].epoch /\ call[c].epoch <= epoch
       /\ sess[call[c].sess].st # "gone" => kindOf[sess[call[c].sess].id] = call[c].kind
  /\ call[c].pc = "opening" => sess[call[c].sess].st = "opening"
  /\ call[c].pc \in {"opened", "claimed"} => IsIdle(call[c].sess)
  /\ call[c].pc = "running" => sess[call[c].sess].st \in {"idle", "queued", "busy"}

CallsHoldSessions == \A c \in Calls : HoldsSession(c)

CallersWork == \A c \in Calls : InFlight(c) /\ call[c].by # 0 => sess[call[c].by].st = "busy"

SessionsHaveChildren ==
  \A s \in Sessions :
    /\ sess[s].st = "gone" <=> sess[s].id = 0
    /\ sess[s].st # "gone" => kindOf[sess[s].id] # "none" /\ sess[s].born <= epoch
    /\ sess[s].st = "opening" => \E c \in Calls : call[c].pc = "opening" /\ call[c].sess = s
    /\ sess[s].st \in {"idle", "queued", "busy"} => rootOf[sess[s].id] # NoRoot
    /\ sess[s].st = "busy" =>
         s \in expired \/ \E c \in Calls : call[c].pc \in {"running", "return", "settling"} /\ call[c].sess = s

(* A child without a spawn row is in no registry and has at most the one session that is
   being created for it. *)
RowsComeFirst ==
  \A id \in Ids :
    /\ kindOf[id] = "none" => rootOf[id] = NoRoot
    /\ rootOf[id] = NoRoot =>
         /\ id \notin LiveIds \cup evicted \cup reopening \cup onDisk
         /\ \A s, t \in Sessions : sess[s].id = id /\ sess[t].id = id => s = t

LiveChildrenAreOpen ==
  \A id \in LiveIds :
    sess[live[id].sess].id = id /\ sess[live[id].sess].st \in {"idle", "queued", "busy"}

(* Unless a shutdown took reservations away, they are respected, and an open session
   is the one of its child's record. *)
ReservationsHold ==
  ~strays =>
    /\ \A c \in Calls : Reserves(c) =>
         /\ sess[call[c].sess].id \in reopening
         /\ call[c].pc = "opening" => sess[call[c].sess].id \notin LiveIds
    /\ \A c, d \in Calls :
         Reserves(c) /\ Reserves(d) /\ sess[call[c].sess].id = sess[call[d].sess].id => c = d
    /\ \A s \in Sessions : Open(s) /\ sess[s].st # "opening" => live[sess[s].id].sess = s

(* The calls that hold a slot of the group as it is since the last shutdown. *)
Holders(kind) == {c \in Calls : call[c].pc # "off" /\ call[c].kind = kind /\ call[c].epoch = epoch}

SlotsAreCounted == \A kind \in Kinds : active[kind] = Cardinality(Holders(kind))

(* The inductive invariant: sessions, calls, records, rows and slots agree, whatever is
   in flight (child-session.ts, child-busy.ts, child-reopen.ts). *)
PoolInv ==
  /\ PoolTypeOK /\ RunningIsDriven
  /\ OneWorker /\ CallsHoldSessions /\ CallersWork
  /\ SessionsHaveChildren /\ RowsComeFirst /\ LiveChildrenAreOpen
  /\ ReservationsHold /\ SlotsAreCounted

-----------------------------------------------------------------------------
(* The comment on reopenEvictedChild: another call already reopening the same id
   counts as running, two SessionManagers on one file would corrupt it. *)
ReopeningCounts ==
  \A c, d \in Calls :
    call[c].pc = "opening" /\ call[d].pc = "opening"
      /\ sess[call[c].sess].id = sess[call[d].sess].id => c = d
=============================================================================
