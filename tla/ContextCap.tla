------------------------------ MODULE ContextCap ------------------------------
(***************************************************************************)
(* The handoff cycle of the context-cap extension, run by pi's agent loop  *)
(* (pi/extensions/context-cap.ts and lib/context-cap-*.ts).                *)
(*                                                                         *)
(* Two triggers share one cycle: the token caps, which end it by swapping  *)
(* the context in place, and the /handoff command, which ends it by        *)
(* seeding a new session with the document.  An action is one handler of   *)
(* the extension (message_end, turn_end, agent_before_settle,              *)
(* agent_settled, the tool, the command, session_shutdown) with all it     *)
(* does, or a step of pi's loop around them (external, see README).        *)
(***************************************************************************)
EXTENDS ContextCapDecide

CONSTANTS
  Commands,   \* /handoff invocations of one user
  NoCommand,  \* no command waits
  MaxFiles    \* bound: handoff files that fit on disk; a write beyond it fails

ASSUME CommandsAssumption == NoCommand \notin Commands
ASSUME FilesAssumption    == MaxFiles \in Nat \ {0}

VARIABLES
  cycle,    \* CapSession.cycle
  waiter,   \* CapSession.manual: the command awaiting this cycle
  cmd,      \* per command: how far runHandoffCommand got, and its seed
  parked,   \* commands with a resumeWhenIdle continuation outstanding
  disk,     \* newest handoff file of the session: sequence number, author
  marker,   \* text of the swap marker the latest turn_end committed: the new window
  pc,       \* where pi's loop is
  stop,     \* stopReason of the turn's assistant message, "none" outside a turn
  aborted,  \* the run's abort signal
  queued,   \* a user message typed during a run ("unused" -> "queued" -> "used")
  seen      \* history, read by properties only (see Unseen)

vars == <<cycle, waiter, cmd, parked, disk, marker, pc, stop, aborted, queued, seen>>
loop == <<pc, stop, aborted, queued>>

States == {"new", "waiting", "refused", "failed", "seeding", "seeded", "dropped"}

(* asked: the cycle file whose demand entry is in the context; live: demands
   out and unanswered in this run; ignored: completed turns without tool calls
   since the last demand; worked: a completed turn went by that left the
   recorded document behind. *)
Unseen == [asked |-> 0, live |-> 0, ignored |-> 0, worked |-> FALSE]

CycleType ==
  [ phase: Phases, origin: Origins, ending: Endings, demandAt: Points,
    path: 0..(MaxFiles + 1), retries: 0..MaxRetries, doc: Authors \cup {"none"},
    grace: BOOLEAN, staged: Texts \cup {"none"}, stagedBy: {"this", "earlier"} ]
CmdType  == [Commands -> [at: States, seed: Texts \cup {"none"}]]
DiskType == [seq: 0..MaxFiles, author: Authors \cup {"none"}]
SeenType == [asked: 0..(MaxFiles + 1), live: 0..2, ignored: 0..(MaxRetries + 1), worked: BOOLEAN]

TypeOK ==
  /\ cycle \in CycleType
  /\ waiter \in Commands \cup {NoCommand}
  /\ cmd \in CmdType
  /\ parked \in SUBSET Commands
  /\ disk \in DiskType
  /\ marker \in Texts \cup {"none"}
  /\ pc \in {"idle", "compacting", "llm", "draft", "tools", "turn_end",
             "backoff", "settling", "settled"}
  /\ stop \in Stops \cup {"none"}
  /\ aborted \in BOOLEAN
  /\ queued \in {"unused", "queued", "used"}
  /\ seen \in SeenType

Init ==
  /\ cycle = IdleCycle
  /\ waiter = NoCommand
  /\ cmd = [c \in Commands |-> [at |-> "new", seed |-> "none"]]
  /\ parked = {}
  /\ disk = [seq |-> 0, author |-> "none"]
  /\ marker = "none"
  /\ pc = "idle" /\ stop = "none" /\ aborted = FALSE /\ queued = "unused"
  /\ seen = Unseen

-----------------------------------------------------------------------------
(* Shared effects *)

Failed        == [at |-> "failed", seed |-> "none"]
SeedWith(txt) == [at |-> "seeding", seed |-> txt]

(* Bug: the waiter is told, but stays registered. *)
Bug_WaiterKept(result) ==
  /\ UNCHANGED waiter
  /\ cmd' = IF waiter = NoCommand THEN cmd ELSE [cmd EXCEPT ![waiter] = result]

(* Bug: the waiter is dropped without being told. *)
Bug_WaiterForgotten(result) == waiter' = NoCommand /\ UNCHANGED cmd

(* Resolve the waiting command, if any. *)
SettleManual(result) ==
  /\ waiter' = NoCommand
  /\ cmd' = IF waiter = NoCommand THEN cmd ELSE [cmd EXCEPT ![waiter] = result]

(* Back to idle; whoever waits is told `result`. *)
ResetCycle(result) ==
  /\ SettleManual(result)
  /\ cycle' = IdleCycle
  /\ seen' = Unseen

(* Bug: the newest existing file is taken for the next one. *)
Bug_LatestSeq == IF disk.seq = 0 THEN 1 ELSE disk.seq

NextSeq == disk.seq + 1

StartCycle(c) == [c EXCEPT !.path = NextSeq, !.retries = 0, !.doc = "none"]

OpenCycle(c, origin) ==
  [StartCycle(c) EXCEPT !.origin = origin, !.phase = "pending", !.demandAt = "turn_end"]

(* A demand entry of cycle c enters the context (commitDemand, startDemandRun). *)
Demand(c) ==
  /\ cycle' = [c EXCEPT !.phase = "demanded"]
  /\ seen' = [ asked |-> c.path, live |-> IF seen.live = 2 THEN 2 ELSE seen.live + 1,
               ignored |-> 0, worked |-> seen.worked ]

(* writeCycleHandoff: the file, then the record; a full disk makes it fail. *)
CanWrite == cycle.path # 0 /\ cycle.path <= MaxFiles

WriteHandoff(author) ==
  /\ CanWrite
  /\ disk' = IF cycle.path >= disk.seq THEN [seq |-> cycle.path, author |-> author] ELSE disk
  /\ seen' = [seen EXCEPT !.worked = FALSE]

(* Text prepared by this turn's message; no text = nothing is staged. *)
Stage(c, txt) == [c EXCEPT !.staged = txt, !.stagedBy = "this"]
Unstage(c)    == [c EXCEPT !.staged = "none", !.stagedBy = "earlier"]

(* Bug: any staged text may seed a session. *)
Bug_AnyTextSeeds(txt) == TRUE

FromCycle(txt) == txt \in Authors

NoMarker == marker' = "none"

(* The waiting command gets the document; the cycle is over. *)
HandOver(txt) == ResetCycle(SeedWith(txt)) /\ NoMarker

(* The swap marker is committed; the cycle is over. *)
CommitMarker(txt) == ResetCycle(Failed) /\ marker' = txt

-----------------------------------------------------------------------------
(* message_end: an assistant message arrived *)

AfterMessage(s) == IF s = "toolUse" THEN "tools" ELSE "turn_end"

(* Every arriving message is a new object: what was staged is another's. *)
Arrived == [cycle EXCEPT !.stagedBy = "earlier"]

MessageNoted(s, level) ==
  /\ DecideMessageEnd(cycle, s, level) \in {"skip", "none"}
  /\ cycle' = Arrived
  /\ pc' = AfterMessage(s)
  /\ UNCHANGED <<waiter, cmd, seen>>

MessageResetsShrunk(s, level) ==
  /\ DecideMessageEnd(cycle, s, level) = "reset-shrunk"
  /\ ResetCycle(Failed)
  /\ pc' = AfterMessage(s)

MessageOpensCycle(s, level) ==
  /\ DecideMessageEnd(cycle, s, level) = "demand"
  /\ cycle' = OpenCycle(Arrived, IF level = "hard" THEN "hard-jump" ELSE "soft")
  /\ pc' = AfterMessage(s)
  /\ UNCHANGED <<waiter, cmd, seen>>

MessageAdvancesDemand(s, level) ==
  /\ DecideMessageEnd(cycle, s, level) = "advance-demand"
  /\ cycle' = [Arrived EXCEPT !.demandAt = "turn_end"]
  /\ pc' = AfterMessage(s)
  /\ UNCHANGED <<waiter, cmd, seen>>

MessageGraced(s, level) ==
  /\ DecideMessageEnd(cycle, s, level) = "hard-grace"
  /\ cycle' = [Arrived EXCEPT !.grace = TRUE]
  /\ pc' = AfterMessage(s)
  /\ UNCHANGED <<waiter, cmd, seen>>

(* hardCap: the cycle is armed; a recorded document is staged at once, otherwise
   the handler awaits one drafting call, and everybody else may act. *)
ArmHardCycle(c) ==
  IF c.path # 0 THEN c
  ELSE [StartCycle(c) EXCEPT !.origin = IF @ = "none" THEN "hard" ELSE @]

MessageHitsHardCap(s, level) ==
  /\ DecideMessageEnd(cycle, s, level) = "hard-cap"
  /\ LET armed == ArmHardCycle(Arrived)
     IN IF armed.doc # "none"
        THEN cycle' = Stage(armed, armed.doc) /\ pc' = AfterMessage(s)
        ELSE cycle' = armed /\ pc' = "draft"
  /\ UNCHANGED <<waiter, cmd, seen>>

(* An aborted signal makes pi synthesize an aborted message, and only that. *)
MessageEnd(s, level) ==
  /\ pc = "llm"
  /\ (s = "aborted") <=> aborted
  /\ stop' = s
  /\ \/ MessageNoted(s, level)
     \/ MessageResetsShrunk(s, level)
     \/ MessageOpensCycle(s, level)
     \/ MessageAdvancesDemand(s, level)
     \/ MessageGraced(s, level)
     \/ MessageHitsHardCap(s, level)
  /\ NoMarker
  /\ UNCHANGED <<parked, disk, aborted, queued>>

(* The drafting call returned a text and the file was written. *)
DraftWritten ==
  /\ pc = "draft"
  /\ WriteHandoff("machine")
  /\ cycle' = Stage([cycle EXCEPT !.doc = "machine"], "machine")
  /\ pc' = AfterMessage(stop)
  /\ UNCHANGED <<waiter, cmd, parked, marker, stop, aborted, queued>>

(* It failed and the user had pressed ESC: the cycle stays armed, nothing staged. *)
DraftDeferred ==
  /\ pc = "draft" /\ aborted
  /\ pc' = AfterMessage(stop)
  /\ UNCHANGED <<cycle, waiter, cmd, parked, disk, marker, stop, aborted, queued, seen>>

(* It failed otherwise: an older file, the no-file note, or (unreadable file) a reset. *)
DraftFellBack ==
  /\ pc = "draft" /\ ~aborted
  /\ \/ /\ cycle' = Stage(cycle, IF disk.seq = 0 THEN "nofile" ELSE "stale")
        /\ UNCHANGED <<waiter, cmd, seen>>
     \/ disk.seq # 0 /\ ResetCycle(Failed)
  /\ pc' = AfterMessage(stop)
  /\ UNCHANGED <<parked, disk, marker, stop, aborted, queued>>

-----------------------------------------------------------------------------
(* The tool batch of a message *)

(* Bug: an armed cycle is taken for a committed demand. *)
Bug_ArmedIsCommitted == cycle.phase # "idle"

(* A call is accepted once a demand of this cycle is in the context; a refused
   call, an empty body and a failed write change nothing. *)
DemandCommitted == cycle.phase \in {"demanded", "exhausted"}

ExecuteHandoff ==
  /\ pc = "tools" /\ ~aborted
  /\ DemandCommitted
  /\ WriteHandoff("agent")
  /\ cycle' = [cycle EXCEPT !.doc = "agent"]
  /\ UNCHANGED <<waiter, cmd, parked, marker, pc, stop, aborted, queued>>

ToolsDone ==
  /\ pc = "tools"
  /\ pc' = "turn_end"
  /\ UNCHANGED <<cycle, waiter, cmd, parked, disk, marker, stop, aborted, queued, seen>>

(* The loop breaks down during the tools: no turn_end for this message. *)
TurnEndLost ==
  /\ pc = "tools"
  /\ pc' = "settling" /\ stop' = "none"
  /\ UNCHANGED <<cycle, waiter, cmd, parked, disk, marker, aborted, queued, seen>>

-----------------------------------------------------------------------------
(* turn_end *)

Tools == stop = "toolUse"

(* A handoff recorded for a new session asks pi to stop after the tool batch; pi
   does if every call of the batch asks for it. *)
ToolsContinue ==
  IF cycle.ending = "new-session" /\ cycle.doc = "agent" THEN {Tools, FALSE} ELSE {Tools}

(* After a completed turn pi calls the model again for a continuation, for tool
   results and for a queued user message, unless the run is aborted. *)
Proceed(continue, abort) ==
  /\ aborted' = abort
  /\ IF abort
     THEN pc' = "settling" /\ UNCHANGED queued
     ELSE /\ \E tools \in ToolsContinue :
               pc' = IF continue \/ tools \/ queued = "queued" THEN "llm" ELSE "settling"
          /\ queued' = IF queued = "queued" THEN "used" ELSE queued

(* A failed turn drops the staged text only; pi may retry an error. *)
TurnFailed ==
  /\ cycle' = Unstage(cycle)
  /\ pc' \in IF aborted THEN {"settling"} ELSE {"settling", "backoff"}
  /\ NoMarker
  /\ UNCHANGED <<waiter, cmd, aborted, queued, seen>>

TurnDiscardsStale ==
  /\ cycle' = Unstage(cycle)
  /\ Proceed(FALSE, FALSE)
  /\ NoMarker
  /\ UNCHANGED <<waiter, cmd, seen>>

(* A new-session ending hands over and stops the loop when tools ran; the other
   ending, or a text that is not this cycle's document, commits the marker. *)
TurnCommitsStaged ==
  IF cycle.ending = "new-session" /\ FromCycle(cycle.staged)
  THEN HandOver(cycle.staged) /\ Proceed(FALSE, Tools)
  ELSE CommitMarker(cycle.staged) /\ Proceed(TRUE, FALSE)

TurnCollects ==
  IF cycle.ending = "new-session"
  THEN HandOver(cycle.doc) /\ Proceed(FALSE, Tools)
  ELSE CommitMarker(cycle.doc) /\ Proceed(TRUE, FALSE)

TurnCommitsDemand ==
  /\ Demand(cycle)
  /\ Proceed(TRUE, FALSE)
  /\ NoMarker
  /\ UNCHANGED <<waiter, cmd>>

(* History: a completed turn without tool calls is one more refusal. *)
RefusalsSeen ==
  IF Tools \/ stop \in FailedStop \/ seen.ignored > MaxRetries
  THEN seen.ignored ELSE seen.ignored + 1

TurnReminds ==
  /\ cycle' = [cycle EXCEPT !.retries = @ + 1]
  /\ seen' = [seen EXCEPT !.ignored = RefusalsSeen]
  /\ Proceed(TRUE, FALSE)
  /\ NoMarker
  /\ UNCHANGED <<waiter, cmd>>

TurnExhausts ==
  /\ cycle' = [cycle EXCEPT !.phase = "exhausted"]
  /\ seen' = [seen EXCEPT !.live = 0, !.ignored = RefusalsSeen]
  /\ Proceed(FALSE, FALSE)
  /\ NoMarker
  /\ UNCHANGED <<waiter, cmd>>

TurnStoppedSilently ==
  /\ Demand(OpenCycle(cycle, "silent"))
  /\ Proceed(TRUE, FALSE)
  /\ NoMarker
  /\ UNCHANGED <<waiter, cmd>>

TurnLeavesCycle ==
  /\ seen' = [seen EXCEPT !.worked = @ \/ cycle.doc # "none"]
  /\ Proceed(FALSE, FALSE)
  /\ NoMarker
  /\ UNCHANGED <<cycle, waiter, cmd>>

EvaluateTurnEnd(level) ==
  LET act == DecideTurnEnd(cycle, Tools, level)
  IN \/ act = "commit-demand" /\ TurnCommitsDemand
     \/ act = "collect" /\ TurnCollects
     \/ act = "remind" /\ TurnReminds
     \/ act = "exhaust" /\ TurnExhausts
     \/ act = "silent-stop" /\ TurnStoppedSilently
     \/ act \in {"keep-waiting", "none"} /\ TurnLeavesCycle

(* `outcome` is pi's verdict on the turn: also the tools of a sound message may fail. *)
TurnEnd(level, outcome) ==
  /\ pc = "turn_end"
  /\ outcome = "error" => Tools
  /\ LET gate == DecideTurnGate(cycle, stop \in FailedStop \/ aborted \/ outcome = "error")
     IN \/ gate = "skip-failed" /\ TurnFailed
        \/ gate = "discard-stale-staged" /\ TurnDiscardsStale
        \/ gate = "commit-staged" /\ TurnCommitsStaged
        \/ gate = "evaluate" /\ EvaluateTurnEnd(level)
  /\ stop' = "none"
  /\ UNCHANGED <<parked, disk>>

-----------------------------------------------------------------------------
(* The end of a run *)

WaitingAtSettle == cycle.phase = "pending" /\ cycle.demandAt = "settle"

(* agent_before_settle: a demand that waited for the run to finish goes out. *)
BeforeSettle ==
  /\ pc = "settling"
  /\ IF WaitingAtSettle /\ ~aborted
     THEN Demand(cycle) /\ pc' = "llm"
     ELSE pc' = "settled" /\ UNCHANGED <<cycle, seen>>
  /\ UNCHANGED <<waiter, cmd, parked, disk, marker, stop, aborted, queued>>

(* Bug: a joined cap cycle keeps the ending of the command that failed. *)
Bug_EndingKept ==
  /\ SettleManual(Failed)
  /\ cycle' = IF cycle.origin = "manual" THEN IdleCycle ELSE cycle

(* The command fails; a cap cycle it joined swaps again, its own cycle ends. *)
FailManual ==
  /\ SettleManual(Failed)
  /\ cycle' = IF cycle.origin = "manual" THEN IdleCycle ELSE [cycle EXCEPT !.ending = "swap"]

RunOver == IF cycle'.phase = "idle" /\ cycle'.path = 0 THEN Unseen ELSE [seen EXCEPT !.live = 0]

(* agent_settled: serve or fail whoever still waits. *)
Settled ==
  /\ pc = "settled"
  /\ aborted' = FALSE
  /\ IF waiter # NoCommand /\ WaitingAtSettle /\ ~aborted
     THEN /\ Demand(cycle)
          /\ pc' = "llm"
          /\ UNCHANGED <<waiter, cmd>>
     ELSE /\ IF waiter # NoCommand THEN FailManual ELSE UNCHANGED <<cycle, waiter, cmd>>
          /\ seen' = RunOver
          /\ pc' = "idle"
  /\ UNCHANGED <<parked, disk, marker, stop, queued>>

-----------------------------------------------------------------------------
(* The /handoff command *)

ArmManual(c) ==
  [ (IF c.phase = "idle" THEN StartCycle(c) ELSE c) EXCEPT !.origin = "manual", !.retries = 0,
                                                           !.ending = "new-session" ]

Waits(c) ==
  /\ waiter' = c
  /\ cmd' = [cmd EXCEPT ![c].at = "waiting"]

(* Bug: a busy command is not decided again once pi is idle. *)
Bug_NeverResumed(c) == UNCHANGED parked

ResumesWhenIdle(c) == parked' = parked \cup {c}

(* Nothing runs and the document is there; without one (a staged text alone)
   the command fails and what it joined is as before. *)
ManualFinishes(c) ==
  /\ DecideManual(cycle, pc = "idle") = "finish"
  /\ waiter' = NoCommand
  /\ IF cycle.doc # "none"
     THEN /\ cmd' = [cmd EXCEPT ![c] = SeedWith(cycle.doc)]
          /\ cycle' = IdleCycle
     ELSE /\ cmd' = [cmd EXCEPT ![c] = Failed]
          /\ cycle' = IF cycle.origin = "manual" THEN IdleCycle
                      ELSE [cycle EXCEPT !.ending = "swap"]
  /\ seen' = IF cycle'.path = 0 THEN Unseen ELSE seen
  /\ parked' = parked \ {c}
  /\ UNCHANGED loop

ManualJoins(c) ==
  /\ DecideManual(cycle, pc = "idle") = "join"
  /\ Waits(c)
  /\ cycle' = [cycle EXCEPT !.ending = "new-session"]
  /\ ResumesWhenIdle(c)
  /\ UNCHANGED <<pc, stop, aborted, queued, seen>>

ManualDemandsNow(c) ==
  /\ DecideManual(cycle, pc = "idle") = "demand-now"
  /\ Waits(c)
  /\ Demand(ArmManual(cycle))
  /\ parked' = parked \ {c}
  /\ pc' = "llm" /\ aborted' = FALSE
  /\ UNCHANGED <<stop, queued>>

ManualWaitsForSettle(c) ==
  /\ DecideManual(cycle, pc = "idle") = "demand-at-settle"
  /\ Waits(c)
  /\ cycle' = [ArmManual(cycle) EXCEPT !.phase = "pending", !.demandAt = "settle"]
  /\ ResumesWhenIdle(c)
  /\ UNCHANGED <<pc, stop, aborted, queued, seen>>

StartManual(c) ==
  /\ \/ ManualFinishes(c)
     \/ ManualJoins(c)
     \/ ManualDemandsNow(c)
     \/ ManualWaitsForSettle(c)
  /\ UNCHANGED <<disk, marker>>

(* runHandoffCommand: refused while another one waits. *)
HandoffTyped(c) ==
  /\ cmd[c].at = "new"
  /\ IF waiter # NoCommand
     THEN /\ cmd' = [cmd EXCEPT ![c].at = "refused"]
          /\ UNCHANGED <<cycle, waiter, parked, disk, marker, loop, seen>>
     ELSE StartManual(c)

(* The continuation of resumeWhenIdle: decided again if still the one waiting. *)
ResumeWhenIdle(c) ==
  /\ c \in parked /\ pc = "idle"
  /\ IF waiter = c
     THEN StartManual(c)
     ELSE /\ parked' = parked \ {c}
          /\ UNCHANGED <<cycle, waiter, cmd, disk, marker, loop, seen>>

-----------------------------------------------------------------------------
(* Sessions: shutdown releases the waiter silently and drops the cycle, the next
   session starts with a fresh one; its own id gives it its own handoff files. *)

NewSession(alive) ==
  /\ cycle' = IdleCycle
  /\ waiter' = NoCommand
  /\ parked' = {}
  /\ NoMarker
  /\ pc' = "idle" /\ stop' = "none" /\ aborted' = FALSE
  /\ seen' = Unseen
  /\ UNCHANGED queued
  /\ cmd' = [c \in Commands |->
               IF c \in alive THEN [cmd[c] EXCEPT !.at = "seeded"]
               ELSE IF cmd[c].at = "waiting" THEN Failed
               ELSE IF cmd[c].at = "seeding" THEN [cmd[c] EXCEPT !.at = "dropped"]
               ELSE cmd[c]]

(* The rest of runHandoffCommand: once idle, the seed opens a new session. *)
SeedNewSession(c) ==
  /\ cmd[c].at = "seeding" /\ pc = "idle"
  /\ NewSession({c})
  /\ disk' = [seq |-> 0, author |-> "none"]

(* The user leaves (/new, /resume, reload, quit); a reload keeps the files. *)
SessionReplaced ==
  /\ NewSession({})
  /\ disk' \in {disk, [seq |-> 0, author |-> "none"]}

-----------------------------------------------------------------------------
(* The user and pi around the extension *)

Prompt ==
  /\ pc = "idle"
  /\ pc' = "llm"
  /\ UNCHANGED <<cycle, waiter, cmd, parked, disk, marker, stop, aborted, queued, seen>>

MessageQueued ==
  /\ pc \in {"llm", "draft", "tools", "turn_end"} /\ queued = "unused"
  /\ queued' = "queued"
  /\ UNCHANGED <<cycle, waiter, cmd, parked, disk, marker, pc, stop, aborted, seen>>

(* ESC: the signal is set and a queued message returns to the editor. *)
Esc ==
  /\ pc \in {"llm", "draft", "tools", "turn_end", "backoff"} /\ ~aborted
  /\ aborted' = TRUE
  /\ queued' = IF queued = "queued" THEN "used" ELSE queued
  /\ pc' = IF pc = "backoff" THEN "settling" ELSE pc
  /\ UNCHANGED <<cycle, waiter, cmd, parked, disk, marker, stop, seen>>

Retry ==
  /\ pc = "backoff"
  /\ pc' = "llm"
  /\ UNCHANGED <<cycle, waiter, cmd, parked, disk, marker, stop, aborted, queued, seen>>

(* A compaction is busy without a run. *)
CompactionStarts ==
  /\ pc = "idle"
  /\ pc' = "compacting"
  /\ UNCHANGED <<cycle, waiter, cmd, parked, disk, marker, stop, aborted, queued, seen>>

CompactionEnds ==
  /\ pc = "compacting"
  /\ pc' = "idle"
  /\ UNCHANGED <<cycle, waiter, cmd, parked, disk, marker, stop, aborted, queued, seen>>

-----------------------------------------------------------------------------
Draft == DraftWritten \/ DraftDeferred \/ DraftFellBack

Extension ==
  \/ \E s \in Stops, level \in Levels : MessageEnd(s, level)
  \/ Draft
  \/ ExecuteHandoff
  \/ \E level \in Levels, outcome \in {"completed", "error"} : TurnEnd(level, outcome)
  \/ BeforeSettle
  \/ Settled
  \/ \E c \in Commands : HandoffTyped(c) \/ ResumeWhenIdle(c) \/ SeedNewSession(c)

Environment ==
  \/ ToolsDone \/ TurnEndLost
  \/ SessionReplaced
  \/ Prompt \/ MessageQueued \/ Esc \/ Retry
  \/ CompactionStarts \/ CompactionEnds

Next == Extension \/ Environment

Spec == Init /\ [][Next]_vars

(* pi's loop keeps going (provider, tools and retries all end); the agent does
   not call tools for ever and a turn without tool calls completes; what waits for
   idle runs at the first idle moment.  Nothing is assumed of the user. *)
Fairness ==
  /\ WF_vars(\E s \in Stops, level \in Levels : MessageEnd(s, level))
  /\ WF_vars(Draft)
  /\ WF_vars(ToolsDone)
  /\ WF_vars(\E level \in Levels, outcome \in {"completed", "error"} : TurnEnd(level, outcome))
  /\ WF_vars(Retry)
  /\ WF_vars(BeforeSettle)
  /\ WF_vars(Settled)
  /\ WF_vars(CompactionEnds)
  /\ SF_vars(\E level \in Levels : MessageEnd("stop", level))
  /\ SF_vars(stop = "stop" /\ \E level \in Levels : TurnEnd(level, "completed"))
  /\ \A c \in Commands : SF_vars(ResumeWhenIdle(c))

FairSpec == Spec /\ Fairness

-----------------------------------------------------------------------------
(* Properties *)

(* The waiter is set exactly while the cycle ends in a new session
   (context-cap-session.ts, CapSession.manual). *)
WaiterMatchesEnding == waiter # NoCommand <=> cycle.ending = "new-session"

(* No command is left hanging: whoever waits is the registered waiter, so a
   reset, a swap, a settle or a shutdown finds and answers it. *)
NoStrandedCommand == \A c \in Commands : cmd[c].at = "waiting" <=> waiter = c

(* A new session starts from a document its cycle recorded, never from an older
   session file or the no-file note (StagedSwap.fromCycle). *)
SeedFromThisCycle ==
  \A c \in Commands : cmd[c].at \in {"seeding", "seeded"} => cmd[c].seed \in Authors

(* The tool records only when the demand of this very cycle is in the agent's
   context, not when a cycle is merely armed (context-cap-tool.ts, committedPath). *)
ToolNeedsDemand == cycle.doc = "agent" => seen.asked = cycle.path

(* One cycle, never two live demands in one run (context-cap-manual.ts). *)
OneLiveDemand == seen.live <= 1

(* A cycle writes to a file of its own: no earlier cycle's handoff of the session
   is overwritten (context-cap-files.ts, nextPath). *)
OwnFile ==
  cycle.path # 0 => cycle.path = IF cycle.doc = "none" THEN disk.seq + 1 ELSE disk.seq

(* A failed turn is no refusal: a cycle gives up only after the agent completed
   MaxRetries + 1 turns without tool calls past the demand (decideTurnGate). *)
ExhaustedMeansIgnored == cycle.phase = "exhausted" => seen.ignored = MaxRetries + 1

(* A text staged by message_end is delivered by the turn_end of that message, not
   by another turn's (decideTurnGate). *)
OwnTurnSwap ==
  [][ (pc = "turn_end" /\ cycle.staged # "none" /\ cycle'.path = 0)
        => (cycle.stagedBy = "this" \/ pc' = "idle") ]_vars

(* What makes the properties above inductive.  Armed: a cycle without a path has
   nothing else either.  Asked: the demand a phase speaks of is this cycle's.
   Counted: reminders count refusals, and the demand of a pending, given-up or
   finished cycle is not live.  Rested: a run leaves no live demand behind, and
   the cycle being drafted for is armed. *)
Armed   == cycle.path = 0 => cycle.phase = "idle" /\ cycle.doc = "none" /\ cycle.staged = "none"
Asked   == cycle.phase \in {"demanded", "exhausted"} => seen.asked = cycle.path
Counted ==
  /\ cycle.phase = "pending"  => cycle.retries = 0
  /\ cycle.phase = "demanded" => seen.ignored = cycle.retries
  /\ cycle.phase # "demanded" => seen.live = 0
Rested  ==
  /\ pc \in {"idle", "compacting"} => seen.live = 0
  /\ pc = "draft" => cycle.path # 0

CycleInv == Armed /\ OwnFile /\ Asked /\ ToolNeedsDemand /\ Counted /\ ExhaustedMeansIgnored
CommandInv == WaiterMatchesEnding /\ NoStrandedCommand /\ SeedFromThisCycle

(* The inductive invariant of Spec. *)
IInv == TypeOK /\ CycleInv /\ CommandInv /\ Rested /\ OneLiveDemand

(* ContextCap implements the promise of /handoff. *)
Abs == INSTANCE HandoffCommand WITH Seeds <- Authors

AbsSpec == Abs!Spec

(* Every accepted /handoff is answered: it gets its document or fails. *)
HandoffAnswered == \A c \in Commands : cmd[c].at = "waiting" ~> cmd[c].at # "waiting"

-----------------------------------------------------------------------------
(* What the documentation says and the code does not keep. *)

(* The cycle's recorded document is "the ONLY source for the successor text"
   (context-cap-decide.ts, RecordedDoc): what the agent wrote is what is swapped in. *)
AgentHandoffDelivered ==
  [][ (pc = "turn_end" /\ cycle.doc = "agent" /\ marker' # "none") => marker' = "agent" ]_vars

(* A hand-over is the end of the run: pi does not call the model again. *)
HandoverEndsRun ==
  [][ \A c \in Commands :
        (cmd[c].at = "waiting" /\ cmd'[c].at = "seeding") => pc' # "llm" ]_vars

(* agent_settled fails a command only when the run "ended without the document"
   (context-cap-manual.ts, onSettled): not when turn_end passed it by. *)
JoinIsServed ==
  [][ \A c \in Commands :
        (pc = "settled" /\ ~aborted /\ seen.worked /\ cmd[c].at = "waiting")
          => cmd'[c].at # "failed" ]_vars
=============================================================================
