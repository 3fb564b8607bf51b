--------------------------- MODULE ContextCapDecide ---------------------------
(***************************************************************************)
(* The decisions of the context-cap cycle, the pure half of the handoff    *)
(* state machine (pi/extensions/lib/context-cap-decide.ts): each operator  *)
(* maps the cycle and what a handler observed to the name of an action.    *)
(*                                                                         *)
(* A token reading is abstracted to the class the decisions tell apart:    *)
(*   "unknown"  no usage known           "disabled" the caps are disabled  *)
(*   "low"      below half the soft cap  "mid"      below the soft cap     *)
(*   "soft"     below the hard cap       "hard"     at or above it         *)
(***************************************************************************)
EXTENDS Naturals

CONSTANT MaxRetries  \* MAX_RETRIES: reminders sent for one demand

ASSUME MaxRetriesAssumption == MaxRetries \in Nat

Phases    == {"idle", "pending", "demanded", "exhausted"}
Origins   == {"none", "manual", "soft", "silent", "hard-jump", "hard"}
Endings   == {"swap", "new-session"}
Points    == {"turn_end", "settle"}
Authors   == {"agent", "machine"}
Texts     == Authors \cup {"stale", "nofile"}  \* what a successor may be told
Levels    == {"unknown", "disabled", "low", "mid", "soft", "hard"}
Stops     == {"toolUse", "stop", "error", "aborted"}

FailedStop == {"error", "aborted"}
CrossedSoft == {"soft", "hard"}

(* The cycle before anything armed it. The fields that only feed wording and
   forensic metadata (token readings, cap values) are left out. *)
IdleCycle ==
  [ phase    |-> "idle",      \* Phases
    origin   |-> "none",      \* what opened the cycle
    ending   |-> "swap",      \* Endings
    demandAt |-> "turn_end",  \* where a pending demand is committed
    path     |-> 0,           \* sequence number of the handoff file, 0 = not armed
    retries  |-> 0,           \* reminders sent
    doc      |-> "none",      \* author of the recorded document
    grace    |-> FALSE,       \* the one-shot grace turn was used
    staged   |-> "none",      \* text staged for the imminent turn_end
    stagedBy |-> "earlier" ]  \* staged by the message of "this" turn?

-----------------------------------------------------------------------------
(* message_end *)

ShrunkMidCycle(c, level) ==
  c.phase # "idle" /\ c.origin # "manual" /\ level = "low"

(* A crossing demands a handoff, or moves a waiting /handoff demand forward. *)
DemandOnCrossing(c) ==
  IF c.phase = "idle" THEN "demand"
  ELSE IF c.phase = "pending" /\ c.demandAt = "settle" THEN "advance-demand"
  ELSE "none"

GraceApplies(c, stop) ==
  /\ c.phase = "demanded" /\ stop = "toolUse"
  /\ c.path # 0 /\ c.doc = "none" /\ ~c.grace

DecideHardCrossing(c, stop) ==
  IF stop = "toolUse" /\ DemandOnCrossing(c) # "none" THEN DemandOnCrossing(c)
  ELSE IF GraceApplies(c, stop) THEN "hard-grace"
  ELSE "hard-cap"

DecideSoftCrossing(c, stop, level) ==
  IF level \in CrossedSoft /\ stop = "toolUse" THEN DemandOnCrossing(c) ELSE "none"

DecideMessageEnd(c, stop, level) ==
  IF stop \in FailedStop \/ level \in {"unknown", "disabled"} THEN "skip"
  ELSE IF ShrunkMidCycle(c, level) THEN "reset-shrunk"
  ELSE IF level = "hard" THEN DecideHardCrossing(c, stop)
  ELSE DecideSoftCrossing(c, stop, level)

-----------------------------------------------------------------------------
(* turn_end: the gate, then demand delivery, verification and silent stop *)

(* Bug: the staged text is committed whichever turn it was staged for. *)
Bug_GateIgnoresSource(c, failed) ==
  IF failed THEN "skip-failed"
  ELSE IF c.staged = "none" THEN "evaluate" ELSE "commit-staged"

(* Bug: a failed turn passes the gate like a completed one. *)
Bug_GateTakesFailedTurns(c, failed) ==
  IF c.staged = "none" THEN "evaluate"
  ELSE IF c.stagedBy # "this" THEN "discard-stale-staged" ELSE "commit-staged"

DecideTurnGate(c, failed) ==
  IF failed THEN "skip-failed"
  ELSE IF c.staged = "none" THEN "evaluate"
  ELSE IF c.stagedBy # "this" THEN "discard-stale-staged"
  ELSE "commit-staged"

(* Bug: one reminder too many. *)
Bug_OneReminderMore(c, tools) ==
  IF c.doc # "none" THEN "collect"
  ELSE IF c.phase = "exhausted" \/ tools THEN "keep-waiting"
  ELSE IF c.retries <= MaxRetries THEN "remind" ELSE "exhaust"

DecideVerification(c, tools) ==
  IF c.doc # "none" THEN "collect"
  ELSE IF c.phase = "exhausted" \/ tools THEN "keep-waiting"
  ELSE IF c.retries < MaxRetries THEN "remind" ELSE "exhaust"

DecideSilentStop(tools, level) ==
  IF ~tools /\ level \in CrossedSoft THEN "silent-stop" ELSE "none"

DecideTurnEnd(c, tools, level) ==
  IF c.phase = "pending" THEN IF c.demandAt = "turn_end" THEN "commit-demand" ELSE "none"
  ELSE IF c.phase # "idle" /\ c.path # 0 THEN DecideVerification(c, tools)
  ELSE IF c.phase = "idle" THEN DecideSilentStop(tools, level) ELSE "none"

-----------------------------------------------------------------------------
(* /handoff; the caller opens a fresh cycle when the phase is idle *)

(* Bug: a second demand although one is out. *)
Bug_ManualNeverJoins(c, idle) ==
  IF c.doc # "none" \/ c.staged # "none" THEN IF idle THEN "finish" ELSE "join"
  ELSE IF idle THEN "demand-now" ELSE "demand-at-settle"

DecideManual(c, idle) ==
  IF c.doc # "none" \/ c.staged # "none" THEN IF idle THEN "finish" ELSE "join"
  ELSE IF idle THEN "demand-now"
  ELSE IF c.phase \in {"idle", "exhausted"} THEN "demand-at-settle" ELSE "join"
=============================================================================
