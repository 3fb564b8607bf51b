------------------------------ MODULE ChildRuns ------------------------------
(***************************************************************************)
(* Runs of children as the dashboard sees them: the rows a run writes on   *)
(* the child's events, the file whose torn lines swallow the next row,     *)
(* pi's death in the middle, a reopening from the rows, and the clock.     *)
(* One main session is the root of all.                                    *)
(***************************************************************************)
EXTENDS RunsIndex

CONSTANTS
  Children,
  Root,        \* the main session's sid
  Throttle,    \* PROGRESS_THROTTLE_MS
  MaxNow,      \* last moment
  MaxLines,    \* lines in the file
  MaxShared,   \* lines in a file of several children
  MaxTurns,    \* turns of all children
  MaxLosses,   \* appends that fail
  MaxSwaps,    \* rows of handoffs of children
  MaxRestarts  \* rows of restarts of pi

ASSUME RunsAssumption ==
  /\ ActiveWindow \in Nat /\ Throttle \in Nat
  /\ MaxNow \in Nat /\ MaxLines \in Nat /\ MaxShared \in Nat /\ MaxTurns \in Nat /\ MaxLosses \in Nat /\ MaxSwaps \in Nat /\ MaxRestarts \in Nat
  /\ IsFiniteSet(Children) /\ Root \notin Children

VARIABLES
  now,      \* the clock
  lines,    \* agent-runs.jsonl
  torn,     \* the last line lacks its line feed
  files,    \* the sessions whose transcript exists
  rec,      \* the record of each child, see Unborn
  losses,   \* appends that failed
  ended,    \* history: how each child's last run ended, "-" while it runs or never ran
  worked,   \* history: the turns each child has done
  lossy,    \* history: children whose last end has no row: it was lost, or they died in a run
  short     \* history: children reopened without the row of their last end

vars == <<now, lines, torn, files, rec, losses, ended, worked, lossy, short>>
file == <<lines, torn, losses>>
past == <<worked, lossy, short>>

(* state: unborn, live, or stored, a child of a pi that has ended.  phase: off between
   runs; think waits for an answer; answer and failed are between its end and the turn's,
   tool within; rest and spent are after the turn, spent with a retry to come or not. *)
Unborn == [state |-> "unborn", phase |-> "off", turns |-> 0, last |-> 0, error |-> FALSE]

SessionStart == [event |-> "session-start", sid |-> Root, ts |-> now]

Init ==
  /\ now = 1 /\ lines = <<[event |-> "session-start", sid |-> Root, ts |-> 1]>>
  /\ torn = FALSE /\ files = {Root} /\ losses = 0
  /\ rec = [c \in Children |-> Unborn]
  /\ ended = [c \in Children |-> "-"] /\ worked = [c \in Children |-> 0]
  /\ lossy = {} /\ short = {}

-----------------------------------------------------------------------------
(* Rows *)

(* A row and its line feed are one append, behind whatever the file ends with. *)
Damaged == [event |-> "damaged"]

(* A torn line runs on into the row, and neither parses. *)
Behind(row) == IF torn THEN [lines EXCEPT ![Len(lines)] = Damaged] ELSE Append(lines, row)

Written(row) == ~torn /\ lines' = Behind(row) /\ UNCHANGED <<torn, losses>>

(* Swallowed by a torn line, or the append failed: nothing of it is in the file, or a
   part, or all but the line feed.  Nobody is told, the run goes on. *)
Lost(row) ==
  \/ torn /\ lines' = Behind(row) /\ torn' = FALSE /\ UNCHANGED losses
  \/ /\ losses < MaxLosses /\ losses' = losses + 1
     /\ \/ UNCHANGED <<lines, torn>>
        \/ torn' = TRUE /\ \E part \in {row, Damaged} : lines' = Behind(part)

Born == {c \in Children : rec[c].state # "unborn"}
Room == Len(lines) < IF Cardinality(Born) > 1 THEN MaxShared ELSE MaxLines
Write(row) == Room /\ (Written(row) \/ Lost(row))

SpawnRow(c) == [event |-> "spawn", sid |-> c, ts |-> now, root |-> Root, parentSid |-> Root]

(* Numbers are cumulative, a turn costs 1. *)
FinishRow(c, turns, status) ==
  [event |-> "finish", sid |-> c, ts |-> now, status |-> status, turns |-> turns, cost |-> worked[c]]

ProgressRow(c) == [event |-> "progress", sid |-> c, ts |-> now, turn |-> rec[c].turns + 1]

(* The heartbeat: throttled, with the turn in flight; r is the record otherwise. *)
Heartbeat(c, r) ==
  IF now < rec[c].last + Throttle /\ rec[c].last > 0
  THEN UNCHANGED file /\ rec' = [rec EXCEPT ![c] = r]
  ELSE Write(ProgressRow(c)) /\ rec' = [rec EXCEPT ![c] = [r EXCEPT !.last = now]]

-----------------------------------------------------------------------------
(* A run *)

Running(c) == rec[c].phase # "off"
Started(r) == [r EXCEPT !.state = "live", !.phase = "think", !.error = FALSE]

(* The spawn row comes before the run; a run that fails to start leaves it at that. *)
Spawn(c, started) ==
  /\ rec[c].state = "unborn"
  /\ Write(SpawnRow(c))
  /\ rec' = [rec EXCEPT ![c] = IF started THEN Started(Unborn) ELSE [Unborn EXCEPT !.state = "live"]]
  /\ UNCHANGED <<now, files, ended, past>>

(* A later run, at a later time than the last one's end; a resume writes no row. *)
Rested(c) == \A i \in DOMAIN lines : lines[i] # Damaged /\ lines[i].sid = c => lines[i].ts < now

Resume(c) ==
  /\ rec[c].state = "live" /\ ~Running(c) /\ Rested(c)
  /\ rec' = [rec EXCEPT ![c] = Started(@)] /\ ended' = [ended EXCEPT ![c] = "-"]
  /\ UNCHANGED <<now, file, files, past>>

(* After a restart the child comes back from its rows. *)
Reopen(c, started) ==
  /\ rec[c].state = "stored" /\ c \in files /\ SpawnOf(lines, c) # {} /\ Rested(c)
  /\ LET r == [Unborn EXCEPT !.state = "live", !.turns = TurnsAtReopen(lines, c)]
     IN rec' = [rec EXCEPT ![c] = IF started THEN Started(r) ELSE r]
  /\ ended' = [ended EXCEPT ![c] = IF started THEN "-" ELSE @]
  /\ short' = IF c \in lossy THEN short \cup {c} ELSE short
  /\ UNCHANGED <<now, file, files, worked, lossy>>

(* The transcript exists from the first user message on. *)
UserMessage(c) ==
  /\ rec[c].phase = "think" /\ c \notin files
  /\ files' = files \cup {c}
  /\ UNCHANGED <<now, file, rec, ended, past>>

(* The last assistant message decides whether the run failed. *)
MessageEnd(c, failed) ==
  /\ rec[c].phase = "think" /\ c \in files /\ (~failed => SumFunction(worked) < MaxTurns)
  /\ rec' = [rec EXCEPT ![c].phase = IF failed THEN "failed" ELSE "answer", ![c].error = failed]
  /\ UNCHANGED <<now, file, files, ended, past>>

ToolStart(c) ==
  /\ rec[c].phase = "answer"
  /\ Heartbeat(c, [rec[c] EXCEPT !.phase = "tool"])
  /\ UNCHANGED <<now, files, ended, past>>

ToolEnd(c) ==
  /\ rec[c].phase = "tool"
  /\ rec' = [rec EXCEPT ![c].phase = "answer"]
  /\ UNCHANGED <<now, file, files, ended, past>>

(* A failed attempt is no turn; the row comes before the count. *)
TurnEnd(c) ==
  /\ rec[c].phase \in {"answer", "failed"}
  /\ LET good == rec[c].phase = "answer"
     IN /\ Heartbeat(c, [rec[c] EXCEPT !.phase = IF good THEN "rest" ELSE "spent",
                                       !.turns = IF good THEN @ + 1 ELSE @])
        /\ worked' = [worked EXCEPT ![c] = IF good THEN @ + 1 ELSE @]
  /\ UNCHANGED <<now, files, ended, lossy, short>>

(* The next turn, or pi's retry of a failed attempt. *)
GoOn(c) ==
  /\ rec[c].phase \in {"rest", "spent"}
  /\ rec' = [rec EXCEPT ![c].phase = "think"]
  /\ UNCHANGED <<now, file, files, ended, past>>

(* Mutant: the last answer's error is forgotten. *)
Bug_RunStatus(c, aborted, rejected) == IF aborted THEN "cancelled" ELSE IF rejected THEN "error" ELSE "done"

RunStatus(c, aborted, rejected) ==
  IF aborted THEN "cancelled" ELSE IF rejected \/ rec[c].error THEN "error" ELSE "done"

(* The run is over; its prompt may be rejected, or its caller may abort it, wherever it is. *)
Settle(c, aborted, rejected) ==
  /\ Running(c) /\ Room
  /\ aborted \/ rejected \/ rec[c].phase \in {"rest", "spent"}
  /\ LET row == FinishRow(c, rec[c].turns, RunStatus(c, aborted, rejected))
     IN \/ Written(row) /\ lossy' = lossy \ {c}
        \/ Lost(row) /\ lossy' = lossy \cup {c}
  /\ rec' = [rec EXCEPT ![c].phase = "off"]
  /\ ended' = [ended EXCEPT ![c] = IF aborted THEN "cancelled"
                                   ELSE IF rejected \/ rec[c].phase = "spent" THEN "error" ELSE "done"]
  /\ UNCHANGED <<now, files, worked, short>>

-----------------------------------------------------------------------------
(* Around the runs *)

RowsOf(event) == Cardinality({i \in DOMAIN lines : lines[i].event = event})

(* A handoff swap of a live child, running or still draining after an abort. *)
ContextReset(c) ==
  /\ rec[c].state = "live"
  /\ RowsOf("reset") < MaxSwaps
  /\ Write([event |-> "reset", sid |-> c, ts |-> now])
  /\ UNCHANGED <<now, files, rec, ended, past>>

Tick ==
  /\ now < MaxNow /\ now' = now + 1
  /\ UNCHANGED <<file, files, rec, ended, past>>

(* pi dies and is started again on the same session. *)
PiRestarts ==
  /\ \E c \in Children : rec[c].state = "live"
  /\ RowsOf("session-start") <= MaxRestarts
  /\ Write(SessionStart)
  /\ lossy' = lossy \cup {c \in Children : Running(c)}
  /\ rec' = [c \in Children |->
               IF rec[c].state = "live" THEN [Unborn EXCEPT !.state = "stored"] ELSE rec[c]]
  /\ UNCHANGED <<now, files, ended, worked, short>>

Next ==
  \/ \E c \in Children :
       \/ Resume(c) \/ UserMessage(c) \/ ToolStart(c) \/ ToolEnd(c) \/ TurnEnd(c) \/ GoOn(c)
       \/ \E flag \in BOOLEAN : Spawn(c, flag) \/ Reopen(c, flag) \/ MessageEnd(c, flag)
       \/ \E aborted, rejected \in BOOLEAN : Settle(c, aborted, rejected)
       \/ ContextReset(c)
  \/ Tick \/ PiRestarts

Spec == Init /\ [][Next]_vars

-----------------------------------------------------------------------------
(* What the dashboard shows *)

Shown   == ReadRuns(lines, files)
Nodes   == DeriveTree(Shown, Root, now)

(* A child that is shown and whose run is over is shown as it ended, whatever rows of
   resets, of other runs or of others follow and whatever rows were lost before.  A torn
   line costs its own row and the next one, whoever's that is; only where one of the two is
   a child's finish row its state is wrong, and only until it finishes another run
   (dashboard-api.ts, childTiming; agent-runs.ts, appendEvent). *)
EndIsShown ==
  LET nodes == Nodes
  IN \A c \in DOMAIN nodes \ lossy : ~Running(c) => nodes[c].status = ended[c]

(* The child's last row of a run is less than a window old. *)
WroteLately(c) ==
  \E i \in DOMAIN lines :
    /\ lines[i].event # "damaged" /\ lines[i].sid = c /\ lines[i].event \in {"spawn", "progress"}
    /\ now < lines[i].ts + ActiveWindow
    /\ \A f \in Finishes(lines, c) : lines[f].ts < lines[i].ts

(* A run whose row of less than a window ago is in the file is shown running, resumed or
   not, whatever else was lost (child-runs.ts, writeProgressEvent; dashboard-api.ts,
   childTiming). *)
RunIsShown ==
  LET nodes == Nodes
  IN \A c \in DOMAIN nodes : Running(c) /\ WroteLately(c) => nodes[c].status = "running"

(* A tree with a child that is shown running is shown running itself, whenever the main
   session wrote to its transcript last (dashboard-api.ts, treeLastActivity). *)
TreeRunsWithChild ==
  LET nodes == Nodes
  IN \A c \in DOMAIN nodes : nodes[c].status = "running" =>
       \A mtime \in 1..now : RootRunning(Shown, Root, mtime, now)

(* No run goes on, every child that has worked is shown, and how it ended last. *)
AllTold ==
  /\ \A c \in Children : ~Running(c) /\ c \notin lossy
  /\ {c \in Children : worked[c] > 0} \subseteq DOMAIN Nodes

(* No turn's cost is shown twice, and with every run over none is missing if each child's
   last finish row is in the file, whatever other rows were lost (agent-runs.ts: finish rows
   are cumulative). *)
CostIsTrue ==
  LET cost == TreeCost(Shown, Root, 0)
      true == SumFunction(worked)
  IN /\ cost <= true
     /\ AllTold => cost = true

(* A child whose run is done shows its turns, through failed attempts, retries, resumes and
   a reopening from its rows (child-session.ts, trackChildActivity), unless it was reopened
   without its last finish row.  While a resumed run's rows are throttled the child may
   still be shown as it was. *)
TurnsAreTrue ==
  LET nodes == Nodes
  IN \A c \in DOMAIN nodes \ (lossy \cup short) :
       nodes[c].status = "done" /\ ~Running(c) => nodes[c].turns = worked[c]

-----------------------------------------------------------------------------
(* Why they hold: what the rows and the records keep between them *)

Moments == 1..now

Rows ==
  [event: {"damaged"}]
    \cup [event: {"session-start"}, sid: {Root}, ts: Moments]
    \cup [event: {"spawn"}, sid: Children, ts: Moments, root: {Root}, parentSid: {Root}]
    \cup [event: {"progress"}, sid: Children, ts: Moments, turn: Nat]
    \cup [event: {"reset"}, sid: Children, ts: Moments]
    \cup [event: {"finish"}, sid: Children, ts: Moments, status: {"done", "error", "cancelled"},
          turns: Nat, cost: Nat]

Records ==
  [state: {"unborn", "live", "stored"}, turns: Nat, last: Nat, error: BOOLEAN,
   phase: {"off", "think", "answer", "failed", "tool", "rest", "spent"}]

RunsTypeOK ==
  /\ now \in Nat \ {0} /\ losses \in Nat /\ lines \in Seq(Rows) /\ torn \in BOOLEAN
  /\ files \subseteq Children \cup {Root} /\ lossy \subseteq Children /\ short \subseteq Children
  /\ rec \in [Children -> Records] /\ worked \in [Children -> Nat]
  /\ ended \in [Children -> {"-", "done", "error", "cancelled"}]

(* The rows of a child, and those that tell of its runs. *)
RowsAbout(c) == {i \in DOMAIN lines : lines[i].event # "damaged" /\ lines[i].sid = c}
RowsFor(c, events) == {i \in RowsAbout(c) : lines[i].event \in events}

(* The record's error flag is the last answer's; only a live child runs, and no run that
   goes on has ended. *)
ErrorIsLast(c) ==
  /\ rec[c].state # "live" => ~Running(c)
  /\ rec[c].state = "unborn" \/ Running(c) => ended[c] = "-"
  /\ rec[c].phase \in {"answer", "tool", "rest"} => ~rec[c].error
  /\ rec[c].phase \in {"failed", "spent"} => rec[c].error

(* A child's one spawn row, if it is in the file, comes before its other rows. *)
SpawnLeads(c) ==
  /\ rec[c].state = "unborn" => RowsAbout(c) = {}
  /\ \A j \in RowsFor(c, {"spawn"}), i \in RowsAbout(c) : j <= i

(* The finish row of the child's last run is its last row but for resets, and says how it
   ended; a child without a run that started has no transcript. *)
EndIsWritten(c) ==
  c \notin lossy /\ ~Running(c) =>
    IF ended[c] = "-" THEN c \notin files /\ worked[c] = 0
    ELSE \E f \in RowsFor(c, {"finish"}) :
           /\ lines[f].status = ended[c] /\ lines[f].cost = worked[c]
           /\ c \notin short => lines[f].turns = worked[c]
           /\ \A i \in RowsFor(c, {"spawn", "progress", "finish"}) : i <= f /\ lines[i].ts <= lines[f].ts

(* The record counts the turns done; a heartbeat may be one ahead until the turn's end. *)
TurnsAreCounted(c) ==
  c \notin short =>
    /\ rec[c].state = "unborn" => worked[c] = 0
    /\ rec[c].state = "live" => rec[c].turns = worked[c]
    /\ \A i \in RowsFor(c, {"progress"}) :
         /\ lines[i].turn <= worked[c] + 1
         /\ rec[c].phase = "rest" \/ (~Running(c) /\ ended[c] = "done") => lines[i].turn <= worked[c]

(* No finish row is ahead of the turns done, whatever rows are missing. *)
CostsAreDone(c) == \A i \in RowsFor(c, {"finish"}) : lines[i].cost <= worked[c]

(* A torn line may be all there is of a last end, and the next row will take it away. *)
TornIsOwed ==
  torn => /\ lines # <<>>
          /\ lines[Len(lines)].event = "finish" => lines[Len(lines)].sid \in lossy

(* The inductive invariant: the rows tell what the records know (child-runs.ts,
   child-session.ts). *)
RunsInv ==
  /\ RunsTypeOK /\ TornIsOwed
  /\ \A c \in Children :
       ErrorIsLast(c) /\ SpawnLeads(c) /\ EndIsWritten(c) /\ TurnsAreCounted(c) /\ CostsAreDone(c)

-----------------------------------------------------------------------------
(* The comment on TreeNodeStatus: a node is abandoned when it never settled and the
   tree is stale.  The main session waits for its children here and writes nothing. *)
AbandonedTreeIsStale ==
  \A c \in DOMAIN Nodes : Nodes[c].status = "abandoned" => ~SummarizeRoot(Shown, Root, 1, 0, now).running
=============================================================================
