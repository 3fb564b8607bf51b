------------------------------- MODULE ChildView -------------------------------
(***************************************************************************)
(* One child's transcript in the watch view (lib/child-view.ts): the events *)
(* of its runs while a run's watcher listens (watchChild in                *)
(* lib/child-session.ts), and the replay of its saved branch when it is    *)
(* reopened.  pi's loop in the child is the environment.                   *)
(***************************************************************************)
EXTENDS Naturals, FiniteSets, Sequences, SequencesExt

CONSTANTS
  MaxEntries, \* entries of the child's branch, and prompts shown in one view
  CallsEach,  \* tool calls of one answer
  MaxLives    \* views of the child: a reopened child has a new one

ASSUME ViewAssumption == MaxEntries \in Nat /\ CallsEach \in Nat /\ MaxLives \in Nat \ {0}

VARIABLES
  view,    \* the ChildView
  branch,  \* what the child's session has saved
  turn,    \* the child's loop and the calls of the answer at hand
  watched, \* a run's watcher listens
  lives,   \* views so far
  orphaned \* history: a run went on behind its watcher's back, in this view

viewVars == <<view, branch, turn, watched, lives, orphaned>>

(* pending: pendingTools; failed: rows that show an error; users and dividers: blocks of their
   kind; prompts: pendingManualPrompts. *)
EmptyView == [rows |-> {}, pending |-> {}, failed |-> {}, streaming |-> FALSE,
              users |-> 0, dividers |-> 0, prompts |-> 0]

Steps == {"rest", "prompted", "ready", "streaming", "acting", "ended"}
AtRest == [step |-> "rest", calls |-> {}]

Entry(role, calls, of, stop) == [role |-> role, calls |-> calls, of |-> of, stop |-> stop]
Block(role) == Entry(role, {}, <<>>, "-")

ViewInit ==
  /\ view = EmptyView /\ branch = <<>> /\ turn = AtRest
  /\ watched = FALSE /\ lives = 1 /\ orphaned = FALSE

-----------------------------------------------------------------------------
(* The view's operations *)

(* A swap marker gets a divider as its first line. *)
AddMessageBlock(v, role) ==
  CASE role = "user" -> [v EXCEPT !.users = @ + 1]
    [] role = "marker" -> [v EXCEPT !.dividers = @ + 1]
    [] OTHER -> v

AddUserMessage(v) == AddMessageBlock([v EXCEPT !.prompts = @ + 1], "user")

(* The prompt shown eagerly is delivered. *)
AddInjectedMessage(v, role) ==
  IF role = "user" /\ v.prompts > 0 THEN [v EXCEPT !.prompts = @ - 1] ELSE AddMessageBlock(v, role)

SyncToolCalls(v, calls) ==
  [v EXCEPT !.rows = @ \cup calls, !.pending = @ \cup calls]

Bug_FailNeverRunCalls(v, stop, ids) == v

FailNeverRunCalls(v, stop, ids) ==
  IF stop \in {"aborted", "error"}
  THEN [v EXCEPT !.failed = @ \cup ids, !.pending = @ \ ids]
  ELSE v

(* message_end: all pending calls, those of earlier messages have ended. *)
EndAssistant(v, calls, stop) ==
  LET synced == SyncToolCalls(v, calls)
  IN [FailNeverRunCalls(synced, stop, synced.pending) EXCEPT !.streaming = FALSE]

ToolExecutionEnd(v, call) == [v EXCEPT !.pending = @ \ {call}]

ReplayEntry(v, entry) ==
  CASE entry.role = "assistant" ->
         FailNeverRunCalls(SyncToolCalls(v, entry.calls), entry.stop, entry.calls)
    [] entry.role = "toolResult" -> [v EXCEPT !.pending = @ \ {entry.of}]
    [] OTHER -> AddMessageBlock(v, entry.role)

(* A call without a saved result was cut off: nothing will ever complete it. *)
Replay(entries) ==
  LET v == FoldLeft(ReplayEntry, EmptyView, entries)
  IN [v EXCEPT !.failed = @ \cup v.pending, !.pending = {}]

-----------------------------------------------------------------------------
(* The child's runs *)

Handle(v) == view' = IF watched THEN v ELSE view
Save(entry) == branch' = Append(branch, entry)
RoomIn(n) == Len(branch) + n <= MaxEntries
Step(step) == turn' = [turn EXCEPT !.step = step]

(* runChildRecord: watch, show the prompt, send it. *)
RunStarts ==
  /\ turn.step = "rest" /\ ~watched /\ RoomIn(2) /\ view.users < MaxEntries
  /\ watched' = TRUE
  /\ view' = AddUserMessage(view)
  /\ Step("prompted")
  /\ UNCHANGED <<branch, lives, orphaned>>

RunGoesOn == UNCHANGED <<watched, lives, orphaned>>

PromptDelivered ==
  /\ turn.step = "prompted"
  /\ Save(Block("user")) /\ Handle(AddInjectedMessage(view, "user"))
  /\ Step("ready") /\ RunGoesOn

(* No model, no key: the prompt is shown and never sent. *)
PromptRejected ==
  /\ turn.step = "prompted"
  /\ Step("rest")
  /\ UNCHANGED <<view, branch>> /\ RunGoesOn

AnswerStarts ==
  /\ turn.step = "ready" /\ RoomIn(1 + CallsEach)
  /\ turn' = [step |-> "streaming", calls |-> {}]
  /\ Handle([view EXCEPT !.streaming = TRUE])
  /\ UNCHANGED branch /\ RunGoesOn

(* message_update: the answer so far has one call more. *)
CallStreams ==
  /\ turn.step = "streaming" /\ Cardinality(turn.calls) < CallsEach
  /\ LET calls == turn.calls \cup {<<Len(branch) + 1, Cardinality(turn.calls) + 1>>}
     IN /\ turn' = [turn EXCEPT !.calls = calls]
        /\ Handle(SyncToolCalls(view, calls))
  /\ UNCHANGED branch /\ RunGoesOn

(* message_end; calls of a failed message never run. *)
AnswerIsOver(stop) ==
  /\ turn.step = "streaming"
  /\ stop = "toolUse" => turn.calls # {}
  /\ stop = "stop" => turn.calls = {}
  /\ Save(Entry("assistant", turn.calls, <<>>, stop))
  /\ Handle(EndAssistant(view, turn.calls, stop))
  /\ turn' = IF stop = "toolUse" THEN [turn EXCEPT !.step = "acting"] ELSE [step |-> "ended", calls |-> {}]
  /\ RunGoesOn

(* tool_execution_end, in any order, aborted calls too; the last one ends the turn. *)
CallIsOver(id) ==
  /\ turn.step = "acting" /\ id \in turn.calls
  /\ Save(Entry("toolResult", {}, id, "-")) /\ Handle(ToolExecutionEnd(view, id))
  /\ turn' = [step |-> IF turn.calls = {id} THEN "ended" ELSE "acting", calls |-> turn.calls \ {id}]
  /\ RunGoesOn

(* The run ends, or goes on: after its results, with a retry of a failed answer, or with a demand
   or a marker, a boundary entry (entry_appended) or a message (message_start). *)
TurnIsOver ==
  /\ turn.step = "ended"
  /\ \/ Step("rest") /\ UNCHANGED <<view, branch>>
     \/ /\ Last(branch).role = "toolResult" \/ Last(branch).stop = "error"
        /\ Step("ready") /\ UNCHANGED <<view, branch>>
     \/ \E role \in {"demand", "marker"} :
          /\ RoomIn(1)
          /\ Step("ready") /\ Save(Block(role)) /\ Handle(AddInjectedMessage(view, role))
  /\ RunGoesOn

(* The run is quiet: its watcher stops. *)
RunIsQuiet ==
  /\ watched /\ turn.step = "rest"
  /\ watched' = FALSE
  /\ UNCHANGED <<view, branch, turn, lives, orphaned>>

(* Aborted, and still pending when the grace is over: the watcher stops all the same. *)
GraceIsOver ==
  /\ watched /\ turn.step # "rest"
  /\ watched' = FALSE /\ orphaned' = TRUE
  /\ UNCHANGED <<view, branch, turn, lives>>

(* Reopened from its file: after an eviction at rest, or after pi died in the middle of a run. *)
Reopened ==
  /\ lives < MaxLives /\ branch # <<>>
  /\ lives' = lives + 1
  /\ view' = Replay(branch)
  /\ turn' = AtRest /\ watched' = FALSE /\ orphaned' = FALSE
  /\ UNCHANGED branch

ViewNext ==
  \/ RunStarts \/ PromptDelivered \/ PromptRejected \/ AnswerStarts \/ CallStreams
  \/ \E stop \in {"stop", "toolUse", "error", "aborted"} : AnswerIsOver(stop)
  \/ \E id \in turn.calls : CallIsOver(id)
  \/ TurnIsOver \/ RunIsQuiet \/ GraceIsOver \/ Reopened

-----------------------------------------------------------------------------
(* Properties *)

Saved(role) == {i \in DOMAIN branch : branch[i].role = role}
Made == UNION {branch[i].calls : i \in DOMAIN branch}
Done == {branch[i].of : i \in Saved("toolResult")}

(* The view is true to the branch, live or replayed: a call is pending exactly while it streams or
   runs, shows an error exactly when it never got a result, and every prompt and handoff is there
   once.  Only a run that goes on behind its watcher's back may leave a view behind
   (child-view.ts, failNeverRunCalls, replay, addInjectedMessage). *)
CallsAreSettled ==
  ~orphaned =>
    /\ view.pending = turn.calls
    /\ view.rows = Made \cup turn.calls
    /\ view.failed = Made \ (Done \cup turn.calls)
    /\ view.users = Cardinality(Saved("user")) + view.prompts
    /\ view.dividers = Cardinality(Saved("marker"))

-----------------------------------------------------------------------------
(* Why it holds: what the child's loop and the saved branch keep between them *)

ViewSpec == ViewInit /\ [][ViewNext]_viewVars

CallIds == Nat \X Nat

Views == [rows: SUBSET CallIds, pending: SUBSET CallIds, failed: SUBSET CallIds, streaming: BOOLEAN,
          users: Nat, dividers: Nat, prompts: Nat]

Entries == [role: {"user", "marker", "demand", "assistant", "toolResult"}, calls: SUBSET CallIds,
            of: CallIds \cup {<<>>}, stop: {"-", "stop", "toolUse", "error", "aborted"}]

ViewTypeOK ==
  /\ view \in Views /\ branch \in Seq(Entries)
  /\ turn \in [step: Steps, calls: SUBSET CallIds] /\ IsFiniteSet(turn.calls)
  /\ watched \in BOOLEAN /\ lives \in Nat /\ orphaned \in BOOLEAN

(* A call bears the place of the answer that makes it; results are of calls of an earlier
   answer that stopped for them. *)
CallsAreOfAnswers ==
  \A i \in DOMAIN branch :
    /\ branch[i].calls \subseteq {i} \X Nat
    /\ branch[i].calls # {} => branch[i].role = "assistant" /\ branch[i].stop \in {"toolUse", "error", "aborted"}
    /\ branch[i].role = "toolResult" =>
         \E j \in 1..(i - 1) : branch[j].stop = "toolUse" /\ branch[i].of \in branch[j].calls

(* The loop's calls are those of the answer that streams or of the last one saved, less the
   ones that have a result. *)
TurnIsCurrent ==
  /\ turn.step \notin {"streaming", "acting"} => turn.calls = {}
  /\ turn.step = "streaming" => turn.calls \subseteq {Len(branch) + 1} \X Nat
  /\ turn.step = "acting" =>
       \A id \in turn.calls : id \notin Done /\ \E j \in DOMAIN branch :
         branch[j].stop = "toolUse" /\ id \in branch[j].calls
  /\ turn.step # "rest" => watched \/ orphaned

(* The inductive invariant of a child's transcript (child-view.ts, child-session.ts). *)
ViewInv == ViewTypeOK /\ CallsAreOfAnswers /\ TurnIsCurrent /\ CallsAreSettled
=============================================================================
