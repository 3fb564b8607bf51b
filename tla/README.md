# Verification of terminal-setup

TLA+ models of the program in this repository, model-checked with TLC and proved with
TLAPS. The program is a set of extensions for the pi coding agent (`pi/extensions`);
the rest of the repository configures a terminal around it. Paths are relative to the
repository; a file named without a directory is in `pi/extensions` or
`pi/extensions/lib`.

`PROJECT.json` has the components, the runs, the correspondence of every definition to
its source lines, the mutants that show each property can fail, the findings, the
hazards and the theorems. This file explains them.

## 1. The system

pi runs one agent loop per session: it calls the model, gives the message to the
extensions (`message_end`), runs the message's tool calls, gives the turn to the
extensions (`turn_end`), reads the queue of user messages, and goes round again or ends
the run (`agent_before_settle`, `agent_settled`). The extensions are JavaScript: a
handler runs to its next `await` undisturbed, and between an `await` and its
continuation anything else may run: a command, a key press, a timeout, the events of
another session. So the interleavings that matter are those of handlers, not of
statements; nearly all the program's own logic is about what may happen between two of
them.

### Components

**Context cap** (`context-cap.ts`, `context-cap-*.ts`). Keeps an agent's context below
its window: at the soft cap it demands a handoff document (the `context_handoff` tool),
reminds an agent that ignores the demand, and at the hard cap, or once the document is
there, swaps the context for it. `/handoff` uses the same cycle to start a new session
from the document.
*State*: one `CycleState` (phase, origin, ending, file, reminders, document, staged
text), the waiting command, the files of the session.
*Operations*: `message_end` (with an awaited drafting call), `turn_end`, the tool,
`agent_before_settle`, `agent_settled`, the command and its resumption when pi is idle,
session start and shutdown.
*Correct when*: a `/handoff` is answered exactly once, and from a document of its
cycle; the tool records only what was demanded; a given-up cycle really was ignored; a
staged text is delivered by its own turn; a file is never overwritten by a later cycle.

**Context cap triggers** (`env.ts`, `context-cap-resolver.ts`) derive the caps from the
model's window and the overrides. *Correct when* soft < hard < pi's own threshold for
every window. **LLM view** (`context-cap-view.ts`) cuts the messages at the last swap
marker, with a recency tail of complete turns. *Correct when* no tool result is left
without its call and no demand of a finished cycle is visible.

**Timer** (`timer.ts`). *State*: the armed timer; the watch over the wake-up of the
expired one (text, delivered, re-sends). *Operations*: set, cancel, expiry,
`message_start`, `agent_settled`, shutdown. *Correct when* a wake-up enters a run or is
given up after the re-sends, and is not sent again once heard.

**Workspace state reporter** (`wsstate.ts`). *State*: running, prompting, the park's
deadline and fallback timeout, the arguments of started timer calls. It shares nothing
with the timer: it follows it through pi's tool events. *Correct when* the pane says
"waiting" only of an agent that will wake, and "idle" only of one that will not.

**Child sessions** (`child-session.ts`, `child-busy.ts`, `child-reopen.ts`,
`abort-grace.ts`, `session-quiet.ts`; tools in `subagent.ts`, `explore.ts`). *State*: a
registry of children (running, finished, evicted), busy groups with a limit, grace
periods. *Operations*: spawn, resume, reopen from the index, evict, abort, shutdown.
*Correct when* no two runs share a child or exceed a group's limit (but for the
documented 60 s expiry), no child is evicted while claimed, and nothing of a session
that is gone is inserted in the next one's registry.

**Child run bookkeeping and agent-runs index** (`child-runs.ts`, `child-outcome.ts`,
`agent-runs.ts`). *State*: a child's turns, error and heartbeat; an append-only file,
shared by processes. *Operations*: spawn, progress, reset and finish rows on the events
of a run; tolerant reading; the look-up of a child from before a restart. A row and its
line feed are one append; when it fails half-way the next row, of any child or process,
runs into the torn line and both are dropped by the reader (`parseLine`). *Correct when* a
torn line costs these two rows and no other, so that a child's state is wrong only where
one of the two is its finish row, and only until it finishes another run; and a resumed or
reopened child's numbers go on.

**Dashboard** (`dashboard-api.ts`, `dashboard-events.ts`, `dashboard-server.ts`,
`dashboard-ui/app.js`). *State*: none but the file watchers of a stream on the server,
and a page with its stream, timers and requests in the browser. *Operations*: deriving
sessions, trees and anchors from the rows; watching, debouncing, announcing; fetching and
drawing. *Correct when* what is derived is what the runs did, no change is left
unannounced, and a page that shows something running catches up.

**Side chat** (`btw.ts`, `btw-context.ts`, `btw-thread.ts`, `btw-chat.ts`). *State*: a
snapshot of the session's last request and what followed; one flight, the turns.
*Correct when* a question is asked on a well-formed conversation that holds every
message once, and closing the chat leaves no request under way.

**Watch overlay and child view** (`child-watch.ts`, `child-watch-cursor.ts`,
`child-view.ts`, `watch-viewport.ts`, `alt-screen.ts`). *State*: the overlay's mode, row
and child, the cursor, the terminal's modes; per child a transcript with its pending
calls; a scroll position. *Operations*: keys, frames, the events of a child's run, the
replay of a saved one. *Correct when* the transcript is true to the child's branch, keys
reach everything, and a closed overlay leaves the terminal as it was.

The remaining components (footer, prompts, rendering, wezterm and shell
configuration, installers) keep little state or none and are listed in `PROJECT.json`
with the reason they are left out.

### Interactions

- The cap and `/handoff` share one cycle; a command may join a cap's cycle, a cap may
  advance a command's demand, and a reset of the cycle must answer the command.
- The timer and the reporter are coupled only by pi's events; the reporter's deadline
  is a second derivation of the timer's.
- Child sessions append to the index that the dashboard reads in another process; a
  restarted pi reopens children from it.
- The watch overlay reads the registry of children while tool calls change it; a child's
  view hears the child's events only while a run's watcher listens.
- Everything is coupled to pi by events and by the queue of user messages.

### What is hard

Handlers awaiting while others act (the draft of the hard cap, creating a child, a
reopening); ESC at every point, since it drops the queue and makes the next handlers see
failed turns; pi's automatic retries; events that never come (a `turn_end`, a
`tool_execution_end`); session changes while something is awaited; timeouts racing the
event they stand in for. The list with source lines is under `hazards`.

## 2. The modules

| Module | Models |
|---|---|
| `ContextCapDecide` | the decision functions of `context-cap-decide.ts`, as operators |
| `ContextCap` | the cycle, its handlers, the tool, `/handoff`, sessions, and pi's loop around them |
| `HandoffCommand` | abstract: what `/handoff` promises its user |
| `ContextCapProofs` | the theorems about `ContextCap` |
| `MCContextCap` | instances of `ContextCap` for TLC |
| `Timer` | the methods of `WakeTimer` |
| `WsState` | the event handlers of `wsstate.ts` |
| `WakeLoop` | `Timer` and `WsState` composed with pi's loop and its steer queue |
| `WakeLoopProofs` | the theorems about `WakeLoop` |
| `MCWakeLoop` | instances of `WakeLoop` for TLC |
| `ChildPool` | tool calls, slots, children in memory, evicted and being reopened, their runs, aborts, shutdowns, restarts |
| `ChildService` | abstract: what the pool promises the calls that use it |
| `ChildPoolProofs` | the theorems about `ChildPool` |
| `RunsIndex` | the readers of `agent-runs.jsonl`: `readRuns`, the look-up of a child, the derivations of `dashboard-api.ts`, as operators |
| `ChildRuns` | the writers: what a run writes on its events, appends that fail or tear, pi's death, the clock |
| `ChildRunsProofs` | the theorems about `ChildRuns` and the readers |
| `LlmView` | `context-cap-view.ts` and the request of `btw-context.ts`, as operators |
| `SideChat` | a session's messages, the fork's snapshot, the chat |
| `Dashboard` | disk, watchers, event stream, browser page |
| `ChildView` | one child's transcript, live and replayed |
| `WatchViewport` | scrolling and jumps over a body that changes |
| `WatchOverlay` | the overlay's modes, cursor, terminal and side chat while children come and go |
| `DataLemmas` | lemmas about data: least and greatest numbers, repeated steps, folds over sequences, sums over sets |
| `SideChatProofs` | the theorems about `SideChat` and the operators of `LlmView` |
| `WatchProofs` | the theorems about `ChildView`, `WatchViewport` and `WatchOverlay` |
| `Screens` | the five before it side by side: a behaviour is about one of them |
| `ScreensProofs` | the theorems about `Dashboard`, and what the theorems about the parts say of `Screens` |
| `MCChildPool`, `MCChildRuns`, `MCScreens` | their instances for TLC |

Operators called `Bug_...` are what a plausible mistake in the code would make of the
definition after them; they are used to see that a property can fail, and by nothing
else.

### ContextCap and the code

| Variable | In the code |
|---|---|
| `cycle` | `CapSession.cycle`; file paths are sequence numbers, a document is its author, `stagedBy` is the identity of the message that staged the text |
| `waiter` | `CapSession.manual` |
| `cmd` | how far each `runHandoffCommand` invocation got, and the seed it was given |
| `parked` | outstanding `resumeWhenIdle` continuations |
| `disk` | newest handoff file of the session |
| `marker` | the swap marker the latest `turn_end` committed |
| `pc`, `stop`, `aborted`, `queued` | pi: the point of the loop, the message's stop reason, the abort signal, a queued user message |
| `seen` | history for the properties: whose demand is in the context, live demands, refusals counted, documents passed by |

A token reading is abstracted to the six classes the comparisons tell apart. Every
handler is one action (or one per decision it can take): `MessageEnd`, `TurnEnd`,
`BeforeSettle`, `Settled`, `ExecuteHandoff`, `HandoffTyped`, `ResumeWhenIdle`,
`SeedNewSession`, `SessionReplaced`. `message_end` at the hard cap is two: it arms the
cycle, awaits the draft at `pc = "draft"`, where ESC, `/handoff` and queued messages may
act, and goes on with `DraftWritten`, `DraftDeferred` or `DraftFellBack`. The steps of
pi itself are marked external in the map: the order of the events, the queue, ESC,
retries, compactions.

### Timer, WsState, WakeLoop and the code

`active` is the armed timer; `wake` the watch (`awaitingWake` is a text being there);
`park` is the stage `timerDeadline` has reached: before it, due, or past the grace of
`WAKE_GRACE_MS`. A wake-up is the name of its timer, because the code recognises it by
its text, which holds nothing else. `WakeLoop` adds pi's steer queue, wake-ups that are
about to start a run (`outbox`), tool calls executed whose end event is still to come
(`inFlight`), and history. `pi.sendUserMessage` may throw at each place the code catches
it. The clock of the reporter may be read after a deadline the timer's timeout has not
yet been run for, but not later than the grace.

### ChildPool and the code

A call is one invocation of `runChildTool`; `pc` is the `await` it is at, or the moment
between an `await` and its continuation (`opened`: the record is in `liveChildren` and
the reservation not yet released). `sess` holds session objects, `evicted` the tombstones, `reopening` the reservations, `active` the
slots by group; `live` is the registry by id and `order` its insertion order, which eviction
follows. `kindOf`, `rootOf` and `onDisk` are what a restart leaves: spawn rows and
session files. Ids and session objects are handed out in order, since nothing depends on
which. A resume that is refused takes and gives back its slot in one stretch of code, so
it is no step. An agent child may call Explore from its own run; a shutdown does not
wait for anything, and what is in flight meets the emptied registry, whose groups are
other objects (`epoch` tells them apart). `strays` is history: the last shutdown fell into a reopening
(`Reserves`), whose reservation it cleared. After a shutdown an idle session that no call
holds is out of reach and dropped from the model.

### RunsIndex, ChildRuns and the code

`lines` is the file; a line that does not parse is `"damaged"`, and `torn` says that the
last line lacks its line feed. An append that fails (`Lost`) leaves nothing, a part, or all
of the row but the line feed; the row after it replaces the torn line by a damaged one
(`Behind`) and is lost with it, though its writer, perhaps another child or a starting pi,
had no error. `files` are the sessions whose transcript exists (`pruneVanished`). A child's
record holds what the writers use: turns, time of the last heartbeat, whether the last
message failed. A run ends (`Settle`) after a turn, or anywhere by an abort, or anywhere by
a rejected `prompt()`, before its first message too; a run whose watcher cannot be started
(`startRun`) leaves a child with a spawn row and no run, which the dashboard does not show,
as it has no transcript. `TurnsAtReopen` is what a restarted pi takes over.

What the properties leave out is history in the model: `lossy` are the children whose last
finish row is missing (lost by its own append or by the line before it, or never written
because pi died in the run), `short` those reopened without it. Time is a small number; a run starts in a later moment
than the last one of that child ended, since rows of one millisecond cannot be told apart
(`finish.ts >= lastRunTs`).

### LlmView, SideChat and the code

A message is a role, an identity, and the calls it makes or answers. `SideChat` produces
sessions as pi's loop does: answers with several calls that end in any order, retries,
demands and swap markers as boundary entries, a kill in the middle of a turn and a
resumption. `snapshot` is `ForkSnapshot`, `chat` the `BtwThread` behind an open `BtwChat`.

### Dashboard and the code

One project directory, with inodes, since a watcher stays with its inode when the name is
gone. `stream` is the server's `EventStream` (its watcher and debounce timer), `page` the
browser's: `live` the `EventSource`, `poll` and `grow` its timers, `token` is `navToken`.
Every answer is derived from the disk of its moment; `fresh` says that nothing changed
since. The transcript page also reads the tree, which may be missing or without the session
(`known`): then it asks for a stream whether the session runs or not.

### ChildView, WatchViewport, WatchOverlay and the code

`ChildView` has the view's `pendingTools`, its rows and `pendingManualPrompts`, and a
child whose loop saves entries and sends events; `watched` says that `watchChild` listens.
`WatchViewport` numbers lines; the body may grow or be folded between two frames, so a
key acts on `drawn`, the anchors of the last one. `WatchOverlay` has the overlay's fields,
`painters` (views whose `setRenderer` is the screen's), and what pi's renderer takes to be
on the terminal (`frame`), which `alt-screen.ts` saves and gives back.

## 3. What is checked

| Run | Question | Bounds |
|---|---|---|
| `cap_safety` | is the cycle consistent in every order of handlers, and does it keep the promise of `/handoff` (refinement of `HandoffCommand`)? | 2 commands, 2 reminders, 2 files |
| `cap_liveness` | is every waiting `/handoff` answered? | 1 command, 1 reminder, 1 file |
| `cap_delivered` | violation, finding 1 | 1 command |
| `cap_run_ends` | violation, finding 2 | 1 command |
| `cap_join` | violation, finding 3 | 1 command |
| `wake_loop` | are wake-ups heard and does the pane tell the truth? | 2 timers, names equal or not, 2 calls a turn, 1 re-send |
| `wake_every` | violation, finding 4 | as `wake_loop` |
| `child_pool` | has a child one driver, one session and one slot, is none lost, and is the promise of `ChildService` kept (refinement)? | 2 calls, 2 children, 2 sessions, 1 agent and 2 explorer slots, 1 shutdown or restart |
| `child_reopening` | violation, finding 5 | as `child_pool` |
| `child_runs` | is what the dashboard derives what the runs did, when appends fail and torn lines swallow rows of others? | 2 children (symmetric), 2 moments, window 1, throttle 2, 5 lines (7 while there is one child), 2 turns, 1 failed append, 1 handoff, 1 restart |
| `dash_abandoned` | violation, finding 6 | 2 children, 5 moments |
| `screens` | is what is sent well-formed, what is shown true, what is closed gone? | per part, below |

**Safety of the cycle.** `WaiterMatchesEnding`, `NoStrandedCommand`: a command that waits
is the registered one, exactly while the cycle ends in a new session, so whatever ends
the cycle finds and answers it. `SeedFromThisCycle`: neither a stale file nor the no-file
note becomes a seed. `ToolNeedsDemand`: an agent's document is recorded only against a
demand of this very cycle that was in its context. `OneLiveDemand`: cap and command never
ask twice in one run. `OwnFile`: a cycle's file is new. `ExhaustedMeansIgnored`: failed
turns do not count as refusals. `OwnTurnSwap`: a staged text is delivered by its own turn.

**The promise.** `HandoffCommand` knows only the commands: each is refused, failed or
given a document, once; one waits at a time; a session change answers everyone.
`AbsSpec` says every step of the cycle is a step of it or changes no command.

**Liveness of the cycle.** `HandoffAnswered`, also for a command typed during a
compaction (no run will settle; only its resumption can answer it).

**The wake-up.** `UnheardIsWatched`: until a run has heard the latest wake-up, or it was
given up, it is watched. `ResendOnlyUnheard`: a settle sends again only the wake-up of the
last expiry, and only while no run has heard a copy of it. That it is heard once is not
promised: the stranded original may be read after the re-send, a duplicate `timer.ts:276`
takes for harmless and the model has.
`WakeArrives`: it is heard or given up. **The pane.** `IdleMeansUnarmed`: never "needs
you" with a timer ahead. `ParkIsReal`: the reporter's second-hand deadline stands for the
real timer. `WaitingEnds`: "waiting" ends.

**Children.** `PoolInv`, with `RunningIsDriven`: a record says running exactly while one
call drives it, through failed starts, aborts and the moment between a reopening and its
claim. `ServiceSpec`: for the calls, the pool is a `ChildService`: slots are held by calls and
not merely counted, a session has one driver, and what outlives a shutdown gives nothing back
to the new groups.
`PromptOnIdle`: no prompt into a session that works or drains. `OneWriter`: no two open
sessions on one file, within one main session and when the last shutdown fell into no
reopening (finding 5 is that case). That there be no reservation left is not enough of an
exception: with two shutdowns a reservation of the second session may be there while the
stray of the first still opens its file. `LimitHolds`: a draining child keeps its slot, unless it hung
for 60 s. `EvictsOnlyFinished`, `NothingLost`: eviction takes what rests, and whatever is
evicted or fails to reopen stays resumable. `AbortedFrees`: an aborted call gives its slot
back, hung child or not.

**Rows.** `EndIsShown`: a child whose last finish row got through is shown as its run
ended, whatever other rows were lost or swallowed, and though resets trail the finish. `RunIsShown`: one whose run has a row
in the file within the window is shown running. `TreeRunsWithChild`: child and tree are
judged by different rows and agree. `CostIsTrue`, `TurnsAreTrue`: cumulative numbers are
neither counted twice nor lost by retries, resumes, reopenings and missing rows before the
last finish. A child without its last finish row (`lossy`) is left out of `EndIsShown`,
`TurnsAreTrue` and the second half of `CostIsTrue`, since its truth is not in the file: it
may be shown running, abandoned, or as its run before last, and another child's torn line is
enough for that. `TurnsAreTrue` speaks of children at rest: a resume writes no row and its
first heartbeats may be throttled, so for that time the child is shown done, with the turns
it had, while it is one turn further. For the same reason `RunIsShown` needs a row.

**The inductive invariants.** `IInv`, `WakeInv`, `PoolInv` and `RunsInv` contain the
type invariants of their modules and are checked as a whole; section 4 says what they are for.

**What a model is sent.** `TailIsLongest`: behind a swap the view keeps the longest tail
within the budget that parts no call from its result, compared with a definition by
quantifiers over all cuts. `ForkIsPaired`: a side chat's question goes out on a
conversation with every message once, results right behind their calls, and "still
running" for the calls that run.

**What is shown.** `CallsAreSettled`: the live or replayed view is true to the branch.
`JumpsShowAll`: from any state of the viewport, the jump keys show every divider and the
tail. `EveryChildReached`: stepping through the children misses none. `ClientIsTold`,
`PageCatchesUp`: changes are announced or the stream ends; a page with something running,
or without its stream, is up to date in the end. **What is closed.**
`OverlayLeavesNothing`: terminal modes, pi's screen, repainting views and requests.

### Bounds, and why they suffice

Two commands: all behaviour concerns one waiting command and one more that is refused or
comes after it; commands are symmetric. Two files: a first cycle's file is there for the
second as the stale one, and the write that does not fit is the failing write. Two
reminders: none, some and all sent. One queued user message: the code asks only whether
one is there. Two timers: an expired one with its wake-up under way and a second that
replaces the watch, with the same text or another; one re-send: re-sent and given up.
`MaxArms` ends the supply of timers, so `WakeArrives` speaks of the last one of its
name. The safety half of `WakeLoop` was also checked with three timers (4.5 million
states), that of `ChildPool` with two shutdowns (1.7 million) while they were written.

Two calls: every clash of the pool is between two (two resumes, a resume and an eviction,
a reopening and a spawn, a draining child and a new one); with two children one is
evicted while the other works, as no finished child is kept (`MaxFinished` 0) beyond the
next spawn. Two explorer slots and the one agent slot leave a group full and not full.
One shutdown or restart: what one leaves behind meets a new session. Two children in
`child_runs`: the row a torn line swallows is the writer's own next one, the other child's or
the root's. Two moments with a window of one hold a row that is fresh and one that is stale.
With a throttle of two, a second run after one that had a heartbeat has none and writes only
its finish row, and one after a run that was rejected at once has. One failed append loses
one row or tears a line that swallows another. `MaxShared` (5 lines) bounds the file once
both children are in it: start, two spawns, and two rows of runs; a child alone has 7, which
hold two runs, a handoff and a restart. The theorems are for files of any length. `Screens`: seven messages hold a
turn with two calls before a marker and one after it, with budgets that keep nothing, a
part and all; three changes of the disk delete a directory, make it anew and append to
it; five entries in a view hold a prompt, an answer with two calls and their results; a
body of four lines over three rows has any number of dividers; three records of three
children let a child come back behind the others. The parts of `Screens` share no state,
so one run explores each alone.

Deadlock is not checked, since a session whose user does
nothing does stop.

### Fairness

Of pi: the provider answers, tools, retries and compactions end, and the loop goes on to
the next event (weak fairness on each step), since pi awaits each of them. Of the agent,
in `ContextCap` only: it does not call tools for ever and a turn without tool calls
completes in the end (strong fairness: a failing provider may come between). What waits
for idle runs at an idle moment if there are infinitely many (strong fairness: pi is idle
only between runs). Timeouts fire. In `ChildPool`, of a call only: creating a session
succeeds or fails, continuations run, the abort grace and the 60 s expiry pass; a child's
run may hang for ever. In `Dashboard`: notifications of open watchers and answers arrive
and are handled, the browser's timers tick, a stream is opened or refused; nothing is
assumed of the disk or of the user. Nothing is assumed of the user, who may press ESC,
prompt, or leave at any time; in particular ESC may be pressed at every turn.

### Findings

1. `cap_delivered`: the hard cap fixes its text before the message's own
   `context_handoff` call runs, so a document the agent is told was recorded is not the
   text delivered (`context-cap-hard.ts:46`).
2. `cap_run_ends`: after a hand-over in a turn without tool results a queued message
   keeps the run going in the window the user leaves (`context-cap-swap.ts:155`).
3. `cap_join`: a `/handoff` that joins a document recorded by an aborted hard cap is
   failed at settle, though an idle `/handoff` would have been given it
   (`context-cap-manual.ts:148`).
4. `wake_every`: a second expiry before the first wake-up is read ends the watch over the
   first, and an ESC then loses it (`timer.ts:245`).
5. `child_reopening`: a session shutdown clears the reservation of a reopening that is
   still awaited, so a call of the next session opens the same file beside it
   (`child-session.ts:63`).
6. `dash_abandoned`: a child silent for two minutes is shown abandoned in a tree that is
   running (`dashboard-api.ts:362`).

Each shows what the code does against a sentence of its own documentation, quoted in
`PROJECT.json`.

What else was noticed, where no text of the repository says otherwise or little hangs on
it, and how the models treat it:

- After an abort outlives its grace the child's view has no watcher. Calls pending then
  stay pending in it, and a later failed answer fails those old rows too, although
  `endAssistant` takes earlier calls to have ended. A reopening heals it.
  `CallsAreSettled` is stated for views without such a run.
- When pi is killed in the middle of a tool and the session resumed, the dead run's last
  answer still is the last one while the first request streams; a side chat then says
  "still running" of its calls. `ForkIsPaired` allows that for calls a dead run left.
- Two refetches of a dashboard page may overlap and the older answer be drawn last. A
  change between a page's first fetch and its stream's watchers is announced to nobody. A
  landing page has no timer and does not notice a session that ends by time alone; the
  transcript page of a finished child does not notice that it is resumed. `PageCatchesUp`
  speaks of pages that have a timer.
- A directory watcher that fails while its directory still exists leaves it unwatched
  until the next change of the root; the model lets it fail only with its directory.
- A torn line of the index costs two rows: its own and the next one, which may be another
  child's finish row or another process's. The comment in `appendEvent` (`agent-runs.ts:127`)
  speaks of the one row of the append that failed. `ChildRuns` loses both.
- A wake-up re-sent at a settle may be read together with the stranded original
  (`timer.ts:276` says so).
- The picker's enter opens the row by number; a child evicted between the frame and the
  key makes it the next one.

## 4. What is proved

The theorem modules have one lemma per action that says the step restores the invariant, one
that combines them, and a last step of temporal logic. The constants are what the named
assumptions of the modules say and nothing else.

### ContextCap

`ContextCapProofs` proves, for any set of commands, any `MaxRetries` in Nat and any
`MaxFiles` above 0 (the named assumptions of the modules, with `NoCommand` not being a
command), as theorems about `Spec`:

- `Invariant`: `IInv` always holds;
- from it `TypeCorrect`, `WaiterRegistered`, `NobodyStranded`, `SeedsAreDocuments`,
  `RecordsOnDemand`, `FreshFiles`, `SingleDemand`, `GivesUpLate`: every safety invariant `cap_safety` checks;
- `StagedForItsTurn`: the action property `OwnTurnSwap`;
- `Implements`: `Spec => AbsSpec`, the refinement.

None of the properties is inductive alone. `IInv == TypeOK /\ CycleInv /\ CommandInv /\
Rested /\ OneLiveDemand` adds what the code relies on without saying it:

- `Armed`: a cycle without a file has no phase, document or staged text. `resetCycle` is
  the only way back, and every way out of idle goes through `startCycle`;
- `Asked`: a phase that speaks of a demand speaks of this cycle's demand in the context.
  Without it a tool call accepted in phase "exhausted" could record against a former
  cycle's demand;
- `Counted`: the reminder counter is the number of refusals, and only the phase
  "demanded" has a live demand; this carries `ExhaustedMeansIgnored` and `OneLiveDemand`
  from one demand to the next;
- `Rested`: no demand is live between runs (so a new one may be sent then), and the cycle
  being drafted for has a file.

There is one lemma per action, `NextInv` combines them, and the last step is temporal
logic. The lemmas about shared effects (`ResetInv`, `DemandFacts`, `WriteFacts`,
`EndingInv`, ...) say what a reset, a demand, a write or a joined ending does to the
invariant, once. The refinement uses `IInv`: `SettleAnswers` turns "the waiter is
resolved" into "the waiting command is answered", which needs `NoStrandedCommand`.

### WakeLoop

For any set of names and calls, any `MaxArms` above 0 and any `MaxResends` in Nat:
`WakeInvariant` (`Spec => []WakeInv`) and from it `WakeTypeCorrect`, `WatchHolds`,
`NothingHeardIsResent` (the action property), `IdleIsTrue`, `ParkIsTrue`. What the
properties need besides themselves:

- `LoopIsReported`: the reporter thinks an agent runs exactly when pi's loop does, and a
  turn's calls are each in flight once;
- `PaneIsCurrent`: the pane shows what `DeriveState` says, but for the time between the end
  of a park and the fallback timeout;
- `TimerIsTracked`: calls take effect in one order and report in the same one, so the timer
  is known from the last reported call that changed anything (`LastEffect`). This is why two
  derivations of one deadline stay together, and the only reason `ParkIsReal` and
  `IdleMeansUnarmed` hold;
- `WatchIsKept`: the watch is for the last expiry and `delivered` is what the agent heard;
- `WakesArePaid`: a bound on wake-ups under way, since each expiry pays for one message and
  its re-sends.

### ChildPool

For any calls, children, sessions, main sessions, slots, `MaxFinished` and number of
shutdowns: `Invariant` (`Spec => []PoolInv`), `PoolTypeCorrect`, `RunningIsTrue`,
`SingleWriter`, `LimitIsKept`, the action properties `PromptsIdle`, `EvictionIsSafe` and
`EvictionIsLossless`, and the refinement `KeepsService`. The parts of `PoolInv`:

- `OneWorker`, `CallsHoldSessions`: a call has its session to itself until it is about to give
  its slot back, and the session is in the state the call's `await` says;
- `LiveChildrenAreOpen`, `SessionsHaveChildren`, `RowsComeFirst`: registry, sessions and files
  agree, and who is in none of them has not been spawned;
- `ReservationsHold`: unless the last shutdown fell into a reopening, a call that opens a
  child holds its reservation, and an open session is that of the child's record;
- `SlotsAreCounted`: a group's counter is the number of calls of this epoch in it. A busy
  session that has not expired has a call that still holds its slot, so the working children
  of a group map one to one into its holders: that is `LimitIsKept`;
- `CallersWork`: who called from within a child is busy.

The refinement maps a call to the group it has a slot of (`SlotOf`, "lost" once the groups
were cleared) and the session it drives (`DrivenBy`). There is one lemma for each action.

### ChildRuns and RunsIndex

For any finite set of children and any window, throttle, failed appends, swaps, restarts and
bounds on the file: `RunsInvariant` (`Spec => []RunsInv`), `EndIsAlwaysShown`,
`RunIsAlwaysShown`, `TreeAlwaysRunsWithChild`, `TurnsAreAlwaysTrue`, `CostIsAlwaysTrue`. The
invariant says what the file keeps of the records, whatever rows are missing: a child's spawn
row, if it is there, leads its rows (`SpawnLeads`); the finish row of its last run, unless the
child is `lossy`, is the last one but for resets and has its status, turns and cost
(`EndIsWritten`); a heartbeat is at most one turn ahead of the turns done (`TurnsAreCounted`).
`TornIsOwed` is what torn lines need: the last line may be a whole finish row without its line
feed, shown until the next append takes it away, so its child must count as lossy at once.
`ErrorIsLast` is why a retried attempt is not counted. An append adds a line, or damages the last one,
or does nothing (`FileSteps`). To a child it is not about, that at most takes a row away, and
no finish row unless the child is lossy (`Thinned`, `ThinnedOrOwn`). So each part of the invariant has one lemma for rows that are thinned
(`LeadThinned`, `EndKept`, `TurnsKept`, `CostsKept`) and one lemma per action for the row of
its own (`OwnRow`).

The other half is about the readers, for any file: the latest of a set of rows exists and is
latest, a child's node is made from its rows alone (`AllRowsCount`), a finish row at least as
late as the last run row settles the node with its numbers (`FinishSettles`).
`TreeRunsWithChild` follows from the readers alone: any file, rows missing or not.
`CostIsTrue` compares two sums. No finish row is ahead of the turns done (`CostsAreDone`), and
the rows a tree counts are one for each child at most, so the sum over the rows maps one to
one, and not above its summands, into the sum over the children (`SumsCompare`); with every run
over, every child shown and none lossy it maps back as well.

### WatchOverlay

For any children, terminals and number of records: `OverlayInvariant`
(`OverlaySpec => []OverlayInv`), `NothingIsLeft`, `AllChildrenReached`, and in
`ScreensProofs` the same of `Screens!Spec`, whose overlay is the watch overlay
(`OverlayIsPart`). `OneView` says which child a mode belongs to; `OneRecordEach` is what the
walk needs: stepping goes through the positions in order, round the end, wherever the cursor
is or its child was, so each child is reached within as many steps as there are records. That
a child is in the registry once is why stepping does not go round between two of them.

### WatchViewport

For bodies of any length, terminals of any size and any dividers: `ScrollTypeCorrect`,
`JumpsAlwaysShowAll`, and `ScreensShowAll` of `Screens!Spec`. `Presses` is a recursive function;
that it has a value at all is `PressesAre`, from a lemma about repeated steps (`Repeated`). Every frame is `Laid`: before the tail and paused, or
at it and following. A press goes to the first divider below or, with none before the tail, to
the tail (`GoesDown`), so the dividers between top and tail become fewer with each press and
none is skipped; up is alike. The proof found that the model's `JumpHandoff` had been a CASE
with overlapping guards, which TLC reads in order and TLA+ does not.

### ChildView

For branches of any length and any number of calls, prompts and views: `ViewInvariant`
(`ViewSpec => []ViewInv`), `CallsAlwaysSettled`, and `ScreensSettleCalls` of `Screens!Spec`.
Two things carry `CallsAreSettled`. A call bears the place of the answer that makes it, and a
result follows the answer it is for (`CallsAreOfAnswers`), so a new answer's calls are none of
the old ones. And while the loop is not at rest, its watcher listens or the run was given up
(`TurnIsCurrent`), so the view hears every event that saves an entry. The replay is a fold over
the whole branch, and what the view shows after each entry is `Sums`, kept entry by entry
(`EntrySums`, `ReplayIsTrue`).

### SideChat and LlmView

For sessions, answers and chats of any length and any budgets: `ChatInvariant`
(`ChatSpec => []ChatInv`), `TailIsAlwaysLongest`, `ForkIsAlwaysPaired`, and of `Screens!Spec`
`ScreensKeepLongestTail` and `ScreensPairFork`.

`ChatInv` says that session and fork tell the same story: the session is numbered as it
came, the fork is in its order; in both, results come right behind the answer that made
their calls, one for each (`ResultsFollow`), and the calls that run are the last answer's
(`RunningAreLast`); and the fork has every result the session has of a call the fork holds.
The last is what a property about one moment does not say and a request needs: without it a
call answered before the cut would be shown as running after it. In the proof the invariant is one
operator of session, fork, running calls and loop (`Story`), since a lemma about variables
does not apply to their next values; each action has a lemma about `Story` (`StoryResult`,
`StoryRequest`, ...) and one that the action is an instance of it.

`TailIsLongest` compares a walk with a definition over all cuts. The walk is a fold, and what
it knows after each message is `WalkKnows`: the tokens behind it, the results whose call is
still in front, and the best cut so far, or that no cut further back can be one, because the
budget is spent (`TooFarBack`, tokens only grow) or a call has been met without its result.
`WalkGoesOn` says a step keeps it, `TailIsSelected` what it makes of the end.

`ForkIsPaired` is about what one `Request` stores and what follows. That the view keeps whole
turns is `ViewIsWhole`: leaving out demands keeps the order (`KeptInOrder`), and a tail that
starts at a cut parts no call from its result (`WholeIsPaired`). What is sent puts pending
results behind the last answer (`PutIsPaired`: exactly for its open calls, each once) and the
chat's own turns behind that, which carry no calls (`SaidBehind`). A pending call that does not
run has no result in the session, since the fork would have it too.

### Dashboard

Its properties in the runs are about what happens in the end. Proved, for any number of changes,
requests under way and breaks, is what each of them rests on (`DashInvariant`:
`DashSpec => []DashInv`; `ScreensKeepDashboard` says it of `Screens!Spec`):

- `NoChangeUnheard` (`ChangesAreHeard`): a change not yet announced has its debounce running, or
  a notification on the way that starts it. That needs the second half: a stream whose watcher
  is not on the directory there is has the root's notification still to come, so a watcher on a
  dead inode is replaced before anything is missed. `ClientIsTold` then needs of fairness only
  that notifications arrive and the debounce ends;
- `NoPageWaits` (`PageIsTimed`): a page that lost its stream polls, one that shows a running
  session has its timer; no page that `PageCatchesUp` speaks of waits for a message;
- `DrawnIsTrue` (`FreshIsTrue`): what the model calls drawn anew is what the disk says, so
  `PageCatchesUp` speaks of the state and not of a flag.

`DashInv` was also checked with TLC when it was written, on the bounds of `screens` (294,272
states of `Dashboard`), and `ChatInv` on those of the side chat (52,544 states).

### Only model-checked

- Liveness: `HandoffAnswered`, `WakeArrives`, `WaitingEnds`, `AbortedFrees`, `ClientIsTold`,
  `PageCatchesUp`. Out of the prover's reach. Every safety property and action property of the
  runs is proved.

Induction over data is done by hand where the proofs need it: the library's theorems take
operators as parameters, which the provers cannot instantiate. So `DataLemmas` proves that a fold
over a sequence and a sum over a finite set have values and what one step adds to them
(`FoldExists`, `FoldIsSteps`, `SumExists`, `SumIsAdded`), by the least size without one.

## 5. What is not modelled

The wording of messages, forensic metadata, rendering and logging; the drafting call
itself (its outcomes are modelled); the headless wait of `timer.ts`, which blocks in one
tool call and keeps no state; numeric time where only its order matters. Loss of the whole
process needs no model of its own in the cap and timer components: nothing but the handoff
files survives it, and a new process starts as a new session does (`SessionReplaced`).
Where files do survive it, it is modelled (`PiRestarts`, `Killed`, `Reopened`).

Of the children: how a session is set up (models, extensions, contract) and the texts of
results. Of the dashboard: static files, the daemon's start-up and staleness report, the
parsing of transcripts and the drawing of pages; a stream for one transcript is watched
like the index, in whose directory the transcript is. Of the side chat: the forced system
prompt, image blocking, and the late answer of a question that was aborted, which `ask` drops
by comparing the flight after its `await` (`btw-thread.ts:120`); the model has one flight or
none. Of an aborted run that is still pending: that its stopped watcher hears no event and its
rejection is swallowed (`abort-grace.ts`) is taken from the code and not shown. Of the jump
keys: `JumpsShowAll` starts at any scroll state a body that grew, was folded or resized can
leave, with a frame drawn since; a key on dividers that are out of date is in it only as the
state it leaves.

Caps from windows (`env.ts`, `context-cap-resolver.ts`): arithmetic over one number,
without state or order. The footer, prompt and rendering extensions, the wezterm and shell
configuration and the installers: formatting, configuration and file copies, without a
state machine of their own.

## 6. Plan

1. Done: `ContextCapDecide`, `ContextCap`, `HandoffCommand`, `ContextCapProofs`; `Timer`,
   `WsState`, `WakeLoop`; `ChildPool`; `RunsIndex`, `ChildRuns`; `LlmView`, `SideChat`,
   `Dashboard`, `ChildView`, `WatchViewport`, `WatchOverlay`, `Screens`.
2. Done: theorems about `ContextCap`, `WakeLoop`, `ChildPool` (with `ChildService`),
   `ChildRuns`, `WatchOverlay`, `WatchViewport`, `ChildView`, `SideChat`, `Dashboard`.
3. Next: the refinement of `ChildService` by an abstract registry of children (who is live, evicted
   or being reopened), beside the slots and drivers it has now.
