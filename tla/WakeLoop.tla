------------------------------- MODULE WakeLoop -------------------------------
(***************************************************************************)
(* The timer and the workspace state reporter in one session, driven by    *)
(* pi's loop.  The two extensions share no state: the reporter follows the *)
(* timer through the events of its tool calls.  A wake-up is steered into  *)
(* a run that goes on, and starts a run when nothing runs.                 *)
(***************************************************************************)
EXTENDS Timer, WsState, Sequences, FiniteSets

VARIABLES
  pc,        \* the loop: see Places
  left,      \* timer calls this turn may still start
  queue,     \* pi's steer queue, as far as wake-ups are in it
  outbox,    \* wake-ups sent while nothing runs, each about to start a run
  inFlight,  \* timer calls executed whose end event is still to come, in order
  parkOf,    \* history: ordinal of the timer the reporter's park stands for
  overdue,   \* history: ordinal of the last timer whose park reached its deadline
  owed,      \* history: names that expired and no run has heard of since
  expired    \* history: the timer that expired last, NoName if its message was not sent

loopVars == <<pc, left>>
parkVars == <<parkOf, overdue>>
heard    == <<owed, expired>>
vars == <<timerVars, wsVars, loopVars, queue, outbox, inFlight, parkVars, heard>>

(* poll: the queue is read, a turn follows in any case; last: read after the
   final answer; drained: over, but agent_settled is still to come. *)
Places == {"idle", "poll", "turn", "last", "drained"}

Ordinals == 1..MaxArms
MaxWakes == MaxArms * (MaxResends + 1)

(* A call that was executed, with the timer it left armed. *)
Executed == [call: Calls, nth: Ordinals \cup {0}]

WakeTypeOK ==
  /\ TimerTypeOK /\ WsTypeOK
  /\ pc \in Places /\ left \in SUBSET Calls
  /\ Len(queue) + Len(outbox) <= MaxWakes
  /\ queue \in Seq(Names) /\ outbox \in Seq(Names) /\ inFlight \in Seq(Executed)
  /\ parkOf \in Ordinals \cup {0} /\ overdue \in Ordinals \cup {0}
  /\ owed \in SUBSET Names /\ expired \in [name: Names \cup {NoName}, nth: 0..MaxArms]

Init ==
  /\ TimerInit /\ WsInit
  /\ pc = "idle" /\ left = {} /\ queue = <<>> /\ outbox = <<>> /\ inFlight = <<>>
  /\ parkOf = 0 /\ overdue = 0 /\ owed = {} /\ expired = NoTimer

-----------------------------------------------------------------------------
(* Messages *)

(* sendUserMessage with deliverAs "steer": ignored when nothing runs. *)
Send(name) ==
  IF pc = "idle" THEN outbox' = Append(outbox, name) /\ UNCHANGED queue
  ELSE queue' = Append(queue, name) /\ UNCHANGED outbox

(* A wake-up (or the user's prompt, NoName) enters a run. *)
Heard(name) ==
  /\ OnMessageStart(name)
  /\ owed' = owed \ {name}
  /\ UNCHANGED expired

RunStarts(name) == AgentStart /\ Heard(name) /\ pc' = "poll" /\ UNCHANGED left

-----------------------------------------------------------------------------
(* The timer's own steps *)

TimerExpires(thrown) ==
  /\ Expire(thrown)
  /\ IF thrown THEN UNCHANGED <<queue, outbox, owed>>
     ELSE Send(active.name) /\ owed' = owed \cup {active.name}
  /\ expired' = IF thrown THEN [active EXCEPT !.name = NoName] ELSE active
  /\ UNCHANGED <<wsVars, loopVars, inFlight, parkVars>>

SetsToCome == {c \in Calls : pending[c] = "set"}

CallStarts(c, action) ==
  /\ pc = "turn" /\ c \in left
  /\ action = "set" => armed + Cardinality(SetsToCome) < MaxArms
  /\ ToolExecutionStart(c, action)
  /\ left' = left \ {c}
  /\ UNCHANGED <<timerVars, pc, queue, outbox, inFlight, parkVars, heard>>

CallExecutes(c) ==
  /\ pc = "turn" /\ pending[c] # "none"
  /\ \A i \in DOMAIN inFlight : inFlight[i].call # c
  /\ \/ pending[c] = "set" /\ \E name \in Names : Arm(name)
     \/ pending[c] = "cancel" /\ Cancel
     \/ pending[c] = "bad" /\ UNCHANGED timerVars
  /\ inFlight' = Append(inFlight, [call |-> c, nth |-> active'.nth])
  /\ UNCHANGED <<wsVars, loopVars, queue, outbox, parkVars, heard>>

CallEnds ==
  /\ inFlight # <<>>
  /\ LET done == Head(inFlight)
     IN /\ ToolExecutionEnd(done.call)
        /\ parkOf' = IF pending[done.call] = "set" THEN done.nth ELSE parkOf
  /\ inFlight' = Tail(inFlight)
  /\ UNCHANGED <<timerVars, loopVars, queue, outbox, overdue, heard>>

-----------------------------------------------------------------------------
(* Time.  The reporter's deadline lies behind the timer's, but a busy process may
   read the clock before it runs the timeout; not by the whole grace, though. *)

ParkDue  == DeadlinePasses /\ overdue' = parkOf
ParkOver == active.nth # parkOf /\ GracePasses /\ UNCHANGED overdue
ParkEnds == FallbackFires /\ UNCHANGED overdue

TimePasses ==
  /\ ParkDue \/ ParkOver \/ ParkEnds
  /\ UNCHANGED <<timerVars, loopVars, queue, outbox, inFlight, parkOf, heard>>

-----------------------------------------------------------------------------
(* pi's loop *)

UserPrompts ==
  /\ pc = "idle"
  /\ RunStarts(NoName)
  /\ UNCHANGED <<queue, outbox, inFlight, parkVars>>

(* The run a wake-up starts; if another run was faster, it is steered into it. *)
WakeStartsRun ==
  /\ outbox # <<>>
  /\ outbox' = Tail(outbox)
  /\ IF pc = "idle"
     THEN RunStarts(Head(outbox)) /\ UNCHANGED queue
     ELSE /\ queue' = Append(queue, Head(outbox))
          /\ UNCHANGED <<timerVars, wsVars, loopVars, heard>>
  /\ UNCHANGED <<inFlight, parkVars>>

TurnBegins == pc' = "turn" /\ left' = Calls

(* One queued message enters the run per poll. *)
Poll ==
  /\ pc \in {"poll", "last"}
  /\ \/ queue # <<>> /\ Heard(Head(queue)) /\ queue' = Tail(queue) /\ TurnBegins
     \/ /\ queue = <<>>
        /\ IF pc = "poll" THEN TurnBegins ELSE pc' = "drained" /\ UNCHANGED left
        /\ UNCHANGED <<timerVars, queue, heard>>
  /\ UNCHANGED <<wsVars, outbox, inFlight, parkVars>>

TurnEnds ==
  /\ pc = "turn" /\ inFlight = <<>> /\ pending = NoCalls
  /\ pc' \in {"poll", "last"} /\ left' = {}
  /\ UNCHANGED <<timerVars, wsVars, queue, outbox, inFlight, parkVars, heard>>

(* A retry or continuation goes on in the same run. *)
RunContinues ==
  /\ pc = "poll"
  /\ AgentStart
  /\ UNCHANGED <<timerVars, loopVars, queue, outbox, inFlight, parkVars, heard>>

(* The run ends in an error, the queue is not read any more. *)
RunFails ==
  /\ pc = "turn" /\ inFlight = <<>>
  /\ pc' = "drained" /\ left' = {}
  /\ UNCHANGED <<timerVars, wsVars, queue, outbox, inFlight, parkVars, heard>>

(* ESC: the queue goes back to the editor; calls not executed never end. *)
Esc ==
  /\ pc \in {"poll", "turn", "last"} /\ inFlight = <<>>
  /\ pc' = "drained" /\ left' = {} /\ queue' = <<>>
  /\ UNCHANGED <<timerVars, wsVars, outbox, inFlight, parkVars, heard>>

(* agent_settled.  What is sent from here starts a run; a wake-up re-sent often
   enough is given up. *)
Settle(thrown) ==
  /\ pc = "drained"
  /\ OnSettled(thrown) /\ AgentSettled
  /\ pc' = "idle"
  /\ outbox' = IF MustResend /\ ~thrown THEN Append(outbox, wake.text) ELSE outbox
  /\ owed' = IF Awaiting /\ ~wake.delivered /\ (thrown \/ wake.resends = MaxResends)
             THEN owed \ {wake.text} ELSE owed
  /\ UNCHANGED <<left, queue, inFlight, parkVars, expired>>

Dialog(open) ==
  /\ status.prompting # open
  /\ UiPrompt(open)
  /\ UNCHANGED <<timerVars, loopVars, queue, outbox, inFlight, parkVars, heard>>

SessionEnds ==
  /\ TimerShutdown /\ WsReset
  /\ pc' = "idle" /\ left' = {} /\ queue' = <<>> /\ outbox' = <<>> /\ inFlight' = <<>>
  /\ parkOf' = 0 /\ overdue' = 0 /\ owed' = {} /\ expired' = NoTimer

-----------------------------------------------------------------------------
Expires == \E thrown \in BOOLEAN : TimerExpires(thrown)
Settles == \E thrown \in BOOLEAN : Settle(thrown)

Next ==
  \/ Expires \/ Settles
  \/ \E c \in Calls : CallExecutes(c) \/ \E action \in Actions : CallStarts(c, action)
  \/ CallEnds \/ TimePasses
  \/ UserPrompts \/ WakeStartsRun \/ Poll \/ TurnEnds \/ RunContinues \/ RunFails \/ Esc
  \/ \E open \in BOOLEAN : Dialog(open)
  \/ SessionEnds

Spec == Init /\ [][Next]_vars

(* Timeouts fire, and pi's loop, a turn and its calls go on to their end.  A run may
   have any number of turns; nothing is assumed of the user. *)
Fairness ==
  /\ WF_vars(Expires) /\ WF_vars(TimePasses)
  /\ WF_vars(\E c \in Calls : CallExecutes(c)) /\ WF_vars(CallEnds)
  /\ WF_vars(TurnEnds) /\ WF_vars(Poll)
  /\ WF_vars(Settles) /\ WF_vars(WakeStartsRun)

FairSpec == Spec /\ Fairness

-----------------------------------------------------------------------------
(* Properties *)

Unheard == expired.name \in owed

(* The last wake-up is never forgotten before a run has heard it: the watch stays
   on until then, unless it gave up (timer.ts, onMessageStart and onSettled). *)
UnheardIsWatched == Unheard => Awaiting /\ wake.text = expired.name

(* A settle sends again only the wake-up of the last expiry, and only while no run has
   heard it since: once one copy was heard no more are made.  The stranded original may
   still be read after the re-send; the code takes that duplicate for harmless
   (timer.ts, onSettled). *)
ResendOnlyUnheard ==
  [][ (Settles /\ outbox' # outbox) => Unheard /\ outbox' = Append(outbox, expired.name) ]_vars

(* The pane does not say "needs you" of an agent that will wake up by itself, but
   for a timer that is due this moment (wsstate.ts, idle and waiting). *)
IdleMeansUnarmed == shown = "idle" => active.nth \in {0, overdue}

(* A park ahead of its deadline stands for the armed timer or the one that expired
   last, although the reporter sees tool events only (wsstate.ts, trackTimer). *)
ParkIsReal ==
  (park = "before" /\ inFlight = <<>>) => parkOf \in {active.nth, expired.nth}

(* A wake-up is heard, or given up, in the end (timer.ts, stranded wake-ups). *)
WakeArrives == Unheard ~> ~Unheard

(* The pane does not say "waiting" for ever: the fallback timeout ends a park whose
   wake-up never comes (wsstate.ts, arm). *)
WaitingEnds == shown = "waiting" ~> shown # "waiting"

-----------------------------------------------------------------------------
(* Why they hold: what every step relies on and restores *)

(* A run is under way as long as the reporter thinks so, and calls only within a turn,
   each once. *)
LoopIsReported ==
  /\ pc # "idle" <=> status.running
  /\ inFlight # <<>> => pc = "turn"
  /\ pc \in {"poll", "last"} => pending = NoCalls
  /\ pc = "turn" => \A c \in left : pending[c] = "none"
  /\ \A i \in DOMAIN inFlight : pending[inFlight[i].call] # "none"
  /\ \A i, j \in DOMAIN inFlight : inFlight[i].call = inFlight[j].call => i = j

(* The pane lags behind the reporter's state only in a park that is over. *)
PaneIsCurrent ==
  \/ shown = DeriveState(status, park)
  \/ shown = "waiting" /\ park = "over" /\ status = Quiet

(* The calls after i whose end event is to come change nothing. *)
LastEffect(i) == \A j \in DOMAIN inFlight : j > i => pending[inFlight[j].call] = "bad"

Recent(nth) == active.nth # 0 => nth = active.nth

(* The armed timer is the one of the last call that changed anything, and once that
   call's end is reported, the one the reporter parked for. *)
TimerIsTracked ==
  /\ \A i \in DOMAIN inFlight : LastEffect(i) =>
       /\ pending[inFlight[i].call] = "set" =>
            Recent(inFlight[i].nth) /\ inFlight[i].nth \in {active.nth, expired.nth}
       /\ pending[inFlight[i].call] = "cancel" => active.nth = 0
  /\ LastEffect(0) =>
       /\ Recent(parkOf)
       /\ active.nth # 0 => park = "before" \/ overdue = active.nth
       /\ park = "before" => parkOf \in {active.nth, expired.nth}

(* The watch is for the last expiry, and knows whether a run has heard of it. *)
WatchIsKept ==
  /\ Awaiting => wake.text = expired.name /\ (wake.delivered <=> wake.text \notin owed)
  /\ ~Awaiting => expired.name \notin owed

(* Every expiry pays for one wake-up and its re-sends. *)
Budget(timers) == timers * (MaxResends + 1)

WakesArePaid ==
  Len(queue) + Len(outbox) + (IF Awaiting THEN MaxResends - wake.resends ELSE 0)
    <= Budget(IF active = NoTimer THEN armed ELSE armed - 1)

(* The inductive invariant: the reporter, the timer, its watch and pi's loop agree
   (timer.ts, wsstate.ts). *)
WakeInv ==
  /\ WakeTypeOK /\ LoopIsReported /\ PaneIsCurrent
  /\ TimerIsTracked /\ WatchIsKept /\ WakesArePaid

-----------------------------------------------------------------------------
(* The timer's documentation: after an expiry the timer watches for its wake-up, and
   a settle that finds it undelivered sends it again (timer.ts, stranded wake-ups):
   when nothing runs, is on its way or is watched for, every wake-up was heard,
   messages pi refused to take aside. *)
AtRest == pc = "idle" /\ outbox = <<>> /\ queue = <<>> /\ ~Awaiting

EveryWakeHeard == (AtRest /\ expired.name # NoName) => owed = {}
=============================================================================
