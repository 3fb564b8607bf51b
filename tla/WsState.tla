------------------------------- MODULE WsState -------------------------------
(***************************************************************************)
(* The workspace state reporter (pi/extensions/wsstate.ts): what the       *)
(* terminal pane says of the agent (busy, blocked, waiting, idle), derived *)
(* from pi's events and, for a parked agent, from the timer tool's calls   *)
(* alone.                                                                  *)
(*                                                                         *)
(* Time is kept as the part of a park it is in: "before" the deadline,     *)
(* "due" from it on, "over" once the grace after it has passed too.        *)
(***************************************************************************)
EXTENDS Naturals

CONSTANT Calls  \* ids of timer tool calls

VARIABLES
  status,  \* running, prompting
  park,    \* timerDeadline, with its fallback timeout: Parks
  pending, \* per call id: the action of a started call, "none" when unknown
  shown    \* the value last written to the pane's variable

wsVars == <<status, park, pending, shown>>

Parks   == {"none", "before", "due", "over"}
Actions == {"set", "cancel", "bad"}  \* bad: a call the timer tool answers with an error

WsTypeOK ==
  /\ status \in [running: BOOLEAN, prompting: BOOLEAN]
  /\ park \in Parks
  /\ pending \in [Calls -> Actions \cup {"none"}]
  /\ shown \in {"busy", "blocked", "waiting", "idle"}

DeriveState(s, p) ==
  IF s.prompting THEN "blocked"
  ELSE IF s.running THEN "busy"
  ELSE IF p \in {"before", "due"} THEN "waiting" ELSE "idle"

Quiet == [running |-> FALSE, prompting |-> FALSE]
NoCalls == [c \in Calls |-> "none"]

WsInit == status = Quiet /\ park = "none" /\ pending = NoCalls /\ shown = "idle"

(* The state is derived and written after every event that matters. *)
Report == shown' = DeriveState(status', park')

-----------------------------------------------------------------------------
(* Timer calls *)

ToolExecutionStart(c, action) ==
  /\ pending' = [pending EXCEPT ![c] = action]
  /\ UNCHANGED <<status, park, shown>>

(* Bug: a cancel leaves the park alone. *)
Bug_CancelKeepsPark(c) == IF pending[c] = "set" THEN "before" ELSE park

ParkAfter(c) ==
  CASE pending[c] = "set" -> "before"
    [] pending[c] = "cancel" -> "none"
    [] OTHER -> park

(* A failed call and one whose start was dropped change nothing. *)
ToolExecutionEnd(c) ==
  /\ pending' = [pending EXCEPT ![c] = "none"]
  /\ park' = ParkAfter(c)
  /\ UNCHANGED status
  /\ IF pending[c] \in {"set", "cancel"} THEN Report ELSE UNCHANGED shown

(* The passing of time, and the fallback timeout at the end of the grace. *)
DeadlinePasses == park = "before" /\ park' = "due" /\ UNCHANGED <<status, pending, shown>>
GracePasses    == park = "due" /\ park' = "over" /\ UNCHANGED <<status, pending, shown>>

(* Bug: the timeout is cleared and never set again. *)
Bug_NoFallback == FALSE

FallbackFires ==
  /\ park = "over"
  /\ park' = "none"
  /\ UNCHANGED <<status, pending>>
  /\ Report

-----------------------------------------------------------------------------
(* Runs, dialogs, sessions *)

(* Bug: a run start ends the park although its deadline is still ahead. *)
Bug_RunEndsPark == "none"

ConsumeIfDue == IF park \in {"due", "over"} THEN "none" ELSE park

(* Retries and continuations emit agent_start again inside one run. *)
AgentStart ==
  /\ IF status.running
     THEN UNCHANGED <<park, pending>>
     ELSE park' = ConsumeIfDue /\ pending' = NoCalls
  /\ status' = [status EXCEPT !.running = TRUE]
  /\ Report

AgentSettled ==
  /\ status' = [status EXCEPT !.running = FALSE]
  /\ park' = ConsumeIfDue
  /\ UNCHANGED pending
  /\ Report

UiPrompt(open) ==
  /\ status' = [status EXCEPT !.prompting = open]
  /\ UNCHANGED <<park, pending>>
  /\ Report

(* session_start and session_shutdown *)
WsReset ==
  /\ status' = Quiet /\ park' = "none" /\ pending' = NoCalls
  /\ Report
=============================================================================
