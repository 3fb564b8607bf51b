-------------------------------- MODULE Timer --------------------------------
(***************************************************************************)
(* The interactive wake timer (pi/extensions/timer.ts, WakeTimer): one     *)
(* timer at a time, whose expiry steers a wake-up message into the agent,  *)
(* and the watch that re-sends a wake-up no run ever saw.                  *)
(*                                                                         *)
(* Each action is one method; what the method sends is WakeLoop's part,    *)
(* which composes the methods with pi's loop.  A wake-up is the name of    *)
(* its timer: the text holds nothing else, and the watch goes by the text. *)
(***************************************************************************)
EXTENDS Naturals

CONSTANTS
  Names,       \* names the agent gives its timers
  NoName,      \* no timer is armed, no wake-up is awaited
  MaxResends,  \* MAX_WAKE_RESENDS
  MaxArms      \* bound: timers armed in one behaviour

ASSUME NamesAssumption  == NoName \notin Names
ASSUME TimerAssumption == MaxResends \in Nat /\ MaxArms \in Nat \ {0}

VARIABLES
  active,  \* the armed timer: its name and its ordinal (ordinals are history)
  wake,    \* wakeText, awaitingWake (text # NoName), wakeDelivered, wakeResends
  armed    \* timers armed so far

timerVars == <<active, wake, armed>>

Timers  == [name: Names, nth: 1..MaxArms]
NoTimer == [name |-> NoName, nth |-> 0]

Unwatched == [text |-> NoName, delivered |-> FALSE, resends |-> 0]

TimerTypeOK ==
  /\ active \in Timers \cup {NoTimer}
  /\ wake \in [text: Names \cup {NoName}, delivered: BOOLEAN, resends: 0..MaxResends]
  /\ armed \in 0..MaxArms

TimerInit == active = NoTimer /\ wake = Unwatched /\ armed = 0

Awaiting == wake.text # NoName

-----------------------------------------------------------------------------
(* The tool: arm replaces, cancel clears; neither touches an expired timer. *)

Arm(name) ==
  /\ armed < MaxArms
  /\ armed' = armed + 1
  /\ active' = [name |-> name, nth |-> armed + 1]
  /\ UNCHANGED wake

Cancel == active' = NoTimer /\ UNCHANGED <<wake, armed>>

(* `thrown`: sendUserMessage throws, and nothing is left to watch for. *)
Expire(thrown) ==
  /\ active # NoTimer
  /\ active' = NoTimer
  /\ wake' = IF thrown THEN Unwatched
             ELSE [text |-> active.name, delivered |-> FALSE, resends |-> 0]
  /\ UNCHANGED armed

(* Bug: the wake-up's message start is not recognised. *)
Bug_NeverDelivered(name) == wake

(* Bug: every message start counts as the wake-up's. *)
Bug_AnyMessageDelivers(name) == [wake EXCEPT !.delivered = Awaiting]

Delivered(name) == IF Awaiting /\ wake.text = name THEN [wake EXCEPT !.delivered = TRUE] ELSE wake

(* message_start of a user message; the wake-up is recognised by its text. *)
OnMessageStart(name) == wake' = Delivered(name) /\ UNCHANGED <<active, armed>>

(* Bug: the watch ends at the first settle. *)
Bug_NeverResends == FALSE

(* Bug: the re-sends are not counted against the limit. *)
Bug_ResendsUnbounded == Awaiting /\ ~wake.delivered

MustResend == Awaiting /\ ~wake.delivered /\ wake.resends < MaxResends

(* agent_settled: an undelivered wake-up is sent again, else the watch ends. *)
OnSettled(thrown) ==
  /\ wake' = IF MustResend /\ ~thrown THEN [wake EXCEPT !.resends = @ + 1] ELSE Unwatched
  /\ UNCHANGED <<active, armed>>

(* session_shutdown *)
TimerShutdown == active' = NoTimer /\ wake' = Unwatched /\ UNCHANGED armed
=============================================================================
