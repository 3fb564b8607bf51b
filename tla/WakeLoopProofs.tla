---------------------------- MODULE WakeLoopProofs ----------------------------
(***************************************************************************)
(* Theorems about WakeLoop for any names, calls, timers and re-sends.      *)
(***************************************************************************)
EXTENDS WakeLoop, SequenceTheorems, TLAPS

-----------------------------------------------------------------------------
(* Which steps touch what *)

(* The watch and its history. *)
LEMMA WatchSteps ==
  ASSUME [Next]_vars
  PROVE  \/ UNCHANGED <<wake, owed, expired>>
         \/ \E thrown \in BOOLEAN : TimerExpires(thrown) \/ Settle(thrown)
         \/ \E name : Heard(name)
         \/ SessionEnds
BY DEF Next, Expires, Settles, CallExecutes, Arm, Cancel, CallStarts, CallEnds, TimePasses, UserPrompts,
       RunStarts, WakeStartsRun, Poll, TurnEnds, RunContinues, RunFails, Esc, Dialog, vars,
       timerVars, heard

-----------------------------------------------------------------------------
(* The watch *)

LEMMA WatchStays ==
  ASSUME WakeTypeOK, WatchIsKept, [Next]_vars
  PROVE  WatchIsKept'
<1>0. /\ wake \in [text: Names \cup {NoName}, delivered: BOOLEAN, resends: 0..MaxResends]
      /\ active \in Timers \cup {NoTimer} /\ owed \subseteq Names /\ NoName \notin Names
  BY NamesAssumption DEF WakeTypeOK, TimerTypeOK
<1>1. CASE UNCHANGED <<wake, owed, expired>>
  BY <1>1 DEF WatchIsKept, Awaiting
<1>2. ASSUME NEW thrown \in BOOLEAN, TimerExpires(thrown) PROVE WatchIsKept'
  <2>1. active.name \in Names
    BY <1>0, <1>2 DEF TimerExpires, Expire, Timers, NoTimer
  <2>2. CASE thrown
    BY <1>0, <1>2, <2>1, <2>2 DEF TimerExpires, Expire, Unwatched, Awaiting, WatchIsKept, Timers, NoTimer
  <2>3. CASE ~thrown
    BY <1>0, <1>2, <2>1, <2>3 DEF TimerExpires, Expire, Unwatched, Awaiting, WatchIsKept
  <2> QED
    BY <2>2, <2>3
<1>3. ASSUME NEW thrown \in BOOLEAN, Settle(thrown) PROVE WatchIsKept'
  <2>1. expired' = expired
    BY <1>3 DEF Settle
  <2>2. CASE MustResend /\ ~thrown
    BY <1>0, <1>3, <2>1, <2>2 DEF Settle, OnSettled, MustResend, Awaiting, WatchIsKept
  <2>3. CASE ~(MustResend /\ ~thrown)
    <3>1. wake' = Unwatched /\ ~Awaiting'
      BY <1>3, <2>3 DEF Settle, OnSettled, Unwatched, Awaiting
    <3>2. expired.name \notin owed'
      <4>1. CASE ~Awaiting
        BY <1>3, <4>1 DEF Settle, WatchIsKept
      <4>2. CASE Awaiting /\ wake.delivered
        BY <1>3, <4>2 DEF Settle, WatchIsKept
      <4>3. CASE Awaiting /\ ~wake.delivered
        <5>1. thrown \/ wake.resends = MaxResends
          BY <1>0, <2>3, <4>3, TimerAssumption DEF MustResend
        <5>2. owed' = owed \ {wake.text}
          BY <1>3, <4>3, <5>1 DEF Settle
        <5> QED
          BY <4>3, <5>2 DEF WatchIsKept
      <4> QED
        BY <4>1, <4>2, <4>3
    <3> QED
      BY <2>1, <3>1, <3>2 DEF WatchIsKept
  <2> QED
    BY <2>2, <2>3
<1>4. ASSUME NEW name, Heard(name) PROVE WatchIsKept'
  BY <1>0, <1>4 DEF Heard, OnMessageStart, Delivered, Awaiting, WatchIsKept
<1>5. CASE SessionEnds
  BY <1>5 DEF SessionEnds, TimerShutdown, Unwatched, NoTimer, Awaiting, WatchIsKept
<1> QED
  BY <1>1, <1>2, <1>3, <1>4, <1>5, WatchSteps

-----------------------------------------------------------------------------
(* The types *)

(* The timer: what a step may do to it. *)
LEMMA TimerSteps ==
  ASSUME [Next]_vars
  PROVE  \/ UNCHANGED timerVars
         \/ \E name \in Names : Arm(name)
         \/ Cancel
         \/ \E thrown \in BOOLEAN : TimerExpires(thrown) \/ Settle(thrown)
         \/ \E name : Heard(name)
         \/ SessionEnds
BY DEF Next, Expires, Settles, CallExecutes, CallStarts, CallEnds, TimePasses, UserPrompts, RunStarts,
       WakeStartsRun, Poll, TurnEnds, RunContinues, RunFails, Esc, Dialog, vars

LEMMA TimerTypeStays ==
  ASSUME WakeTypeOK, [Next]_vars
  PROVE  TimerTypeOK'
<1>0. /\ active \in Timers \cup {NoTimer} /\ armed \in 0..MaxArms
      /\ wake \in [text: Names \cup {NoName}, delivered: BOOLEAN, resends: 0..MaxResends]
      /\ Unwatched \in [text: Names \cup {NoName}, delivered: BOOLEAN, resends: 0..MaxResends]
  BY TimerAssumption DEF WakeTypeOK, TimerTypeOK, Unwatched
<1>1. CASE UNCHANGED timerVars
  BY <1>0, <1>1 DEF timerVars, TimerTypeOK
<1>2. ASSUME NEW name \in Names, Arm(name) PROVE TimerTypeOK'
  BY <1>0, <1>2, TimerAssumption DEF Arm, TimerTypeOK, Timers
<1>3. CASE Cancel
  BY <1>0, <1>3 DEF Cancel, TimerTypeOK
<1>4. ASSUME NEW thrown \in BOOLEAN, TimerExpires(thrown) PROVE TimerTypeOK'
  <2>1. active.name \in Names
    BY <1>0, <1>4 DEF TimerExpires, Expire, Timers
  <2> QED
    BY <1>0, <1>4, <2>1, TimerAssumption DEF TimerExpires, Expire, TimerTypeOK
<1>5. ASSUME NEW thrown \in BOOLEAN, Settle(thrown) PROVE TimerTypeOK'
  BY <1>0, <1>5, TimerAssumption DEF Settle, OnSettled, MustResend, TimerTypeOK
<1>6. ASSUME NEW name, Heard(name) PROVE TimerTypeOK'
  BY <1>0, <1>6 DEF Heard, OnMessageStart, Delivered, TimerTypeOK
<1>7. CASE SessionEnds
  BY <1>0, <1>7 DEF SessionEnds, TimerShutdown, TimerTypeOK
<1> QED
  BY <1>1, <1>2, <1>3, <1>4, <1>5, <1>6, <1>7, TimerSteps

(* The reporter: what a step may do to it. *)
LEMMA WsSteps ==
  ASSUME [Next]_vars
  PROVE  \/ UNCHANGED wsVars
         \/ \E c \in Calls, action \in Actions : ToolExecutionStart(c, action)
         \/ CallEnds
         \/ DeadlinePasses \/ GracePasses \/ FallbackFires
         \/ AgentStart \/ AgentSettled \/ WsReset
         \/ \E open \in BOOLEAN : UiPrompt(open)
BY DEF Next, Expires, TimerExpires, Settles, Settle, CallExecutes, CallStarts, TimePasses, ParkDue,
       ParkOver, ParkEnds, UserPrompts, RunStarts, WakeStartsRun, Poll, TurnEnds, RunContinues, RunFails,
       Esc, Dialog, SessionEnds, vars

LEMMA ShownIsWritten ==
  ASSUME Report
  PROVE  shown' \in {"busy", "blocked", "waiting", "idle"}
BY DEF Report, DeriveState

LEMMA WsTypeStays ==
  ASSUME WakeTypeOK, [Next]_vars
  PROVE  WsTypeOK'
<1>0. /\ status \in [running: BOOLEAN, prompting: BOOLEAN] /\ park \in Parks
      /\ pending \in [Calls -> Actions \cup {"none"}]
      /\ shown \in {"busy", "blocked", "waiting", "idle"}
      /\ NoCalls \in [Calls -> Actions \cup {"none"}]
      /\ Quiet \in [running: BOOLEAN, prompting: BOOLEAN]
  BY DEF WakeTypeOK, WsTypeOK, NoCalls, Quiet
<1>1. CASE UNCHANGED wsVars
  BY <1>0, <1>1 DEF wsVars, WsTypeOK
<1>2. ASSUME NEW c \in Calls, NEW action \in Actions, ToolExecutionStart(c, action) PROVE WsTypeOK'
  BY <1>0, <1>2 DEF ToolExecutionStart, WsTypeOK
<1>3. CASE CallEnds
  <2>1. PICK c : ToolExecutionEnd(c)
    BY <1>3 DEF CallEnds
  <2>2. pending' \in [Calls -> Actions \cup {"none"}] /\ status' = status
    BY <1>0, <2>1 DEF ToolExecutionEnd
  <2>3. park' \in Parks
    BY <1>0, <2>1 DEF ToolExecutionEnd, ParkAfter, Parks
  <2>4. shown' \in {"busy", "blocked", "waiting", "idle"}
    BY <1>0, <2>1, ShownIsWritten DEF ToolExecutionEnd
  <2> QED
    BY <1>0, <2>2, <2>3, <2>4 DEF WsTypeOK
<1>4. CASE DeadlinePasses \/ GracePasses
  BY <1>0, <1>4 DEF DeadlinePasses, GracePasses, WsTypeOK, Parks
<1>5. CASE FallbackFires
  BY <1>0, <1>5, ShownIsWritten DEF FallbackFires, WsTypeOK, Parks
<1>6. CASE AgentStart
  BY <1>0, <1>6, ShownIsWritten DEF AgentStart, ConsumeIfDue, WsTypeOK, Parks
<1>7. CASE AgentSettled
  BY <1>0, <1>7, ShownIsWritten DEF AgentSettled, ConsumeIfDue, WsTypeOK, Parks
<1>8. CASE WsReset
  BY <1>0, <1>8, ShownIsWritten DEF WsReset, WsTypeOK, Parks
<1>9. ASSUME NEW open \in BOOLEAN, UiPrompt(open) PROVE WsTypeOK'
  BY <1>0, <1>9, ShownIsWritten DEF UiPrompt, WsTypeOK
<1> QED
  BY <1>1, <1>2, <1>3, <1>4, <1>5, <1>6, <1>7, <1>8, <1>9, WsSteps

(* The messages on their way: what a step may do to them. *)
LEMMA MessageSteps ==
  ASSUME [Next]_vars
  PROVE  \/ UNCHANGED <<queue, outbox>>
         \/ TimerExpires(FALSE)
         \/ Settle(FALSE) /\ MustResend
         \/ WakeStartsRun
         \/ queue # <<>> /\ queue' = Tail(queue) /\ UNCHANGED outbox
         \/ queue' = <<>> /\ (outbox' = <<>> \/ UNCHANGED outbox)
BY DEF Next, Expires, TimerExpires, Settles, Settle, CallExecutes, CallStarts, CallEnds, TimePasses,
       UserPrompts, Poll, TurnEnds, RunContinues, RunFails, Esc, Dialog, SessionEnds, vars

LEMMA MessagesStay ==
  ASSUME WakeTypeOK, [Next]_vars
  PROVE  queue' \in Seq(Names) /\ outbox' \in Seq(Names)
<1>0. /\ queue \in Seq(Names) /\ outbox \in Seq(Names)
      /\ active \in Timers \cup {NoTimer} /\ wake.text \in Names \cup {NoName}
  BY DEF WakeTypeOK, TimerTypeOK
<1>1. CASE UNCHANGED <<queue, outbox>>
  BY <1>0, <1>1
<1>2. CASE TimerExpires(FALSE)
  <2>1. active.name \in Names
    BY <1>0, <1>2 DEF TimerExpires, Expire, Timers
  <2>2. Append(outbox, active.name) \in Seq(Names) /\ Append(queue, active.name) \in Seq(Names)
    BY <1>0, <2>1, AppendProperties
  <2> QED
    BY <1>0, <1>2, <2>2 DEF TimerExpires, Send
<1>3. CASE Settle(FALSE) /\ MustResend
  BY <1>0, <1>3, AppendProperties DEF Settle, MustResend, Awaiting
<1>4. CASE WakeStartsRun
  <2>1. Head(outbox) \in Names /\ Tail(outbox) \in Seq(Names)
    BY <1>0, <1>4, HeadTailProperties DEF WakeStartsRun
  <2>2. outbox' = Tail(outbox) /\ (queue' = queue \/ queue' = Append(queue, Head(outbox)))
    BY <1>4 DEF WakeStartsRun
  <2>3. Append(queue, Head(outbox)) \in Seq(Names)
    BY <1>0, <2>1, AppendProperties
  <2> QED
    BY <1>0, <2>1, <2>2, <2>3
<1>5. CASE queue # <<>> /\ queue' = Tail(queue) /\ UNCHANGED outbox
  BY <1>0, <1>5, HeadTailProperties
<1>6. CASE queue' = <<>> /\ (outbox' = <<>> \/ UNCHANGED outbox)
  BY <1>0, <1>6, EmptySeq
<1> QED
  BY <1>1, <1>2, <1>3, <1>4, <1>5, <1>6, MessageSteps

(* The calls in flight: what a step may do to them. *)
LEMMA FlightSteps ==
  ASSUME [Next]_vars
  PROVE  \/ UNCHANGED inFlight
         \/ \E c \in Calls : CallExecutes(c)
         \/ CallEnds
         \/ inFlight' = <<>>
BY DEF Next, Expires, TimerExpires, Settles, Settle, CallStarts, TimePasses, UserPrompts, WakeStartsRun,
       Poll, TurnEnds, RunContinues, RunFails, Esc, Dialog, SessionEnds, vars

LEMMA FlightStays ==
  ASSUME WakeTypeOK, [Next]_vars
  PROVE  inFlight' \in Seq(Executed)
<1>0. inFlight \in Seq(Executed)
  BY DEF WakeTypeOK
<1>1. CASE UNCHANGED inFlight \/ inFlight' = <<>>
  BY <1>0, <1>1, EmptySeq
<1>2. ASSUME NEW c \in Calls, CallExecutes(c) PROVE inFlight' \in Seq(Executed)
  <2>1. active'.nth \in Ordinals \cup {0}
    BY TimerTypeStays DEF TimerTypeOK, Timers, NoTimer, Ordinals
  <2>2. [call |-> c, nth |-> active'.nth] \in Executed
    BY <2>1 DEF Executed
  <2> QED
    BY <1>0, <1>2, <2>2, AppendProperties DEF CallExecutes
<1>3. CASE CallEnds
  BY <1>0, <1>3, HeadTailProperties DEF CallEnds
<1> QED
  BY <1>1, <1>2, <1>3, FlightSteps

(* The loop and the histories. *)
LEMMA LoopTypeStays ==
  ASSUME WakeTypeOK, [Next]_vars
  PROVE  pc' \in Places /\ left' \in SUBSET Calls
<1>0. pc \in Places /\ left \in SUBSET Calls
  BY DEF WakeTypeOK
<1>1. \/ UNCHANGED loopVars
      \/ pc' \in Places /\ left' \in {left, {}, Calls}
      \/ \E c \in Calls : UNCHANGED pc /\ left' = left \ {c}
  BY DEF Next, Expires, TimerExpires, Settles, Settle, CallExecutes, CallStarts, CallEnds, TimePasses,
         UserPrompts, RunStarts, WakeStartsRun, Poll, TurnBegins, TurnEnds, RunContinues, RunFails, Esc,
         Dialog, SessionEnds, vars, loopVars, Places
<1> QED
  BY <1>0, <1>1 DEF loopVars

LEMMA ParkTypeStays ==
  ASSUME WakeTypeOK, [Next]_vars
  PROVE  parkOf' \in Ordinals \cup {0} /\ overdue' \in Ordinals \cup {0}
<1>0. /\ parkOf \in Ordinals \cup {0} /\ overdue \in Ordinals \cup {0} /\ inFlight \in Seq(Executed)
  BY DEF WakeTypeOK
<1>1. \/ UNCHANGED parkVars
      \/ CallEnds
      \/ parkOf' \in {parkOf, 0} /\ overdue' \in {overdue, parkOf, 0}
  BY DEF Next, Expires, TimerExpires, Settles, Settle, CallExecutes, CallStarts, TimePasses, ParkDue,
         ParkOver, ParkEnds, UserPrompts, WakeStartsRun, Poll, TurnEnds, RunContinues, RunFails, Esc,
         Dialog, SessionEnds, vars, parkVars
<1>2. CASE CallEnds
  <2>1. Head(inFlight) \in Executed
    BY <1>0, <1>2, HeadTailProperties DEF CallEnds
  <2>2. Head(inFlight).nth \in Ordinals \cup {0}
    BY <2>1 DEF Executed
  <2> QED
    BY <1>0, <1>2, <2>2 DEF CallEnds
<1> QED
  BY <1>0, <1>1, <1>2 DEF parkVars

LEMMA HeardTypeStays ==
  ASSUME WakeTypeOK, [Next]_vars
  PROVE  owed' \in SUBSET Names /\ expired' \in [name: Names \cup {NoName}, nth: 0..MaxArms]
<1>0. /\ owed \in SUBSET Names /\ expired \in [name: Names \cup {NoName}, nth: 0..MaxArms]
      /\ active \in Timers \cup {NoTimer}
  BY DEF WakeTypeOK, TimerTypeOK
<1>1. CASE UNCHANGED <<wake, owed, expired>>
  BY <1>0, <1>1
<1>2. ASSUME NEW thrown \in BOOLEAN, TimerExpires(thrown)
      PROVE  owed' \in SUBSET Names /\ expired' \in [name: Names \cup {NoName}, nth: 0..MaxArms]
  <2>1. active \in [name: Names, nth: 1..MaxArms]
    BY <1>0, <1>2 DEF TimerExpires, Expire, Timers
  <2> QED
    BY <1>0, <1>2, <2>1, TimerAssumption DEF TimerExpires
<1>3. ASSUME NEW thrown \in BOOLEAN, Settle(thrown)
      PROVE  owed' \in SUBSET Names /\ expired' = expired
  BY <1>0, <1>3 DEF Settle
<1>4. ASSUME NEW name, Heard(name)
      PROVE  owed' \in SUBSET Names /\ expired' = expired
  BY <1>0, <1>4 DEF Heard
<1>5. CASE SessionEnds
  BY <1>5, TimerAssumption DEF SessionEnds, NoTimer
<1> QED
  BY <1>0, <1>1, <1>2, <1>3, <1>4, <1>5, WatchSteps

-----------------------------------------------------------------------------
(* The wake-ups are paid for *)

LEMMA BudgetGrows ==
  ASSUME NEW m \in Nat, NEW n \in Nat
  PROVE  /\ Budget(m) \in Nat
         /\ Budget(m + 1) = Budget(m) + MaxResends + 1
         /\ m <= n => Budget(m) <= Budget(n)
<1>1. MaxResends + 1 \in Nat
  BY TimerAssumption
<1>2. \A k \in Nat : /\ m * k \in Nat /\ (m + 1) * k = m * k + k
                     /\ m <= n => m * k <= n * k
  OBVIOUS
<1>3. PICK k \in Nat : k = MaxResends + 1
  BY <1>1
<1> QED
  BY <1>2, <1>3, TimerAssumption DEF Budget

(* The parts of the balance: the messages under way, the re-sends still owed to the
   watch, and the expiries that have happened. *)
Underway == Len(queue) + Len(outbox)
ToResend == IF Awaiting THEN MaxResends - wake.resends ELSE 0
Expiries == IF active = NoTimer THEN armed ELSE armed - 1

LEMMA Balance ==
  ASSUME WakeTypeOK
  PROVE  /\ Underway \in Nat /\ ToResend \in Nat /\ Expiries \in Int /\ armed \in Nat
         /\ WakesArePaid <=> Underway + ToResend <= Budget(Expiries)
         /\ Underway = Len(queue) + Len(outbox) /\ Len(queue) \in Nat /\ Len(outbox) \in Nat
<1>1. Len(queue) \in Nat /\ Len(outbox) \in Nat
  BY LenProperties DEF WakeTypeOK
<1>2. wake.resends \in 0..MaxResends /\ armed \in 0..MaxArms
  BY DEF WakeTypeOK, TimerTypeOK
<1> QED
  BY <1>1, <1>2, TimerAssumption DEF Underway, ToResend, Expiries, WakesArePaid

LEMMA ExpiriesAreCounted ==
  ASSUME WakeTypeOK, WakesArePaid
  PROVE  Expiries \in Nat /\ Expiries <= armed
<1>1. Expiries \in {armed, armed - 1} /\ armed \in Nat
  BY Balance DEF Expiries
<1>2. CASE Expiries = 0 - 1
  <2>1. Budget(0 - 1) < 0
    <3>1. \A k \in Nat : (0 - 1) * (k + 1) < 0
      OBVIOUS
    <3> QED
      BY <3>1, TimerAssumption DEF Budget
  <2> QED
    BY <1>2, <2>1, Balance, TimerAssumption DEF Budget
<1> QED
  BY <1>1, <1>2

(* The messages under way: one more by an expiry or a re-send, else no more. *)
LEMMA UnderwaySteps ==
  ASSUME WakeTypeOK, [Next]_vars
  PROVE  /\ Underway' <= Underway + 1
         /\ \/ Underway' <= Underway
            \/ TimerExpires(FALSE) \/ (Settle(FALSE) /\ MustResend)
<1>0. /\ queue \in Seq(Names) /\ outbox \in Seq(Names) /\ wake.text \in Names \cup {NoName}
      /\ Len(queue) \in Nat /\ Len(outbox) \in Nat /\ Underway = Len(queue) + Len(outbox)
      /\ active \in Timers \cup {NoTimer}
  BY Balance DEF WakeTypeOK, TimerTypeOK
<1>a. Underway' = Len(queue') + Len(outbox') /\ Len(queue') \in Nat /\ Len(outbox') \in Nat
  BY MessagesStay, LenProperties DEF Underway
<1>1. ASSUME UNCHANGED <<queue, outbox>> PROVE Underway' <= Underway
  BY <1>0, <1>a, <1>1
<1>2. ASSUME TimerExpires(FALSE) PROVE Underway' <= Underway + 1
  <2>1. active.name \in Names
    BY <1>0, <1>2 DEF TimerExpires, Expire, Timers
  <2>2. /\ Len(Append(outbox, active.name)) = Len(outbox) + 1
        /\ Len(Append(queue, active.name)) = Len(queue) + 1
    BY <1>0, <2>1, AppendProperties
  <2>3. \/ outbox' = Append(outbox, active.name) /\ queue' = queue
        \/ queue' = Append(queue, active.name) /\ outbox' = outbox
    BY <1>2 DEF TimerExpires, Send
  <2>4. Len(queue') + Len(outbox') = Len(queue) + Len(outbox) + 1
    BY <1>0, <2>2, <2>3
  <2> QED
    BY <1>0, <1>a, <2>4
<1>3. ASSUME Settle(FALSE) /\ MustResend PROVE Underway' <= Underway + 1
  <2>1. wake.text \in Names
    BY <1>0, <1>3 DEF MustResend, Awaiting
  <2>2. Len(Append(outbox, wake.text)) = Len(outbox) + 1
    BY <1>0, <2>1, AppendProperties
  <2>3. outbox' = Append(outbox, wake.text) /\ queue' = queue
    BY <1>3 DEF Settle
  <2> QED
    BY <1>0, <1>a, <2>2, <2>3
<1>4. ASSUME WakeStartsRun PROVE Underway' <= Underway
  <2>1. Head(outbox) \in Names /\ Len(Tail(outbox)) = Len(outbox) - 1
    BY <1>0, <1>4, HeadTailProperties DEF WakeStartsRun
  <2>2. Len(Append(queue, Head(outbox))) = Len(queue) + 1
    BY <1>0, <2>1, AppendProperties
  <2>3. outbox' = Tail(outbox) /\ queue' \in {queue, Append(queue, Head(outbox))}
    BY <1>4 DEF WakeStartsRun
  <2> QED
    BY <1>0, <1>a, <2>1, <2>2, <2>3
<1>5. ASSUME queue # <<>> /\ queue' = Tail(queue) /\ UNCHANGED outbox PROVE Underway' <= Underway
  <2>1. Len(Tail(queue)) = Len(queue) - 1
    BY <1>0, <1>5, HeadTailProperties
  <2> QED
    BY <1>0, <1>a, <1>5, <2>1
<1>6. ASSUME queue' = <<>> /\ (outbox' = <<>> \/ UNCHANGED outbox) PROVE Underway' <= Underway
  <2>1. Len(queue') = 0 /\ Len(outbox') \in {0, Len(outbox)}
    BY <1>6, EmptySeq
  <2> QED
    BY <1>0, <1>a, <2>1
<1>7. \/ Underway' <= Underway
      \/ Underway' <= Underway + 1 /\ (TimerExpires(FALSE) \/ (Settle(FALSE) /\ MustResend))
  BY <1>1, <1>2, <1>3, <1>4, <1>5, <1>6, MessageSteps, Zenon
<1>8. Underway \in Nat /\ Underway' \in Nat
  BY <1>0, <1>a
<1>9. Underway' <= Underway => Underway' <= Underway + 1
  BY <1>8
<1> QED
  BY <1>7, <1>9, Zenon

(* What the watch may still send, and the expiries that pay for it. *)
LEMMA ExpiriesGrow ==
  ASSUME WakeTypeOK, WakesArePaid, [Next]_vars
  PROVE  /\ Expiries' \in Nat /\ Expiries' >= Expiries
         /\ TimerExpires(FALSE) => Expiries' = Expiries + 1
<1>0. /\ active \in Timers \cup {NoTimer} /\ armed \in Nat /\ Expiries <= armed /\ Expiries \in Nat
      /\ Expiries = IF active = NoTimer THEN armed ELSE armed - 1
  BY Balance, ExpiriesAreCounted DEF WakeTypeOK, TimerTypeOK, Expiries
<1>a. Expiries' = IF active' = NoTimer THEN armed' ELSE armed' - 1
  BY DEF Expiries
<1>b. TimerExpires(FALSE) => Expiries' = Expiries + 1
  <2>1. TimerExpires(FALSE) => active # NoTimer /\ active' = NoTimer /\ armed' = armed
    BY DEF TimerExpires, Expire
  <2> QED
    BY <1>0, <1>a, <2>1
<1>1. ASSUME UNCHANGED timerVars PROVE Expiries' = Expiries
  BY <1>0, <1>a, <1>1 DEF timerVars
<1>2. ASSUME NEW name \in Names, Arm(name) PROVE Expiries' = armed
  <2>1. active' # NoTimer /\ armed' = armed + 1
    BY <1>0, <1>2 DEF Arm, NoTimer
  <2> QED
    BY <1>0, <1>a, <2>1
<1>3. ASSUME Cancel PROVE Expiries' = armed
  BY <1>a, <1>3 DEF Cancel
<1>4. ASSUME NEW thrown \in BOOLEAN, TimerExpires(thrown) PROVE Expiries' = armed
  BY <1>a, <1>4 DEF TimerExpires, Expire
<1>5. ASSUME NEW thrown \in BOOLEAN, Settle(thrown) PROVE Expiries' = Expiries
  BY <1>0, <1>a, <1>5 DEF Settle, OnSettled
<1>6. ASSUME NEW name, Heard(name) PROVE Expiries' = Expiries
  BY <1>0, <1>a, <1>6 DEF Heard, OnMessageStart
<1>7. ASSUME SessionEnds PROVE Expiries' = armed
  BY <1>a, <1>7 DEF SessionEnds, TimerShutdown
<1>8. Expiries' \in {Expiries, armed}
  BY <1>1, <1>2, <1>3, <1>4, <1>5, <1>6, <1>7, TimerSteps
<1>9. Expiries' \in Nat /\ Expiries' >= Expiries
  BY <1>0, <1>8
<1> QED
  BY <1>b, <1>9, Zenon

LEMMA ToResendSteps ==
  ASSUME WakeTypeOK, [Next]_vars
  PROVE  /\ ToResend' \in Nat
         /\ TimerExpires(FALSE) => ToResend' <= MaxResends
         /\ Settle(FALSE) /\ MustResend => ToResend' = ToResend - 1
         /\ ToResend' <= ToResend \/ TimerExpires(FALSE)
<1>0. /\ wake \in [text: Names \cup {NoName}, delivered: BOOLEAN, resends: 0..MaxResends]
      /\ ToResend \in Nat /\ MaxResends \in Nat
      /\ ToResend = IF Awaiting THEN MaxResends - wake.resends ELSE 0
  BY Balance, TimerAssumption DEF WakeTypeOK, TimerTypeOK, ToResend
<1>a. /\ ToResend' = IF Awaiting' THEN MaxResends - wake'.resends ELSE 0
      /\ wake' \in [text: Names \cup {NoName}, delivered: BOOLEAN, resends: 0..MaxResends]
  BY TimerTypeStays DEF TimerTypeOK, ToResend
<1>b. ToResend' \in Nat /\ ToResend' <= MaxResends
  BY <1>0, <1>a
<1>c. ASSUME wake' = Unwatched PROVE ToResend' = 0
  BY <1>a, <1>c DEF Awaiting, Unwatched
<1>d. ASSUME wake'.text = wake.text, wake'.resends = wake.resends PROVE ToResend' = ToResend
  BY <1>0, <1>a, <1>d DEF Awaiting
<1>e. ASSUME Settle(FALSE), MustResend PROVE ToResend' = ToResend - 1
  <2>1. Awaiting /\ wake' = [wake EXCEPT !.resends = @ + 1]
    BY <1>e DEF Settle, OnSettled, MustResend
  <2>2. Awaiting' /\ wake'.resends = wake.resends + 1
    BY <1>0, <2>1 DEF Awaiting
  <2> QED
    BY <1>0, <1>a, <2>1, <2>2
<1>1. ASSUME UNCHANGED wake PROVE ToResend' = ToResend
  BY <1>d, <1>1
<1>2. ASSUME NEW thrown \in BOOLEAN, Settle(thrown), ~(~thrown /\ MustResend) PROVE ToResend' = 0
  BY <1>c, <1>2 DEF Settle, OnSettled
<1>3. ASSUME NEW name, Heard(name) PROVE ToResend' = ToResend
  BY <1>0, <1>d, <1>3 DEF Heard, OnMessageStart, Delivered
<1>4. ASSUME SessionEnds PROVE ToResend' = 0
  BY <1>c, <1>4 DEF SessionEnds, TimerShutdown
<1>5. ASSUME TimerExpires(TRUE) PROVE ToResend' = 0
  BY <1>c, <1>5 DEF TimerExpires, Expire
<1>6. \/ ToResend' = ToResend \/ ToResend' = 0 \/ TimerExpires(FALSE) \/ (Settle(FALSE) /\ MustResend)
  <2>1. UNCHANGED wake \/ \E thrown \in BOOLEAN : TimerExpires(thrown) \/ Settle(thrown)
          \/ (\E name : Heard(name)) \/ SessionEnds
    BY WatchSteps
  <2>2. ASSUME NEW thrown \in BOOLEAN, TimerExpires(thrown)
        PROVE  ToResend' = 0 \/ TimerExpires(FALSE)
    BY <1>5, <2>2
  <2>3. ASSUME NEW thrown \in BOOLEAN, Settle(thrown)
        PROVE  ToResend' = 0 \/ (Settle(FALSE) /\ MustResend)
    BY <1>2, <2>3
  <2> QED
    BY <1>1, <1>3, <1>4, <2>1, <2>2, <2>3
<1> QED
  <2>1. ToResend' <= ToResend \/ TimerExpires(FALSE)
    <3>1. ToResend' = ToResend \/ ToResend' = 0 \/ ToResend' = ToResend - 1 => ToResend' <= ToResend
      BY <1>0, <1>b
    <3> QED
      BY <1>e, <1>6, <3>1, Zenon
  <2> QED
    BY <1>b, <1>e, <2>1, Zenon

LEMMA BudgetStays ==
  ASSUME WakeTypeOK, WakesArePaid, [Next]_vars
  PROVE  /\ WakesArePaid'
         /\ Len(queue') + Len(outbox') <= MaxWakes
<1>0. /\ Underway \in Nat /\ ToResend \in Nat /\ Expiries \in Nat /\ MaxResends \in Nat
      /\ Underway + ToResend <= Budget(Expiries) /\ Budget(Expiries) \in Nat
      /\ ToResend' \in Nat /\ Expiries' \in Nat /\ Budget(Expiries') \in Nat
  BY Balance, ExpiriesAreCounted, ToResendSteps, ExpiriesGrow, BudgetGrows, TimerAssumption
<1>1. Underway' \in Nat /\ Underway' = Len(queue') + Len(outbox')
  BY MessagesStay, LenProperties DEF Underway
<1>2. Budget(Expiries) <= Budget(Expiries')
  BY <1>0, ExpiriesGrow, BudgetGrows
<1>3. Underway' + ToResend' <= Budget(Expiries')
  <2>1. CASE TimerExpires(FALSE)
    <3>1. Budget(Expiries') = Budget(Expiries) + MaxResends + 1
      BY <1>0, <2>1, ExpiriesGrow, BudgetGrows
    <3>2. Underway' <= Underway + 1 /\ ToResend' <= MaxResends
      BY <2>1, UnderwaySteps, ToResendSteps
    <3> QED
      BY <1>0, <1>1, <3>1, <3>2
  <2>2. CASE Settle(FALSE) /\ MustResend
    <3>1. Underway' <= Underway + 1 /\ ToResend' = ToResend - 1
      BY <2>2, UnderwaySteps, ToResendSteps
    <3> QED
      BY <1>0, <1>1, <1>2, <3>1
  <2>3. CASE ~TimerExpires(FALSE) /\ ~(Settle(FALSE) /\ MustResend)
    <3>1. Underway' <= Underway /\ ToResend' <= ToResend
      BY <2>3, UnderwaySteps, ToResendSteps, Zenon
    <3> QED
      BY <1>0, <1>1, <1>2, <3>1
  <2> QED
    BY <2>1, <2>2, <2>3
<1>4. WakesArePaid'
  BY <1>1, <1>3 DEF WakesArePaid, ToResend, Expiries
<1>5. Budget(Expiries') <= Budget(MaxArms)
  <2>1. armed' \in 0..MaxArms /\ (Expiries' = armed' \/ Expiries' = armed' - 1)
    BY TimerTypeStays DEF TimerTypeOK, Expiries
  <2>2. PICK n \in 0..MaxArms : n = armed'
    BY <2>1
  <2>3. Expiries' <= MaxArms
    BY <2>1, <2>2, TimerAssumption
  <2> QED
    BY <1>0, <2>3, BudgetGrows, TimerAssumption
<1>6. Budget(MaxArms) = MaxWakes /\ Budget(MaxArms) \in Nat
  BY BudgetGrows, TimerAssumption DEF Budget, MaxWakes
<1> QED
  BY <1>0, <1>1, <1>3, <1>4, <1>5, <1>6

LEMMA TypeStays ==
  ASSUME WakeTypeOK, WakesArePaid, [Next]_vars
  PROVE  WakeTypeOK'
<1>1. TimerTypeOK' /\ WsTypeOK'
  BY TimerTypeStays, WsTypeStays
<1>2. pc' \in Places /\ left' \in SUBSET Calls
  BY LoopTypeStays
<1>3. /\ Len(queue') + Len(outbox') <= MaxWakes
      /\ queue' \in Seq(Names) /\ outbox' \in Seq(Names) /\ inFlight' \in Seq(Executed)
  BY BudgetStays, MessagesStay, FlightStays
<1>4. parkOf' \in Ordinals \cup {0} /\ overdue' \in Ordinals \cup {0}
  BY ParkTypeStays
<1>5. owed' \in SUBSET Names /\ expired' \in [name: Names \cup {NoName}, nth: 0..MaxArms]
  BY HeardTypeStays
<1> QED
  BY <1>1, <1>2, <1>3, <1>4, <1>5 DEF WakeTypeOK

-----------------------------------------------------------------------------
(* The loop *)

(* A sequence of calls, one appended or the first taken off. *)
LEMMA Appended ==
  ASSUME NEW s \in Seq(Executed), NEW e \in Executed
  PROVE  /\ DOMAIN s = 1..Len(s) /\ Len(s) \in Nat
         /\ DOMAIN Append(s, e) = 1..(Len(s) + 1)
         /\ Append(s, e)[Len(s) + 1] = e
         /\ \A i \in 1..Len(s) : Append(s, e)[i] = s[i]
<1>1. Append(s, e) \in Seq(Executed) /\ Len(Append(s, e)) = Len(s) + 1
  BY AppendProperties
<1>2. DOMAIN s = 1..Len(s) /\ Len(s) \in Nat /\ DOMAIN Append(s, e) = 1..Len(Append(s, e))
  BY <1>1, LenProperties
<1> QED
  BY <1>1, <1>2, AppendProperties

LEMMA Shortened ==
  ASSUME NEW s \in Seq(Executed), s # <<>>
  PROVE  /\ Head(s) = s[1] /\ 1 \in DOMAIN s /\ Len(s) \in Nat \ {0}
         /\ \A i \in DOMAIN Tail(s) : i + 1 \in DOMAIN s /\ i + 1 # 1 /\ Tail(s)[i] = s[i + 1]
         /\ \A i \in Nat : i + 1 \in DOMAIN s /\ i # 0 => i \in DOMAIN Tail(s)
<1>1. DOMAIN s = 1..Len(s) /\ Len(s) \in Nat
  BY LenProperties
<1>2. Len(s) # 0
  BY EmptySeq, <1>1
<1>3. Tail(s) \in Seq(Executed) /\ Len(Tail(s)) = Len(s) - 1
      /\ \A i \in 1..Len(Tail(s)) : Tail(s)[i] = s[i + 1]
  BY HeadTailProperties
<1>4. DOMAIN Tail(s) = 1..(Len(s) - 1)
  BY <1>3, LenProperties
<1>5. Head(s) = s[1]
  OBVIOUS
<1> QED
  BY <1>1, <1>2, <1>3, <1>4, <1>5

(* The loop and the calls: what a step may do to them. *)
LEMMA LoopSteps ==
  ASSUME WakeTypeOK, LoopIsReported, [Next]_vars
  PROVE  \/ UNCHANGED <<pc, left, pending, inFlight>> /\ status'.running = status.running
         \/ \E thrown \in BOOLEAN : Settle(thrown)
         \/ \E c \in Calls : CallExecutes(c)
         \/ \E c \in Calls, action \in Actions : CallStarts(c, action)
         \/ CallEnds
         \/ pc = "idle" /\ AgentStart /\ pc' = "poll" /\ UNCHANGED <<left, inFlight>>
         \/ Poll \/ TurnEnds
         \/ /\ pc' = "drained" /\ pc \in {"poll", "turn", "last"} /\ inFlight = <<>>
            /\ UNCHANGED <<status, pending, inFlight>>
         \/ SessionEnds
<1>0. status \in [running: BOOLEAN, prompting: BOOLEAN]
  BY DEF WakeTypeOK, WsTypeOK
<1>1. ASSUME Expires \/ TimePasses \/ UNCHANGED vars
      PROVE  UNCHANGED <<pc, left, pending, inFlight, status>>
  BY <1>1 DEF Expires, TimerExpires, TimePasses, ParkDue, ParkOver, ParkEnds, DeadlinePasses,
              GracePasses, FallbackFires, vars, wsVars, loopVars
<1>2. ASSUME NEW open \in BOOLEAN, Dialog(open)
      PROVE  UNCHANGED <<pc, left, pending, inFlight>> /\ status'.running = status.running
  BY <1>0, <1>2 DEF Dialog, UiPrompt, loopVars
<1>3. ASSUME UserPrompts
      PROVE  pc = "idle" /\ AgentStart /\ pc' = "poll" /\ UNCHANGED <<left, inFlight>>
  BY <1>3 DEF UserPrompts, RunStarts
<1>4. ASSUME WakeStartsRun
      PROVE  \/ UNCHANGED <<pc, left, pending, inFlight, status>>
             \/ pc = "idle" /\ AgentStart /\ pc' = "poll" /\ UNCHANGED <<left, inFlight>>
  BY <1>4 DEF WakeStartsRun, RunStarts, wsVars, loopVars
<1>5. ASSUME RunFails \/ Esc
      PROVE  /\ pc' = "drained" /\ pc \in {"poll", "turn", "last"} /\ inFlight = <<>>
             /\ UNCHANGED <<status, pending, inFlight>>
  BY <1>5 DEF RunFails, Esc, wsVars
<1>6. ASSUME RunContinues
      PROVE  UNCHANGED <<pc, left, pending, inFlight>> /\ status'.running = status.running
  <2>1. status.running
    BY <1>6 DEF RunContinues, LoopIsReported
  <2> QED
    BY <1>0, <1>6, <2>1 DEF RunContinues, AgentStart, loopVars
<1> QED
  BY <1>1, <1>2, <1>3, <1>4, <1>5, <1>6 DEF Next, Settles


LEMMA LoopStays ==
  ASSUME WakeTypeOK, LoopIsReported, [Next]_vars
  PROVE  LoopIsReported'
<1>0. /\ status \in [running: BOOLEAN, prompting: BOOLEAN] /\ inFlight \in Seq(Executed)
      /\ pending \in [Calls -> Actions \cup {"none"}] /\ left \subseteq Calls
      /\ DOMAIN inFlight = 1..Len(inFlight)
      /\ \A i \in DOMAIN inFlight : inFlight[i].call \in Calls
      /\ "none" \notin Actions /\ \A c \in Calls : NoCalls[c] = "none"
  <2>1. inFlight \in Seq(Executed)
    BY DEF WakeTypeOK
  <2>2. inFlight \in [1..Len(inFlight) -> Executed]
    BY <2>1, LenProperties
  <2>3. \A i \in DOMAIN inFlight : inFlight[i].call \in Calls
    BY <2>2 DEF Executed
  <2> QED
    BY <2>1, <2>2, <2>3 DEF WakeTypeOK, WsTypeOK, Actions, NoCalls
<1>l. /\ pc # "idle" <=> status.running
      /\ inFlight # <<>> => pc = "turn"
      /\ pc \in {"poll", "last"} => pending = NoCalls
      /\ pc = "turn" => \A c \in left : pending[c] = "none"
      /\ \A i \in DOMAIN inFlight : pending[inFlight[i].call] # "none"
      /\ \A i, j \in DOMAIN inFlight : inFlight[i].call = inFlight[j].call => i = j
  BY DEF LoopIsReported
<1>e. DOMAIN <<>> = {}
  OBVIOUS
<1>1. CASE UNCHANGED <<pc, left, pending, inFlight>> /\ status'.running = status.running
  BY <1>l, <1>1 DEF LoopIsReported
<1>2. ASSUME NEW thrown \in BOOLEAN, Settle(thrown) PROVE LoopIsReported'
  <2>1. /\ pc = "drained" /\ pc' = "idle" /\ ~status'.running
        /\ UNCHANGED <<left, inFlight, pending>>
    BY <1>0, <1>2 DEF Settle, AgentSettled
  <2> QED
    BY <1>l, <2>1 DEF LoopIsReported
<1>3. ASSUME NEW c \in Calls, CallExecutes(c) PROVE LoopIsReported'
  <2> DEFINE e == [call |-> c, nth |-> active'.nth]
  <2>1. /\ pc = "turn" /\ pending[c] # "none" /\ UNCHANGED <<status, pending, pc, left>>
        /\ \A i \in DOMAIN inFlight : inFlight[i].call # c
        /\ inFlight' = Append(inFlight, e)
    BY <1>3 DEF CallExecutes, wsVars, loopVars
  <2>2. e \in Executed
    <3>1. active'.nth \in Ordinals \cup {0}
      BY TimerTypeStays DEF TimerTypeOK, Timers, NoTimer, Ordinals
    <3> QED
      BY <3>1 DEF Executed
  <2>3. /\ DOMAIN inFlight' = 1..(Len(inFlight) + 1) /\ inFlight'[Len(inFlight) + 1] = e
        /\ \A i \in DOMAIN inFlight : inFlight'[i] = inFlight[i]
        /\ Len(inFlight) \in Nat
    BY <1>0, <2>1, <2>2, Appended
  <2>4. \A i \in DOMAIN inFlight' : i \in DOMAIN inFlight \/ i = Len(inFlight) + 1
    BY <1>0, <2>3
  <2>5. \A i \in DOMAIN inFlight' : pending'[inFlight'[i].call] # "none"
    BY <1>l, <2>1, <2>3, <2>4
  <2>6. \A i, j \in DOMAIN inFlight' : inFlight'[i].call = inFlight'[j].call => i = j
    BY <1>l, <2>1, <2>3, <2>4
  <2> QED
    BY <1>l, <2>1, <2>5, <2>6 DEF LoopIsReported
<1>4. ASSUME NEW c \in Calls, NEW action \in Actions, CallStarts(c, action) PROVE LoopIsReported'
  <2>1. /\ pc = "turn" /\ UNCHANGED <<status, pc, inFlight>> /\ left' = left \ {c}
        /\ pending' = [pending EXCEPT ![c] = action]
    BY <1>4 DEF CallStarts, ToolExecutionStart
  <2>2. \A d \in Calls : pending'[d] = IF d = c THEN action ELSE pending[d]
    BY <1>0, <2>1
  <2> QED
    BY <1>0, <1>l, <2>1, <2>2 DEF LoopIsReported
<1>5. CASE CallEnds
  <2> DEFINE c == Head(inFlight).call
  <2>1. /\ UNCHANGED <<status, pc, left>> /\ inFlight # <<>> /\ inFlight' = Tail(inFlight)
        /\ pending' = [pending EXCEPT ![c] = "none"]
    BY <1>5 DEF CallEnds, ToolExecutionEnd, loopVars
  <2>2. /\ c = inFlight[1].call /\ 1 \in DOMAIN inFlight
        /\ \A i \in DOMAIN inFlight' :
             i + 1 \in DOMAIN inFlight /\ i + 1 # 1 /\ inFlight'[i] = inFlight[i + 1]
    BY <1>0, <2>1, Shortened
  <2>3. \A d \in Calls : pending'[d] = IF d = c THEN "none" ELSE pending[d]
    BY <1>0, <2>1
  <2>4. \A i \in DOMAIN inFlight' : inFlight'[i].call # c /\ inFlight'[i].call \in Calls
    BY <1>0, <1>l, <2>2
  <2>5. \A i \in DOMAIN inFlight' : pending'[inFlight'[i].call] # "none"
    BY <1>l, <2>2, <2>3, <2>4
  <2>6. \A i, j \in DOMAIN inFlight' : inFlight'[i].call = inFlight'[j].call => i = j
    <3>1. \A i \in DOMAIN inFlight' : i \in Int
      BY <1>5, FlightStays, LenProperties
    <3>2. ASSUME NEW i \in DOMAIN inFlight', NEW j \in DOMAIN inFlight',
                 inFlight'[i].call = inFlight'[j].call
          PROVE  i = j
      <4>1. i + 1 = j + 1
        BY <1>l, <2>2, <3>2
      <4> QED
        BY <3>1, <4>1
    <3> QED
      BY <3>2
  <2>7. pc = "turn"
    BY <1>l, <2>1
  <2> QED
    BY <1>0, <1>l, <2>1, <2>3, <2>5, <2>6, <2>7 DEF LoopIsReported
<1>6. CASE pc = "idle" /\ AgentStart /\ pc' = "poll" /\ UNCHANGED <<left, inFlight>>
  <2>1. inFlight' = <<>> /\ pending' = NoCalls /\ status'.running
    BY <1>0, <1>l, <1>6 DEF AgentStart
  <2> QED
    BY <1>e, <1>6, <2>1 DEF LoopIsReported
<1>7. CASE Poll
  <2>1. /\ pc \in {"poll", "last"} /\ pc' \in {"turn", "drained"} /\ (pc' = "turn" => left' = Calls)
        /\ UNCHANGED <<status, pending, inFlight>>
    BY <1>7 DEF Poll, TurnBegins, wsVars
  <2> QED
    BY <1>0, <1>l, <1>e, <2>1 DEF LoopIsReported
<1>8. CASE TurnEnds
  <2>1. /\ pc = "turn" /\ inFlight = <<>> /\ pending = NoCalls /\ pc' \in {"poll", "last"}
        /\ UNCHANGED <<status, pending, inFlight>>
    BY <1>8 DEF TurnEnds, wsVars
  <2> QED
    BY <1>l, <1>e, <2>1 DEF LoopIsReported
<1>9. CASE /\ pc' = "drained" /\ pc \in {"poll", "turn", "last"} /\ inFlight = <<>>
           /\ UNCHANGED <<status, pending, inFlight>>
  BY <1>l, <1>e, <1>9 DEF LoopIsReported
<1>10. CASE SessionEnds
  <2>1. pc' = "idle" /\ inFlight' = <<>> /\ ~status'.running
    BY <1>10 DEF SessionEnds, WsReset, Quiet
  <2> QED
    BY <1>e, <2>1 DEF LoopIsReported
<1> QED
  BY <1>1, <1>2, <1>3, <1>4, <1>5, <1>6, <1>7, <1>8, <1>9, <1>10, LoopSteps

-----------------------------------------------------------------------------
(* The pane *)

LEMMA PaneStays ==
  ASSUME WakeTypeOK, PaneIsCurrent, [Next]_vars
  PROVE  PaneIsCurrent'
<1>0. status \in [running: BOOLEAN, prompting: BOOLEAN] /\ park \in Parks
  BY DEF WakeTypeOK, WsTypeOK
<1>r. ASSUME Report PROVE PaneIsCurrent'
  BY <1>r DEF Report, PaneIsCurrent, DeriveState
<1>u. ASSUME UNCHANGED <<shown, status, park>> PROVE PaneIsCurrent'
  BY <1>u DEF PaneIsCurrent, DeriveState
<1>1. CASE UNCHANGED wsVars
  BY <1>u, <1>1 DEF wsVars
<1>2. ASSUME NEW c \in Calls, NEW action \in Actions, ToolExecutionStart(c, action)
      PROVE  PaneIsCurrent'
  BY <1>u, <1>2 DEF ToolExecutionStart
<1>3. CASE CallEnds
  <2>1. PICK c : ToolExecutionEnd(c)
    BY <1>3 DEF CallEnds
  <2>2. CASE pending[c] \in {"set", "cancel"}
    BY <1>r, <2>1, <2>2 DEF ToolExecutionEnd
  <2>3. CASE pending[c] \notin {"set", "cancel"}
    BY <1>u, <2>1, <2>3 DEF ToolExecutionEnd, ParkAfter
  <2> QED
    BY <2>2, <2>3
<1>4. CASE DeadlinePasses
  BY <1>4 DEF DeadlinePasses, PaneIsCurrent, DeriveState
<1>5. CASE GracePasses
  <2>1. park = "due" /\ park' = "over" /\ UNCHANGED <<status, shown>>
    BY <1>5 DEF GracePasses
  <2>2. shown = DeriveState(status, "due")
    BY <2>1 DEF PaneIsCurrent
  <2>3. CASE status.prompting \/ status.running
    BY <2>1, <2>2, <2>3 DEF PaneIsCurrent, DeriveState
  <2>4. CASE ~status.prompting /\ ~status.running
    <3>1. status = Quiet
      BY <1>0, <2>4 DEF Quiet
    <3>2. shown = "waiting"
      BY <2>2, <2>4 DEF DeriveState
    <3> QED
      BY <2>1, <3>1, <3>2 DEF PaneIsCurrent
  <2> QED
    BY <2>3, <2>4
<1>6. CASE FallbackFires
  BY <1>r, <1>6 DEF FallbackFires
<1>7. CASE AgentStart
  BY <1>r, <1>7 DEF AgentStart
<1>8. CASE AgentSettled
  BY <1>r, <1>8 DEF AgentSettled
<1>9. CASE WsReset
  BY <1>r, <1>9 DEF WsReset
<1>10. ASSUME NEW open \in BOOLEAN, UiPrompt(open) PROVE PaneIsCurrent'
  BY <1>r, <1>10 DEF UiPrompt
<1> QED
  BY <1>1, <1>2, <1>3, <1>4, <1>5, <1>6, <1>7, <1>8, <1>9, <1>10, WsSteps

-----------------------------------------------------------------------------
(* The armed timer and the park *)

(* What a step may do to the timer, the calls in flight and the park. *)
LEMMA TrackSteps ==
  ASSUME [Next]_vars
  PROVE  \/ UNCHANGED <<inFlight, pending, active, expired, parkOf, park, overdue>>
         \/ \E thrown \in BOOLEAN : TimerExpires(thrown)
         \/ \E c \in Calls, action \in Actions : CallStarts(c, action)
         \/ \E c \in Calls : CallExecutes(c)
         \/ CallEnds \/ TimePasses
         \/ AgentStart /\ UNCHANGED <<inFlight, active, expired, parkOf, overdue>>
         \/ AgentSettled /\ UNCHANGED <<inFlight, active, expired, parkOf, overdue>>
         \/ SessionEnds
BY DEF Next, Expires, Settles, Settle, OnSettled, UserPrompts, RunStarts, Heard, OnMessageStart,
       WakeStartsRun, Poll, TurnEnds, RunContinues, RunFails, Esc, Dialog, UiPrompt, vars, timerVars,
       wsVars, heard, parkVars

LEMMA TrackStays ==
  ASSUME WakeTypeOK, LoopIsReported, TimerIsTracked, [Next]_vars
  PROVE  TimerIsTracked'
<1>0. /\ active \in Timers \cup {NoTimer} /\ inFlight \in Seq(Executed) /\ park \in Parks
      /\ pending \in [Calls -> Actions \cup {"none"}] /\ armed \in Nat
      /\ expired \in [name: Names \cup {NoName}, nth: 0..MaxArms]
      /\ active # NoTimer => active.nth # 0
  BY TimerAssumption DEF WakeTypeOK, WsTypeOK, TimerTypeOK, Timers
<1>c. /\ DOMAIN inFlight = 1..Len(inFlight) /\ Len(inFlight) \in Nat
      /\ \A i \in DOMAIN inFlight : inFlight[i].call \in Calls
  <2>1. inFlight \in [1..Len(inFlight) -> Executed] /\ Len(inFlight) \in Nat
    BY <1>0, LenProperties
  <2>2. \A i \in DOMAIN inFlight : inFlight[i].call \in Calls
    BY <2>1 DEF Executed
  <2> QED
    BY <2>1, <2>2
<1>t. \A i \in DOMAIN inFlight : LastEffect(i) =>
        /\ pending[inFlight[i].call] = "set" =>
             Recent(inFlight[i].nth) /\ inFlight[i].nth \in {active.nth, expired.nth}
        /\ pending[inFlight[i].call] = "cancel" => active.nth = 0
  BY DEF TimerIsTracked
<1>z. LastEffect(0) => /\ Recent(parkOf)
                       /\ active.nth # 0 => park = "before" \/ overdue = active.nth
                       /\ park = "before" => parkOf \in {active.nth, expired.nth}
  BY DEF TimerIsTracked
<1>1. CASE UNCHANGED <<inFlight, pending, active, expired, parkOf, park, overdue>>
  BY <1>1 DEF TimerIsTracked, LastEffect, Recent
<1>2. ASSUME NEW thrown \in BOOLEAN, TimerExpires(thrown) PROVE TimerIsTracked'
  <2>1. /\ active'.nth = 0 /\ expired'.nth = active.nth /\ active.nth # 0
        /\ UNCHANGED <<inFlight, pending, parkOf, park>>
    BY <1>0, <1>2 DEF TimerExpires, Expire, NoTimer, Timers, wsVars, parkVars
  <2>2. \A i : LastEffect(i)' => LastEffect(i)
    BY <2>1 DEF LastEffect
  <2>3. \A i \in DOMAIN inFlight : LastEffect(i) =>
          (pending[inFlight[i].call] = "set" => inFlight[i].nth = active.nth)
    BY <1>t, <2>1 DEF Recent
  <2>4. LastEffect(0) => parkOf = active.nth
    BY <1>z, <2>1 DEF Recent
  <2> QED
    BY <2>1, <2>2, <2>3, <2>4 DEF TimerIsTracked, Recent
<1>3. ASSUME NEW c \in Calls, NEW action \in Actions, CallStarts(c, action) PROVE TimerIsTracked'
  <2>1. /\ pending' = [pending EXCEPT ![c] = action]
        /\ UNCHANGED <<inFlight, active, expired, parkOf, park, overdue>>
    BY <1>3 DEF CallStarts, ToolExecutionStart, timerVars, parkVars, heard
  <2>2. \A i \in DOMAIN inFlight : inFlight[i].call # c
    BY <1>3 DEF CallStarts, LoopIsReported
  <2>3. \A i \in DOMAIN inFlight : pending'[inFlight[i].call] = pending[inFlight[i].call]
    BY <1>0, <1>c, <2>1, <2>2
  <2>4. \A i : LastEffect(i)' => LastEffect(i)
    BY <2>1, <2>3 DEF LastEffect
  <2> QED
    BY <1>t, <1>z, <2>1, <2>3, <2>4 DEF TimerIsTracked, Recent
<1>4. ASSUME NEW c \in Calls, CallExecutes(c) PROVE TimerIsTracked'
  <2> DEFINE k == Len(inFlight) + 1
             e == [call |-> c, nth |-> active'.nth]
  <2>1. /\ inFlight' = Append(inFlight, e)
        /\ UNCHANGED <<pending, expired, parkOf, park, overdue>>
    BY <1>4 DEF CallExecutes, wsVars, parkVars, heard
  <2>2. e \in Executed
    <3>1. active'.nth \in Ordinals \cup {0}
      BY TimerTypeStays DEF TimerTypeOK, Timers, NoTimer, Ordinals
    <3> QED
      BY <3>1 DEF Executed
  <2>3. /\ DOMAIN inFlight' = 1..k /\ inFlight'[k] = e
        /\ \A i \in DOMAIN inFlight : inFlight'[i] = inFlight[i]
    BY <1>0, <1>c, <2>1, <2>2, Appended
  <2>4. /\ \A i \in DOMAIN inFlight' : i \in DOMAIN inFlight \/ i = k
        /\ k \in DOMAIN inFlight' /\ k > 0 /\ \A i \in DOMAIN inFlight : k > i
    BY <1>c, <2>3
  <2>5. /\ LastEffect(0)' => pending[c] = "bad"
        /\ \A i \in DOMAIN inFlight : LastEffect(i)' => pending[c] = "bad"
    BY <2>1, <2>3, <2>4 DEF LastEffect
  <2>6. ASSUME NEW name \in Names, pending[c] = "set", Arm(name) PROVE TimerIsTracked'
    BY <2>1, <2>3, <2>4, <2>5, <2>6 DEF TimerIsTracked, Recent
  <2>7. CASE pending[c] = "cancel" /\ Cancel
    <3>1. active'.nth = 0
      BY <2>7 DEF Cancel, NoTimer
    <3> QED
      BY <2>1, <2>3, <2>4, <2>5, <2>7, <3>1 DEF TimerIsTracked, Recent
  <2>8. CASE pending[c] = "bad" /\ UNCHANGED timerVars
    <3>1. UNCHANGED active
      BY <2>8 DEF timerVars
    <3>2. /\ LastEffect(0)' => LastEffect(0)
          /\ \A i \in DOMAIN inFlight : LastEffect(i)' => LastEffect(i)
      BY <2>1, <2>3, <2>4 DEF LastEffect
    <3>3. pending'[inFlight'[k].call] = "bad"
      BY <2>1, <2>3, <2>8
    <3> QED
      BY <1>t, <1>z, <2>1, <2>3, <2>4, <3>1, <3>2, <3>3 DEF TimerIsTracked, Recent
  <2> QED
    BY <1>4, <2>6, <2>7, <2>8 DEF CallExecutes
<1>5. CASE CallEnds
  <2> DEFINE c == Head(inFlight).call
  <2>1. /\ inFlight # <<>> /\ inFlight' = Tail(inFlight)
        /\ pending' = [pending EXCEPT ![c] = "none"]
        /\ park' = ParkAfter(c)
        /\ parkOf' = IF pending[c] = "set" THEN Head(inFlight).nth ELSE parkOf
        /\ UNCHANGED <<active, expired, overdue>>
    BY <1>5 DEF CallEnds, ToolExecutionEnd, timerVars, heard
  <2>2. /\ Head(inFlight) = inFlight[1] /\ 1 \in DOMAIN inFlight
        /\ \A i \in DOMAIN inFlight' :
             i + 1 \in DOMAIN inFlight /\ i + 1 # 1 /\ inFlight'[i] = inFlight[i + 1]
        /\ \A i \in Nat : i + 1 \in DOMAIN inFlight /\ i # 0 => i \in DOMAIN inFlight'
    BY <1>0, <2>1, Shortened
  <2>3. \A i \in DOMAIN inFlight' : pending'[inFlight'[i].call] = pending[inFlight[i + 1].call]
    <3>1. ASSUME NEW i \in DOMAIN inFlight'
          PROVE  inFlight[i + 1].call # c /\ inFlight[i + 1].call \in Calls
      BY <1>c, <2>2 DEF LoopIsReported
    <3> QED
      BY <1>0, <2>1, <2>2, <3>1
  <2>4. \A i \in DOMAIN inFlight' : i \in Nat
    BY <1>5, FlightStays, LenProperties
  <2>5. ASSUME NEW i \in Nat, LastEffect(i)' PROVE LastEffect(i + 1)
    <3>1. ASSUME NEW j \in DOMAIN inFlight, j > i + 1 PROVE pending[inFlight[j].call] = "bad"
      <4>1. PICK m \in Nat : j = m + 1 /\ m > i /\ m # 0
        <5>1. j \in Nat /\ j - 1 \in Nat /\ j = (j - 1) + 1 /\ j - 1 > i /\ j - 1 # 0
          BY <1>c, <3>1
        <5> QED
          BY <5>1
      <4>2. m \in DOMAIN inFlight'
        BY <2>2, <4>1
      <4>3. pending'[inFlight'[m].call] = "bad"
        BY <2>5, <4>1, <4>2 DEF LastEffect
      <4> QED
        BY <2>3, <4>1, <4>2, <4>3
    <3> QED
      BY <3>1 DEF LastEffect
  <2>6. \A i \in DOMAIN inFlight' : LastEffect(i)' =>
          /\ pending'[inFlight'[i].call] = "set" =>
               Recent(inFlight[i].nth)' /\ inFlight'[i].nth \in {active'.nth, expired'.nth}
          /\ pending'[inFlight'[i].call] = "cancel" => active'.nth = 0
    <3>1. ASSUME NEW i \in DOMAIN inFlight', LastEffect(i)'
          PROVE  /\ pending'[inFlight'[i].call] = "set" =>
                      Recent(inFlight[i].nth)' /\ inFlight'[i].nth \in {active'.nth, expired'.nth}
                 /\ pending'[inFlight'[i].call] = "cancel" => active'.nth = 0
      <4>1. LastEffect(i + 1) /\ i + 1 \in DOMAIN inFlight
        BY <2>2, <2>4, <2>5, <3>1
      <4>2. /\ inFlight'[i] = inFlight[i + 1]
            /\ pending'[inFlight'[i].call] = pending[inFlight[i + 1].call]
        BY <2>2, <2>3, <3>1
      <4> QED
        BY <1>t, <2>1, <4>1, <4>2 DEF Recent
    <3> QED
      BY <3>1
  <2>7. ASSUME LastEffect(0)'
        PROVE  /\ Recent(parkOf)'
               /\ active'.nth # 0 => park' = "before" \/ overdue' = active'.nth
               /\ park' = "before" => parkOf' \in {active'.nth, expired'.nth}
    <3>1. LastEffect(1)
      BY <2>5, <2>7
    <3>2. CASE pending[c] = "set"
      <4>1. Recent(Head(inFlight).nth) /\ Head(inFlight).nth \in {active.nth, expired.nth}
        BY <1>t, <2>2, <3>1, <3>2
      <4> QED
        BY <2>1, <3>2, <4>1 DEF Recent, ParkAfter
    <3>3. CASE pending[c] = "cancel"
      <4>1. active.nth = 0
        BY <1>t, <2>2, <3>1, <3>3
      <4> QED
        BY <2>1, <3>3, <4>1 DEF Recent, ParkAfter
    <3>4. CASE pending[c] = "bad"
      <4>1. \A j \in DOMAIN inFlight : j > 0 => j = 1 \/ j > 1
        BY <1>c
      <4>2. LastEffect(0)
        BY <2>2, <3>1, <3>4, <4>1 DEF LastEffect
      <4> QED
        BY <1>z, <2>1, <3>4, <4>2 DEF Recent, ParkAfter
    <3>5. pending[c] \in {"set", "cancel", "bad"}
      BY <1>0, <1>c, <2>2 DEF LoopIsReported, Actions
    <3> QED
      BY <3>2, <3>3, <3>4, <3>5
  <2> QED
    BY <2>6, <2>7 DEF TimerIsTracked
<1>6. CASE TimePasses
  <2>1. UNCHANGED <<inFlight, pending, active, expired, parkOf>>
    BY <1>6 DEF TimePasses, ParkDue, ParkOver, ParkEnds, DeadlinePasses, GracePasses, FallbackFires,
                timerVars, heard
  <2>2. \A i : LastEffect(i)' => LastEffect(i)
    BY <2>1 DEF LastEffect
  <2>3. LastEffect(0) =>
          /\ active.nth # 0 => overdue' = active.nth
          /\ park' # "before"
    BY <1>6, <1>z DEF TimePasses, ParkDue, ParkOver, ParkEnds, DeadlinePasses, GracePasses,
                      FallbackFires, Recent
  <2>4. LastEffect(0)' =>
          /\ Recent(parkOf)'
          /\ active'.nth # 0 => overdue' = active'.nth
          /\ park' # "before"
    BY <1>z, <2>1, <2>2, <2>3 DEF Recent
  <2>5. \A i \in DOMAIN inFlight' : LastEffect(i)' =>
          /\ pending'[inFlight'[i].call] = "set" =>
               Recent(inFlight[i].nth)' /\ inFlight'[i].nth \in {active'.nth, expired'.nth}
          /\ pending'[inFlight'[i].call] = "cancel" => active'.nth = 0
    BY <1>t, <2>1, <2>2 DEF Recent
  <2> QED
    BY <2>4, <2>5 DEF TimerIsTracked
<1>7. CASE AgentStart /\ UNCHANGED <<inFlight, active, expired, parkOf, overdue>>
  <2>1. CASE status.running
    BY <1>1, <1>7, <2>1 DEF AgentStart
  <2>2. CASE ~status.running
    <3>1. inFlight = <<>> /\ DOMAIN inFlight = {}
      BY <2>2 DEF LoopIsReported
    <3>2. LastEffect(0)
      BY <3>1 DEF LastEffect
    <3>3. park' = ConsumeIfDue
      BY <1>7, <2>2 DEF AgentStart
    <3> QED
      BY <1>7, <1>z, <3>1, <3>2, <3>3 DEF TimerIsTracked, Recent, ConsumeIfDue
  <2> QED
    BY <2>1, <2>2
<1>8. CASE AgentSettled /\ UNCHANGED <<inFlight, active, expired, parkOf, overdue>>
  <2>1. park' = ConsumeIfDue /\ UNCHANGED pending
    BY <1>8 DEF AgentSettled
  <2>2. \A i : LastEffect(i)' => LastEffect(i)
    BY <1>8, <2>1 DEF LastEffect
  <2> QED
    BY <1>8, <1>t, <1>z, <2>1, <2>2 DEF TimerIsTracked, Recent, ConsumeIfDue
<1>9. CASE SessionEnds
  <2>1. inFlight' = <<>> /\ active'.nth = 0 /\ park' = "none" /\ parkOf' = 0
    BY <1>9 DEF SessionEnds, TimerShutdown, WsReset, NoTimer
  <2>2. DOMAIN inFlight' = {}
    BY <2>1
  <2> QED
    BY <2>1, <2>2 DEF TimerIsTracked, Recent
<1> QED
  BY <1>1, <1>2, <1>3, <1>4, <1>5, <1>6, <1>7, <1>8, <1>9, TrackSteps

-----------------------------------------------------------------------------
(* The inductive invariant *)

LEMMA InitInv == Init => WakeInv
<1> SUFFICES ASSUME Init PROVE WakeInv
  OBVIOUS
<1>0. /\ active = NoTimer /\ wake = Unwatched /\ armed = 0
      /\ status = Quiet /\ park = "none" /\ pending = NoCalls /\ shown = "idle"
      /\ pc = "idle" /\ left = {} /\ queue = <<>> /\ outbox = <<>> /\ inFlight = <<>>
      /\ parkOf = 0 /\ overdue = 0 /\ owed = {} /\ expired = NoTimer
  BY DEF Init, TimerInit, WsInit
<1>1. /\ \A S : <<>> \in Seq(S)
      /\ Len(<<>>) = 0 /\ DOMAIN <<>> = {}
  BY EmptySeq
<1>2. MaxWakes = Budget(MaxArms) /\ Budget(MaxArms) \in Nat /\ Budget(0) \in Nat
  BY BudgetGrows, TimerAssumption DEF Budget, MaxWakes
<1>3. TimerTypeOK
  BY <1>0, TimerAssumption DEF TimerTypeOK, Unwatched
<1>4. WsTypeOK
  BY <1>0 DEF WsTypeOK, Parks, NoCalls, Quiet
<1>5. Len(queue) + Len(outbox) <= MaxWakes
  BY <1>0, <1>1, <1>2
<1>6. queue \in Seq(Names) /\ outbox \in Seq(Names) /\ inFlight \in Seq(Executed)
  BY <1>0, <1>1
<1>7. WakeTypeOK
  BY <1>0, <1>3, <1>4, <1>5, <1>6, TimerAssumption DEF WakeTypeOK, Places, NoTimer
<1>8. LoopIsReported
  BY <1>0, <1>1 DEF LoopIsReported, Quiet
<1>9. PaneIsCurrent
  BY <1>0 DEF PaneIsCurrent, DeriveState, Quiet
<1>10. TimerIsTracked
  BY <1>0, <1>1 DEF TimerIsTracked, Recent, NoTimer
<1>11. WatchIsKept
  BY <1>0 DEF WatchIsKept, Awaiting, Unwatched
<1>12. WakesArePaid
  BY <1>0, <1>1, <1>2 DEF WakesArePaid, Awaiting, Unwatched
<1> QED
  BY <1>7, <1>8, <1>9, <1>10, <1>11, <1>12 DEF WakeInv

(* The reporter, the timer, its watch and pi's loop agree (timer.ts, wsstate.ts). *)
THEOREM WakeInvariant == Spec => []WakeInv
<1>1. WakeInv /\ [Next]_vars => WakeInv'
  <2> SUFFICES ASSUME WakeInv, [Next]_vars PROVE WakeInv'
    OBVIOUS
  <2>0. /\ WakeTypeOK /\ LoopIsReported /\ PaneIsCurrent
        /\ TimerIsTracked /\ WatchIsKept /\ WakesArePaid
    BY DEF WakeInv
  <2>1. WakeTypeOK' /\ WakesArePaid'
    BY <2>0, TypeStays, BudgetStays
  <2>2. LoopIsReported' /\ PaneIsCurrent'
    BY <2>0, LoopStays, PaneStays
  <2>3. TimerIsTracked' /\ WatchIsKept'
    BY <2>0, TrackStays, WatchStays
  <2> QED
    BY <2>1, <2>2, <2>3 DEF WakeInv
<1> QED
  BY <1>1, InitInv, PTL DEF Spec

(* What the extensions and pi's queues hold, the messages under way bounded by the
   timers armed and their re-sends (timer.ts, MAX_WAKE_RESENDS). *)
THEOREM WakeTypeCorrect == Spec => []WakeTypeOK
<1>1. WakeInv => WakeTypeOK
  BY DEF WakeInv
<1> QED
  BY <1>1, WakeInvariant, PTL

-----------------------------------------------------------------------------
(* What it is for *)

(* A wake-up no run has heard is watched for (timer.ts, onMessageStart and onSettled). *)
THEOREM WatchHolds == Spec => []UnheardIsWatched
<1>1. WakeInv => UnheardIsWatched
  BY DEF WakeInv, WatchIsKept, UnheardIsWatched, Unheard
<1> QED
  BY <1>1, WakeInvariant, PTL

(* A re-send is a copy of the last expiry's wake-up, which no run has heard; copies of it
   that are on their way may still be (timer.ts, onSettled). *)
THEOREM NothingHeardIsResent == Spec => ResendOnlyUnheard
<1>1. ASSUME WakeInv, NEW thrown \in BOOLEAN, Settle(thrown), outbox' # outbox
      PROVE  Unheard /\ outbox' = Append(outbox, expired.name)
  <2>1. MustResend /\ outbox' = Append(outbox, wake.text)
    BY <1>1 DEF Settle
  <2>2. wake.text = expired.name /\ Unheard
    BY <1>1, <2>1 DEF MustResend, WakeInv, WatchIsKept, Unheard
  <2> QED
    BY <2>1, <2>2
<1>2. WakeInv /\ [Next]_vars =>
        [ (Settles /\ outbox' # outbox) => Unheard /\ outbox' = Append(outbox, expired.name) ]_vars
  BY <1>1 DEF Settles
<1> QED
  BY <1>2, WakeInvariant, PTL DEF Spec, ResendOnlyUnheard

(* An agent shown as idle has no timer armed, or one that is due now (wsstate.ts, idle
   and waiting). *)
THEOREM IdleIsTrue == Spec => []IdleMeansUnarmed
<1>1. ASSUME WakeInv, shown = "idle" PROVE active.nth \in {0, overdue}
  <2>0. /\ WakeTypeOK /\ LoopIsReported /\ PaneIsCurrent /\ TimerIsTracked
    BY <1>1 DEF WakeInv
  <2>1. ~status.running /\ park # "before"
    BY <1>1, <2>0 DEF PaneIsCurrent, DeriveState
  <2>2. inFlight = <<>>
    BY <2>0, <2>1 DEF LoopIsReported
  <2>3. LastEffect(0)
    BY <2>2 DEF LastEffect
  <2> QED
    BY <2>0, <2>1, <2>3 DEF TimerIsTracked
<1>2. WakeInv => IdleMeansUnarmed
  BY <1>1 DEF IdleMeansUnarmed
<1> QED
  BY <1>2, WakeInvariant, PTL

(* A park ahead of its deadline is for the armed timer or the one that expired last, not
   for one replaced or cancelled (wsstate.ts, trackTimer). *)
THEOREM ParkIsTrue == Spec => []ParkIsReal
<1>1. ASSUME WakeInv, park = "before", inFlight = <<>>
      PROVE  parkOf \in {active.nth, expired.nth}
  <2>1. LastEffect(0)
    BY <1>1 DEF LastEffect
  <2> QED
    BY <1>1, <2>1 DEF WakeInv, TimerIsTracked
<1>2. WakeInv => ParkIsReal
  BY <1>1 DEF ParkIsReal
<1> QED
  BY <1>2, WakeInvariant, PTL
===============================================================================
