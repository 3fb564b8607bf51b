------------------------------- MODULE LlmView -------------------------------
(***************************************************************************)
(* What a model is sent, as functions of a session's messages: the view    *)
(* behind the latest swap marker with its recency tail                     *)
(* (lib/context-cap-view.ts) and the request of a side chat forked from    *)
(* it (lib/btw-context.ts).  A message has an identity, the calls it makes *)
(* (an assistant's) or the call it answers (a result's), and no text.      *)
(***************************************************************************)
EXTENDS Naturals, FiniteSets, Sequences, SequencesExt

Roles == {"user", "assistant", "toolResult", "demand", "marker"}
Failures == {"error", "aborted"}

Message(role, id) == [role |-> role, id |-> id, calls |-> {}, of |-> <<>>, stop |-> "-"]
Assistant(id, calls, stop) == [Message("assistant", id) EXCEPT !.calls = calls, !.stop = stop]
ToolResult(id, call) == [Message("toolResult", id) EXCEPT !.of = call]

(* An estimate only has to grow with the message. *)
EstimateMessageTokens(m) == 1 + Cardinality(m.calls)

IsCapWarning(m) == m.role = "demand"

-----------------------------------------------------------------------------
(* The recency tail *)

WalkStart(marker) == [over |-> FALSE, tokens |-> 0, unmatched |-> {}, dangling |-> FALSE, best |-> marker]

Bug_StepPairing(w, i, m, budget) ==
  LET tokens == w.tokens + EstimateMessageTokens(m)
  IN IF tokens > budget
     THEN [w EXCEPT !.over = TRUE]
     ELSE [w EXCEPT !.tokens = tokens, !.best = IF m.role \notin {"assistant", "toolResult"} /\ ~w.over THEN i ELSE @]

(* One message of the walk back from the marker; unmatched are the results whose call has
   not been seen yet. *)
StepPairing(w, i, m, budget) ==
  LET tokens == w.tokens + EstimateMessageTokens(m)
      results == IF m.role = "toolResult" THEN w.unmatched \cup {m.of} ELSE w.unmatched
      unmatched == results \ m.calls
      dangling == m.calls \ results # {}
      cut == m.role \notin {"assistant", "toolResult"} /\ unmatched = {}
  IN IF w.over \/ tokens > budget
     THEN [w EXCEPT !.over = TRUE]
     ELSE [over |-> dangling, tokens |-> tokens, unmatched |-> unmatched, dangling |-> dangling,
           best |-> IF cut THEN i ELSE w.best]

(* Index of the first message kept; the marker's when nothing is. *)
SelectContextTail(messages, marker, budget) ==
  LET back == [k \in 1..(marker - 1) |-> marker - k]
      Step(w, i) == StepPairing(w, i, messages[i], budget)
  IN IF budget = 0 THEN marker ELSE FoldLeft(Step, WalkStart(marker), back).best

LastSwapMarkerIndex(messages) == SelectLastInSeq(messages, LAMBDA m : m.role = "marker")

WithoutCapWarnings(messages) ==
  LET Keep(kept, m) == IF IsCapWarning(m) THEN kept ELSE Append(kept, m)
  IN FoldLeft(Keep, <<>>, messages)

(* Cap demands in front of the marker are left out, what is behind it always stands. *)
View(messages, budget) ==
  LET at == LastSwapMarkerIndex(messages)
      front == WithoutCapWarnings(SubSeq(messages, 1, at - 1))
      kept == front \o SubSeq(messages, at, Len(messages))
  IN IF at = 0 THEN messages
     ELSE SubSeq(kept, SelectContextTail(kept, Len(front) + 1, budget), Len(kept))

-----------------------------------------------------------------------------
(* The side chat's request *)

PendingResult(call) == [ToolResult(0, call) EXCEPT !.stop = "pending"]

LastAssistantIndex(messages) == SelectLastInSeq(messages, LAMBDA m : m.role = "assistant")

(* The unanswered calls of the last answer count as running. *)
WithPendingResults(messages) ==
  LET at == LastAssistantIndex(messages)
      answered == {messages[i].of : i \in {j \in DOMAIN messages : messages[j].role = "toolResult"}}
      open == SetToSeq(messages[at].calls \ answered)
  IN IF at = 0 THEN messages
     ELSE IF messages[at].stop \in Failures THEN messages
     ELSE SubSeq(messages, 1, at) \o [k \in DOMAIN open |-> PendingResult(open[k])]
          \o SubSeq(messages, at + 1, Len(messages))

(* An answer never runs its calls: each becomes a line of text, a failed answer drops them. *)
DisplayAnswer(answer) ==
  [answer EXCEPT !.calls = {}, !.stop = IF answer.stop = "toolUse" THEN "stop" ELSE answer.stop]

Question == Message("user", 0)

(* A failed exchange is left out, its question too. *)
ReplayTurns(turns) ==
  LET Say(said, turn) ==
        IF turn.stop \in Failures THEN said ELSE said \o <<Question, DisplayAnswer(turn)>>
  IN FoldLeft(Say, <<>>, turns)

BuildBtwMessages(fork, turns) == WithPendingResults(fork) \o ReplayTurns(turns) \o <<Question>>
=============================================================================
