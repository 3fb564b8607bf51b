------------------------------- MODULE SideChat -------------------------------
(***************************************************************************)
(* A session's messages as pi's loop adds them, the snapshot the side chat *)
(* forks from (lib/btw-context.ts, ForkSnapshot), and the chat itself      *)
(* (lib/btw-thread.ts, lib/btw-chat.ts).  pi's loop and the provider are   *)
(* the environment.                                                        *)
(***************************************************************************)
EXTENDS LlmView

CONSTANTS
  Budgets,      \* tail budgets the view is compared for
  TailTokens,   \* CONTEXT_CAP_TAIL_TOKENS
  MaxMessages,  \* messages of the session
  MaxCalls,     \* tool calls of one answer
  MaxExchanges, \* turns of one chat
  MaxKills      \* ends of pi's process

ASSUME ChatAssumption ==
  /\ Budgets \subseteq Nat /\ TailTokens \in Nat
  /\ MaxMessages \in Nat /\ MaxCalls \in Nat /\ MaxExchanges \in Nat /\ MaxKills \in Nat

VARIABLES
  session,   \* the session's messages
  loop,      \* pi's loop
  running,   \* calls that run
  snapshot,  \* ForkSnapshot
  chat,      \* the side chat's thread while it is open
  kills

chatVars == <<session, loop, running, snapshot, chat, kills>>

(* ready is about to call the model, called waits for its answer, turned is at turn_end. *)
Loops == {"idle", "ready", "called", "tools", "turned"}

NoSnapshot == [known |-> FALSE, request |-> <<>>, since |-> <<>>]
Closed == [open |-> FALSE, turns |-> <<>>, answering |-> FALSE]

(* ForkSnapshot.fork: what was sent last and what has ended since. *)
Fork == snapshot.request \o snapshot.since

ChatInit ==
  /\ session = <<>> /\ loop = "idle" /\ running = {}
  /\ snapshot = NoSnapshot /\ chat = Closed /\ kills = 0

-----------------------------------------------------------------------------
(* The session *)

NextId == Len(session) + 1
RoomFor(n) == Len(session) + n <= MaxMessages
CallsOf(id, n) == {<<id, k>> : k \in 1..n}

(* message_end tells the snapshot, a boundary entry has no message_end. *)
MessageEnd(m) ==
  /\ session' = Append(session, m)
  /\ snapshot' = [snapshot EXCEPT !.since = Append(@, m)]

Bug_OnRequest == snapshot' = [snapshot EXCEPT !.known = TRUE, !.request = View(session, TailTokens)]

OnRequest == snapshot' = [known |-> TRUE, request |-> View(session, TailTokens), since |-> <<>>]

Prompt ==
  /\ loop = "idle" /\ RoomFor(1)
  /\ MessageEnd(Message("user", NextId))
  /\ loop' = "ready"
  /\ UNCHANGED <<running, chat, kills>>

(* The context handlers see every request on its way out. *)
Request ==
  /\ loop = "ready"
  /\ OnRequest
  /\ loop' = "called"
  /\ UNCHANGED <<session, running, chat, kills>>

(* A turn always leaves room for its results. *)
AnswerEnds(n, stop) ==
  /\ loop = "called" /\ RoomFor(n + 1)
  /\ stop = "toolUse" <=> n > 0 /\ stop \notin Failures
  /\ MessageEnd(Assistant(NextId, CallsOf(NextId, n), stop))
  /\ running' = IF stop = "toolUse" THEN CallsOf(NextId, n) ELSE {}
  /\ loop' = CASE stop = "toolUse" -> "tools" [] stop = "stop" -> "turned" [] OTHER -> "idle"
  /\ UNCHANGED <<chat, kills>>

(* Calls of one answer may end in any order. *)
CallEnds(call) ==
  /\ loop = "tools" /\ call \in running
  /\ MessageEnd(ToolResult(NextId, call))
  /\ running' = running \ {call}
  /\ loop' = IF running' = {} THEN "turned" ELSE "tools"
  /\ UNCHANGED <<chat, kills>>

(* context-cap commits a demand or the swap marker as a boundary entry. *)
TurnEnds(entry) ==
  /\ loop = "turned"
  /\ IF entry = "none" THEN UNCHANGED session
     ELSE RoomFor(1) /\ session' = Append(session, Message(entry, NextId))
  /\ loop' \in IF entry = "none" /\ Last(session).role = "assistant" THEN {"idle"} ELSE {"ready"}
  /\ UNCHANGED <<running, snapshot, chat, kills>>

(* A retry takes the failed answer out of the messages again. *)
Retry ==
  /\ loop = "idle" /\ session # <<>> /\ Last(session).stop = "error"
  /\ session' = Front(session)
  /\ loop' = "ready"
  /\ UNCHANGED <<running, snapshot, chat, kills>>

(* pi dies in the middle and resumes the saved session: a new snapshot, no chat. *)
Killed ==
  /\ loop \in {"called", "tools"} /\ kills < MaxKills
  /\ kills' = kills + 1
  /\ loop' = "idle" /\ running' = {}
  /\ snapshot' = NoSnapshot /\ chat' = Closed
  /\ UNCHANGED session

-----------------------------------------------------------------------------
(* The chat *)

Untouched == UNCHANGED <<session, loop, running, snapshot, kills>>

(* /btw, or the key in a child's view, with something to fork. *)
OpenChat ==
  /\ ~chat.open /\ snapshot.known
  /\ chat' = [Closed EXCEPT !.open = TRUE]
  /\ Untouched

(* One request at a time; what it sends is built from the fork of this moment. *)
Ask ==
  /\ chat.open /\ ~chat.answering /\ Len(chat.turns) < MaxExchanges
  /\ chat' = [chat EXCEPT !.answering = TRUE]
  /\ Untouched

(* An answer may call a tool all the same; a request that cannot start is a failed answer. *)
Answered(stop) ==
  /\ chat.answering
  /\ LET answer == Assistant(0, IF stop = "toolUse" THEN {<<0, Len(chat.turns) + 1>>} ELSE {}, stop)
     IN chat' = [chat EXCEPT !.answering = FALSE,
                             !.turns = IF stop = "aborted" THEN @ ELSE Append(@, answer)]
  /\ Untouched

(* Closing aborts the answer in flight; a late one finds its flight gone.  The next chat is new. *)
CloseChat ==
  /\ chat.open
  /\ chat' = Closed
  /\ Untouched

ChatNext ==
  \/ Prompt \/ Request \/ Retry \/ Killed
  \/ \E n \in 0..MaxCalls, stop \in {"stop", "toolUse"} \cup Failures : AnswerEnds(n, stop)
  \/ \E call \in running : CallEnds(call)
  \/ \E entry \in {"none", "demand", "marker"} : TurnEnds(entry)
  \/ OpenChat \/ Ask \/ CloseChat
  \/ \E stop \in {"stop", "toolUse"} \cup Failures : Answered(stop)

ChatSpec == ChatInit /\ [][ChatNext]_chatVars

-----------------------------------------------------------------------------
(* Properties *)

Positions(messages, role) == {i \in DOMAIN messages : messages[i].role = role}

CallsIn(messages, I)   == UNION {messages[i].calls : i \in I}
AnswersIn(messages, I) == {messages[i].of : i \in Positions(messages, "toolResult") \cap I}

(* Messages i..n-1 can stand alone: each result has its call, each call its result. *)
StandsAlone(messages, i, n) == CallsIn(messages, i..(n - 1)) = AnswersIn(messages, i..(n - 1))

TokensIn(messages, I) ==
  SumFunctionOnSet([i \in DOMAIN messages |-> EstimateMessageTokens(messages[i])], I)

(* Where the tail may start by the promise of selectContextTail: at a message that refers to
   nothing, within the budget, with no call or result parted. *)
SafeCuts(messages, n, budget) ==
  {i \in 1..(n - 1) :
    /\ messages[i].role \notin {"assistant", "toolResult"}
    /\ TokensIn(messages, i..(n - 1)) <= budget
    /\ StandsAlone(messages, i, n)}

(* The view behind a swap starts with the longest tail that parts no call from its result, has no
   demand in front of the marker and everything from the marker on, whatever the budget
   (context-cap-view.ts, selectContextTail and llmView). *)
TailIsLongest ==
  \A budget \in Budgets :
    LET at == LastSwapMarkerIndex(session)
        front == WithoutCapWarnings(SubSeq(session, 1, at - 1))
        n == Len(front) + 1
        kept == front \o SubSeq(session, at, Len(session))
        cuts == SafeCuts(kept, n, budget)
    IN at # 0 => View(session, budget) = SubSeq(kept, IF cuts = {} THEN n ELSE Min(cuts), Len(kept))

(* The messages of unfinished business: a session that was killed keeps calls without results. *)
Orphaned(call) == call \notin running /\ \A i \in DOMAIN session : session[i].of # call

(* What a question asked now would send holds every message once, answers right behind their
   calls, and says "still running" of every call that runs; of no other but those a dead run left
   in the last answer (btw-context.ts, buildBtwMessages). *)
ForkIsPaired ==
  chat.open =>
    LET sent == BuildBtwMessages(Fork, chat.turns)
        saved == {i \in DOMAIN sent : sent[i].id # 0}
        results == Positions(sent, "toolResult")
        pending == {sent[i].of : i \in {j \in results : sent[j].stop = "pending"}}
    IN /\ \A i, j \in saved : i < j => sent[i].id < sent[j].id
       /\ \A i, j \in results : sent[i].of = sent[j].of => i = j
       /\ \A i \in results : \E j \in 1..(i - 1) :
            /\ sent[i].of \in sent[j].calls
            /\ \A k \in (j + 1)..(i - 1) : k \in results
       /\ running \subseteq pending
       /\ \A call \in pending \ running : Orphaned(call)

-----------------------------------------------------------------------------
(* Why they hold *)

Calls == Nat \X Nat

(* A call is named by its answer, and answered by a later message. *)
Messages ==
  {m \in [role: Roles, id: Nat \ {0}, calls: SUBSET Calls, of: Calls \cup {<<>>},
          stop: {"-", "stop", "toolUse"} \cup Failures] :
     /\ IsFiniteSet(m.calls) /\ \A call \in m.calls : call[1] = m.id
     /\ m.role # "assistant" => m.calls = {}
     /\ IF m.role = "toolResult" THEN m.of # <<>> /\ m.of[1] < m.id ELSE m.of = <<>>}

ChatTypeOK ==
  /\ session \in Seq(Messages) /\ loop \in Loops /\ running \subseteq Calls
  /\ snapshot \in [known: BOOLEAN, request: Seq(Messages), since: Seq(Messages)]
  /\ chat \in [open: BOOLEAN, answering: BOOLEAN,
               turns: Seq([role: {"assistant"}, id: {0}, calls: SUBSET Calls, of: {<<>>},
                           stop: {"stop", "toolUse"} \cup Failures])]

(* Results come right behind the answer that made their calls, one for a call. *)
ResultsFollow(messages) ==
  /\ \A i \in Positions(messages, "toolResult") : \E j \in 1..(i - 1) :
       messages[i].of \in messages[j].calls /\ (j + 1)..(i - 1) \subseteq Positions(messages, "toolResult")
  /\ \A i, j \in Positions(messages, "toolResult") : messages[i].of = messages[j].of => i = j

(* The calls that run are the last answer's, and have no results yet. *)
RunningAreLast(messages) ==
  running # {} =>
    \E at \in DOMAIN messages :
      /\ running \subseteq messages[at].calls /\ messages[at].stop = "toolUse"
      /\ (at + 1)..Len(messages) \subseteq Positions(messages, "toolResult")
      /\ running \cap AnswersIn(messages, DOMAIN messages) = {}

(* The session's messages are numbered as they came. *)
SessionInOrder ==
  /\ \A i \in DOMAIN session : session[i].id = i
  /\ ResultsFollow(session) /\ RunningAreLast(session)

(* What the fork holds is in the session's order, and lacks no result of a call it holds. *)
ForkInOrder ==
  /\ \A i, j \in DOMAIN Fork : i < j => Fork[i].id < Fork[j].id
  /\ loop # "ready" => \A i \in DOMAIN Fork : Fork[i].id <= Len(session)
  /\ ResultsFollow(Fork) /\ RunningAreLast(Fork)
  /\ AnswersIn(session, DOMAIN session) \cap CallsIn(Fork, DOMAIN Fork)
       \subseteq AnswersIn(Fork, DOMAIN Fork)

(* The inductive invariant: session and fork tell the same story, in pi's order
   (btw-context.ts, ForkSnapshot). *)
ChatInv ==
  /\ ChatTypeOK /\ SessionInOrder /\ ForkInOrder
  /\ running # {} => loop = "tools"
=============================================================================
