---------------------------- MODULE SideChatProofs -----------------------------
(***************************************************************************)
(* Theorems about SideChat for sessions, answers, chats and budgets of any *)
(* size: what the model of a session is sent and what its side chat forks. *)
(***************************************************************************)
EXTENDS SideChat, DataLemmas

-----------------------------------------------------------------------------
(* Messages *)

MessageTypes ==
  [role: Roles, id: Nat \ {0}, calls: SUBSET Calls, of: Calls \cup {<<>>},
   stop: {"-", "stop", "toolUse"} \cup Failures]

LEMMA CallsOfMessage ==
  ASSUME NEW m \in Messages
  PROVE  /\ m \in MessageTypes /\ IsFiniteSet(m.calls) /\ m.id \in Nat \ {0} /\ m.calls \subseteq Calls
         /\ \A call \in m.calls : call[1] = m.id /\ call \in Calls
         /\ m.calls # {} => m.role = "assistant"
         /\ m.role = "toolResult" => m.of \in Calls /\ m.of[1] \in Nat /\ m.of[1] < m.id
         /\ m.role # "toolResult" => m.of = <<>>
         /\ EstimateMessageTokens(m) \in Nat \ {0}
<1>1. m \in MessageTypes
  BY DEF Messages, MessageTypes
<1>2. IsFiniteSet(m.calls) /\ m.id \in Nat \ {0} /\ m.calls \subseteq Calls
  BY <1>1 DEF Messages, MessageTypes
<1>3. \A call \in m.calls : call[1] = m.id /\ call \in Calls
  BY <1>2 DEF Messages
<1>4. /\ m.calls # {} => m.role = "assistant"
      /\ m.role = "toolResult" => m.of # <<>> /\ m.of[1] < m.id
      /\ m.role # "toolResult" => m.of = <<>>
  BY DEF Messages
<1>5. m.role = "toolResult" => m.of \in Calls /\ m.of[1] \in Nat
  <2>1. m.of \in Calls \cup {<<>>}
    BY <1>1 DEF MessageTypes
  <2>2. \A call \in Calls : call[1] \in Nat
    BY DEF Calls
  <2> QED
    BY <1>4, <2>1, <2>2
<1>6. EstimateMessageTokens(m) \in Nat \ {0}
  <2>1. Cardinality(m.calls) \in Nat
    BY <1>2, FS_CardinalityType
  <2> QED
    BY <2>1 DEF EstimateMessageTokens
<1> QED
  BY <1>1, <1>2, <1>3, <1>4, <1>5, <1>6

LEMMA CallIsNotNone == <<>> \notin Calls
<1>1. ASSUME <<>> \in Calls PROVE FALSE
  <2>1. PICK a \in Nat, b \in Nat : <<>> = <<a, b>>
    BY <1>1 DEF Calls
  <2>2. Len(<<>>) = 0 /\ Len(<<a, b>>) = 2
    OBVIOUS
  <2> QED
    BY <2>1, <2>2
<1> QED
  BY <1>1

-----------------------------------------------------------------------------
(* The walk back from the marker *)

Walks ==
  [over: BOOLEAN, tokens: Nat, unmatched: SUBSET (Calls \cup {<<>>}), dangling: BOOLEAN, best: Nat]

LEMMA StepIsWalk ==
  ASSUME NEW w \in Walks, NEW i \in Nat, NEW m \in Messages, NEW budget
  PROVE  StepPairing(w, i, m, budget) \in Walks
<1>1. m \in MessageTypes /\ EstimateMessageTokens(m) \in Nat
  BY CallsOfMessage
<1>2. /\ w.tokens + EstimateMessageTokens(m) \in Nat /\ m.of \in Calls \cup {<<>>}
      /\ w.unmatched \subseteq Calls \cup {<<>>}
  BY <1>1 DEF Walks, MessageTypes
<1> QED
  BY <1>2 DEF StepPairing, Walks

(* The walk's states, after each message it has seen. *)
Walked(v, messages, marker, budget) ==
  /\ v \in [0..(marker - 1) -> Walks] /\ v[0] = WalkStart(marker)
  /\ \A k \in 1..(marker - 1) :
       v[k] = StepPairing(v[k - 1], marker - k, messages[marker - k], budget)

LEMMA WalkFolds ==
  ASSUME NEW messages \in Seq(Messages), NEW marker \in 1..(Len(messages) + 1),
         NEW budget \in Nat, budget # 0
  PROVE  \E v : /\ Walked(v, messages, marker, budget)
              /\ SelectContextTail(messages, marker, budget) = v[marker - 1].best
<1> DEFINE P == 1..(marker - 1)
           back == [k \in P |-> marker - k]
           D == DOMAIN back
           Op(w, i) == StepPairing(w, i, messages[i], budget)
           Is(g) == g = [s \in SUBSET D |->
                           IF s = {} THEN WalkStart(marker) ELSE Op(g[s \ {Max(s)}], back[Max(s)])]
           iter == CHOOSE g : Is(g)
           F == [p \in Walks \X P |-> Op(p[1], p[2])]
<1>1. /\ Len(messages) \in Nat /\ marker \in Nat /\ marker - 1 \in Nat /\ P \subseteq Nat
      /\ \A i \in P : messages[i] \in Messages /\ marker - i \in P
  <2>1. Len(messages) \in Nat /\ \A i \in 1..Len(messages) : messages[i] \in Messages
    BY LenProperties, ElementOfSeq
  <2> QED
    BY <2>1
<1>2. back \in Seq(P) /\ Len(back) = marker - 1 /\ D = P /\ \A k \in P : back[k] = marker - k
  <2>1. back \in [1..(marker - 1) -> P]
    BY <1>1
  <2> QED
    BY <1>1, <2>1
<1>3. SelectContextTail(messages, marker, budget) = iter[D].best
  BY DEF SelectContextTail, FoldLeft, MapThenFoldSet
<1>4. WalkStart(marker) \in Walks
  BY <1>1 DEF WalkStart, Walks
<1>5. F \in [Walks \X P -> Walks]
  BY <1>1, StepIsWalk
<1>6. \A w \in Walks, i \in P : F[<<w, i>>] = Op(w, i)
  OBVIOUS
<1>7. \A s \in SUBSET D : s # {} => Max(s) \in D /\ back[Max(s)] \in P
  <2>1. \A s \in SUBSET D : s # {} => Max(s) \in P
    BY <1>1, <1>2, MaxOfPlaces
  <2> QED
    BY <1>2, <2>1, <1>1
<1> HIDE DEF F, Op, P, back
<1>8. PICK g \in [SUBSET D -> Walks] : FoldsTo(g, Walks, F, WalkStart(marker), back)
  BY <1>2, <1>4, <1>5, FoldOfPlaces
<1> HIDE DEF D
<1>9. Is(g)
  <2>1. ASSUME NEW s \in SUBSET D, s # {} PROVE g[s] = Op(g[s \ {Max(s)}], back[Max(s)])
    <3>1. g[s \ {Max(s)}] \in Walks /\ back[Max(s)] \in P
      BY <1>7, <2>1
    <3> QED
      BY <1>6, <1>8, <2>1, <3>1 DEF FoldsTo, D
  <2>2. g = [s \in SUBSET D |-> g[s]] /\ g[{}] = WalkStart(marker)
    BY <1>8 DEF FoldsTo
  <2> QED
    BY <2>1, <2>2
<1> HIDE DEF iter
<1>10. Is(iter)
  <2> HIDE DEF Is
  <2> QED
    BY <1>9 DEF iter
<1>11. /\ iter[{}] = WalkStart(marker)
       /\ \A s \in SUBSET D : s # {} => iter[s] = Op(iter[s \ {Max(s)}], back[Max(s)])
  BY <1>10
<1> HIDE DEF Is
<1>12. FoldsTo(iter, Walks, F, WalkStart(marker), back)
  BY <1>6, <1>7, <1>11 DEF FoldsTo, D
<1>13. StepsTo(iter[D], Walks, F, WalkStart(marker), back)
  BY <1>2, <1>4, <1>5, <1>12, FoldIsSteps DEF D
<1>14. PICK v : FoldSteps(v, Walks, F, WalkStart(marker), back) /\ iter[D] = v[Len(back)]
  BY <1>13 DEF StepsTo
<1>15. ASSUME NEW k \in P PROVE v[k] = StepPairing(v[k - 1], marker - k, messages[marker - k], budget)
  <2>1. k - 1 \in 0..(marker - 1) /\ k \in 1..Len(back)
    BY <1>1, <1>2 DEF P
  <2>2. v[k - 1] \in Walks /\ v[k] = F[<<v[k - 1], back[k]>>]
    BY <1>2, <1>14, <2>1 DEF FoldSteps
  <2>3. back[k] = marker - k /\ marker - k \in P
    BY <1>1, <1>2
  <2>4. v[k] = Op(v[k - 1], marker - k)
    BY <1>6, <2>2, <2>3
  <2> QED
    BY <2>4 DEF Op
<1>16. Walked(v, messages, marker, budget)
  BY <1>2, <1>14, <1>15 DEF FoldSteps, Walked, P
<1> QED
  BY <1>2, <1>3, <1>14, <1>16

(* Tokens are summed message by message. *)
LEMMA TokensAdd ==
  ASSUME NEW messages \in Seq(Messages), NEW n \in 1..(Len(messages) + 1)
  PROVE  /\ TokensIn(messages, n..(n - 1)) = 0
         /\ \A i \in 1..(n - 1) :
              /\ TokensIn(messages, i..(n - 1)) \in Nat
              /\ TokensIn(messages, i..(n - 1))
                   = TokensIn(messages, (i + 1)..(n - 1)) + EstimateMessageTokens(messages[i])
<1> DEFINE D == DOMAIN messages
           e == [i \in D |-> EstimateMessageTokens(messages[i])]
<1>1. /\ Len(messages) \in Nat /\ D = 1..Len(messages) /\ n \in Nat
      /\ \A i \in D : EstimateMessageTokens(messages[i]) \in Nat
  <2>1. Len(messages) \in Nat /\ D = 1..Len(messages)
    BY LenProperties
  <2>2. \A i \in D : messages[i] \in Messages
    BY <2>1, ElementOfSeq
  <2>3. \A i \in D : EstimateMessageTokens(messages[i]) \in Nat
    BY <2>2, CallsOfMessage
  <2> QED
    BY <2>1, <2>3
<1>2. e \in [D -> Nat] /\ IsFiniteSet(D)
  BY <1>1, FS_Interval
<1>3. PICK g : Adds(g, D, e)
  BY <1>2, SumExists
<1>4. ASSUME NEW I \in SUBSET D PROVE TokensIn(messages, I) = g[I] /\ g[I] \in Nat
  <2> DEFINE h == [s \in SUBSET I |-> g[s]]
  <2>1. IsFiniteSet(I)
    BY <1>2, FS_Subset
  <2>2. h \in [SUBSET I -> Nat] /\ h[{}] = 0 /\ h[I] = g[I]
    BY <1>3 DEF Adds
  <2>3. \A s \in SUBSET I : \A x \in I \ s : h[s \cup {x}] = h[s] + e[x]
    <3>1. ASSUME NEW s \in SUBSET I, NEW x \in I \ s PROVE h[s \cup {x}] = h[s] + e[x]
      <4>1. s \in SUBSET D /\ x \in D \ s /\ s \cup {x} \in SUBSET I
        OBVIOUS
      <4>2. g[s \cup {x}] = g[s] + e[x]
        BY <1>3, <4>1 DEF Adds
      <4>3. h[s \cup {x}] = g[s \cup {x}] /\ h[s] = g[s]
        BY <4>1
      <4> HIDE DEF h, e
      <4> QED
        BY <4>2, <4>3
    <3> QED
      BY <3>1
  <2> HIDE DEF h
  <2>4. Adds(h, I, e)
    BY <2>2, <2>3 DEF Adds
  <2>5. \A x \in I : e[x] \in Nat
    BY <1>2
  <2> HIDE DEF e
  <2>6. SumFunctionOnSet(e, I) = h[I]
    BY <2>1, <2>4, <2>5, SumIsAdded
  <2>7. TokensIn(messages, I) = SumFunctionOnSet(e, I)
    BY DEF TokensIn, e
  <2> QED
    BY <2>2, <2>6, <2>7
<1>5. TokensIn(messages, n..(n - 1)) = 0
  <2>1. n..(n - 1) = {} /\ {} \in SUBSET D
    BY <1>1
  <2>2. TokensIn(messages, {}) = g[{}]
    BY <1>4, <2>1
  <2>3. g[{}] = 0
    BY <1>3 DEF Adds
  <2> QED
    BY <2>1, <2>2, <2>3
<1>6. ASSUME NEW i \in 1..(n - 1)
      PROVE  /\ TokensIn(messages, i..(n - 1)) \in Nat
             /\ TokensIn(messages, i..(n - 1))
                  = TokensIn(messages, (i + 1)..(n - 1)) + EstimateMessageTokens(messages[i])
  <2> DEFINE I == i..(n - 1)
             J == (i + 1)..(n - 1)
  <2>1. I \in SUBSET D /\ J \in SUBSET D /\ i \in D \ J /\ I = J \cup {i}
    BY <1>1
  <2>2. e[i] = EstimateMessageTokens(messages[i])
    BY <2>1
  <2> HIDE DEF I, J
  <2>3. g[I] = g[J] + e[i]
    BY <1>3, <2>1 DEF Adds
  <2>4. TokensIn(messages, I) = g[I] /\ TokensIn(messages, J) = g[J] /\ g[I] \in Nat
    BY <1>4, <2>1
  <2> QED
    BY <2>2, <2>3, <2>4 DEF I, J
<1> QED
  BY <1>5, <1>6

-----------------------------------------------------------------------------
(* The longest tail *)

(* Where a tail may start, from i on. *)
CutsFrom(messages, n, budget, i) == SafeCuts(messages, n, budget) \cap (i..(n - 1))
BestFrom(messages, n, budget, i) ==
  IF CutsFrom(messages, n, budget, i) = {} THEN n ELSE Min(CutsFrom(messages, n, budget, i))

InIdOrder(messages) == \A i, j \in DOMAIN messages : i < j => messages[i].id < messages[j].id

(* One message more is a cut or is not. *)
LEMMA BestGrows ==
  ASSUME NEW messages, NEW n \in Nat, NEW budget, NEW i \in 1..(n - 1)
  PROVE  BestFrom(messages, n, budget, i) =
           IF i \in SafeCuts(messages, n, budget) THEN i ELSE BestFrom(messages, n, budget, i + 1)
<1> DEFINE S == SafeCuts(messages, n, budget)
           C == CutsFrom(messages, n, budget, i)
           B == CutsFrom(messages, n, budget, i + 1)
<1>1. S \subseteq 1..(n - 1)
  BY DEF SafeCuts
<1>2. C = IF i \in S THEN B \cup {i} ELSE B
  BY DEF CutsFrom
<1>3. CASE i \in S
  <2>1. C \in SUBSET Nat /\ i \in C /\ \A x \in C : i <= x
    BY <1>1, <1>3 DEF CutsFrom
  <2> HIDE DEF C
  <2>2. Min(C) \in C /\ Min(C) <= i
    BY <2>1, MinIsIn
  <2>3. Min(C) \in Nat /\ i <= Min(C)
    BY <2>1, <2>2
  <2>4. Min(C) = i
    BY <2>2, <2>3
  <2>5. BestFrom(messages, n, budget, i) = IF C = {} THEN n ELSE Min(C)
    BY DEF BestFrom, C
  <2> QED
    BY <1>3, <2>1, <2>4, <2>5
<1>4. CASE i \notin S
  BY <1>2, <1>4 DEF BestFrom
<1> QED
  BY <1>3, <1>4

(* The same parts, one message more. *)
LEMMA PartsGrow ==
  ASSUME NEW messages \in Seq(Messages), NEW n \in 1..(Len(messages) + 1), NEW i \in 1..(n - 1)
  PROVE  /\ CallsIn(messages, i..(n - 1)) = CallsIn(messages, (i + 1)..(n - 1)) \cup messages[i].calls
         /\ AnswersIn(messages, i..(n - 1)) =
              IF messages[i].role = "toolResult"
              THEN AnswersIn(messages, (i + 1)..(n - 1)) \cup {messages[i].of}
              ELSE AnswersIn(messages, (i + 1)..(n - 1))
<1>1. Len(messages) \in Nat /\ DOMAIN messages = 1..Len(messages) /\ n \in Nat
  BY LenProperties
<1>2. i..(n - 1) = ((i + 1)..(n - 1)) \cup {i} /\ i \in DOMAIN messages
  BY <1>1
<1>3. CallsIn(messages, i..(n - 1)) = CallsIn(messages, (i + 1)..(n - 1)) \cup messages[i].calls
  BY <1>2 DEF CallsIn
<1>4. Positions(messages, "toolResult") \cap (i..(n - 1)) =
        IF messages[i].role = "toolResult"
        THEN (Positions(messages, "toolResult") \cap ((i + 1)..(n - 1))) \cup {i}
        ELSE Positions(messages, "toolResult") \cap ((i + 1)..(n - 1))
  BY <1>2 DEF Positions
<1>5. CASE messages[i].role = "toolResult"
  BY <1>3, <1>4, <1>5 DEF AnswersIn
<1>6. CASE messages[i].role # "toolResult"
  BY <1>3, <1>4, <1>6 DEF AnswersIn
<1> QED
  BY <1>5, <1>6

(* The calls of a part are its own messages', its results answer no later call. *)
LEMMA PartsInOrder ==
  ASSUME NEW messages \in Seq(Messages), InIdOrder(messages),
         NEW n \in 1..(Len(messages) + 1), NEW i \in 1..(n - 1)
  PROVE  /\ \A call \in CallsIn(messages, (i + 1)..(n - 1)) : messages[i].id < call[1]
         /\ messages[i].role = "toolResult" => messages[i].of[1] < messages[i].id
         /\ \A call \in messages[i].calls : call[1] = messages[i].id
         /\ messages[i].id \in Nat /\ (messages[i].role = "toolResult" => messages[i].of[1] \in Nat)
<1>1. /\ Len(messages) \in Nat /\ DOMAIN messages = 1..Len(messages) /\ n \in Nat
      /\ \A k \in DOMAIN messages : messages[k] \in Messages
  BY LenProperties, ElementOfSeq
<1>2. ASSUME NEW call \in CallsIn(messages, (i + 1)..(n - 1)) PROVE messages[i].id < call[1]
  <2>1. PICK k \in (i + 1)..(n - 1) : call \in messages[k].calls
    BY DEF CallsIn
  <2>2. k \in DOMAIN messages /\ i \in DOMAIN messages /\ i < k
    BY <1>1
  <2>3. call[1] = messages[k].id /\ messages[i].id < messages[k].id
    BY <1>1, <2>1, <2>2, CallsOfMessage DEF InIdOrder
  <2> QED
    BY <2>3
<1>3. i \in DOMAIN messages
  BY <1>1
<1>4. messages[i] \in Messages
  BY <1>1, <1>3
<1> QED
  BY <1>2, <1>4, CallsOfMessage

(* A longer part has at least the tokens of a shorter one. *)
LEMMA TokensGrow ==
  ASSUME NEW messages \in Seq(Messages), NEW n \in 1..(Len(messages) + 1),
         NEW i \in 1..(n - 1), NEW j \in 1..i
  PROVE  TokensIn(messages, i..(n - 1)) <= TokensIn(messages, j..(n - 1))
<1> DEFINE T(k) == TokensIn(messages, k..(n - 1))
           S == {d \in 0..(i - 1) : T(i) <= T(i - d)}
<1>1. Len(messages) \in Nat /\ n \in Nat
  BY LenProperties
<1>2. ASSUME NEW k \in 1..(n - 1), k + 1 \in 1..(n - 1)
      PROVE  T(k + 1) <= T(k) /\ T(k) \in Nat /\ T(k + 1) \in Nat
  <2>1. messages[k] \in Messages
    BY <1>1, ElementOfSeq
  <2>2. EstimateMessageTokens(messages[k]) \in Nat
    BY <2>1, CallsOfMessage
  <2>3. T(k) \in Nat /\ T(k + 1) \in Nat /\ T(k) = T(k + 1) + EstimateMessageTokens(messages[k])
    BY <1>2, TokensAdd
  <2> QED
    BY <2>2, <2>3
<1>3. \A k \in 1..(n - 1) : T(k) \in Nat
  BY TokensAdd
<1> HIDE DEF T
<1>4. 0 \in S
  <2>1. T(i) \in Nat /\ i - 0 = i /\ 0 \in 0..(i - 1)
    BY <1>1, <1>3
  <2> QED
    BY <2>1
<1>5. ASSUME NEW d \in 0..((i - 1) - 1), d \in S PROVE d + 1 \in S
  <2>1. /\ i - (d + 1) \in 1..(n - 1) /\ (i - (d + 1)) + 1 = i - d /\ i - d \in 1..(n - 1)
        /\ d + 1 \in 0..(i - 1)
    BY <1>1, <1>5
  <2>2. T(i - d) <= T(i - (d + 1)) /\ T(i - d) \in Nat /\ T(i - (d + 1)) \in Nat /\ T(i) \in Nat
    BY <1>2, <1>3, <2>1
  <2>3. T(i) <= T(i - d)
    BY <1>5
  <2> QED
    BY <2>1, <2>2, <2>3
<1>6. i - 1 \in Nat
  BY <1>1
<1> HIDE DEF S
<1>7. 0..(i - 1) \subseteq S
  BY <1>4, <1>5, <1>6, UpTo
<1>8. i - j \in S /\ i - (i - j) = j
  BY <1>1, <1>7
<1> QED
  BY <1>8 DEF S, T

(* What the walk knows when it has seen the last k messages in front of the marker. *)
WalkKnows(w, messages, n, budget, i) ==
  /\ w.best = BestFrom(messages, n, budget, i)
  /\ ~w.over => /\ w.tokens = TokensIn(messages, i..(n - 1))
                /\ CallsIn(messages, i..(n - 1)) \subseteq AnswersIn(messages, i..(n - 1))
                /\ w.unmatched = AnswersIn(messages, i..(n - 1)) \ CallsIn(messages, i..(n - 1))
  /\ w.over => \A j \in 1..(i - 1) : j \notin SafeCuts(messages, n, budget)

(* A walk that is over finds no cut any more: the tokens stay above the budget, a call without its
   result stays without. *)
LEMMA TooFarBack ==
  ASSUME NEW messages \in Seq(Messages), InIdOrder(messages), NEW budget \in Nat,
         NEW n \in 1..(Len(messages) + 1), NEW i \in 1..(n - 1),
         \/ TokensIn(messages, i..(n - 1)) > budget
         \/ ~(messages[i].calls \subseteq AnswersIn(messages, i..(n - 1)))
  PROVE  \A j \in 1..i : j \notin SafeCuts(messages, n, budget)
<1> SUFFICES ASSUME NEW j \in 1..i PROVE j \notin SafeCuts(messages, n, budget)
  OBVIOUS
<1>1. /\ Len(messages) \in Nat /\ DOMAIN messages = 1..Len(messages) /\ n \in Nat
      /\ \A k \in DOMAIN messages : messages[k] \in Messages
  BY LenProperties, ElementOfSeq
<1>2. j \in 1..(n - 1)
  BY <1>1
<1>3. CASE TokensIn(messages, i..(n - 1)) > budget
  <2>1. TokensIn(messages, i..(n - 1)) <= TokensIn(messages, j..(n - 1))
    BY TokensGrow
  <2>2. TokensIn(messages, i..(n - 1)) \in Nat /\ TokensIn(messages, j..(n - 1)) \in Nat
    BY <1>2, TokensAdd
  <2>3. ~(TokensIn(messages, j..(n - 1)) <= budget)
    BY <1>3, <2>1, <2>2
  <2> QED
    BY <2>3 DEF SafeCuts
<1>4. CASE ~(messages[i].calls \subseteq AnswersIn(messages, i..(n - 1)))
  <2>1. PICK call \in messages[i].calls : call \notin AnswersIn(messages, i..(n - 1))
    BY <1>4
  <2>2. i \in DOMAIN messages /\ call[1] = messages[i].id /\ messages[i].id \in Nat
    BY <1>1, <2>1, CallsOfMessage
  <2>3. ASSUME NEW k \in Positions(messages, "toolResult"), k \in j..(n - 1), messages[k].of = call
        PROVE  FALSE
    <3>1. k \in DOMAIN messages /\ messages[k].role = "toolResult"
      BY DEF Positions
    <3>2. messages[k].of[1] < messages[k].id /\ messages[k].id \in Nat
      BY <1>1, <3>1, CallsOfMessage
    <3>3. k \notin i..(n - 1)
      BY <2>1, <2>3 DEF AnswersIn
    <3>4. k < i
      BY <1>1, <2>3, <3>3, <3>1
    <3>5. messages[k].id < messages[i].id
      BY <2>2, <3>1, <3>4 DEF InIdOrder
    <3> QED
      BY <2>2, <2>3, <3>2, <3>5
  <2>4. call \notin AnswersIn(messages, j..(n - 1))
    BY <2>3 DEF AnswersIn
  <2>5. i \in j..(n - 1)
    BY <1>1
  <2>6. call \in CallsIn(messages, j..(n - 1))
    BY <2>1, <2>5 DEF CallsIn
  <2> QED
    BY <2>4, <2>6 DEF SafeCuts, StandsAlone
<1> QED
  BY <1>3, <1>4

LEMMA WalkGoesOn ==
  ASSUME NEW messages \in Seq(Messages), InIdOrder(messages), NEW budget \in Nat,
         NEW n \in 1..(Len(messages) + 1), NEW i \in 1..(n - 1), NEW w \in Walks,
         WalkKnows(w, messages, n, budget, i + 1)
  PROVE  WalkKnows(StepPairing(w, i, messages[i], budget), messages, n, budget, i)
<1> DEFINE m == messages[i]
           x == StepPairing(w, i, m, budget)
           S == SafeCuts(messages, n, budget)
           C == CallsIn(messages, (i + 1)..(n - 1))
           A == AnswersIn(messages, (i + 1)..(n - 1))
           Ci == CallsIn(messages, i..(n - 1))
           Ai == AnswersIn(messages, i..(n - 1))
           t == EstimateMessageTokens(m)
           T == TokensIn(messages, (i + 1)..(n - 1))
           Ti == TokensIn(messages, i..(n - 1))
           best == BestFrom(messages, n, budget, i + 1)
           A1 == IF m.role = "toolResult" THEN A \cup {m.of} ELSE A
<1>1. /\ Len(messages) \in Nat /\ DOMAIN messages = 1..Len(messages) /\ n \in Nat
      /\ \A k \in DOMAIN messages : messages[k] \in Messages
  BY LenProperties, ElementOfSeq
<1>2. m \in Messages /\ i \in Nat
  BY <1>1
<1>3. /\ t \in Nat /\ (m.calls # {} => m.role = "assistant")
  BY <1>2, CallsOfMessage
<1>4. Ti \in Nat /\ Ti = T + t
  BY TokensAdd
<1>5. Ci = C \cup m.calls /\ Ai = A1
  BY PartsGrow
<1>6. BestFrom(messages, n, budget, i) = IF i \in S THEN i ELSE best
  BY <1>1, BestGrows
<1>7. /\ \A call \in C : m.id < call[1]
      /\ m.role = "toolResult" => m.of[1] < m.id
      /\ \A call \in m.calls : call[1] = m.id
      /\ m.id \in Nat /\ (m.role = "toolResult" => m.of[1] \in Nat)
  BY PartsInOrder
<1>8. \A call \in C : call[1] \in Nat
  <2>1. ASSUME NEW call \in C PROVE call[1] \in Nat
    <3>1. PICK k \in (i + 1)..(n - 1) : call \in messages[k].calls
      BY DEF CallsIn
    <3>2. k \in DOMAIN messages
      BY <1>1
    <3>3. messages[k] \in Messages
      BY <1>1, <3>2
    <3> QED
      BY <3>1, <3>3, CallsOfMessage
  <2> QED
    BY <2>1
<1>9. m.calls \cap C = {} /\ (m.role = "toolResult" => m.of \notin C)
  BY <1>7, <1>8
<1>10. /\ w.best = best
       /\ ~w.over => w.tokens = T /\ C \subseteq A /\ w.unmatched = A \ C
       /\ w.over => \A j \in 1..i : j \notin S
  BY <1>1 DEF WalkKnows
<1>11. i \in S <=> m.role \notin {"assistant", "toolResult"} /\ Ti <= budget /\ Ci = Ai
  BY DEF SafeCuts, StandsAlone
<1>12. w.over \in BOOLEAN
  BY DEF Walks
<1>13. i \in 1..i /\ 1..(i - 1) \subseteq 1..i
  BY <1>2
<1>14. CASE w.over
  <2>1. x.best = w.best /\ x.over
    BY <1>14, <1>12 DEF StepPairing, Walks
  <2>2. \A j \in 1..i : j \notin S
    BY <1>10, <1>14
  <2>3. x.best = BestFrom(messages, n, budget, i) /\ \A j \in 1..(i - 1) : j \notin S
    BY <1>6, <1>10, <1>13, <2>1, <2>2
  <2> QED
    BY <2>1, <2>3 DEF WalkKnows
<1>15. CASE ~w.over /\ Ti > budget
  <2>1. w.tokens + t > budget
    BY <1>4, <1>10, <1>15
  <2>2. x.best = w.best /\ x.over
    BY <2>1, <1>12 DEF StepPairing, Walks
  <2>3. \A j \in 1..i : j \notin S
    BY <1>15, TooFarBack
  <2>4. x.best = BestFrom(messages, n, budget, i) /\ \A j \in 1..(i - 1) : j \notin S
    BY <1>6, <1>10, <1>13, <2>2, <2>3
  <2> QED
    BY <2>2, <2>4 DEF WalkKnows
<1>16. CASE ~w.over /\ ~(Ti > budget)
  <2> DEFINE results == IF m.role = "toolResult" THEN w.unmatched \cup {m.of} ELSE w.unmatched
             unmatched == results \ m.calls
             dangling == m.calls \ results # {}
             cut == m.role \notin {"assistant", "toolResult"} /\ unmatched = {}
  <2>1. w.tokens + t = Ti /\ ~(w.tokens + t > budget) /\ Ti <= budget
    BY <1>4, <1>10, <1>16
  <2>2. x = [over |-> dangling, tokens |-> w.tokens + t, unmatched |-> unmatched, dangling |-> dangling,
             best |-> IF cut THEN i ELSE w.best]
    BY <2>1, <1>16 DEF StepPairing
  <2>3. w.unmatched = A \ C /\ C \subseteq A
    BY <1>10, <1>16
  <2>4. results = Ai \ C
    BY <1>5, <1>9, <2>3
  <2>5. unmatched = Ai \ Ci
    BY <1>5, <2>4
  <2>6. dangling <=> ~(m.calls \subseteq Ai)
    BY <1>9, <2>4
  <2>7. ~dangling => Ci \subseteq Ai
    BY <1>5, <2>3, <2>6
  <2>8. m.role \notin {"assistant", "toolResult"} => ~dangling
    BY <1>3
  <2>9. cut <=> i \in S
    BY <1>11, <2>1, <2>5, <2>7, <2>8
  <2> HIDE DEF cut, unmatched, dangling, results
  <2>10. x.best = BestFrom(messages, n, budget, i)
    BY <1>6, <1>10, <2>2, <2>9
  <2>11. dangling => \A j \in 1..(i - 1) : j \notin S
    <3>1. dangling => \A j \in 1..i : j \notin S
      BY <2>6, TooFarBack
    <3> QED
      BY <1>13, <3>1
  <2>12. x.over = dangling /\ x.tokens = Ti /\ x.unmatched = Ai \ Ci
    BY <2>1, <2>2, <2>5
  <2> HIDE DEF x
  <2>13. WalkKnows(x, messages, n, budget, i)
    BY <2>7, <2>10, <2>11, <2>12 DEF WalkKnows
  <2> QED
    BY <2>13 DEF x
<1> QED
  BY <1>14, <1>15, <1>16

(* The walk's answer is the promised one. *)
LEMMA TailIsSelected ==
  ASSUME NEW messages \in Seq(Messages), InIdOrder(messages), NEW budget \in Nat,
         NEW n \in 1..(Len(messages) + 1)
  PROVE  SelectContextTail(messages, n, budget) =
           IF SafeCuts(messages, n, budget) = {} THEN n ELSE Min(SafeCuts(messages, n, budget))
<1>1. Len(messages) \in Nat /\ n \in Nat /\ n - 1 \in Nat
  BY LenProperties
<1>2. CutsFrom(messages, n, budget, 1) = SafeCuts(messages, n, budget)
  BY DEF CutsFrom, SafeCuts
<1>3. CASE budget = 0
  <2>1. SelectContextTail(messages, n, budget) = n
    BY <1>3 DEF SelectContextTail
  <2>2. ASSUME NEW i \in 1..(n - 1) PROVE ~(TokensIn(messages, i..(n - 1)) <= budget)
    <3>1. messages[i] \in Messages
      BY <1>1, ElementOfSeq
    <3>2. EstimateMessageTokens(messages[i]) \in Nat \ {0}
      BY <3>1, CallsOfMessage
    <3>3. /\ TokensIn(messages, i..(n - 1)) \in Nat
          /\ TokensIn(messages, i..(n - 1))
               = TokensIn(messages, (i + 1)..(n - 1)) + EstimateMessageTokens(messages[i])
      BY TokensAdd
    <3>4. TokensIn(messages, (i + 1)..(n - 1)) \in Nat
      <4>1. CASE i = n - 1
        <5>1. (i + 1)..(n - 1) = n..(n - 1)
          BY <1>1, <4>1
        <5> QED
          BY <5>1, TokensAdd
      <4>2. CASE i # n - 1
        <5>1. i + 1 \in 1..(n - 1)
          BY <1>1, <4>2
        <5> QED
          BY <5>1, TokensAdd
      <4> QED
        BY <4>1, <4>2
    <3> QED
      BY <1>3, <3>2, <3>3, <3>4
  <2>3. SafeCuts(messages, n, budget) = {}
    BY <2>2 DEF SafeCuts
  <2> QED
    BY <2>1, <2>3
<1>4. CASE budget # 0
  <2>1. PICK v : /\ Walked(v, messages, n, budget)
                 /\ SelectContextTail(messages, n, budget) = v[n - 1].best
    BY <1>4, WalkFolds
  <2> DEFINE S == {k \in 0..(n - 1) : WalkKnows(v[k], messages, n, budget, n - k)}
  <2>2. 0 \in S
    <3>1. v[0] = WalkStart(n) /\ n - 0 = n /\ 0 \in 0..(n - 1)
      BY <1>1, <2>1 DEF Walked
    <3>2. n..(n - 1) = {}
      BY <1>1
    <3>3. CutsFrom(messages, n, budget, n) = {}
      BY <3>2 DEF CutsFrom
    <3>4. TokensIn(messages, n..(n - 1)) = 0
      BY TokensAdd
    <3>5. CallsIn(messages, n..(n - 1)) = {} /\ AnswersIn(messages, n..(n - 1)) = {}
      BY <3>2 DEF CallsIn, AnswersIn
    <3>6. WalkKnows(WalkStart(n), messages, n, budget, n)
      BY <3>3, <3>4, <3>5 DEF WalkKnows, WalkStart, BestFrom
    <3> QED
      BY <3>1, <3>6
  <2>3. ASSUME NEW k \in 0..((n - 1) - 1), k \in S PROVE k + 1 \in S
    <3>1. /\ n - (k + 1) \in 1..(n - 1) /\ (n - (k + 1)) + 1 = n - k /\ k + 1 \in 1..(n - 1)
          /\ (k + 1) - 1 = k /\ k \in 0..(n - 1) /\ k + 1 \in 0..(n - 1)
      BY <1>1, <2>3
    <3>2. v[k] \in Walks
      BY <2>1, <3>1 DEF Walked
    <3>3. v[k + 1] = StepPairing(v[k], n - (k + 1), messages[n - (k + 1)], budget)
      BY <2>1, <3>1 DEF Walked
    <3>4. WalkKnows(v[k], messages, n, budget, (n - (k + 1)) + 1)
      BY <2>3, <3>1
    <3>5. WalkKnows(v[k + 1], messages, n, budget, n - (k + 1))
      BY <3>1, <3>2, <3>3, <3>4, WalkGoesOn
    <3> QED
      BY <3>1, <3>5
  <2> HIDE DEF S
  <2>4. 0..(n - 1) \subseteq S
    BY <1>1, <2>2, <2>3, UpTo
  <2>5. n - 1 \in S /\ n - (n - 1) = 1
    BY <1>1, <2>4
  <2>6. v[n - 1].best = BestFrom(messages, n, budget, 1)
    BY <2>5 DEF S, WalkKnows
  <2> QED
    BY <1>2, <2>1, <2>6 DEF BestFrom
<1> QED
  BY <1>3, <1>4

-----------------------------------------------------------------------------
(* The view *)

LEMMA LastOfPlaces ==
  ASSUME NEW n \in Nat, NEW I \in SUBSET (1..n), NEW at, at = IF I # {} THEN Max(I) ELSE 0
  PROVE  at \in 0..n /\ (at # 0 => at \in I) /\ \A x \in I : x <= at
<1>1. CASE I = {}
  BY <1>1
<1>2. CASE I # {}
  <2>1. at = Max(I)
    BY <1>2
  <2>2. at \in I /\ \A x \in I : x <= at
    BY <1>2, <2>1, MaxOfPlaces
  <2> QED
    BY <2>2
<1> QED
  BY <1>1, <1>2

(* The library's search, with its test put in. *)
LEMMA LastMarker ==
  ASSUME NEW messages \in Seq(Messages), NEW at, at = LastSwapMarkerIndex(messages)
  PROVE  at \in 0..Len(messages) /\ (at # 0 => messages[at].role = "marker")
<1> DEFINE I == {i \in 1..Len(messages) : messages[i].role = "marker"}
<1>1. at = IF I # {} THEN Max(I) ELSE 0
  BY DEF LastSwapMarkerIndex, SelectLastInSeq
<1>2. Len(messages) \in Nat /\ I \in SUBSET (1..Len(messages))
  BY LenProperties
<1>3. \A i \in I : messages[i].role = "marker"
  OBVIOUS
<1> HIDE DEF I
<1>4. at \in 0..Len(messages) /\ (at # 0 => at \in I)
  BY <1>1, <1>2, LastOfPlaces
<1> QED
  BY <1>3, <1>4

LEMMA LastAnswer ==
  ASSUME NEW messages \in Seq(Messages), NEW at, at = LastAssistantIndex(messages)
  PROVE  /\ at \in 0..Len(messages)
         /\ at # 0 => messages[at].role = "assistant"
         /\ \A i \in (at + 1)..Len(messages) : messages[i].role # "assistant"
<1> DEFINE I == {i \in 1..Len(messages) : messages[i].role = "assistant"}
<1>1. at = IF I # {} THEN Max(I) ELSE 0
  BY DEF LastAssistantIndex, SelectLastInSeq
<1>2. Len(messages) \in Nat /\ I \in SUBSET (1..Len(messages))
  BY LenProperties
<1>3. \A i \in 1..Len(messages) : i \in I <=> messages[i].role = "assistant"
  OBVIOUS
<1> HIDE DEF I
<1>4. at \in 0..Len(messages) /\ (at # 0 => at \in I) /\ \A x \in I : x <= at
  BY <1>1, <1>2, LastOfPlaces
<1>5. at # 0 => messages[at].role = "assistant"
  BY <1>2, <1>3, <1>4
<1>6. ASSUME NEW i \in (at + 1)..Len(messages) PROVE messages[i].role # "assistant"
  <2>1. i \in 1..Len(messages) /\ ~(i <= at)
    BY <1>2, <1>4
  <2> QED
    BY <1>3, <1>4, <2>1
<1> QED
  BY <1>4, <1>5, <1>6

(* Numbered as they came. *)
Numbered(messages) == \A i \in DOMAIN messages : messages[i].id = i

(* Messages of a numbered session, in its order. *)
Picked(messages, all) ==
  /\ messages \in Seq(Messages) /\ InIdOrder(messages)
  /\ \A i \in DOMAIN messages : messages[i].id \in DOMAIN all /\ messages[i] = all[messages[i].id]
IdsOf(messages) == {messages[i].id : i \in DOMAIN messages}

(* r is what the filter kept of the first k messages. *)
KeptOf(r, messages, k) ==
  /\ r \in Seq(Messages)
  /\ \A i \in 1..Len(r) : r[i].id \in 1..k /\ r[i] = messages[r[i].id] /\ r[i].role # "demand"
  /\ \A i, j \in 1..Len(r) : i < j => r[i].id < r[j].id
  /\ \A j \in 1..k : messages[j].role # "demand" => \E i \in 1..Len(r) : r[i].id = j

LEMMA KeepsOneMore ==
  ASSUME NEW messages \in Seq(Messages), Numbered(messages), NEW k \in 1..Len(messages),
         NEW r, KeptOf(r, messages, k - 1)
  PROVE  KeptOf(IF IsCapWarning(messages[k]) THEN r ELSE Append(r, messages[k]), messages, k)
<1> DEFINE m == messages[k]
           q == Append(r, m)
<1>1. /\ Len(messages) \in Nat /\ k \in Nat /\ k \in DOMAIN messages /\ m \in Messages /\ m.id = k
  BY LenProperties, ElementOfSeq DEF Numbered
<1>2. /\ r \in Seq(Messages) /\ Len(r) \in Nat
      /\ \A i \in 1..Len(r) : r[i].id \in 1..(k - 1) /\ r[i] = messages[r[i].id] /\ r[i].role # "demand"
      /\ \A i, j \in 1..Len(r) : i < j => r[i].id < r[j].id
      /\ \A j \in 1..(k - 1) : messages[j].role # "demand" => \E i \in 1..Len(r) : r[i].id = j
  BY LenProperties DEF KeptOf
<1>3. 1..(k - 1) \subseteq 1..k /\ 1..k = 1..(k - 1) \cup {k} /\ k \in 1..k
  BY <1>1
<1>4. CASE m.role = "demand"
  <2>1. \A j \in 1..k : messages[j].role # "demand" => j \in 1..(k - 1)
    BY <1>3, <1>4
  <2>2. \A i \in 1..Len(r) : r[i].id \in 1..k
    BY <1>2, <1>3
  <2>3. \A j \in 1..k : messages[j].role # "demand" => \E i \in 1..Len(r) : r[i].id = j
    BY <1>2, <2>1
  <2>4. KeptOf(r, messages, k)
    BY <1>2, <2>2, <2>3 DEF KeptOf
  <2> QED
    BY <1>4, <2>4 DEF IsCapWarning
<1>5. CASE m.role # "demand"
  <2>1. /\ q \in Seq(Messages) /\ Len(q) = Len(r) + 1 /\ \A i \in 1..Len(r) : q[i] = r[i]
        /\ q[Len(r) + 1] = m
    BY <1>1, <1>2, AppendProperties
  <2> HIDE DEF q
  <2>2. 1..Len(q) = 1..Len(r) \cup {Len(r) + 1}
    BY <1>2, <2>1
  <2>3. \A i \in 1..Len(q) : q[i].id \in 1..k /\ q[i] = messages[q[i].id] /\ q[i].role # "demand"
    <3>1. ASSUME NEW i \in 1..Len(r)
          PROVE  q[i].id \in 1..k /\ q[i] = messages[q[i].id] /\ q[i].role # "demand"
      BY <1>2, <1>3, <2>1
    <3>2. ASSUME NEW i, i = Len(r) + 1
          PROVE  q[i].id \in 1..k /\ q[i] = messages[q[i].id] /\ q[i].role # "demand"
      BY <1>1, <1>3, <1>5, <2>1, <3>2
    <3> QED
      BY <2>2, <3>1, <3>2
  <2>4. \A i, j \in 1..Len(q) : i < j => q[i].id < q[j].id
    <3> SUFFICES ASSUME NEW i \in 1..Len(q), NEW j \in 1..Len(q), i < j PROVE q[i].id < q[j].id
      OBVIOUS
    <3>1. i \in 1..Len(r) /\ q[i] = r[i] /\ r[i].id \in 1..(k - 1)
      <4>1. i \in 1..Len(r)
        BY <1>2, <2>1
      <4> QED
        BY <1>2, <2>1, <4>1
    <3>2. CASE j \in 1..Len(r)
      BY <1>2, <2>1, <3>1, <3>2
    <3>3. CASE j = Len(r) + 1
      <4>1. q[j].id = k
        BY <1>1, <2>1, <3>3
      <4> QED
        BY <1>1, <3>1, <4>1
    <3> QED
      BY <2>2, <3>2, <3>3
  <2>5. \A j \in 1..k : messages[j].role # "demand" => \E i \in 1..Len(q) : q[i].id = j
    <3>1. ASSUME NEW j \in 1..(k - 1), messages[j].role # "demand" PROVE \E i \in 1..Len(q) : q[i].id = j
      <4>1. PICK i \in 1..Len(r) : r[i].id = j
        BY <1>2, <3>1
      <4>2. i \in 1..Len(q) /\ q[i] = r[i]
        BY <2>1, <2>2
      <4> QED
        BY <4>1, <4>2
    <3>2. Len(r) + 1 \in 1..Len(q) /\ q[Len(r) + 1].id = k
      BY <1>1, <2>1, <2>2
    <3> QED
      BY <1>3, <3>1, <3>2
  <2>6. KeptOf(q, messages, k)
    BY <2>1, <2>3, <2>4, <2>5 DEF KeptOf
  <2> QED
    BY <1>5, <2>6 DEF IsCapWarning, q
<1> QED
  BY <1>4, <1>5

LEMMA DemandsAreLeftOut ==
  ASSUME NEW messages \in Seq(Messages), Numbered(messages)
  PROVE  KeptOf(WithoutCapWarnings(messages), messages, Len(messages))
<1> DEFINE T == Seq(Messages)
           P == DOMAIN messages
           Op(kept, m) == IF IsCapWarning(m) THEN kept ELSE Append(kept, m)
           Is(g) == g = [s \in SUBSET P |->
                           IF s = {} THEN <<>> ELSE Op(g[s \ {Max(s)}], messages[Max(s)])]
           iter == CHOOSE g : Is(g)
           F == [p \in T \X Messages |-> Op(p[1], p[2])]
<1>1. /\ Len(messages) \in Nat /\ P = 1..Len(messages) /\ \A i \in P : messages[i] \in Messages
  BY LenProperties, ElementOfSeq
<1>2. WithoutCapWarnings(messages) = iter[P]
  BY DEF WithoutCapWarnings, FoldLeft, MapThenFoldSet
<1>3. <<>> \in T
  BY EmptySeq
<1>4. F \in [T \X Messages -> T]
  <2>1. ASSUME NEW r \in T, NEW m \in Messages PROVE Op(r, m) \in T
    BY AppendProperties
  <2> QED
    BY <2>1
<1>5. \A r \in T, m \in Messages : F[<<r, m>>] = Op(r, m)
  OBVIOUS
<1>6. \A s \in SUBSET P : s # {} => Max(s) \in P /\ messages[Max(s)] \in Messages
  <2>1. \A s \in SUBSET P : s # {} => Max(s) \in P
    BY <1>1, MaxOfPlaces
  <2> QED
    BY <1>1, <2>1
<1> HIDE DEF F, Op, P, T
<1>7. PICK g \in [SUBSET P -> T] : FoldsTo(g, T, F, <<>>, messages)
  BY <1>3, <1>4, FoldOfPlaces DEF P
<1>8. Is(g)
  <2>1. ASSUME NEW s \in SUBSET P, s # {} PROVE g[s] = Op(g[s \ {Max(s)}], messages[Max(s)])
    <3>1. g[s \ {Max(s)}] \in T /\ messages[Max(s)] \in Messages
      BY <1>6, <2>1
    <3> QED
      BY <1>5, <1>7, <2>1, <3>1 DEF FoldsTo, P
  <2>2. g = [s \in SUBSET P |-> g[s]] /\ g[{}] = <<>>
    BY <1>7 DEF FoldsTo
  <2> QED
    BY <2>1, <2>2
<1> HIDE DEF iter
<1>9. Is(iter)
  <2> HIDE DEF Is
  <2> QED
    BY <1>8 DEF iter
<1>10. /\ iter[{}] = <<>>
       /\ \A s \in SUBSET P : s # {} => iter[s] = Op(iter[s \ {Max(s)}], messages[Max(s)])
  BY <1>9
<1> HIDE DEF Is
<1>11. FoldsTo(iter, T, F, <<>>, messages)
  BY <1>5, <1>6, <1>10 DEF FoldsTo, P
<1>12. StepsTo(iter[P], T, F, <<>>, messages)
  BY <1>3, <1>4, <1>11, FoldIsSteps DEF P
<1>13. PICK v : FoldSteps(v, T, F, <<>>, messages) /\ iter[P] = v[Len(messages)]
  BY <1>12 DEF StepsTo
<1>14. /\ v \in [0..Len(messages) -> T] /\ v[0] = <<>>
       /\ \A k \in 1..Len(messages) : v[k] = F[<<v[k - 1], messages[k]>>]
  BY <1>13 DEF FoldSteps
<1> DEFINE S == {k \in 0..Len(messages) : KeptOf(v[k], messages, k)}
<1>15. 0 \in S
  <2>1. 1..0 = {} /\ Len(<<>>) = 0 /\ <<>> \in Seq(Messages)
    BY EmptySeq
  <2>2. KeptOf(<<>>, messages, 0)
    BY <2>1 DEF KeptOf
  <2> QED
    BY <1>1, <1>14, <2>2
<1>16. ASSUME NEW k \in 0..(Len(messages) - 1), k \in S PROVE k + 1 \in S
  <2>1. k + 1 \in 1..Len(messages) /\ (k + 1) - 1 = k /\ k \in 0..Len(messages) /\ k + 1 \in 0..Len(messages)
    BY <1>1
  <2>2. v[k] \in T /\ messages[k + 1] \in Messages
    BY <1>1, <1>14, <2>1
  <2>3. v[k + 1] = F[<<v[k], messages[k + 1]>>]
    BY <1>14, <2>1
  <2>4. v[k + 1] = Op(v[k], messages[k + 1])
    BY <1>5, <2>2, <2>3
  <2>5. KeptOf(v[k], messages, (k + 1) - 1)
    BY <1>16, <2>1
  <2>6. KeptOf(v[k + 1], messages, k + 1)
    BY <2>1, <2>4, <2>5, KeepsOneMore DEF Op
  <2> QED
    BY <2>1, <2>6
<1> HIDE DEF S
<1>17. 0..Len(messages) \subseteq S
  BY <1>1, <1>15, <1>16, UpTo
<1>18. Len(messages) \in S
  BY <1>1, <1>17
<1> QED
  BY <1>2, <1>13, <1>18 DEF S

(* What ascends up to a number, and goes on from there, ascends. *)
LEMMA JoinAscends ==
  ASSUME NEW ids, NEW F \in Nat, NEW N \in Nat, NEW at \in Nat,
         \A i \in 1..F : ids[i] \in 1..(at - 1),
         \A i, j \in 1..F : i < j => ids[i] < ids[j],
         \A d \in 1..N : ids[F + d] = at + d - 1
  PROVE  \A i, j \in 1..(F + N) : i < j => ids[i] < ids[j]
<1> SUFFICES ASSUME NEW i \in 1..(F + N), NEW j \in 1..(F + N), i < j PROVE ids[i] < ids[j]
  OBVIOUS
<1>1. CASE j <= F
  <2>1. i \in 1..F /\ j \in 1..F
    BY <1>1
  <2> QED
    BY <2>1
<1>2. CASE ~(j <= F)
  <2>1. j - F \in 1..N /\ F + (j - F) = j
    BY <1>2
  <2>2. ids[j] = at + (j - F) - 1
    BY <2>1
  <2>3. CASE i <= F
    <3>1. ids[i] \in 1..(at - 1)
      BY <2>3
    <3> QED
      BY <2>1, <2>2, <3>1
  <2>4. CASE ~(i <= F)
    <3>1. i - F \in 1..N /\ F + (i - F) = i
      BY <2>4
    <3>2. ids[i] = at + (i - F) - 1
      BY <3>1
    <3> QED
      BY <2>2, <3>2
  <2> QED
    BY <2>3, <2>4
<1> QED
  BY <1>1, <1>2

(* In front of the marker without its demands, then the marker and what is behind it. *)
LEMMA KeptInOrder ==
  ASSUME NEW messages \in Seq(Messages), Numbered(messages),
         NEW at \in 1..Len(messages), messages[at].role = "marker",
         NEW front, front = WithoutCapWarnings(SubSeq(messages, 1, at - 1)),
         NEW kept, kept = front \o SubSeq(messages, at, Len(messages))
  PROVE  /\ Picked(kept, messages)
         /\ Len(front) + 1 \in 1..Len(kept) /\ kept[Len(front) + 1].role = "marker"
         /\ \A p \in DOMAIN messages : messages[p].role # "demand" => p \in IdsOf(kept)
<1> DEFINE a == SubSeq(messages, 1, at - 1)
           b == SubSeq(messages, at, Len(messages))
           L == Len(messages)
           F == Len(front)
<1>1. /\ L \in Nat /\ DOMAIN messages = 1..L /\ at \in Nat /\ at - 1 \in Nat
      /\ \A i \in 1..L : messages[i] \in Messages /\ messages[i].id = i
  BY LenProperties, ElementOfSeq DEF Numbered
<1>2. a \in Seq(Messages) /\ Len(a) = at - 1 /\ \A i \in 1..(at - 1) : a[i] = messages[i]
  <2>1. \A i \in 1..(at - 1) : messages[i] \in Messages
    BY <1>1
  <2>2. /\ a \in Seq(Messages) /\ Len(a) = IF 1 <= at - 1 THEN (at - 1) - 1 + 1 ELSE 0
        /\ \A i \in 1..((at - 1) - 1 + 1) : a[i] = messages[1 + i - 1]
    BY <1>1, <2>1, SubSeqProperties
  <2> HIDE DEF a
  <2> QED
    BY <1>1, <2>2
<1>3. b \in Seq(Messages) /\ Len(b) = L - at + 1 /\ \A i \in 1..(L - at + 1) : b[i] = messages[at + i - 1]
  <2>1. \A i \in at..L : messages[i] \in Messages
    BY <1>1
  <2>2. /\ b \in Seq(Messages) /\ Len(b) = IF at <= L THEN L - at + 1 ELSE 0
        /\ \A i \in 1..(L - at + 1) : b[i] = messages[at + i - 1]
    BY <1>1, <2>1, SubSeqProperties
  <2> HIDE DEF b
  <2> QED
    BY <1>1, <2>2
<1> HIDE DEF a, b, L
<1>4. KeptOf(front, a, at - 1)
  <2>1. Numbered(a)
    <3>1. DOMAIN a = 1..(at - 1)
      BY <1>2, LenProperties
    <3>2. \A i \in 1..(at - 1) : a[i].id = i
      BY <1>1, <1>2
    <3> QED
      BY <3>1, <3>2 DEF Numbered
  <2>2. KeptOf(WithoutCapWarnings(a), a, Len(a))
    BY <1>2, <2>1, DemandsAreLeftOut
  <2> QED
    BY <1>2, <2>2 DEF a
<1>5. front \in Seq(Messages) /\ F \in Nat
  BY <1>4, LenProperties DEF KeptOf
<1>6. \A i \in 1..F : front[i].id \in 1..(at - 1) /\ front[i] = messages[front[i].id]
  BY <1>2, <1>4 DEF KeptOf
<1>7. \A i, j \in 1..F : i < j => front[i].id < front[j].id
  BY <1>4 DEF KeptOf
<1>8. \A j \in 1..(at - 1) : messages[j].role # "demand" => \E i \in 1..F : front[i].id = j
  BY <1>2, <1>4 DEF KeptOf
<1> HIDE DEF F
<1>9. /\ kept \in Seq(Messages) /\ Len(kept) = F + (L - at + 1)
      /\ \A i \in 1..(F + (L - at + 1)) : kept[i] = IF i <= F THEN front[i] ELSE b[i - F]
  BY <1>3, <1>5, ConcatProperties DEF F, b, L
<1>10. /\ DOMAIN kept = 1..(F + (L - at + 1))
       /\ \A i \in 1..F : i \in DOMAIN kept /\ kept[i] = front[i]
       /\ \A i \in 1..(L - at + 1) : F + i \in DOMAIN kept /\ kept[F + i] = messages[at + i - 1]
       /\ \A i \in DOMAIN kept : i \in 1..F \/ \E d \in 1..(L - at + 1) : i = F + d
  <2>1. DOMAIN kept = 1..(F + (L - at + 1))
    BY <1>9, LenProperties
  <2>2. L - at + 1 \in Nat
    BY <1>1 DEF L
  <2>3. ASSUME NEW i \in 1..F PROVE i \in DOMAIN kept /\ kept[i] = front[i]
    <3>1. i \in 1..(F + (L - at + 1)) /\ i <= F
      BY <1>5, <2>2
    <3> QED
      BY <1>9, <2>1, <3>1
  <2>4. ASSUME NEW i \in 1..(L - at + 1) PROVE F + i \in DOMAIN kept /\ kept[F + i] = messages[at + i - 1]
    <3>1. F + i \in 1..(F + (L - at + 1)) /\ ~(F + i <= F) /\ (F + i) - F = i
      BY <1>5, <2>2
    <3> QED
      BY <1>3, <1>9, <2>1, <3>1
  <2>5. ASSUME NEW i \in DOMAIN kept, i \notin 1..F PROVE \E d \in 1..(L - at + 1) : i = F + d
    <3>1. i - F \in 1..(L - at + 1) /\ i = F + (i - F)
      BY <1>5, <2>1, <2>2, <2>5
    <3> QED
      BY <3>1
  <2> QED
    BY <2>1, <2>3, <2>4, <2>5
<1>11. \A i \in 1..(L - at + 1) :
         kept[F + i].id = at + i - 1 /\ at + i - 1 \in 1..L /\ kept[F + i] = messages[at + i - 1]
  BY <1>1, <1>10 DEF L
<1>12. \A i \in DOMAIN kept : kept[i].id \in 1..L /\ kept[i] = messages[kept[i].id]
  <2>1. 1..(at - 1) \subseteq 1..L
    BY <1>1 DEF L
  <2>2. ASSUME NEW i \in 1..F PROVE kept[i].id \in 1..L /\ kept[i] = messages[kept[i].id]
    BY <1>6, <1>10, <2>1
  <2>3. ASSUME NEW i \in 1..(L - at + 1)
        PROVE  kept[F + i].id \in 1..L /\ kept[F + i] = messages[kept[F + i].id]
    BY <1>11
  <2> QED
    BY <1>10, <2>2, <2>3
<1>13. \A i, j \in DOMAIN kept : i < j => kept[i].id < kept[j].id
  <2> DEFINE ids == [i \in DOMAIN kept |-> kept[i].id]
             N == L - at + 1
  <2>1. N \in Nat /\ DOMAIN kept = 1..(F + N)
    BY <1>1, <1>10 DEF L
  <2>2. \A i \in DOMAIN kept : ids[i] = kept[i].id
    OBVIOUS
  <2>3. \A i \in 1..F : ids[i] \in 1..(at - 1)
    BY <1>6, <1>10, <2>2
  <2>4. \A i, j \in 1..F : i < j => ids[i] < ids[j]
    <3>1. \A i \in 1..F : ids[i] = front[i].id
      BY <1>10, <2>2
    <3> HIDE DEF ids
    <3> QED
      BY <1>7, <3>1
  <2>5. \A d \in 1..N : ids[F + d] = at + d - 1
    BY <1>10, <1>11, <2>2
  <2> HIDE DEF ids, N
  <2>6. \A i, j \in 1..(F + N) : i < j => ids[i] < ids[j]
    BY <1>1, <1>5, <2>1, <2>3, <2>4, <2>5, JoinAscends
  <2>7. ASSUME NEW i \in DOMAIN kept, NEW j \in DOMAIN kept, i < j PROVE kept[i].id < kept[j].id
    <3>1. ids[i] < ids[j]
      BY <2>1, <2>6, <2>7, Zenon
    <3>2. ids[i] = kept[i].id /\ ids[j] = kept[j].id
      BY <2>2
    <3> QED
      BY <3>1, <3>2, Zenon
  <2> QED
    BY <2>7
<1>14. F + 1 \in 1..Len(kept) /\ kept[F + 1].role = "marker"
  <2>1. 1 \in 1..(L - at + 1) /\ at + 1 - 1 = at
    BY <1>1 DEF L
  <2>2. F + 1 \in DOMAIN kept /\ kept[F + 1] = messages[at]
    BY <1>10, <2>1
  <2> QED
    BY <1>9, <1>10, <2>2
<1>15. ASSUME NEW p \in DOMAIN messages, messages[p].role # "demand" PROVE p \in IdsOf(kept)
  <2>1. CASE p \in 1..(at - 1)
    <3>1. PICK i \in 1..F : front[i].id = p
      BY <1>8, <1>15, <2>1
    <3>2. i \in DOMAIN kept /\ kept[i].id = p
      BY <1>10, <3>1
    <3> QED
      BY <3>2 DEF IdsOf
  <2>2. CASE p \notin 1..(at - 1)
    <3>1. p - at + 1 \in 1..(L - at + 1) /\ at + (p - at + 1) - 1 = p
      BY <1>1, <2>2 DEF L
    <3>2. F + (p - at + 1) \in DOMAIN kept /\ kept[F + (p - at + 1)].id = p
      BY <1>10, <1>11, <3>1
    <3> QED
      BY <3>2 DEF IdsOf
  <2> QED
    BY <2>1, <2>2
<1>16. Picked(kept, messages)
  BY <1>1, <1>9, <1>12, <1>13 DEF Picked, InIdOrder, L
<1> QED
  BY <1>14, <1>15, <1>16 DEF F

(* An answer is there with all its results, or with none. *)
TurnsWhole(messages, all) ==
  \A q, p \in DOMAIN all :
    q < p /\ all[q].role = "assistant" /\ (q + 1)..p \subseteq Positions(all, "toolResult")
      => (q \in IdsOf(messages) <=> p \in IdsOf(messages))

(* A tail that starts at a message that refers to nothing parts no answer from its results. *)
LEMMA TailOfPicked ==
  ASSUME NEW all \in Seq(Messages), NEW kept, Picked(kept, all),
         \A p \in DOMAIN all : all[p].role # "demand" => p \in IdsOf(kept),
         NEW c \in 1..Len(kept), kept[c].role \notin {"assistant", "toolResult"},
         NEW tail, tail = SubSeq(kept, c, Len(kept))
  PROVE  Picked(tail, all) /\ TurnsWhole(tail, all)
<1> DEFINE L == Len(kept)
<1>1. /\ kept \in Seq(Messages) /\ L \in Nat /\ DOMAIN kept = 1..L /\ c \in Nat
      /\ \A i \in 1..L : kept[i] \in Messages
      /\ \A i, j \in 1..L : i < j => kept[i].id < kept[j].id
      /\ \A i \in 1..L : kept[i].id \in DOMAIN all /\ kept[i] = all[kept[i].id]
      /\ DOMAIN all = 1..Len(all) /\ Len(all) \in Nat
  BY LenProperties, ElementOfSeq DEF Picked, InIdOrder
<1>2. /\ tail \in Seq(Messages) /\ DOMAIN tail = 1..(L - c + 1)
      /\ \A i \in 1..(L - c + 1) : tail[i] = kept[c + i - 1] /\ c + i - 1 \in c..L /\ c + i - 1 \in 1..L
  <2>1. \A i \in c..L : kept[i] \in Messages
    BY <1>1
  <2>2. /\ tail \in Seq(Messages) /\ Len(tail) = IF c <= L THEN L - c + 1 ELSE 0
        /\ \A i \in 1..(L - c + 1) : tail[i] = kept[c + i - 1]
    BY <1>1, <2>1, SubSeqProperties
  <2>3. DOMAIN tail = 1..(L - c + 1)
    BY <1>1, <2>2, LenProperties
  <2>4. \A i \in 1..(L - c + 1) : c + i - 1 \in c..L /\ c + i - 1 \in 1..L
    BY <1>1
  <2> QED
    BY <2>2, <2>3, <2>4
<1>3. Picked(tail, all)
  <2>1. ASSUME NEW i \in DOMAIN tail, NEW j \in DOMAIN tail, i < j PROVE tail[i].id < tail[j].id
    <3>1. c + i - 1 < c + j - 1 /\ c + i - 1 \in 1..L /\ c + j - 1 \in 1..L
      BY <1>1, <1>2, <2>1
    <3> QED
      BY <1>1, <1>2, <3>1
  <2>2. \A i \in DOMAIN tail : tail[i].id \in DOMAIN all /\ tail[i] = all[tail[i].id]
    BY <1>1, <1>2
  <2> QED
    BY <1>2, <2>1, <2>2 DEF Picked, InIdOrder
<1> DEFINE x == kept[c].id
<1>4. x \in DOMAIN all /\ all[x].role \notin {"assistant", "toolResult"}
  BY <1>1
<1>5. \A i \in 1..L : kept[i].id \in Nat
  BY <1>1
<1>6. \A p \in IdsOf(tail) : p \in IdsOf(kept) /\ x <= p
  <2>1. ASSUME NEW i \in DOMAIN tail PROVE tail[i].id \in IdsOf(kept) /\ x <= tail[i].id
    <3>1. c + i - 1 \in 1..L /\ tail[i] = kept[c + i - 1] /\ (c = c + i - 1 \/ c < c + i - 1)
      BY <1>1, <1>2
    <3>2. x <= kept[c + i - 1].id
      BY <1>1, <1>5, <3>1
    <3> QED
      BY <1>1, <3>1, <3>2 DEF IdsOf
  <2> QED
    BY <2>1 DEF IdsOf
<1>7. \A p \in IdsOf(kept) : x <= p => p \in IdsOf(tail)
  <2>1. ASSUME NEW k \in 1..L, x <= kept[k].id PROVE kept[k].id \in IdsOf(tail)
    <3>1. ~(k < c)
      BY <1>1, <1>5, <2>1
    <3>2. k - c + 1 \in 1..(L - c + 1) /\ c + (k - c + 1) - 1 = k
      BY <1>1, <3>1
    <3>3. tail[k - c + 1] = kept[k] /\ k - c + 1 \in DOMAIN tail
      BY <1>2, <3>2
    <3> QED
      BY <3>3 DEF IdsOf
  <2> QED
    BY <1>1, <2>1 DEF IdsOf
<1> HIDE DEF x
<1>8. ASSUME NEW q \in DOMAIN all, NEW p \in DOMAIN all, q < p, all[q].role = "assistant",
             (q + 1)..p \subseteq Positions(all, "toolResult")
      PROVE  q \in IdsOf(tail) <=> p \in IdsOf(tail)
  <2>1. q \in Nat /\ p \in Nat /\ x \in Nat
    BY <1>1, <1>4
  <2>2. p \in Positions(all, "toolResult")
    BY <1>8, <2>1
  <2>3. q \in IdsOf(kept) /\ p \in IdsOf(kept)
    BY <1>8, <2>2 DEF Positions
  <2>4. x \notin (q + 1)..p
    BY <1>4, <1>8 DEF Positions
  <2>5. x <= q <=> x <= p
    BY <1>8, <2>1, <2>4
  <2> QED
    BY <1>6, <1>7, <2>3, <2>5
<1> QED
  BY <1>3, <1>8 DEF TurnsWhole

(* The answer at q made the call of the result at p, and is picked when the result is. *)
MadeTheCall(all, messages, q, p) ==
  /\ q \in DOMAIN all /\ q \in Nat /\ p \in Nat
  /\ all[p].of \in all[q].calls
  /\ (q + 1)..(p - 1) \subseteq Positions(all, "toolResult")
  /\ q \in IdsOf(messages) <=> p \in IdsOf(messages)

(* What is picked so keeps its results with their calls, and lacks no result it could have. *)
LEMMA WholeIsPaired ==
  ASSUME NEW all \in Seq(Messages), Numbered(all), ResultsFollow(all),
         NEW messages, Picked(messages, all), TurnsWhole(messages, all)
  PROVE  /\ ResultsFollow(messages)
         /\ AnswersIn(all, DOMAIN all) \cap CallsIn(messages, DOMAIN messages)
              \subseteq AnswersIn(messages, DOMAIN messages)
<1>1. /\ messages \in Seq(Messages) /\ DOMAIN messages = 1..Len(messages) /\ Len(messages) \in Nat
      /\ \A i \in DOMAIN messages : messages[i] \in Messages
      /\ \A i, j \in DOMAIN messages : i < j => messages[i].id < messages[j].id
      /\ \A i \in DOMAIN messages : messages[i].id \in DOMAIN all /\ messages[i] = all[messages[i].id]
      /\ DOMAIN all = 1..Len(all) /\ Len(all) \in Nat
      /\ \A i \in DOMAIN all : all[i] \in Messages /\ all[i].id = i
  BY LenProperties, ElementOfSeq DEF Picked, InIdOrder, Numbered
(* The answer of a result is there when the result is, and the other way round. *)
<1>2. ASSUME NEW p \in Positions(all, "toolResult")
      PROVE  \E q \in 1..(p - 1) : MadeTheCall(all, messages, q, p)
  <2>1. PICK q \in 1..(p - 1) : /\ all[p].of \in all[q].calls
                                /\ (q + 1)..(p - 1) \subseteq Positions(all, "toolResult")
    BY DEF ResultsFollow
  <2>2. p \in DOMAIN all /\ q \in DOMAIN all /\ q \in Nat /\ p \in Nat /\ q < p
    BY <1>1 DEF Positions
  <2>3. all[q].role = "assistant"
    <3>1. all[q] \in Messages /\ all[q].calls # {}
      BY <1>1, <2>1, <2>2
    <3> QED
      BY <3>1, CallsOfMessage
  <2>4. (q + 1)..p \subseteq Positions(all, "toolResult")
    <3>1. (q + 1)..p \subseteq (q + 1)..(p - 1) \cup {p}
      BY <2>2
    <3> QED
      BY <2>1, <3>1
  <2>5. q \in IdsOf(messages) <=> p \in IdsOf(messages)
    BY <2>2, <2>3, <2>4 DEF TurnsWhole
  <2> QED
    BY <2>1, <2>2, <2>5 DEF MadeTheCall
<1>3. \A i \in DOMAIN messages : messages[i].id \in Nat
  BY <1>1
<1>4. \A i, j \in DOMAIN messages : messages[i].id < messages[j].id => i < j
  <2>1. ASSUME NEW i \in DOMAIN messages, NEW j \in DOMAIN messages,
               messages[i].id < messages[j].id, ~(i < j)
        PROVE  FALSE
    <3>1. i = j \/ j < i
      BY <1>1, <2>1
    <3> QED
      BY <1>1, <1>3, <2>1, <3>1
  <2> QED
    BY <2>1
<1>5. ASSUME NEW i \in Positions(messages, "toolResult")
      PROVE  \E j \in 1..(i - 1) : /\ messages[i].of \in messages[j].calls
                                  /\ (j + 1)..(i - 1) \subseteq Positions(messages, "toolResult")
  <2> DEFINE p == messages[i].id
  <2>1. i \in DOMAIN messages /\ messages[i].role = "toolResult" /\ i \in Nat
    BY <1>1 DEF Positions
  <2>2. p \in Positions(all, "toolResult") /\ messages[i] = all[p] /\ p \in IdsOf(messages)
    BY <1>1, <2>1 DEF Positions, IdsOf
  <2>3. PICK q \in 1..(p - 1) : MadeTheCall(all, messages, q, p)
    BY <1>2, <2>2
  <2>9. /\ q \in DOMAIN all /\ q \in Nat /\ p \in Nat /\ q < p
        /\ all[p].of \in all[q].calls
        /\ (q + 1)..(p - 1) \subseteq Positions(all, "toolResult")
        /\ q \in IdsOf(messages) <=> p \in IdsOf(messages)
    BY <2>3 DEF MadeTheCall
  <2>4. PICK j \in DOMAIN messages : messages[j].id = q
    BY <2>2, <2>9 DEF IdsOf
  <2>5. messages[j] = all[q] /\ messages[i].of \in messages[j].calls
    BY <1>1, <2>2, <2>9, <2>4
  <2>6. q < p
    BY <2>9
  <2>7. j \in 1..(i - 1)
    <3>1. j < i /\ j \in 1..Len(messages)
      BY <1>1, <1>4, <2>1, <2>4, <2>6
    <3> QED
      BY <1>1, <2>1, <3>1
  <2>8. ASSUME NEW k \in (j + 1)..(i - 1) PROVE k \in Positions(messages, "toolResult")
    <3>1. k \in DOMAIN messages /\ j < k /\ k < i
      BY <1>1, <2>1, <2>7
    <3>2. q < messages[k].id /\ messages[k].id < p /\ messages[k].id \in Nat
      BY <1>1, <1>3, <2>1, <2>4, <3>1
    <3>3. messages[k].id \in (q + 1)..(p - 1)
      BY <2>9, <3>2
    <3>4. all[messages[k].id].role = "toolResult"
      BY <2>9, <3>3 DEF Positions
    <3> QED
      BY <1>1, <3>1, <3>4 DEF Positions
  <2> QED
    BY <2>5, <2>7, <2>8
<1>6. ASSUME NEW i \in Positions(messages, "toolResult"), NEW j \in Positions(messages, "toolResult"),
             messages[i].of = messages[j].of
      PROVE  i = j
  <2>1. i \in DOMAIN messages /\ j \in DOMAIN messages
    BY DEF Positions
  <2>2. /\ messages[i].id \in Positions(all, "toolResult") /\ messages[j].id \in Positions(all, "toolResult")
        /\ all[messages[i].id].of = all[messages[j].id].of
    BY <1>1, <1>6, <2>1 DEF Positions
  <2>3. messages[i].id = messages[j].id
    BY <2>2 DEF ResultsFollow
  <2>4. ~(i < j) /\ ~(j < i)
    BY <1>1, <1>3, <2>1, <2>3
  <2> QED
    BY <1>1, <2>1, <2>4
<1>7. ASSUME NEW call \in AnswersIn(all, DOMAIN all) \cap CallsIn(messages, DOMAIN messages)
      PROVE  call \in AnswersIn(messages, DOMAIN messages)
  <2>1. PICK i \in DOMAIN messages : call \in messages[i].calls
    BY DEF CallsIn
  <2>2. PICK p \in Positions(all, "toolResult") : all[p].of = call
    BY DEF AnswersIn
  <2>3. PICK q \in 1..(p - 1) : MadeTheCall(all, messages, q, p)
    BY <1>2
  <2>10. q \in DOMAIN all /\ all[p].of \in all[q].calls /\ (q \in IdsOf(messages) <=> p \in IdsOf(messages))
    BY <2>3 DEF MadeTheCall
  <2>4. call[1] = messages[i].id
    BY <1>1, <2>1, CallsOfMessage
  <2>5. call[1] = q
    BY <1>1, <2>2, <2>10, CallsOfMessage
  <2>6. p \in IdsOf(messages)
    BY <2>10, <2>4, <2>5 DEF IdsOf
  <2>7. PICK j \in DOMAIN messages : messages[j].id = p
    BY <2>6 DEF IdsOf
  <2>8. messages[j] = all[p]
    BY <1>1, <2>7
  <2>9. j \in Positions(messages, "toolResult") \cap DOMAIN messages /\ messages[j].of = call
    BY <2>2, <2>7, <2>8 DEF Positions
  <2> QED
    BY <2>9 DEF AnswersIn
<1>8. ResultsFollow(messages)
  BY <1>5, <1>6 DEF ResultsFollow
<1>9. AnswersIn(all, DOMAIN all) \cap CallsIn(messages, DOMAIN messages)
        \subseteq AnswersIn(messages, DOMAIN messages)
  BY <1>7
<1> QED
  BY <1>8, <1>9

(* Where a selected tail starts: at the marker, or at a message of the front that refers to
   nothing. *)
LEMMA TailStarts ==
  ASSUME NEW kept \in Seq(Messages), InIdOrder(kept), NEW budget \in Nat,
         NEW n \in 1..Len(kept), kept[n].role = "marker"
  PROVE  /\ SelectContextTail(kept, n, budget) \in 1..Len(kept)
         /\ kept[SelectContextTail(kept, n, budget)].role \notin {"assistant", "toolResult"}
<1> DEFINE S == SafeCuts(kept, n, budget)
           c == SelectContextTail(kept, n, budget)
<1>1. Len(kept) \in Nat /\ n \in Nat /\ n \in 1..(Len(kept) + 1)
  BY LenProperties
<1>2. c = IF S = {} THEN n ELSE Min(S)
  BY <1>1, TailIsSelected
<1>3. S \in SUBSET Nat /\ \A i \in S : i \in 1..(n - 1) /\ kept[i].role \notin {"assistant", "toolResult"}
  BY DEF SafeCuts
<1> HIDE DEF S, c
<1>4. CASE S = {}
  BY <1>2, <1>4 DEF c
<1>5. CASE S # {}
  <2>1. c = Min(S)
    BY <1>2, <1>5
  <2>2. Min(S) \in S
    BY <1>3, <1>5, MinIsIn
  <2>3. c \in 1..(n - 1) /\ kept[c].role \notin {"assistant", "toolResult"}
    BY <1>3, <2>1, <2>2
  <2>4. c \in 1..Len(kept)
    BY <1>1, <2>3
  <2> QED
    BY <2>3, <2>4 DEF c
<1> QED
  BY <1>4, <1>5

(* A model is never sent a result without its call, nor, of calls that have been answered, a call
   without its result. *)
LEMMA ViewIsWhole ==
  ASSUME NEW messages \in Seq(Messages), Numbered(messages), NEW budget \in Nat
  PROVE  Picked(View(messages, budget), messages) /\ TurnsWhole(View(messages, budget), messages)
<1>1. PICK at : at = LastSwapMarkerIndex(messages)
  OBVIOUS
<1>2. at \in 0..Len(messages) /\ (at # 0 => messages[at].role = "marker")
  BY <1>1, LastMarker
<1>3. Len(messages) \in Nat /\ DOMAIN messages = 1..Len(messages)
  BY LenProperties
<1>4. CASE at = 0
  <2>1. View(messages, budget) = messages
    BY <1>1, <1>4 DEF View
  <2>2. Picked(messages, messages)
    BY <1>3 DEF Picked, InIdOrder, Numbered
  <2>3. IdsOf(messages) = DOMAIN messages
    BY DEF IdsOf, Numbered
  <2>4. TurnsWhole(messages, messages)
    BY <2>3 DEF TurnsWhole
  <2> QED
    BY <2>1, <2>2, <2>4
<1>5. CASE at # 0
  <2>1. PICK front : front = WithoutCapWarnings(SubSeq(messages, 1, at - 1))
    OBVIOUS
  <2>2. PICK kept : kept = front \o SubSeq(messages, at, Len(messages))
    OBVIOUS
  <2>3. PICK c : c = SelectContextTail(kept, Len(front) + 1, budget)
    OBVIOUS
  <2>4. View(messages, budget) = SubSeq(kept, c, Len(kept))
    BY <1>1, <1>5, <2>1, <2>2, <2>3 DEF View
  <2>5. at \in 1..Len(messages) /\ messages[at].role = "marker"
    BY <1>2, <1>3, <1>5
  <2>6. /\ Picked(kept, messages)
        /\ Len(front) + 1 \in 1..Len(kept) /\ kept[Len(front) + 1].role = "marker"
        /\ \A p \in DOMAIN messages : messages[p].role # "demand" => p \in IdsOf(kept)
    BY <2>1, <2>2, <2>5, KeptInOrder
  <2>7. c \in 1..Len(kept) /\ kept[c].role \notin {"assistant", "toolResult"}
    BY <2>3, <2>6, TailStarts DEF Picked
  <2> QED
    BY <2>4, <2>6, <2>7, TailOfPicked
<1> QED
  BY <1>4, <1>5

-----------------------------------------------------------------------------
(* One message more *)

Fits(messages, k) == \A i \in DOMAIN messages : messages[i].id <= k

(* The open calls are the last answer's, whatever runs. *)
LastOpen(messages, open) ==
  open # {} =>
    \E at \in DOMAIN messages :
      /\ open \subseteq messages[at].calls /\ messages[at].stop = "toolUse"
      /\ (at + 1)..Len(messages) \subseteq Positions(messages, "toolResult")
      /\ open \cap AnswersIn(messages, DOMAIN messages) = {}

(* No result of a call that is there is missing. *)
NothingLost(all, messages) ==
  AnswersIn(all, DOMAIN all) \cap CallsIn(messages, DOMAIN messages)
    \subseteq AnswersIn(messages, DOMAIN messages)

(* longer is messages and m behind them. *)
Grown(longer, messages, m) ==
  /\ longer \in Seq(Messages) /\ Len(longer) = Len(messages) + 1 /\ Len(messages) \in Nat
  /\ DOMAIN messages = 1..Len(messages)
  /\ DOMAIN longer = DOMAIN messages \cup {Len(messages) + 1}
  /\ Len(messages) + 1 \notin DOMAIN messages
  /\ \A i \in DOMAIN messages : longer[i] = messages[i] /\ i \in DOMAIN longer
  /\ longer[Len(messages) + 1] = m
  /\ Positions(longer, "toolResult") =
       IF m.role = "toolResult" THEN Positions(messages, "toolResult") \cup {Len(messages) + 1}
       ELSE Positions(messages, "toolResult")
  /\ AnswersIn(longer, DOMAIN longer) =
       IF m.role = "toolResult" THEN AnswersIn(messages, DOMAIN messages) \cup {m.of}
       ELSE AnswersIn(messages, DOMAIN messages)
  /\ CallsIn(longer, DOMAIN longer) = CallsIn(messages, DOMAIN messages) \cup m.calls

LEMMA Appended ==
  ASSUME NEW messages \in Seq(Messages), NEW m \in Messages
  PROVE  Grown(Append(messages, m), messages, m)
<1> SUFFICES ASSUME NEW longer, longer = Append(messages, m) PROVE Grown(longer, messages, m)
  OBVIOUS
<1> DEFINE L == Len(messages)
           D == DOMAIN messages
           P == Positions(messages, "toolResult")
<1>1. /\ L \in Nat /\ D = 1..L
      /\ longer \in Seq(Messages) /\ Len(longer) = L + 1 /\ longer[L + 1] = m
      /\ \A i \in 1..L : longer[i] = messages[i]
  BY AppendProperties, LenProperties
<1>2. DOMAIN longer = 1..(L + 1)
  BY <1>1, LenProperties
<1> HIDE DEF L
<1>3. DOMAIN longer = D \cup {L + 1} /\ L + 1 \notin D
  BY <1>1, <1>2
<1>4. \A i \in D : longer[i] = messages[i] /\ i \in DOMAIN longer
  BY <1>1, <1>3
<1> HIDE DEF D
<1>5. Positions(longer, "toolResult") = IF m.role = "toolResult" THEN P \cup {L + 1} ELSE P
  <2>1. \A i \in DOMAIN longer : longer[i].role = "toolResult"
                               <=> \/ (i \in D /\ messages[i].role = "toolResult")
                                   \/ (i = L + 1 /\ m.role = "toolResult")
    BY <1>1, <1>3, <1>4
  <2>2. P = {i \in D : messages[i].role = "toolResult"}
    BY DEF Positions, D
  <2> QED
    BY <1>3, <2>1, <2>2 DEF Positions
<1>6. AnswersIn(longer, DOMAIN longer) =
        IF m.role = "toolResult" THEN AnswersIn(messages, D) \cup {m.of} ELSE AnswersIn(messages, D)
  <2>1. P \subseteq D
    BY DEF Positions, D
  <2>2. AnswersIn(messages, D) = {messages[i].of : i \in P}
    <3>1. P \cap D = P
      BY <2>1
    <3> QED
      BY <3>1 DEF AnswersIn
  <2>3. AnswersIn(longer, DOMAIN longer) = {longer[i].of : i \in Positions(longer, "toolResult")}
    <3>1. Positions(longer, "toolResult") \cap DOMAIN longer = Positions(longer, "toolResult")
      BY DEF Positions
    <3> QED
      BY <3>1 DEF AnswersIn
  <2> HIDE DEF P
  <2>4. CASE m.role = "toolResult"
    <3>1. Positions(longer, "toolResult") = P \cup {L + 1}
      BY <1>5, <2>4
    <3>2. {longer[i].of : i \in P \cup {L + 1}} = {messages[i].of : i \in P} \cup {m.of}
      BY <1>1, <1>4, <2>1
    <3> QED
      BY <2>2, <2>3, <2>4, <3>1, <3>2
  <2>5. CASE m.role # "toolResult"
    <3>1. Positions(longer, "toolResult") = P
      BY <1>5, <2>5
    <3>2. {longer[i].of : i \in P} = {messages[i].of : i \in P}
      BY <1>4, <2>1
    <3> QED
      BY <2>2, <2>3, <2>5, <3>1, <3>2
  <2> QED
    BY <2>4, <2>5
<1>7. CallsIn(longer, DOMAIN longer) = CallsIn(messages, D) \cup m.calls
  BY <1>1, <1>3, <1>4 DEF CallsIn
<1> QED
  BY <1>1, <1>3, <1>4, <1>5, <1>6, <1>7 DEF L, D, Grown

(* What is not a result parts nothing. *)
LEMMA PlainFollows ==
  ASSUME NEW messages \in Seq(Messages), NEW m \in Messages, m.role # "toolResult",
         ResultsFollow(messages), NEW longer, Grown(longer, messages, m)
  PROVE  ResultsFollow(longer)
<1>1. /\ Positions(longer, "toolResult") = Positions(messages, "toolResult")
      /\ \A i \in DOMAIN messages : longer[i] = messages[i]
      /\ DOMAIN messages = 1..Len(messages) /\ Len(messages) \in Nat
  BY DEF Grown
<1>2. \A i \in Positions(longer, "toolResult") : i \in DOMAIN messages /\ i \in Positions(messages, "toolResult")
  BY <1>1 DEF Positions
<1>3. ASSUME NEW i \in Positions(longer, "toolResult")
      PROVE  \E j \in 1..(i - 1) : /\ longer[i].of \in longer[j].calls
                                  /\ (j + 1)..(i - 1) \subseteq Positions(longer, "toolResult")
  <2>1. PICK j \in 1..(i - 1) : /\ messages[i].of \in messages[j].calls
                                /\ (j + 1)..(i - 1) \subseteq Positions(messages, "toolResult")
    BY <1>2 DEF ResultsFollow
  <2>2. j \in DOMAIN messages
    BY <1>1, <1>2
  <2> QED
    BY <1>1, <1>2, <2>1, <2>2
<1>4. \A i, j \in Positions(longer, "toolResult") : longer[i].of = longer[j].of => i = j
  BY <1>1, <1>2 DEF ResultsFollow
<1> QED
  BY <1>3, <1>4 DEF ResultsFollow

(* The result of an open call follows its answer. *)
LEMMA ResultCloses ==
  ASSUME NEW messages \in Seq(Messages), NEW m \in Messages, m.role = "toolResult",
         ResultsFollow(messages), NEW open, LastOpen(messages, open), m.of \in open,
         NEW longer, Grown(longer, messages, m)
  PROVE  ResultsFollow(longer) /\ LastOpen(longer, open \ {m.of})
<1> DEFINE L == Len(messages)
           P == Positions(messages, "toolResult")
           Q == Positions(longer, "toolResult")
<1>1. /\ L \in Nat /\ DOMAIN messages = 1..L /\ Len(longer) = L + 1
      /\ DOMAIN longer = DOMAIN messages \cup {L + 1}
      /\ \A i \in DOMAIN messages : longer[i] = messages[i]
      /\ longer[L + 1] = m /\ Q = P \cup {L + 1}
      /\ AnswersIn(longer, DOMAIN longer) = AnswersIn(messages, DOMAIN messages) \cup {m.of}
  BY DEF Grown
<1>2. P \subseteq DOMAIN messages
  BY DEF Positions
<1>3. PICK at \in DOMAIN messages :
        /\ open \subseteq messages[at].calls /\ messages[at].stop = "toolUse"
        /\ (at + 1)..L \subseteq P
        /\ open \cap AnswersIn(messages, DOMAIN messages) = {}
  BY DEF LastOpen
<1> HIDE DEF L, P, Q
<1>4. at \in Nat /\ at \in 1..((L + 1) - 1) /\ (at + 1)..(L + 1) \subseteq Q
      /\ (at + 1)..((L + 1) - 1) \subseteq Q
  <2>1. at \in Nat /\ at \in 1..((L + 1) - 1) /\ (L + 1) - 1 = L
    BY <1>1
  <2>2. (at + 1)..(L + 1) \subseteq (at + 1)..L \cup {L + 1}
    BY <1>1, <2>1
  <2> QED
    BY <1>1, <1>3, <2>1, <2>2
<1>5. ASSUME NEW i \in Q
      PROVE  \E j \in 1..(i - 1) : longer[i].of \in longer[j].calls /\ (j + 1)..(i - 1) \subseteq Q
  <2>1. CASE i = L + 1
    BY <1>1, <1>3, <1>4, <2>1
  <2>2. CASE i \in P
    <3>1. PICK j \in 1..(i - 1) : messages[i].of \in messages[j].calls /\ (j + 1)..(i - 1) \subseteq P
      BY <2>2 DEF ResultsFollow, P
    <3>2. i \in DOMAIN messages /\ j \in DOMAIN messages
      BY <1>1, <1>2, <2>2
    <3> QED
      BY <1>1, <3>1, <3>2
  <2> QED
    BY <1>1, <2>1, <2>2
<1>6. ASSUME NEW i \in P PROVE longer[i].of # m.of /\ longer[i] = messages[i]
  <2>1. i \in DOMAIN messages /\ longer[i] = messages[i]
    BY <1>1, <1>2
  <2>2. messages[i].of \in AnswersIn(messages, DOMAIN messages)
    BY <2>1 DEF AnswersIn, P
  <2> QED
    BY <1>3, <2>1, <2>2
<1>7. ASSUME NEW i \in Q, NEW j \in Q, longer[i].of = longer[j].of PROVE i = j
  <2>1. CASE i \in P /\ j \in P
    BY <1>6, <1>7, <2>1 DEF ResultsFollow, P
  <2> QED
    BY <1>1, <1>6, <1>7, <2>1
<1>8. ResultsFollow(longer)
  BY <1>5, <1>7 DEF ResultsFollow, Q
<1>9. LastOpen(longer, open \ {m.of})
  <2>1. at \in DOMAIN longer /\ longer[at] = messages[at]
    BY <1>1
  <2>2. (open \ {m.of}) \cap AnswersIn(longer, DOMAIN longer) = {}
    BY <1>1, <1>3
  <2> QED
    BY <1>1, <1>3, <1>4, <2>1, <2>2 DEF LastOpen, Q
<1> QED
  BY <1>8, <1>9

(* Answers name earlier messages only. *)
LEMMA AnswersAreEarlier ==
  ASSUME NEW messages \in Seq(Messages), NEW k \in Nat, Fits(messages, k)
  PROVE  \A call \in AnswersIn(messages, DOMAIN messages) : call \in Calls /\ call[1] \in Nat /\ call[1] < k
<1> SUFFICES ASSUME NEW call \in AnswersIn(messages, DOMAIN messages)
             PROVE  call \in Calls /\ call[1] \in Nat /\ call[1] < k
  OBVIOUS
<1>1. PICK i \in Positions(messages, "toolResult") : call = messages[i].of
  BY DEF AnswersIn
<1>2. i \in DOMAIN messages /\ messages[i].role = "toolResult" /\ i \in 1..Len(messages)
  BY LenProperties DEF Positions
<1>3. messages[i] \in Messages
  BY <1>2, ElementOfSeq
<1>4. /\ messages[i].of \in Calls /\ messages[i].of[1] \in Nat
      /\ messages[i].of[1] < messages[i].id /\ messages[i].id \in Nat
  BY <1>2, <1>3, CallsOfMessage
<1>5. messages[i].id <= k
  BY <1>2 DEF Fits
<1> QED
  BY <1>1, <1>4, <1>5

(* A new answer's calls are open, none has been answered. *)
LEMMA AnswerOpens ==
  ASSUME NEW messages \in Seq(Messages), NEW m \in Messages, m.role = "assistant", m.stop = "toolUse",
         NEW k \in Nat, Fits(messages, k), m.id = k + 1,
         NEW longer, Grown(longer, messages, m)
  PROVE  LastOpen(longer, m.calls)
<1> DEFINE L == Len(messages)
<1>1. /\ L \in Nat /\ Len(longer) = L + 1 /\ L + 1 \in DOMAIN longer /\ longer[L + 1] = m
      /\ AnswersIn(longer, DOMAIN longer) = AnswersIn(messages, DOMAIN messages)
  BY DEF Grown
<1>2. ASSUME NEW call \in m.calls, call \in AnswersIn(messages, DOMAIN messages) PROVE FALSE
  <2>1. call[1] = k + 1
    BY CallsOfMessage
  <2>2. call[1] < k /\ call[1] \in Nat
    BY <1>2, AnswersAreEarlier
  <2> QED
    BY <2>1, <2>2
<1>3. ((L + 1) + 1)..Len(longer) = {}
  BY <1>1
<1> HIDE DEF L
<1> QED
  BY <1>1, <1>2, <1>3 DEF LastOpen

(* The next number keeps the order. *)
LEMMA NextFits ==
  ASSUME NEW messages \in Seq(Messages), NEW m \in Messages, InIdOrder(messages),
         NEW k \in Nat, Fits(messages, k), m.id = k + 1,
         NEW longer, Grown(longer, messages, m)
  PROVE  InIdOrder(longer) /\ Fits(longer, k + 1)
<1> DEFINE L == Len(messages)
<1>1. /\ L \in Nat /\ DOMAIN messages = 1..L
      /\ DOMAIN longer = DOMAIN messages \cup {L + 1}
      /\ \A i \in DOMAIN messages : longer[i] = messages[i]
      /\ longer[L + 1] = m
  BY DEF Grown
<1>2. \A i \in DOMAIN messages : messages[i].id \in Nat /\ messages[i].id <= k
  <2>1. \A i \in DOMAIN messages : messages[i] \in Messages
    BY <1>1, ElementOfSeq
  <2> QED
    BY <2>1, CallsOfMessage DEF Fits
<1> HIDE DEF L
<1>3. ASSUME NEW i \in DOMAIN longer, NEW j \in DOMAIN longer, i < j PROVE longer[i].id < longer[j].id
  <2>1. i \in DOMAIN messages
    BY <1>1, <1>3
  <2>2. CASE j \in DOMAIN messages
    BY <1>1, <1>3, <2>1, <2>2 DEF InIdOrder
  <2>3. CASE j = L + 1
    <3>1. longer[j].id = k + 1
      BY <1>1, <2>3
    <3>2. longer[i].id \in Nat /\ longer[i].id <= k
      BY <1>1, <1>2, <2>1
    <3> QED
      BY <3>1, <3>2
  <2> QED
    BY <1>1, <2>2, <2>3
<1>4. ASSUME NEW i \in DOMAIN longer PROVE longer[i].id <= k + 1
  <2>1. CASE i \in DOMAIN messages
    <3>1. longer[i].id \in Nat /\ longer[i].id <= k
      BY <1>1, <1>2, <2>1
    <3> QED
      BY <3>1
  <2>2. CASE i = L + 1
    BY <1>1, <2>2
  <2> QED
    BY <1>1, <2>1, <2>2
<1> QED
  BY <1>3, <1>4 DEF InIdOrder, Fits

(* A message that ends ends for both. *)
LEMMA BothGrow ==
  ASSUME NEW all \in Seq(Messages), NEW messages \in Seq(Messages), NEW m \in Messages,
         NEW k \in Nat, Fits(all, k), m.id = k + 1, NothingLost(all, messages),
         NEW more, Grown(more, all, m), NEW longer, Grown(longer, messages, m)
  PROVE  NothingLost(more, longer)
<1> DEFINE A == AnswersIn(all, DOMAIN all)
           B == AnswersIn(messages, DOMAIN messages)
           C == CallsIn(messages, DOMAIN messages)
           X == IF m.role = "toolResult" THEN {m.of} ELSE {}
<1>1. AnswersIn(more, DOMAIN more) = A \cup X
  <2>1. AnswersIn(more, DOMAIN more) = IF m.role = "toolResult" THEN A \cup {m.of} ELSE A
    BY DEF Grown
  <2> QED
    BY <2>1
<1>2. AnswersIn(longer, DOMAIN longer) = B \cup X /\ CallsIn(longer, DOMAIN longer) = C \cup m.calls
  <2>1. /\ AnswersIn(longer, DOMAIN longer) = IF m.role = "toolResult" THEN B \cup {m.of} ELSE B
        /\ CallsIn(longer, DOMAIN longer) = C \cup m.calls
    BY DEF Grown
  <2> QED
    BY <2>1
<1>3. A \cap m.calls = {}
  <2>1. ASSUME NEW call \in m.calls, call \in A PROVE FALSE
    <3>1. call[1] = k + 1
      BY CallsOfMessage
    <3>2. call[1] < k /\ call[1] \in Nat
      BY <2>1, AnswersAreEarlier
    <3> QED
      BY <3>1, <3>2
  <2> QED
    BY <2>1
<1>4. A \cap C \subseteq B
  BY DEF NothingLost
<1> HIDE DEF A, B, C, X
<1> QED
  BY <1>1, <1>2, <1>3, <1>4 DEF NothingLost

-----------------------------------------------------------------------------
(* Session and fork *)

(* all is the session, messages the fork, open the calls that run, at the loop's place. *)
Story(all, messages, open, place) ==
  /\ all \in Seq(Messages) /\ Numbered(all) /\ ResultsFollow(all) /\ LastOpen(all, open)
  /\ messages \in Seq(Messages) /\ InIdOrder(messages)
  /\ ResultsFollow(messages) /\ LastOpen(messages, open)
  /\ NothingLost(all, messages)
  /\ place # "ready" => Fits(messages, Len(all))
  /\ place \in Loops /\ open \subseteq Calls /\ (open # {} => place = "tools")

LEMMA NothingOpen ==
  ASSUME NEW messages
  PROVE  LastOpen(messages, {})
BY DEF LastOpen

LEMMA NumberedFits ==
  ASSUME NEW all \in Seq(Messages), Numbered(all)
  PROVE  Fits(all, Len(all)) /\ InIdOrder(all) /\ Len(all) \in Nat
<1>1. DOMAIN all = 1..Len(all) /\ Len(all) \in Nat
  BY LenProperties
<1> QED
  BY <1>1 DEF Numbered, Fits, InIdOrder

LEMMA NumberedGrows ==
  ASSUME NEW all \in Seq(Messages), Numbered(all), NEW m \in Messages, m.id = Len(all) + 1,
         NEW more, Grown(more, all, m)
  PROVE  Numbered(more)
BY DEF Numbered, Grown

(* A message that ends, other than a result. *)
LEMMA StoryPlain ==
  ASSUME NEW all, NEW messages, NEW place, Story(all, messages, {}, place), place # "ready",
         NEW m \in Messages, m.id = Len(all) + 1, m.role # "toolResult",
         NEW more, Grown(more, all, m), NEW longer, Grown(longer, messages, m),
         NEW open, NEW next \in Loops, open \subseteq Calls, open # {} => next = "tools",
         open # {} => open = m.calls /\ m.role = "assistant" /\ m.stop = "toolUse"
  PROVE  Story(more, longer, open, next)
<1>1. /\ all \in Seq(Messages) /\ Numbered(all) /\ ResultsFollow(all)
      /\ messages \in Seq(Messages) /\ InIdOrder(messages) /\ ResultsFollow(messages)
      /\ NothingLost(all, messages) /\ Fits(messages, Len(all))
  BY DEF Story
<1>2. Fits(all, Len(all)) /\ Len(all) \in Nat
  BY <1>1, NumberedFits
<1>3. more \in Seq(Messages) /\ longer \in Seq(Messages) /\ Len(more) = Len(all) + 1
  BY DEF Grown
<1>4. Numbered(more)
  BY <1>1, NumberedGrows
<1>5. ResultsFollow(more) /\ ResultsFollow(longer)
  BY <1>1, PlainFollows
<1>6. InIdOrder(longer) /\ Fits(longer, Len(more))
  <2>1. InIdOrder(longer) /\ Fits(longer, Len(all) + 1)
    BY <1>1, <1>2, NextFits
  <2> QED
    BY <1>3, <2>1
<1>7. NothingLost(more, longer)
  BY <1>1, <1>2, BothGrow
<1>8. LastOpen(more, open) /\ LastOpen(longer, open)
  <2>1. CASE open = {}
    BY <2>1, NothingOpen
  <2>2. CASE open # {}
    <3>1. open = m.calls /\ m.role = "assistant" /\ m.stop = "toolUse"
      BY <2>2
    <3>2. LastOpen(more, m.calls) /\ LastOpen(longer, m.calls)
      BY <1>1, <1>2, <3>1, AnswerOpens
    <3> QED
      BY <3>1, <3>2
  <2> QED
    BY <2>1, <2>2
<1> QED
  BY <1>3, <1>4, <1>5, <1>6, <1>7, <1>8 DEF Story

(* A call that ends. *)
LEMMA StoryResult ==
  ASSUME NEW all, NEW messages, NEW open, Story(all, messages, open, "tools"),
         NEW m \in Messages, m.id = Len(all) + 1, m.role = "toolResult", m.of \in open,
         NEW more, Grown(more, all, m), NEW longer, Grown(longer, messages, m),
         NEW next \in Loops, open \ {m.of} # {} => next = "tools"
  PROVE  Story(more, longer, open \ {m.of}, next)
<1>1. /\ all \in Seq(Messages) /\ Numbered(all) /\ ResultsFollow(all) /\ LastOpen(all, open)
      /\ messages \in Seq(Messages) /\ InIdOrder(messages) /\ ResultsFollow(messages)
      /\ LastOpen(messages, open)
      /\ NothingLost(all, messages) /\ Fits(messages, Len(all)) /\ open \subseteq Calls
  BY DEF Story
<1>2. Fits(all, Len(all)) /\ Len(all) \in Nat
  BY <1>1, NumberedFits
<1>3. more \in Seq(Messages) /\ longer \in Seq(Messages) /\ Len(more) = Len(all) + 1
  BY DEF Grown
<1>4. Numbered(more)
  BY <1>1, NumberedGrows
<1>5. ResultsFollow(more) /\ LastOpen(more, open \ {m.of})
  BY <1>1, ResultCloses
<1>6. ResultsFollow(longer) /\ LastOpen(longer, open \ {m.of})
  BY <1>1, ResultCloses
<1>7. InIdOrder(longer) /\ Fits(longer, Len(more))
  <2>1. InIdOrder(longer) /\ Fits(longer, Len(all) + 1)
    BY <1>1, <1>2, NextFits
  <2> QED
    BY <1>3, <2>1
<1>8. NothingLost(more, longer)
  BY <1>1, <1>2, BothGrow
<1> QED
  BY <1>1, <1>3, <1>4, <1>5, <1>6, <1>7, <1>8 DEF Story

(* A boundary entry is the session's alone. *)
LEMMA StoryBoundary ==
  ASSUME NEW all, NEW messages, NEW place, Story(all, messages, {}, place), place # "ready",
         NEW m \in Messages, m.id = Len(all) + 1, m.role # "toolResult",
         NEW more, Grown(more, all, m), NEW next \in Loops
  PROVE  Story(more, messages, {}, next)
<1>1. /\ all \in Seq(Messages) /\ Numbered(all) /\ ResultsFollow(all)
      /\ messages \in Seq(Messages) /\ InIdOrder(messages) /\ ResultsFollow(messages)
      /\ NothingLost(all, messages) /\ Fits(messages, Len(all))
  BY DEF Story
<1>2. /\ more \in Seq(Messages) /\ Len(more) = Len(all) + 1
      /\ AnswersIn(more, DOMAIN more) = AnswersIn(all, DOMAIN all)
  BY DEF Grown
<1>3. Numbered(more) /\ ResultsFollow(more)
  BY <1>1, NumberedGrows, PlainFollows
<1>4. NothingLost(more, messages)
  BY <1>1, <1>2 DEF NothingLost
<1>5. Fits(messages, Len(more))
  <2>1. \A i \in DOMAIN messages : messages[i].id \in Nat
    <3>1. \A i \in DOMAIN messages : messages[i] \in Messages
      BY <1>1, LenProperties, ElementOfSeq
    <3> QED
      BY <3>1, CallsOfMessage
  <2>2. Len(all) \in Nat
    BY <1>1, NumberedFits
  <2> QED
    BY <1>1, <1>2, <2>1, <2>2 DEF Fits
<1> QED
  BY <1>1, <1>2, <1>3, <1>4, <1>5, NothingOpen DEF Story

LEMMA StoryGoesOn ==
  ASSUME NEW all, NEW messages, NEW place, Story(all, messages, {}, place), place # "ready",
         NEW next \in Loops
  PROVE  Story(all, messages, {}, next)
BY DEF Story

(* A request forgets what the fork was. *)
LEMMA StoryRequest ==
  ASSUME NEW all, NEW messages, NEW place, Story(all, messages, {}, place), NEW budget \in Nat,
         NEW next \in Loops
  PROVE  Story(all, View(all, budget), {}, next) /\ View(all, budget) \in Seq(Messages)
<1> DEFINE view == View(all, budget)
<1>1. all \in Seq(Messages) /\ Numbered(all) /\ ResultsFollow(all)
  BY DEF Story
<1>2. Picked(view, all) /\ TurnsWhole(view, all)
  BY <1>1, ViewIsWhole
<1> HIDE DEF view
<1>3. ResultsFollow(view) /\ NothingLost(all, view)
  BY <1>1, <1>2, WholeIsPaired DEF NothingLost
<1>4. view \in Seq(Messages) /\ InIdOrder(view) /\ \A i \in DOMAIN view : view[i].id \in DOMAIN all
  BY <1>2 DEF Picked
<1>5. Fits(view, Len(all))
  <2>1. DOMAIN all = 1..Len(all) /\ Len(all) \in Nat
    BY <1>1, LenProperties
  <2> QED
    BY <1>4, <2>1 DEF Fits
<1>6. Story(all, view, {}, next)
  BY <1>1, <1>3, <1>4, <1>5, NothingOpen DEF Story
<1> QED
  BY <1>4, <1>6 DEF view

(* A retry drops the last answer, the fork keeps it until the next request. *)
LEMMA StoryRetry ==
  ASSUME NEW all, NEW messages, NEW place, Story(all, messages, {}, place), all # <<>>,
         NEW less, less = Front(all)
  PROVE  Story(less, messages, {}, "ready")
<1> DEFINE L == Len(all)
<1>1. /\ all \in Seq(Messages) /\ Numbered(all) /\ ResultsFollow(all)
      /\ messages \in Seq(Messages) /\ InIdOrder(messages) /\ ResultsFollow(messages)
      /\ NothingLost(all, messages)
  BY DEF Story
<1>2. L \in Nat /\ DOMAIN all = 1..L /\ L # 0 /\ \A i \in 1..L : all[i] \in Messages
  BY <1>1, LenProperties, ElementOfSeq, EmptySeq
<1>3. /\ less \in Seq(Messages) /\ DOMAIN less = 1..(L - 1)
      /\ \A i \in 1..(L - 1) : less[i] = all[i] /\ i \in DOMAIN all
  <2>1. \A i \in 1..(L - 1) : all[i] \in Messages /\ i \in DOMAIN all
    BY <1>2
  <2>2. /\ SubSeq(all, 1, L - 1) \in Seq(Messages)
        /\ Len(SubSeq(all, 1, L - 1)) = IF 1 <= L - 1 THEN (L - 1) - 1 + 1 ELSE 0
        /\ \A i \in 1..((L - 1) - 1 + 1) : SubSeq(all, 1, L - 1)[i] = all[1 + i - 1]
    BY <1>2, <2>1, SubSeqProperties
  <2>3. less = SubSeq(all, 1, L - 1)
    BY DEF Front
  <2> HIDE DEF L
  <2>4. less \in Seq(Messages) /\ Len(less) = L - 1
    BY <1>2, <2>2, <2>3
  <2>5. \A i \in 1..(L - 1) : less[i] = all[i]
    BY <1>2, <2>2, <2>3
  <2> QED
    BY <2>1, <2>4, <2>5, LenProperties
<1> HIDE DEF L
<1>4. Numbered(less)
  BY <1>1, <1>3 DEF Numbered
<1>5. \A i \in Positions(less, "toolResult") :
         i \in Positions(all, "toolResult") /\ i \in 1..(L - 1) /\ less[i] = all[i]
  BY <1>3 DEF Positions
<1>6. \A i \in Positions(all, "toolResult") : i \in 1..(L - 1) => i \in Positions(less, "toolResult")
  BY <1>3 DEF Positions
<1>7. ASSUME NEW i \in Positions(less, "toolResult")
      PROVE  \E j \in 1..(i - 1) : /\ less[i].of \in less[j].calls
                                  /\ (j + 1)..(i - 1) \subseteq Positions(less, "toolResult")
  <2>1. PICK j \in 1..(i - 1) : /\ all[i].of \in all[j].calls
                                /\ (j + 1)..(i - 1) \subseteq Positions(all, "toolResult")
    BY <1>1, <1>5 DEF ResultsFollow
  <2>2. j \in 1..(L - 1) /\ (j + 1)..(i - 1) \subseteq 1..(L - 1)
    BY <1>2, <1>5
  <2>3. (j + 1)..(i - 1) \subseteq Positions(less, "toolResult")
    BY <1>6, <2>1, <2>2
  <2> QED
    BY <1>3, <1>5, <2>1, <2>2, <2>3
<1>8. \A i, j \in Positions(less, "toolResult") : less[i].of = less[j].of => i = j
  BY <1>1, <1>5 DEF ResultsFollow
<1>9. NothingLost(less, messages)
  <2>1. AnswersIn(less, DOMAIN less) \subseteq AnswersIn(all, DOMAIN all)
    BY <1>3, <1>5 DEF AnswersIn
  <2> QED
    BY <1>1, <2>1 DEF NothingLost
<1>10. ResultsFollow(less)
  BY <1>7, <1>8 DEF ResultsFollow
<1> QED
  BY <1>1, <1>3, <1>4, <1>9, <1>10, NothingOpen DEF Story, Loops

LEMMA StoryKilled ==
  ASSUME NEW all, NEW messages, NEW open, NEW place, Story(all, messages, open, place),
         NEW next \in Loops
  PROVE  Story(all, <<>>, {}, next)
<1>1. all \in Seq(Messages) /\ Numbered(all) /\ ResultsFollow(all)
  BY DEF Story
<1>2. <<>> \in Seq(Messages) /\ DOMAIN <<>> = {}
  <2>1. <<>> \in Seq(Messages) /\ Len(<<>>) = 0
    BY EmptySeq
  <2> QED
    BY <2>1
<1>3. InIdOrder(<<>>) /\ ResultsFollow(<<>>) /\ Fits(<<>>, Len(all))
  BY <1>2 DEF InIdOrder, ResultsFollow, Positions, Fits
<1>4. NothingLost(all, <<>>)
  BY <1>2 DEF NothingLost, CallsIn
<1> QED
  BY <1>1, <1>2, <1>3, <1>4, NothingOpen DEF Story

-----------------------------------------------------------------------------
(* The invariant's steps *)

Snapshots == [known: BOOLEAN, request: Seq(Messages), since: Seq(Messages)]
Turns ==
  [role: {"assistant"}, id: {0}, calls: SUBSET Calls, of: {<<>>}, stop: {"stop", "toolUse"} \cup Failures]
Chats == [open: BOOLEAN, answering: BOOLEAN, turns: Seq(Turns)]

Told == Story(session, Fork, running, loop) /\ snapshot \in Snapshots /\ chat \in Chats

LEMMA ForkIsTyped ==
  ASSUME snapshot \in Snapshots
  PROVE  Fork \in Seq(Messages)
BY ConcatProperties DEF Snapshots, Fork

LEMMA ToldIsInv ==
  ASSUME Told
  PROVE  ChatInv
<1>1. Story(session, Fork, running, loop) /\ snapshot \in Snapshots /\ chat \in Chats
  BY DEF Told
<1>2. ChatTypeOK
  BY <1>1 DEF Story, ChatTypeOK, Snapshots, Chats, Turns
<1>3. SessionInOrder
  BY <1>1 DEF Story, SessionInOrder, Numbered, RunningAreLast, LastOpen
<1>4. ForkInOrder
  <2> HIDE DEF Fork
  <2> QED
    BY <1>1 DEF Story, ForkInOrder, InIdOrder, RunningAreLast, LastOpen, NothingLost, Fits
<1> QED
  BY <1>1, <1>2, <1>3, <1>4 DEF ChatInv, Story

(* What message_end adds to the session it adds to the fork. *)
LEMMA MessageEnds ==
  ASSUME Told, NEW m \in Messages, MessageEnd(m)
  PROVE  /\ Grown(session', session, m) /\ Grown(Fork', Fork, m) /\ snapshot' \in Snapshots
<1>1. session \in Seq(Messages) /\ snapshot \in Snapshots
  BY DEF Told, Story
<1>2. Fork \in Seq(Messages)
  BY <1>1, ForkIsTyped
<1>3. snapshot.request \in Seq(Messages) /\ snapshot.since \in Seq(Messages)
  BY <1>1 DEF Snapshots
<1>4. Append(snapshot.since, m) \in Seq(Messages) /\ <<m>> \in Seq(Messages)
  BY <1>3, AppendProperties
<1>5. /\ snapshot' \in Snapshots
      /\ snapshot'.request = snapshot.request /\ snapshot'.since = Append(snapshot.since, m)
  BY <1>1, <1>4 DEF MessageEnd, Snapshots
<1>6. Append(snapshot.since, m) = snapshot.since \o <<m>>
  BY <1>3, AppendIsConcat
<1>7. Append(Fork, m) = Fork \o <<m>>
  BY <1>2, AppendIsConcat
<1>8. snapshot.request \o (snapshot.since \o <<m>>) = (snapshot.request \o snapshot.since) \o <<m>>
  <2> DEFINE a == snapshot.request
             b == snapshot.since
             c == <<m>>
  <2>1. a \in Seq(Messages) /\ b \in Seq(Messages) /\ c \in Seq(Messages)
    BY <1>3, <1>4
  <2> HIDE DEF a, b, c
  <2>2. a \o (b \o c) = (a \o b) \o c
    BY <2>1, ConcatAssociative
  <2> QED
    BY <2>2 DEF a, b, c
<1>9. Fork' = Append(Fork, m)
  <2>1. Fork' = snapshot.request \o Append(snapshot.since, m)
    BY <1>5 DEF Fork
  <2>2. Fork = snapshot.request \o snapshot.since
    BY DEF Fork
  <2> HIDE DEF Fork
  <2> QED
    BY <1>6, <1>7, <1>8, <2>1, <2>2
<1>10. Grown(session', session, m)
  <2>1. session' = Append(session, m)
    BY DEF MessageEnd
  <2>2. Grown(Append(session, m), session, m)
    BY <1>1, Appended
  <2> QED
    BY <2>1, <2>2
<1>11. Grown(Append(Fork, m), Fork, m)
  BY <1>2, Appended
<1> QED
  BY <1>5, <1>9, <1>10, <1>11

LEMMA AssistantIs ==
  ASSUME NEW id, NEW calls, NEW stop
  PROVE  Assistant(id, calls, stop)
           = [role |-> "assistant", id |-> id, calls |-> calls, of |-> <<>>, stop |-> stop]
<1> DEFINE a == Assistant(id, calls, stop)
           r == [role |-> "assistant", id |-> id, calls |-> calls, of |-> <<>>, stop |-> stop]
<1>1. a.role = r.role /\ a.id = r.id /\ a.calls = r.calls /\ a.of = r.of /\ a.stop = r.stop
  BY DEF Assistant, Message
<1>2. a = [f \in {"role", "id", "calls", "of", "stop"} |-> a[f]]
  BY DEF Assistant, Message
<1>3. r = [f \in {"role", "id", "calls", "of", "stop"} |-> r[f]]
  OBVIOUS
<1> HIDE DEF a, r
<1>4. a = r
  BY <1>1, <1>2, <1>3
<1> QED
  BY <1>4 DEF a, r

(* The messages the loop adds are messages. *)
LEMMA NewMessages ==
  ASSUME NEW k \in Nat
  PROVE  /\ \A role \in {"user", "demand", "marker"} :
              /\ Message(role, k + 1) \in Messages /\ Message(role, k + 1).id = k + 1
              /\ Message(role, k + 1).role = role
         /\ \A n \in Nat, stop \in {"stop", "toolUse"} \cup Failures :
              LET m == Assistant(k + 1, CallsOf(k + 1, n), stop)
              IN /\ m \in Messages /\ m.id = k + 1 /\ m.role = "assistant" /\ m.stop = stop
                 /\ m.calls = CallsOf(k + 1, n)
         /\ \A call \in Calls : call[1] <= k =>
              LET m == ToolResult(k + 1, call)
              IN m \in Messages /\ m.id = k + 1 /\ m.role = "toolResult" /\ m.of = call
<1>1. k + 1 \in Nat \ {0} /\ IsFiniteSet({}) /\ <<>> \notin Calls
  BY FS_EmptySet, CallIsNotNone
<1>2. ASSUME NEW role \in {"user", "demand", "marker"}
      PROVE  /\ Message(role, k + 1) \in Messages /\ Message(role, k + 1).id = k + 1
             /\ Message(role, k + 1).role = role
  BY <1>1 DEF Message, Messages, Roles
<1>3. ASSUME NEW n \in Nat, NEW stop \in {"stop", "toolUse"} \cup Failures,
             NEW m, m = Assistant(k + 1, CallsOf(k + 1, n), stop)
      PROVE  /\ m \in Messages /\ m.id = k + 1 /\ m.role = "assistant" /\ m.stop = stop
             /\ m.calls = CallsOf(k + 1, n)
  <2> DEFINE C == CallsOf(k + 1, n)
  <2>1. C \subseteq Calls /\ \A call \in C : call[1] = k + 1
    BY <1>1 DEF CallsOf, Calls
  <2>2. IsFiniteSet(C)
    <3>1. IsFiniteSet(1..n)
      BY FS_Interval
    <3> DEFINE f == [j \in 1..n |-> <<k + 1, j>>]
    <3>2. f \in Surjection(1..n, C)
      BY DEF Surjection, CallsOf
    <3> HIDE DEF f, C
    <3> QED
      BY <3>1, <3>2, FS_Surjection
  <2>3. m = [role |-> "assistant", id |-> k + 1, calls |-> C, of |-> <<>>, stop |-> stop]
    BY <1>3 DEF Assistant, Message
  <2> HIDE DEF C
  <2>4. m \in Messages
    BY <1>1, <2>1, <2>2, <2>3 DEF Messages, Roles
  <2> QED
    BY <2>3, <2>4 DEF C
<1>4. ASSUME NEW call \in Calls, call[1] <= k, NEW m, m = ToolResult(k + 1, call)
      PROVE  m \in Messages /\ m.id = k + 1 /\ m.role = "toolResult" /\ m.of = call
  <2>1. m = [role |-> "toolResult", id |-> k + 1, calls |-> {}, of |-> call, stop |-> "-"]
    BY <1>4 DEF ToolResult, Message
  <2>2. call[1] < k + 1 /\ call # <<>>
    <3>1. call[1] \in Nat
      BY DEF Calls
    <3> QED
      BY <1>1, <1>4, <3>1
  <2> QED
    BY <1>1, <2>1, <2>2 DEF Messages, Roles
<1> QED
  BY <1>2, <1>3, <1>4

(* The state after a step, from its parts. *)
LEMMA TellsOn ==
  ASSUME Story(session', Fork', running', loop'), snapshot' \in Snapshots, chat' \in Chats
  PROVE  Told'
BY DEF Told

LEMMA ToldParts ==
  ASSUME Told
  PROVE  /\ Story(session, Fork, running, loop) /\ snapshot \in Snapshots /\ chat \in Chats
         /\ Len(session) \in Nat /\ running \subseteq Calls
         /\ loop # "tools" => running = {} /\ Story(session, Fork, {}, loop)
<1>1. Story(session, Fork, running, loop) /\ snapshot \in Snapshots /\ chat \in Chats
  BY DEF Told
<1>2. session \in Seq(Messages) /\ running \subseteq Calls /\ (running # {} => loop = "tools")
  BY <1>1 DEF Story
<1> QED
  BY <1>1, <1>2, LenProperties

LEMMA PromptTells ==
  ASSUME Told, Prompt
  PROVE  Told'
<1> DEFINE m == Message("user", NextId)
<1>1. /\ loop = "idle" /\ MessageEnd(m) /\ loop' = "ready" /\ running' = running /\ chat' = chat
  BY DEF Prompt
<1>2. running = {} /\ Story(session, Fork, {}, "idle") /\ chat \in Chats /\ Len(session) \in Nat
  BY <1>1, ToldParts
<1>3. m \in Messages /\ m.id = Len(session) + 1 /\ m.role # "toolResult"
  BY <1>2, NewMessages DEF NextId
<1> HIDE DEF m
<1>4. Grown(session', session, m) /\ Grown(Fork', Fork, m) /\ snapshot' \in Snapshots
  BY <1>1, <1>3, MessageEnds
<1> HIDE DEF Fork
<1>5. Story(session', Fork', {}, "ready")
  BY <1>2, <1>3, <1>4, StoryPlain DEF Loops
<1> QED
  BY <1>1, <1>2, <1>4, <1>5, TellsOn

LEMMA RequestTells ==
  ASSUME Told, Request
  PROVE  Told'
<1>1. /\ loop = "ready" /\ loop' = "called" /\ session' = session /\ running' = running /\ chat' = chat
      /\ snapshot' = [known |-> TRUE, request |-> View(session, TailTokens), since |-> <<>>]
  BY DEF Request, OnRequest
<1>2. running = {} /\ Story(session, Fork, {}, "ready") /\ chat \in Chats
  BY <1>1, ToldParts
<1>3. Story(session, View(session, TailTokens), {}, "called") /\ View(session, TailTokens) \in Seq(Messages)
  <2>1. TailTokens \in Nat
    BY ChatAssumption
  <2> HIDE DEF Fork
  <2> QED
    BY <1>2, <2>1, StoryRequest DEF Loops
<1>4. snapshot' \in Snapshots
  BY <1>1, <1>3, EmptySeq DEF Snapshots
<1>5. Fork' = View(session, TailTokens)
  BY <1>1, <1>3, ConcatEmptySeq DEF Fork
<1> HIDE DEF Fork
<1> QED
  BY <1>1, <1>2, <1>3, <1>4, <1>5, TellsOn

LEMMA AnswerTells ==
  ASSUME Told, NEW n \in 0..MaxCalls, NEW stop \in {"stop", "toolUse"} \cup Failures, AnswerEnds(n, stop)
  PROVE  Told'
<1> DEFINE m == Assistant(NextId, CallsOf(NextId, n), stop)
<1>1. /\ loop = "called" /\ MessageEnd(m) /\ chat' = chat
      /\ running' = IF stop = "toolUse" THEN CallsOf(NextId, n) ELSE {}
      /\ loop' = CASE stop = "toolUse" -> "tools" [] stop = "stop" -> "turned" [] OTHER -> "idle"
  BY DEF AnswerEnds
<1>2. Story(session, Fork, {}, "called") /\ chat \in Chats /\ Len(session) \in Nat
  BY <1>1, ToldParts
<1>3. /\ m \in Messages /\ m.id = Len(session) + 1 /\ m.role = "assistant" /\ m.stop = stop
      /\ m.calls = CallsOf(NextId, n)
  <2>1. n \in Nat
    BY ChatAssumption
  <2> QED
    BY <1>2, <2>1, NewMessages DEF NextId
<1> HIDE DEF m
<1>4. Grown(session', session, m) /\ Grown(Fork', Fork, m) /\ snapshot' \in Snapshots
  BY <1>1, <1>3, MessageEnds
<1> HIDE DEF Fork
<1>5. loop' \in Loops /\ running' \subseteq Calls /\ (running' # {} => loop' = "tools")
  <2>1. m.calls \subseteq Calls
    BY <1>3, CallsOfMessage
  <2>2. CASE stop = "toolUse"
    BY <1>1, <1>3, <2>1, <2>2 DEF Loops
  <2>3. CASE stop # "toolUse"
    <3>1. running' = {} /\ loop' = IF stop = "stop" THEN "turned" ELSE "idle"
      BY <1>1, <2>3
    <3> QED
      BY <3>1 DEF Loops
  <2> QED
    BY <2>2, <2>3
<1>6. running' # {} => running' = m.calls /\ m.role = "assistant" /\ m.stop = "toolUse"
  BY <1>1, <1>3
<1>7. "called" # "ready" /\ m.role # "toolResult"
  BY <1>3
<1>8. Story(session', Fork', running', loop')
  BY <1>2, <1>3, <1>4, <1>5, <1>6, <1>7, StoryPlain
<1> QED
  BY <1>1, <1>2, <1>4, <1>8, TellsOn

LEMMA CallTells ==
  ASSUME Told, NEW call \in running, CallEnds(call)
  PROVE  Told'
<1> DEFINE m == ToolResult(NextId, call)
<1>1. /\ loop = "tools" /\ MessageEnd(m) /\ chat' = chat /\ running' = running \ {call}
      /\ loop' = IF running' = {} THEN "turned" ELSE "tools"
  BY DEF CallEnds
<1>2. /\ Story(session, Fork, running, "tools") /\ chat \in Chats /\ Len(session) \in Nat
      /\ running \subseteq Calls
  BY <1>1, ToldParts
<1>3. call[1] <= Len(session)
  <2>1. /\ session \in Seq(Messages) /\ Numbered(session) /\ LastOpen(session, running)
    BY <1>2 DEF Story
  <2>2. PICK at \in DOMAIN session : running \subseteq session[at].calls
    BY <2>1 DEF LastOpen
  <2>3. at \in 1..Len(session)
    BY <2>1, <2>2, LenProperties
  <2>4. session[at] \in Messages
    BY <2>1, <2>3, ElementOfSeq
  <2>5. call[1] = at
    BY <2>1, <2>2, <2>4, CallsOfMessage DEF Numbered
  <2> QED
    BY <1>2, <2>3, <2>5
<1>4. m \in Messages /\ m.id = Len(session) + 1 /\ m.role = "toolResult" /\ m.of = call
  BY <1>2, <1>3, NewMessages DEF NextId
<1> HIDE DEF m
<1>5. Grown(session', session, m) /\ Grown(Fork', Fork, m) /\ snapshot' \in Snapshots
  BY <1>1, <1>4, MessageEnds
<1> HIDE DEF Fork
<1>6. loop' \in Loops /\ (running \ {m.of} # {} => loop' = "tools")
  BY <1>1, <1>4 DEF Loops
<1>7. Story(session', Fork', running \ {m.of}, loop')
  BY <1>2, <1>4, <1>5, <1>6, StoryResult
<1>8. Story(session', Fork', running', loop')
  BY <1>1, <1>4, <1>7
<1> QED
  BY <1>1, <1>2, <1>5, <1>8, TellsOn

LEMMA TurnTells ==
  ASSUME Told, NEW entry \in {"none", "demand", "marker"}, TurnEnds(entry)
  PROVE  Told'
<1>1. /\ loop = "turned" /\ running' = running /\ chat' = chat /\ snapshot' = snapshot
      /\ loop' \in {"idle", "ready"}
  BY DEF TurnEnds
<1>2. /\ running = {} /\ Story(session, Fork, {}, "turned") /\ chat \in Chats /\ Len(session) \in Nat
      /\ snapshot \in Snapshots
  BY <1>1, ToldParts
<1>3. Fork' = Fork /\ loop' \in Loops
  BY <1>1 DEF Fork, Loops
<1> HIDE DEF Fork
<1>4. CASE entry = "none"
  <2>1. session' = session
    BY <1>4 DEF TurnEnds
  <2>2. Story(session, Fork, {}, loop')
    BY <1>2, <1>3, StoryGoesOn
  <2> QED
    BY <1>1, <1>2, <1>3, <2>1, <2>2, TellsOn
<1>5. CASE entry # "none"
  <2> DEFINE m == Message(entry, NextId)
  <2>1. session' = Append(session, m)
    BY <1>5 DEF TurnEnds
  <2>2. m \in Messages /\ m.id = Len(session) + 1 /\ m.role # "toolResult"
    BY <1>2, <1>5, NewMessages DEF NextId
  <2> HIDE DEF m
  <2>3. session \in Seq(Messages)
    BY <1>2 DEF Story
  <2>4. Grown(session', session, m)
    BY <2>1, <2>2, <2>3, Appended
  <2>5. Story(session', Fork, {}, loop')
    BY <1>2, <1>3, <2>2, <2>4, StoryBoundary
  <2> QED
    BY <1>1, <1>2, <1>3, <2>5, TellsOn
<1> QED
  BY <1>4, <1>5

LEMMA RetryTells ==
  ASSUME Told, Retry
  PROVE  Told'
<1>1. /\ loop = "idle" /\ session # <<>> /\ session' = Front(session) /\ loop' = "ready"
      /\ running' = running /\ chat' = chat /\ snapshot' = snapshot
  BY DEF Retry
<1>2. running = {} /\ Story(session, Fork, {}, "idle") /\ chat \in Chats /\ snapshot \in Snapshots
  BY <1>1, ToldParts
<1>3. Fork' = Fork
  BY <1>1 DEF Fork
<1> HIDE DEF Fork
<1>4. Story(session', Fork, {}, "ready")
  BY <1>1, <1>2, StoryRetry
<1> QED
  BY <1>1, <1>2, <1>3, <1>4, TellsOn

LEMMA KilledTells ==
  ASSUME Told, Killed
  PROVE  Told'
<1>1. /\ loop' = "idle" /\ running' = {} /\ snapshot' = NoSnapshot /\ chat' = Closed /\ session' = session
  BY DEF Killed
<1>2. Story(session, Fork, running, loop)
  BY ToldParts
<1>3. /\ snapshot' \in Snapshots /\ chat' \in Chats /\ Fork' = <<>> \o <<>>
  BY <1>1, EmptySeq DEF NoSnapshot, Closed, Snapshots, Chats, Fork
<1>4. Fork' = <<>>
  <2>1. <<>> \in Seq(Messages)
    BY EmptySeq
  <2> QED
    BY <1>3, <2>1, ConcatEmptySeq
<1> HIDE DEF Fork
<1>5. Story(session, <<>>, {}, "idle")
  BY <1>2, StoryKilled DEF Loops
<1> QED
  BY <1>1, <1>3, <1>4, <1>5, TellsOn

(* What the chat does leaves the session and the fork alone. *)
LEMMA UntouchedTells ==
  ASSUME Told, Untouched \/ UNCHANGED chatVars, chat' \in Chats
  PROVE  Told'
<1>1. session' = session /\ loop' = loop /\ running' = running /\ snapshot' = snapshot
  BY DEF Untouched, chatVars
<1>2. Story(session, Fork, running, loop) /\ snapshot \in Snapshots
  BY ToldParts
<1>3. Fork' = Fork
  BY <1>1 DEF Fork
<1> HIDE DEF Fork
<1> QED
  BY <1>1, <1>2, <1>3, TellsOn

LEMMA ChatTells ==
  ASSUME Told, \/ OpenChat \/ Ask \/ CloseChat
               \/ \E stop \in {"stop", "toolUse"} \cup Failures : Answered(stop)
  PROVE  Told'
<1>1. chat \in Chats
  BY ToldParts
<1>2. CASE OpenChat
  <2>1. chat' \in Chats
    BY <1>2, EmptySeq DEF OpenChat, Closed, Chats
  <2> QED
    BY <1>2, <2>1, UntouchedTells DEF OpenChat
<1>3. CASE Ask
  <2>1. chat' \in Chats
    BY <1>1, <1>3 DEF Ask, Chats
  <2> QED
    BY <1>3, <2>1, UntouchedTells DEF Ask
<1>4. CASE CloseChat
  <2>1. chat' \in Chats
    BY <1>4, EmptySeq DEF CloseChat, Closed, Chats
  <2> QED
    BY <1>4, <2>1, UntouchedTells DEF CloseChat
<1>5. ASSUME NEW stop \in {"stop", "toolUse"} \cup Failures, Answered(stop) PROVE Told'
  <2> DEFINE calls == IF stop = "toolUse" THEN {<<0, Len(chat.turns) + 1>>} ELSE {}
             answer == Assistant(0, calls, stop)
  <2>1. chat.turns \in Seq(Turns) /\ Len(chat.turns) \in Nat
    BY <1>1, LenProperties DEF Chats
  <2>2. calls \in SUBSET Calls
    BY <2>1 DEF Calls
  <2> HIDE DEF calls
  <2>3. answer = [role |-> "assistant", id |-> 0, calls |-> calls, of |-> <<>>, stop |-> stop]
    BY AssistantIs
  <2>4. chat' = [chat EXCEPT !.answering = FALSE,
                            !.turns = IF stop = "aborted" THEN @ ELSE Append(@, answer)]
    BY <1>5 DEF Answered, calls
  <2> HIDE DEF answer
  <2>5. stop # "aborted" => answer \in Turns
    BY <2>2, <2>3 DEF Turns, Failures
  <2>6. (IF stop = "aborted" THEN chat.turns ELSE Append(chat.turns, answer)) \in Seq(Turns)
    BY <2>1, <2>5, AppendProperties
  <2>7. chat' \in Chats
    BY <1>1, <2>4, <2>6 DEF Chats
  <2> QED
    BY <1>5, <2>7, UntouchedTells DEF Answered
<1> QED
  BY <1>2, <1>3, <1>4, <1>5

LEMMA InitTells ==
  ASSUME ChatInit
  PROVE  Told
<1>1. session = <<>> /\ loop = "idle" /\ running = {} /\ snapshot = NoSnapshot /\ chat = Closed
  BY DEF ChatInit
<1>2. <<>> \in Seq(Messages) /\ Len(<<>>) = 0 /\ DOMAIN <<>> = {}
  BY EmptySeq
<1>3. snapshot \in Snapshots /\ chat \in Chats /\ Fork = <<>> \o <<>>
  BY <1>1, EmptySeq DEF NoSnapshot, Closed, Snapshots, Chats, Fork
<1>4. Fork = <<>>
  BY <1>2, <1>3, ConcatEmptySeq
<1>5. InIdOrder(<<>>) /\ ResultsFollow(<<>>) /\ Fits(<<>>, Len(<<>>)) /\ Numbered(<<>>)
  BY <1>2 DEF InIdOrder, ResultsFollow, Positions, Fits, Numbered
<1>6. NothingLost(<<>>, <<>>)
  BY <1>2 DEF NothingLost, CallsIn
<1>7. Story(<<>>, <<>>, {}, "idle")
  BY <1>2, <1>5, <1>6, NothingOpen DEF Story, Loops
<1> HIDE DEF Fork
<1> QED
  BY <1>1, <1>3, <1>4, <1>7 DEF Told

(* Session and fork tell one story, in every state of every session. *)
LEMMA AlwaysTold == ChatSpec => []Told
<1>1. ChatInit => Told
  BY InitTells
<1>2. Told /\ [ChatNext]_chatVars => Told'
  <2> SUFFICES ASSUME Told, [ChatNext]_chatVars PROVE Told'
    OBVIOUS
  <2>1. CASE UNCHANGED chatVars
    <3>1. chat' = chat /\ chat \in Chats
      BY <2>1, ToldParts DEF chatVars
    <3> QED
      BY <2>1, <3>1, UntouchedTells
  <2>2. CASE ChatNext
    BY <2>2, PromptTells, RequestTells, RetryTells, KilledTells, AnswerTells, CallTells, TurnTells,
       ChatTells DEF ChatNext
  <2> QED
    BY <2>1, <2>2
<1> QED
  BY <1>1, <1>2, PTL DEF ChatSpec

LEMMA ToldHasTail ==
  ASSUME Told
  PROVE  TailIsLongest
<1>1. session \in Seq(Messages) /\ Numbered(session)
  BY DEF Told, Story
<1>2. \A budget \in Budgets : budget \in Nat
  BY ChatAssumption
<1>3. ASSUME NEW budget \in Budgets
      PROVE  LET at == LastSwapMarkerIndex(session)
                 front == WithoutCapWarnings(SubSeq(session, 1, at - 1))
                 n == Len(front) + 1
                 kept == front \o SubSeq(session, at, Len(session))
                 cuts == SafeCuts(kept, n, budget)
             IN at # 0 => View(session, budget) = SubSeq(kept, IF cuts = {} THEN n ELSE Min(cuts), Len(kept))
  <2> DEFINE at == LastSwapMarkerIndex(session)
             front == WithoutCapWarnings(SubSeq(session, 1, at - 1))
             n == Len(front) + 1
             kept == front \o SubSeq(session, at, Len(session))
             cuts == SafeCuts(kept, n, budget)
  <2> SUFFICES ASSUME at # 0
               PROVE  View(session, budget) = SubSeq(kept, IF cuts = {} THEN n ELSE Min(cuts), Len(kept))
    OBVIOUS
  <2>1. /\ at = LastSwapMarkerIndex(session) /\ front = WithoutCapWarnings(SubSeq(session, 1, at - 1))
        /\ n = Len(front) + 1 /\ kept = front \o SubSeq(session, at, Len(session))
        /\ cuts = SafeCuts(kept, n, budget)
    OBVIOUS
  <2> HIDE DEF at, front, n, kept, cuts
  <2>2. at \in 1..Len(session) /\ session[at].role = "marker"
    <3>1. at \in 0..Len(session) /\ session[at].role = "marker"
      BY <1>1, <2>1, LastMarker
    <3>2. Len(session) \in Nat
      BY <1>1, LenProperties
    <3> QED
      BY <3>1, <3>2
  <2>3. Picked(kept, session) /\ n \in 1..Len(kept)
    BY <1>1, <2>1, <2>2, KeptInOrder
  <2>4. kept \in Seq(Messages) /\ InIdOrder(kept) /\ n \in 1..(Len(kept) + 1)
    <3>1. kept \in Seq(Messages) /\ InIdOrder(kept)
      BY <2>3 DEF Picked
    <3>2. Len(kept) \in Nat
      BY <3>1, LenProperties
    <3> QED
      BY <2>3, <3>1, <3>2
  <2>5. SelectContextTail(kept, n, budget) = IF cuts = {} THEN n ELSE Min(cuts)
    BY <1>2, <2>1, <2>4, TailIsSelected
  <2>6. View(session, budget) = SubSeq(kept, SelectContextTail(kept, n, budget), Len(kept))
    BY <2>1 DEF View
  <2> QED
    BY <2>5, <2>6
<1> QED
  BY <1>3 DEF TailIsLongest

-----------------------------------------------------------------------------
(* The side chat's request *)

LEMMA EnumeratesOnce ==
  ASSUME NEW S, IsFiniteSet(S), NEW seq, seq = SetToSeq(S)
  PROVE  /\ Cardinality(S) \in Nat /\ seq \in [1..Cardinality(S) -> S]
         /\ \A i, j \in 1..Cardinality(S) : seq[i] = seq[j] => i = j
         /\ \A x \in S : \E i \in 1..Cardinality(S) : seq[i] = x
<1> DEFINE n == Cardinality(S)
<1>1. n \in Nat /\ ExistsBijection(1..n, S)
  BY FS_CardinalityType
<1>2. PICK f : f \in Bijection(1..n, S)
  BY <1>1 DEF ExistsBijection
<1>3. f \in [1..n -> S] /\ IsInjective(f)
  BY <1>2 DEF Bijection, Injection, IsInjective
<1> HIDE DEF n
<1>4. SetToSeq(S) = CHOOSE g \in [1..n -> S] : IsInjective(g)
  BY DEF SetToSeq, n
<1>5. seq \in [1..n -> S] /\ IsInjective(seq)
  BY <1>3, <1>4
<1>6. \A i, j \in 1..n : seq[i] = seq[j] => i = j
  BY <1>5 DEF IsInjective
<1>7. seq \in Injection(1..n, S)
  BY <1>5, <1>6 DEF Injection
<1>8. Cardinality(1..n) = n
  BY <1>1, FS_Interval
<1>9. seq \in Surjection(1..n, S)
  BY <1>7, <1>8, FS_Injection DEF n
<1>10. \A x \in S : \E i \in 1..n : seq[i] = x
  BY <1>9 DEF Surjection
<1> QED
  BY <1>1, <1>5, <1>6, <1>10 DEF n

(* What the chat's own exchanges look like in a request. *)
Says ==
  [role: {"user", "assistant"}, id: {0}, calls: {{}}, of: {<<>>},
   stop: {"-", "stop", "toolUse"} \cup Failures]

LEMMA DisplayedAnswers ==
  ASSUME NEW turn \in Turns
  PROVE  Question \in Says /\ DisplayAnswer(turn) \in Says
BY DEF Question, Message, DisplayAnswer, Turns, Says

LEMMA ReplayedTurns ==
  ASSUME NEW turns \in Seq(Turns)
  PROVE  ReplayTurns(turns) \in Seq(Says)
<1> DEFINE T == Seq(Says)
           P == DOMAIN turns
           Op(said, turn) ==
             IF turn.stop \in Failures THEN said ELSE said \o <<Question, DisplayAnswer(turn)>>
           Is(g) == g = [s \in SUBSET P |-> IF s = {} THEN <<>> ELSE Op(g[s \ {Max(s)}], turns[Max(s)])]
           iter == CHOOSE g : Is(g)
           F == [p \in T \X Turns |-> Op(p[1], p[2])]
<1>1. Len(turns) \in Nat /\ P = 1..Len(turns) /\ \A i \in P : turns[i] \in Turns
  BY LenProperties, ElementOfSeq
<1>2. ReplayTurns(turns) = iter[P]
  BY DEF ReplayTurns, FoldLeft, MapThenFoldSet
<1>3. <<>> \in T
  BY EmptySeq
<1>4. F \in [T \X Turns -> T]
  <2>1. ASSUME NEW said \in T, NEW turn \in Turns PROVE Op(said, turn) \in T
    <3>1. <<Question, DisplayAnswer(turn)>> \in T
      BY DisplayedAnswers
    <3> QED
      BY <3>1, ConcatProperties
  <2> HIDE DEF Op, T
  <2> QED
    BY <2>1
<1>5. \A said \in T, turn \in Turns : F[<<said, turn>>] = Op(said, turn)
  OBVIOUS
<1>6. \A s \in SUBSET P : s # {} => Max(s) \in P /\ turns[Max(s)] \in Turns
  <2>1. \A s \in SUBSET P : s # {} => Max(s) \in P
    BY <1>1, MaxOfPlaces
  <2> QED
    BY <1>1, <2>1
<1> HIDE DEF F, Op, P, T
<1>7. PICK g \in [SUBSET P -> T] : FoldsTo(g, T, F, <<>>, turns)
  BY <1>3, <1>4, FoldOfPlaces DEF P
<1>8. Is(g)
  <2>1. ASSUME NEW s \in SUBSET P, s # {} PROVE g[s] = Op(g[s \ {Max(s)}], turns[Max(s)])
    <3>1. g[s \ {Max(s)}] \in T /\ turns[Max(s)] \in Turns
      BY <1>6, <2>1
    <3> QED
      BY <1>5, <1>7, <2>1, <3>1 DEF FoldsTo, P
  <2>2. g = [s \in SUBSET P |-> g[s]] /\ g[{}] = <<>>
    BY <1>7 DEF FoldsTo
  <2> QED
    BY <2>1, <2>2
<1> HIDE DEF iter
<1>9. Is(iter)
  <2> HIDE DEF Is
  <2> QED
    BY <1>8 DEF iter
<1>10. /\ iter[{}] = <<>>
       /\ \A s \in SUBSET P : s # {} => iter[s] = Op(iter[s \ {Max(s)}], turns[Max(s)])
  BY <1>9
<1> HIDE DEF Is
<1>11. FoldsTo(iter, T, F, <<>>, turns)
  BY <1>5, <1>6, <1>10 DEF FoldsTo, P
<1>12. StepsTo(iter[P], T, F, <<>>, turns)
  BY <1>3, <1>4, <1>11, FoldIsSteps DEF P
<1>13. iter[P] \in T
  BY <1>1, <1>12 DEF StepsTo, FoldSteps
<1> QED
  BY <1>2, <1>13 DEF T

(* What a request may hold: messages of the session, pending results, the chat's own. *)
SentMessages ==
  [role: Roles, id: Nat, calls: SUBSET Calls, of: Calls \cup {<<>>},
   stop: {"-", "stop", "toolUse", "pending"} \cup Failures]

(* A request holds every message once, with answers right behind their calls. *)
InPairs(sent) ==
  /\ \A i, j \in {k \in DOMAIN sent : sent[k].id # 0} : i < j => sent[i].id < sent[j].id
  /\ \A i, j \in Positions(sent, "toolResult") : sent[i].of = sent[j].of => i = j
  /\ \A i \in Positions(sent, "toolResult") : \E j \in 1..(i - 1) :
       /\ sent[i].of \in sent[j].calls
       /\ \A k \in (j + 1)..(i - 1) : k \in Positions(sent, "toolResult")

PendingIn(sent) ==
  {sent[i].of : i \in {j \in Positions(sent, "toolResult") : sent[j].stop = "pending"}}

(* What the chat says behind the fork changes nothing in it. *)
LEMMA SaidBehind ==
  ASSUME NEW front \in Seq(SentMessages), NEW said \in Seq(Says), InPairs(front),
         NEW sent, sent = front \o said
  PROVE  InPairs(sent) /\ PendingIn(sent) = PendingIn(front)
<1> DEFINE L == Len(front)
           M == Len(said)
           P == Positions(front, "toolResult")
<1>1. /\ L \in Nat /\ M \in Nat /\ DOMAIN front = 1..L
      /\ \A i \in 1..M : said[i] \in Says
  BY LenProperties, ElementOfSeq
<1>2. DOMAIN sent = 1..(L + M) /\ \A i \in 1..(L + M) : sent[i] = IF i <= L THEN front[i] ELSE said[i - L]
  <2>1. front \in Seq(SentMessages \cup Says) /\ said \in Seq(SentMessages \cup Says)
    BY SeqMonotonic
  <2>2. /\ sent \in Seq(SentMessages \cup Says) /\ Len(sent) = L + M
        /\ \A i \in 1..(L + M) : sent[i] = IF i <= L THEN front[i] ELSE said[i - L]
    BY <2>1, ConcatProperties
  <2> QED
    BY <2>2, LenProperties
<1> HIDE DEF L, M
<1>3. ASSUME NEW i \in DOMAIN sent
      PROVE  \/ i \in DOMAIN front /\ sent[i] = front[i]
             \/ i \notin DOMAIN front /\ sent[i] \in Says
  <2>1. CASE i <= L
    BY <1>1, <1>2, <2>1
  <2>2. CASE ~(i <= L)
    <3>1. i - L \in 1..M /\ i \notin DOMAIN front /\ sent[i] = said[i - L]
      BY <1>1, <1>2, <2>2
    <3> QED
      BY <1>1, <3>1
  <2> QED
    BY <2>1, <2>2
<1>4. \A i \in DOMAIN front : i \in DOMAIN sent /\ sent[i] = front[i]
  BY <1>1, <1>2
<1>5. \A m \in Says : m.id = 0 /\ m.role # "toolResult"
  BY DEF Says
<1>6. Positions(sent, "toolResult") = P
  BY <1>3, <1>4, <1>5 DEF Positions
<1>7. {k \in DOMAIN sent : sent[k].id # 0} = {k \in DOMAIN front : front[k].id # 0}
  BY <1>3, <1>4, <1>5
<1>8. \A i \in P : i \in DOMAIN front /\ sent[i] = front[i]
  BY <1>4 DEF Positions
<1>9. \A i \in P : \A j \in 1..(i - 1) : j \in DOMAIN front /\ sent[j] = front[j]
  <2>1. \A i \in P : \A j \in 1..(i - 1) : j \in DOMAIN front
    BY <1>1, <1>8
  <2> QED
    BY <1>4, <2>1
<1> HIDE DEF P
<1>10. PendingIn(sent) = PendingIn(front)
  <2>1. {j \in P : sent[j].stop = "pending"} = {j \in P : front[j].stop = "pending"}
    BY <1>8
  <2> QED
    BY <1>6, <1>8, <2>1 DEF PendingIn, P
<1>11. \A i, j \in {k \in DOMAIN sent : sent[k].id # 0} : i < j => sent[i].id < sent[j].id
  <2>1. \A i, j \in {k \in DOMAIN front : front[k].id # 0} : i < j => front[i].id < front[j].id
    BY DEF InPairs
  <2> QED
    BY <1>4, <1>7, <2>1
<1>12. \A i, j \in P : sent[i].of = sent[j].of => i = j
  BY <1>8 DEF InPairs, P
<1>13. ASSUME NEW i \in P
       PROVE  \E j \in 1..(i - 1) : sent[i].of \in sent[j].calls /\ \A k \in (j + 1)..(i - 1) : k \in P
  <2>1. PICK j \in 1..(i - 1) : front[i].of \in front[j].calls /\ \A k \in (j + 1)..(i - 1) : k \in P
    BY DEF InPairs, P
  <2> QED
    BY <1>8, <1>9, <2>1
<1>14. InPairs(sent)
  BY <1>6, <1>11, <1>12, <1>13 DEF InPairs
<1> QED
  BY <1>10, <1>14

(* The fork with pending results for a set of calls put behind its message at. *)
PutWith(sent, fork, at, calls, seq, n) ==
  /\ seq \in [1..n -> calls] /\ \A i, j \in 1..n : seq[i] = seq[j] => i = j
  /\ \A call \in calls : \E i \in 1..n : seq[i] = call
  /\ DOMAIN sent = 1..(Len(fork) + n)
  /\ \A i \in 1..at : sent[i] = fork[i]
  /\ \A k \in 1..n : sent[at + k] = PendingResult(seq[k])
  /\ \A i \in (at + 1)..Len(fork) : sent[n + i] = fork[i]

PutBehind(sent, fork, at, calls) == \E n \in Nat : \E seq : PutWith(sent, fork, at, calls, seq, n)

PendingPut(fork, at, calls) ==
  SubSeq(fork, 1, at)
    \o [k \in DOMAIN SetToSeq(calls) |-> PendingResult(SetToSeq(calls)[k])]
    \o SubSeq(fork, at + 1, Len(fork))

LEMMA PendingIs ==
  ASSUME NEW call
  PROVE  PendingResult(call) = [role |-> "toolResult", id |-> 0, calls |-> {}, of |-> call, stop |-> "pending"]
<1> DEFINE a == PendingResult(call)
           r == [role |-> "toolResult", id |-> 0, calls |-> {}, of |-> call, stop |-> "pending"]
<1>1. a.role = r.role /\ a.id = r.id /\ a.calls = r.calls /\ a.of = r.of /\ a.stop = r.stop
  BY DEF PendingResult, ToolResult, Message
<1>2. a = [f \in {"role", "id", "calls", "of", "stop"} |-> a[f]]
  BY DEF PendingResult, ToolResult, Message
<1>3. r = [f \in {"role", "id", "calls", "of", "stop"} |-> r[f]]
  OBVIOUS
<1> HIDE DEF a, r
<1>4. a = r
  BY <1>1, <1>2, <1>3
<1> QED
  BY <1>4 DEF a, r

LEMMA MessagesAreSent == Messages \subseteq SentMessages
BY DEF Messages, SentMessages

(* Each part of the request at its place. *)
LEMMA PendingArePut ==
  ASSUME NEW fork \in Seq(Messages), NEW at \in 1..Len(fork), NEW calls \in SUBSET Calls, IsFiniteSet(calls),
         NEW sent, sent = PendingPut(fork, at, calls)
  PROVE  sent \in Seq(SentMessages) /\ PutBehind(sent, fork, at, calls)
<1> DEFINE S == SentMessages
           L == Len(fork)
           a == SubSeq(fork, 1, at)
           c == SubSeq(fork, at + 1, L)
           seq == SetToSeq(calls)
           n == Cardinality(calls)
           b == [k \in DOMAIN seq |-> PendingResult(seq[k])]
<1>1. L \in Nat /\ at \in Nat /\ \A i \in 1..L : fork[i] \in S
  BY LenProperties, ElementOfSeq, MessagesAreSent
<1>2. /\ n \in Nat /\ seq \in [1..n -> calls] /\ DOMAIN seq = 1..n
      /\ \A i, j \in 1..n : seq[i] = seq[j] => i = j
      /\ \A call \in calls : \E i \in 1..n : seq[i] = call
  <2>1. /\ n \in Nat /\ seq \in [1..n -> calls]
        /\ \A i, j \in 1..n : seq[i] = seq[j] => i = j
        /\ \A call \in calls : \E i \in 1..n : seq[i] = call
    BY EnumeratesOnce
  <2> HIDE DEF seq, n
  <2> QED
    BY <2>1
<1> HIDE DEF seq, n
<1>3. b \in Seq(S) /\ Len(b) = n /\ \A k \in 1..n : b[k] = PendingResult(seq[k])
  <2>1. \A k \in 1..n : PendingResult(seq[k]) \in S
    <3>1. ASSUME NEW call \in Calls PROVE PendingResult(call) \in S
      BY PendingIs DEF SentMessages, Roles
    <3> QED
      BY <1>2, <3>1
  <2>2. b \in [1..n -> S]
    BY <1>2, <2>1
  <2>3. b \in Seq(S) /\ Len(b) = n
    <3> HIDE DEF b
    <3> QED
      BY <1>2, <2>2
  <2> QED
    BY <1>2, <2>3
<1>4. a \in Seq(S) /\ Len(a) = at /\ \A i \in 1..at : a[i] = fork[i]
  <2>1. \A i \in 1..at : fork[i] \in S
    BY <1>1
  <2>2. /\ a \in Seq(S) /\ Len(a) = IF 1 <= at THEN at - 1 + 1 ELSE 0
        /\ \A i \in 1..(at - 1 + 1) : a[i] = fork[1 + i - 1]
    BY <1>1, <2>1, SubSeqProperties
  <2> HIDE DEF a
  <2> QED
    BY <1>1, <2>2
<1>5. c \in Seq(S) /\ Len(c) = L - at /\ \A i \in 1..(L - at) : c[i] = fork[at + i]
  <2>1. \A i \in (at + 1)..L : fork[i] \in S
    BY <1>1
  <2>2. /\ c \in Seq(S) /\ Len(c) = IF at + 1 <= L THEN L - (at + 1) + 1 ELSE 0
        /\ \A i \in 1..(L - (at + 1) + 1) : c[i] = fork[(at + 1) + i - 1]
    BY <1>1, <2>1, SubSeqProperties
  <2> HIDE DEF c
  <2>3. Len(c) = L - at
    BY <1>1, <2>2
  <2>4. \A i \in 1..(L - at) : c[i] = fork[at + i]
    BY <1>1, <2>2
  <2> QED
    BY <2>2, <2>3, <2>4
<1>6. sent = a \o b \o c
  BY DEF seq, PendingPut
<1> HIDE DEF a, b, c, L, S
<1>7. /\ a \o b \in Seq(S) /\ Len(a \o b) = at + n
      /\ \A i \in 1..(at + n) : (a \o b)[i] = IF i <= at THEN a[i] ELSE b[i - at]
  BY <1>3, <1>4, ConcatProperties
<1> DEFINE d == a \o b
<1> HIDE DEF d
<1>8. /\ sent \in Seq(S) /\ Len(sent) = (at + n) + (L - at)
      /\ \A i \in 1..((at + n) + (L - at)) : sent[i] = IF i <= at + n THEN d[i] ELSE c[i - (at + n)]
  <2>1. sent = d \o c /\ d \in Seq(S) /\ Len(d) = at + n
    BY <1>6, <1>7 DEF d
  <2>2. /\ d \o c \in Seq(S) /\ Len(d \o c) = Len(d) + Len(c)
        /\ \A i \in 1..(Len(d) + Len(c)) : (d \o c)[i] = IF i <= Len(d) THEN d[i] ELSE c[i - Len(d)]
    BY <1>5, <2>1, ConcatProperties
  <2>3. Len(d) = at + n /\ Len(c) = L - at
    BY <1>5, <2>1
  <2> QED
    BY <2>1, <2>2, <2>3
<1>9. at <= L /\ 1 <= at
  BY <1>1 DEF L
<1>10. \A i \in 1..(at + n) : i \in 1..((at + n) + (L - at)) /\ sent[i] = IF i <= at THEN a[i] ELSE b[i - at]
  <2>1. \A i \in 1..(at + n) : i \in 1..((at + n) + (L - at)) /\ i <= at + n
    BY <1>1, <1>2, <1>9
  <2> QED
    BY <1>7, <1>8, <2>1 DEF d
<1>11. DOMAIN sent = 1..(L + n)
  <2>1. (at + n) + (L - at) = L + n
    BY <1>1, <1>2
  <2> QED
    BY <1>8, <2>1, LenProperties
<1>12. \A i \in 1..at : sent[i] = fork[i]
  <2>1. \A i \in 1..at : i \in 1..(at + n) /\ i <= at
    BY <1>1, <1>2
  <2> QED
    BY <1>4, <1>10, <2>1
<1>13. ASSUME NEW k \in 1..n PROVE sent[at + k] = PendingResult(seq[k])
  <2>1. at + k \in 1..(at + n) /\ ~(at + k <= at) /\ (at + k) - at = k
    BY <1>1, <1>2
  <2>2. sent[at + k] = b[(at + k) - at]
    BY <1>10, <2>1
  <2> QED
    BY <1>3, <2>1, <2>2
<1>14. ASSUME NEW i \in (at + 1)..L PROVE sent[n + i] = fork[i]
  <2>1. /\ n + i \in 1..((at + n) + (L - at)) /\ ~(n + i <= at + n) /\ (n + i) - (at + n) = i - at
        /\ i - at \in 1..(L - at) /\ at + (i - at) = i
    BY <1>1, <1>2, <1>9
  <2>2. sent[n + i] = c[(n + i) - (at + n)]
    BY <1>8, <2>1
  <2>3. c[i - at] = fork[at + (i - at)]
    BY <1>5, <2>1
  <2> QED
    BY <2>1, <2>2, <2>3
<1>15. PutWith(sent, fork, at, calls, seq, n)
  BY <1>2, <1>11, <1>12, <1>13, <1>14 DEF PutWith, L
<1>16. PutBehind(sent, fork, at, calls)
  BY <1>2, <1>15 DEF PutBehind
<1> QED
  BY <1>8, <1>16 DEF S

(* Pending results make the last answer whole. *)
LEMMA PutIsPaired ==
  ASSUME NEW fork \in Seq(Messages), InIdOrder(fork), ResultsFollow(fork),
         NEW at \in 1..Len(fork), fork[at].role = "assistant",
         \A i \in (at + 1)..Len(fork) : fork[i].role # "assistant",
         NEW calls, calls = fork[at].calls \ AnswersIn(fork, DOMAIN fork),
         NEW sent, PutBehind(sent, fork, at, calls)
  PROVE  InPairs(sent) /\ PendingIn(sent) = calls
<1> DEFINE L == Len(fork)
           R == Positions(fork, "toolResult")
           Q == Positions(sent, "toolResult")
<1>1. L \in Nat /\ DOMAIN fork = 1..L /\ at \in Nat /\ 1 <= at /\ at <= L /\ \A i \in 1..L : fork[i] \in Messages
  BY LenProperties, ElementOfSeq
<1>n. PICK n \in Nat : \E seq : PutWith(sent, fork, at, calls, seq, n)
  BY DEF PutBehind
<1>2. PICK seq : PutWith(sent, fork, at, calls, seq, n)
  BY <1>n
<1>3. /\ seq \in [1..n -> calls] /\ \A i, j \in 1..n : seq[i] = seq[j] => i = j
      /\ \A call \in calls : \E i \in 1..n : seq[i] = call
      /\ DOMAIN sent = 1..(L + n)
      /\ \A i \in 1..at : sent[i] = fork[i]
      /\ \A k \in 1..n : sent[at + k] = PendingResult(seq[k])
      /\ \A i \in (at + 1)..L : sent[n + i] = fork[i]
  BY <1>2 DEF PutWith
<1> HIDE DEF L
<1> DEFINE Old == 1..at \cup (at + n + 1)..(L + n)
           New == (at + 1)..(at + n)
           org == [i \in Old |-> IF i <= at THEN i ELSE i - n]
<1>4. DOMAIN sent = Old \cup New /\ Old \cap New = {} /\ at \in Old /\ Old \subseteq Nat /\ New \subseteq Nat
  BY <1>1, <1>3
<1>5. ASSUME NEW i \in Old
      PROVE  /\ org[i] \in 1..L /\ sent[i] = fork[org[i]]
             /\ \/ i <= at /\ org[i] = i
                \/ i > at + n /\ org[i] = i - n /\ org[i] > at
  <2>1. CASE i <= at
    <3>1. i \in 1..at /\ org[i] = i /\ i \in 1..L
      BY <1>1, <2>1
    <3> QED
      BY <1>3, <2>1, <3>1
  <2>2. CASE ~(i <= at)
    <3>1. org[i] = i - n /\ i - n \in (at + 1)..L /\ n + (i - n) = i /\ i > at + n /\ i - n > at /\ i - n \in 1..L
      BY <1>1, <2>2
    <3>2. sent[n + (i - n)] = fork[i - n]
      BY <1>3, <3>1
    <3> QED
      BY <3>1, <3>2
  <2> QED
    BY <2>1, <2>2
<1>6. ASSUME NEW i \in Old, NEW j \in Old
      PROVE  (i < j => org[i] < org[j]) /\ (org[i] = org[j] => i = j)
  <2>1. i \in Nat /\ j \in Nat /\ org[i] \in Nat /\ org[j] \in Nat
    BY <1>1, <1>4, <1>5
  <2>2. /\ \/ i <= at /\ org[i] = i
           \/ i > at + n /\ org[i] = i - n /\ org[i] > at
        /\ \/ j <= at /\ org[j] = j
           \/ j > at + n /\ org[j] = j - n /\ org[j] > at
    BY <1>5
  <2> HIDE DEF org, Old
  <2> QED
    BY <1>1, <2>1, <2>2
<1>7. ASSUME NEW i \in New
      PROVE  /\ i - at \in 1..n /\ sent[i] = PendingResult(seq[i - at]) /\ seq[i - at] \in calls
             /\ sent[i].role = "toolResult" /\ sent[i].id = 0 /\ sent[i].of = seq[i - at]
             /\ sent[i].stop = "pending"
  <2>1. i - at \in 1..n /\ at + (i - at) = i
    BY <1>1
  <2>2. sent[at + (i - at)] = PendingResult(seq[i - at]) /\ seq[i - at] \in calls
    BY <1>3, <2>1
  <2>3. sent[i] = [role |-> "toolResult", id |-> 0, calls |-> {}, of |-> seq[i - at], stop |-> "pending"]
    BY <2>1, <2>2, PendingIs
  <2> QED
    BY <2>1, <2>2, <2>3
<1>8. \A i \in 1..n : at + i \in New /\ (at + i) - at = i
  BY <1>1
<1>9. at \in 1..at /\ \A i \in 1..at : i \in Old /\ org[i] = i
  BY <1>1
<1>10. \A i \in New : at < i /\ \A k \in (at + 1)..(i - 1) : k \in New
  BY <1>1
<1>11. \A i \in Old : i > at + n => \A k \in (at + 1)..(i - 1) :
          k \in New \/ (k \in Old /\ org[k] = k - n /\ k - n \in (at + 1)..((i - n) - 1))
  BY <1>1
<1>12. \A i \in Old : i > at + n => at \in 1..(i - 1)
  BY <1>1
<1>13. \A i \in New : at \in 1..(i - 1)
  BY <1>1
<1> HIDE DEF Old, New, org, Q, R
<1>14. \A i \in Old : i \in Q <=> org[i] \in R
  BY <1>1, <1>4, <1>5 DEF Q, R, Positions
<1>15. New \subseteq Q /\ Q \subseteq Old \cup New
  BY <1>4, <1>7 DEF Q, Positions
<1>16. sent[at] = fork[at] /\ calls \subseteq fork[at].calls
  BY <1>3, <1>9
<1>17. \A i \in Q : i \in Old => sent[i].of \in AnswersIn(fork, DOMAIN fork)
  <2>1. ASSUME NEW i \in Old, i \in Q PROVE sent[i].of \in AnswersIn(fork, DOMAIN fork)
    <3>1. org[i] \in R /\ org[i] \in DOMAIN fork /\ sent[i].of = fork[org[i]].of
      BY <1>1, <1>5, <1>14, <2>1
    <3> QED
      BY <3>1 DEF AnswersIn, R
  <2> QED
    BY <2>1
<1>18. ASSUME NEW i \in {k \in DOMAIN sent : sent[k].id # 0}, NEW j \in {k \in DOMAIN sent : sent[k].id # 0},
              i < j
       PROVE  sent[i].id < sent[j].id
  <2>1. i \in Old /\ j \in Old
    BY <1>4, <1>7
  <2>2. org[i] < org[j] /\ org[i] \in DOMAIN fork /\ org[j] \in DOMAIN fork
    BY <1>1, <1>5, <1>6, <1>18, <2>1
  <2> QED
    BY <1>5, <2>1, <2>2 DEF InIdOrder
<1>19. ASSUME NEW i \in Q, NEW j \in Q, sent[i].of = sent[j].of PROVE i = j
  <2>1. CASE i \in Old /\ j \in Old
    <3>1. org[i] \in R /\ org[j] \in R /\ fork[org[i]].of = fork[org[j]].of
      BY <1>5, <1>14, <1>19, <2>1
    <3>2. org[i] = org[j]
      BY <3>1 DEF ResultsFollow, R
    <3> QED
      BY <1>6, <2>1, <3>2
  <2>2. CASE i \in New /\ j \in New
    <3>1. i - at = j - at
      BY <1>3, <1>7, <1>19, <2>2
    <3>2. i \in Nat /\ j \in Nat
      BY <1>4, <2>2
    <3> QED
      BY <1>1, <3>1, <3>2
  <2>3. CASE i \in Old /\ j \in New
    BY <1>7, <1>17, <1>19, <2>3
  <2>4. CASE i \in New /\ j \in Old
    BY <1>7, <1>17, <1>19, <2>4
  <2> QED
    BY <1>15, <2>1, <2>2, <2>3, <2>4
<1>20. ASSUME NEW i \in Q
       PROVE  \E j \in 1..(i - 1) : sent[i].of \in sent[j].calls /\ \A k \in (j + 1)..(i - 1) : k \in Q
  <2>1. CASE i \in New
    <3>1. sent[i].of \in sent[at].calls
      BY <1>7, <1>16, <2>1
    <3>2. \A k \in (at + 1)..(i - 1) : k \in Q
      BY <1>10, <1>15, <2>1
    <3> QED
      BY <1>13, <2>1, <3>1, <3>2
  <2>2. ASSUME i \in Old
        PROVE  \E j \in 1..(i - 1) : sent[i].of \in sent[j].calls /\ \A k \in (j + 1)..(i - 1) : k \in Q
    <3>1. org[i] \in R /\ org[i] \in 1..L /\ sent[i] = fork[org[i]]
      BY <1>5, <1>14, <2>2
    <3>2. PICK j \in 1..(org[i] - 1) : /\ fork[org[i]].of \in fork[j].calls
                                       /\ (j + 1)..(org[i] - 1) \subseteq R
      BY <3>1 DEF ResultsFollow, R
    <3>3. j \in 1..L /\ j \in Nat /\ org[i] \in Nat /\ j < org[i]
      BY <1>1, <3>1
    <3>4. fork[j].role = "assistant"
      <4>1. fork[j] \in Messages /\ fork[j].calls # {}
        BY <1>1, <3>2, <3>3
      <4> QED
        BY <4>1, CallsOfMessage
    <3>5. CASE i <= at
      <4>0. i \in Nat /\ org[i] = i
        <5>1. i \in Nat
          BY <1>4, <2>2
        <5>2. ~(i > at + n)
          BY <1>1, <3>5, <5>1
        <5> QED
          BY <1>5, <2>2, <5>1, <5>2
      <4>1. org[i] = i /\ j \in 1..at /\ \A k \in (j + 1)..(i - 1) : k \in 1..at
        <5>1. j < i
          BY <3>3, <4>0
        <5>2. j \in 1..at
          BY <1>1, <3>3, <3>5, <4>0, <5>1
        <5>3. \A k \in (j + 1)..(i - 1) : k \in 1..at
          BY <1>1, <3>3, <3>5, <4>0
        <5> QED
          BY <4>0, <5>2, <5>3
      <4>2. \A k \in (j + 1)..(i - 1) : k \in Q
        BY <1>9, <1>14, <3>2, <4>1
      <4>3. sent[j] = fork[j]
        BY <1>3, <4>1
      <4> QED
        BY <3>1, <3>2, <4>1, <4>2, <4>3
    <3>6. CASE i > at + n
      <4>1. org[i] = i - n /\ org[i] > at
        <5>1. ~(i <= at) /\ i \in Nat
          BY <1>1, <1>4, <2>2, <3>6
        <5> QED
          BY <1>5, <2>2, <5>1
      <4>2. j = at
        <5>1. j \notin (at + 1)..Len(fork)
          BY <3>4
        <5>2. ~(j > at)
          BY <1>1, <3>3, <5>1 DEF L
        <5>3. at \notin R
          BY DEF R, Positions
        <5>4. ~(j < at)
          <6>1. j < at => at \in (j + 1)..(org[i] - 1)
            BY <1>1, <3>3, <4>1
          <6> QED
            BY <3>2, <5>3, <6>1
        <5> QED
          BY <1>1, <3>3, <5>2, <5>4
      <4>3. ASSUME NEW k \in (at + 1)..(i - 1) PROVE k \in Q
        <5>1. k \in New \/ (k \in Old /\ org[k] = k - n /\ k - n \in (at + 1)..((i - n) - 1))
          BY <1>11, <2>2, <3>6
        <5>2. k - n \in (at + 1)..((i - n) - 1) => k - n \in R
          BY <3>2, <4>1, <4>2
        <5> QED
          BY <1>14, <1>15, <5>1, <5>2
      <4>4. at \in 1..(i - 1) /\ sent[i].of \in sent[at].calls
        BY <1>12, <1>16, <2>2, <3>1, <3>2, <3>6, <4>2
      <4> QED
        BY <4>3, <4>4
    <3> QED
      BY <1>5, <2>2, <3>5, <3>6
  <2> QED
    BY <1>15, <2>1, <2>2
<1>21. InPairs(sent)
  BY <1>18, <1>19, <1>20 DEF InPairs, Q
<1>22. {j \in Q : sent[j].stop = "pending"} = New
  <2>1. ASSUME NEW j \in Old PROVE sent[j].stop # "pending"
    <3>1. fork[org[j]] \in Messages
      BY <1>1, <1>5
    <3>2. \A m \in Messages : m.stop # "pending"
      BY DEF Messages, Failures
    <3> QED
      BY <1>5, <3>1, <3>2
  <2> QED
    BY <1>7, <1>15, <2>1
<1>23. PendingIn(sent) = calls
  <2>1. PendingIn(sent) = {sent[i].of : i \in New}
    BY <1>22 DEF PendingIn, Q
  <2>2. \A i \in New : sent[i].of \in calls
    BY <1>7
  <2>3. ASSUME NEW call \in calls PROVE \E i \in New : sent[i].of = call
    <3>1. PICK k \in 1..n : seq[k] = call
      BY <1>3
    <3>2. at + k \in New /\ (at + k) - at = k
      BY <1>8
    <3>3. sent[at + k].of = seq[k]
      BY <1>7, <3>2
    <3> QED
      BY <3>1, <3>2, <3>3
  <2> QED
    BY <2>1, <2>2, <2>3
<1> QED
  BY <1>21, <1>23

(* A fork that needs no pending results is a request as it stands. *)
LEMMA PlainIsPaired ==
  ASSUME NEW fork \in Seq(Messages), InIdOrder(fork), ResultsFollow(fork)
  PROVE  fork \in Seq(SentMessages) /\ InPairs(fork) /\ PendingIn(fork) = {}
<1>1. fork \in Seq(SentMessages)
  BY MessagesAreSent, SeqMonotonic
<1>2. InPairs(fork)
  <2>1. \A i, j \in {k \in DOMAIN fork : fork[k].id # 0} : i < j => fork[i].id < fork[j].id
    BY DEF InIdOrder
  <2>2. ASSUME NEW i \in Positions(fork, "toolResult")
        PROVE  \E j \in 1..(i - 1) : /\ fork[i].of \in fork[j].calls
                                     /\ \A k \in (j + 1)..(i - 1) : k \in Positions(fork, "toolResult")
    BY DEF ResultsFollow
  <2>3. \A i, j \in Positions(fork, "toolResult") : fork[i].of = fork[j].of => i = j
    BY DEF ResultsFollow
  <2> QED
    BY <2>1, <2>2, <2>3 DEF InPairs
<1>3. \A i \in DOMAIN fork : fork[i].stop # "pending"
  <2>1. \A i \in DOMAIN fork : fork[i] \in Messages
    BY LenProperties, ElementOfSeq
  <2>2. \A m \in Messages : m.stop # "pending"
    BY DEF Messages, Failures
  <2> QED
    BY <2>1, <2>2
<1>4. PendingIn(fork) = {}
  BY <1>3 DEF PendingIn, Positions
<1> QED
  BY <1>1, <1>2, <1>4

(* The calls that run are open calls of the last answer. *)
LEMMA OpenIsLast ==
  ASSUME NEW fork \in Seq(Messages), NEW open, LastOpen(fork, open), open # {},
         NEW at, at = LastAssistantIndex(fork)
  PROVE  at # 0 /\ fork[at].stop = "toolUse" /\ open \subseteq fork[at].calls \ AnswersIn(fork, DOMAIN fork)
<1>1. PICK p \in DOMAIN fork : /\ open \subseteq fork[p].calls /\ fork[p].stop = "toolUse"
                               /\ (p + 1)..Len(fork) \subseteq Positions(fork, "toolResult")
                               /\ open \cap AnswersIn(fork, DOMAIN fork) = {}
  BY DEF LastOpen
<1>2. Len(fork) \in Nat /\ DOMAIN fork = 1..Len(fork) /\ fork[p] \in Messages
  BY LenProperties, ElementOfSeq
<1>3. fork[p].role = "assistant"
  <2>1. fork[p].calls # {}
    BY <1>1
  <2> QED
    BY <1>2, <2>1, CallsOfMessage
<1>4. /\ at \in 0..Len(fork) /\ (at # 0 => fork[at].role = "assistant")
      /\ \A i \in (at + 1)..Len(fork) : fork[i].role # "assistant"
  BY LastAnswer
<1>5. at = p
  <2>1. p \in Nat /\ at \in Nat /\ p \in 1..Len(fork)
    BY <1>2, <1>4
  <2>2. ~(at < p)
    <3>1. at < p => p \in (at + 1)..Len(fork)
      BY <1>2, <2>1
    <3> QED
      BY <1>3, <1>4, <3>1
  <2>3. ~(p < at)
    <3>1. p < at => at \in (p + 1)..Len(fork) /\ at # 0
      BY <1>2, <1>4, <2>1
    <3>2. p < at => fork[at].role = "toolResult" /\ fork[at].role = "assistant"
      BY <1>1, <1>4, <3>1 DEF Positions
    <3> QED
      BY <3>2
  <2> QED
    BY <2>1, <2>2, <2>3
<1>6. at # 0
  BY <1>2, <1>5
<1> QED
  BY <1>1, <1>5, <1>6

(* The fork with its pending results is paired, and the pending are what runs
   and open calls of the fork. *)
LEMMA PendingIsPaired ==
  ASSUME NEW fork \in Seq(Messages), InIdOrder(fork), ResultsFollow(fork),
         NEW open, LastOpen(fork, open), NEW sent, sent = WithPendingResults(fork)
  PROVE  /\ sent \in Seq(SentMessages) /\ InPairs(sent) /\ open \subseteq PendingIn(sent)
         /\ PendingIn(sent) \subseteq CallsIn(fork, DOMAIN fork) \ AnswersIn(fork, DOMAIN fork)
<1> DEFINE at == LastAssistantIndex(fork)
           calls == fork[at].calls \ AnswersIn(fork, DOMAIN fork)
<1>1. /\ at \in 0..Len(fork) /\ (at # 0 => fork[at].role = "assistant")
      /\ \A i \in (at + 1)..Len(fork) : fork[i].role # "assistant"
  BY LastAnswer
<1>2. open # {} => at # 0 /\ fork[at].stop = "toolUse" /\ open \subseteq calls
  BY OpenIsLast
<1>3. sent = IF at = 0 THEN fork
             ELSE IF fork[at].stop \in Failures THEN fork ELSE PendingPut(fork, at, calls)
  <2>1. AnswersIn(fork, DOMAIN fork)
          = {fork[i].of : i \in {j \in DOMAIN fork : fork[j].role = "toolResult"}}
    BY DEF AnswersIn, Positions
  <2> QED
    BY <2>1 DEF WithPendingResults, PendingPut
<1>4. Len(fork) \in Nat /\ DOMAIN fork = 1..Len(fork) /\ \A i \in DOMAIN fork : fork[i] \in Messages
  BY LenProperties, ElementOfSeq
<1>5. "toolUse" \notin Failures
  BY DEF Failures
<1>c. calls = fork[at].calls \ AnswersIn(fork, DOMAIN fork)
  OBVIOUS
<1> HIDE DEF at, calls
<1>6. CASE at = 0 \/ fork[at].stop \in Failures
  <2>1. sent = fork
    BY <1>3, <1>6
  <2>2. open = {}
    BY <1>2, <1>5, <1>6
  <2> QED
    BY <2>1, <2>2, PlainIsPaired
<1>7. CASE ~(at = 0 \/ fork[at].stop \in Failures)
  <2>1. sent = PendingPut(fork, at, calls) /\ at \in 1..Len(fork) /\ at \in DOMAIN fork
    BY <1>1, <1>3, <1>4, <1>7
  <2>2. calls \in SUBSET Calls /\ IsFiniteSet(calls)
    <3>1. IsFiniteSet(fork[at].calls) /\ fork[at].calls \subseteq Calls
      BY <1>4, <2>1, CallsOfMessage
    <3>2. calls \subseteq fork[at].calls
      BY <1>c
    <3> QED
      BY <3>1, <3>2, FS_Subset
  <2>3. sent \in Seq(SentMessages) /\ PutBehind(sent, fork, at, calls)
    BY <2>1, <2>2, PendingArePut
  <2>4. fork[at].role = "assistant" /\ \A i \in (at + 1)..Len(fork) : fork[i].role # "assistant"
    BY <1>1, <1>7
  <2>5. InPairs(sent) /\ PendingIn(sent) = calls
    BY <1>c, <2>1, <2>3, <2>4, PutIsPaired
  <2>6. calls \subseteq CallsIn(fork, DOMAIN fork) \ AnswersIn(fork, DOMAIN fork)
    BY <1>c, <2>1 DEF CallsIn
  <2>7. open \subseteq calls
    BY <1>2
  <2> QED
    BY <2>3, <2>5, <2>6, <2>7
<1> QED
  BY <1>6, <1>7

LEMMA ToldIsPaired ==
  ASSUME Told
  PROVE  ForkIsPaired
<1> DEFINE fork == Fork
           front == WithPendingResults(fork)
           said == ReplayTurns(chat.turns)
           mid == front \o said
           last == <<Question>>
           sent == mid \o last
<1>1. /\ fork \in Seq(Messages) /\ InIdOrder(fork) /\ ResultsFollow(fork) /\ LastOpen(fork, running)
      /\ NothingLost(session, fork) /\ session \in Seq(Messages) /\ chat \in Chats
  BY DEF Told, Story
<1>s. sent = BuildBtwMessages(Fork, chat.turns)
  BY DEF BuildBtwMessages
<1>d. front = WithPendingResults(fork) /\ mid = front \o said /\ sent = mid \o last
  OBVIOUS
<1>2. said \in Seq(Says)
  <2>1. chat.turns \in Seq(Turns)
    BY <1>1 DEF Chats
  <2> QED
    BY <2>1, ReplayedTurns
<1>3. last \in Seq(Says)
  <2>1. Question \in Says
    BY DEF Question, Message, Says
  <2> QED
    BY <2>1
<1> HIDE DEF fork, front, said, mid, last, sent
<1>4. /\ front \in Seq(SentMessages) /\ InPairs(front) /\ running \subseteq PendingIn(front)
      /\ PendingIn(front) \subseteq CallsIn(fork, DOMAIN fork) \ AnswersIn(fork, DOMAIN fork)
  BY <1>1, <1>d, PendingIsPaired
<1>5. InPairs(mid) /\ PendingIn(mid) = PendingIn(front)
  BY <1>2, <1>4, <1>d, SaidBehind
<1>6. mid \in Seq(SentMessages)
  <2>1. Says \subseteq SentMessages
    BY DEF Says, SentMessages, Roles
  <2>2. said \in Seq(SentMessages)
    BY <1>2, <2>1, SeqMonotonic
  <2> QED
    BY <1>4, <1>d, <2>2, ConcatProperties
<1>7. InPairs(sent) /\ PendingIn(sent) = PendingIn(front)
  BY <1>3, <1>5, <1>6, <1>d, SaidBehind
<1>8. ASSUME NEW call \in PendingIn(sent) \ running PROVE Orphaned(call)
  <2>1. call \in CallsIn(fork, DOMAIN fork) /\ call \notin AnswersIn(fork, DOMAIN fork)
    BY <1>4, <1>7, <1>8
  <2>2. call \notin AnswersIn(session, DOMAIN session)
    BY <1>1, <2>1 DEF NothingLost
  <2>3. call # <<>>
    <3>1. PICK i \in DOMAIN fork : call \in fork[i].calls
      BY <2>1 DEF CallsIn
    <3>2. fork[i] \in Messages
      BY <1>1, LenProperties, ElementOfSeq
    <3> QED
      BY <3>1, <3>2, CallsOfMessage, CallIsNotNone
  <2>4. ASSUME NEW i \in DOMAIN session, session[i].of = call PROVE FALSE
    <3>1. session[i] \in Messages
      BY <1>1, LenProperties, ElementOfSeq
    <3>2. session[i].role = "toolResult"
      BY <2>3, <2>4, <3>1, CallsOfMessage
    <3> QED
      BY <2>2, <2>4, <3>2 DEF AnswersIn, Positions
  <2> QED
    BY <1>8, <2>4 DEF Orphaned
<1>9. running \subseteq PendingIn(sent)
  BY <1>4, <1>7
<1> QED
  BY <1>7, <1>8, <1>9, <1>s DEF ForkIsPaired, InPairs, PendingIn

-----------------------------------------------------------------------------
(* What holds in every behaviour *)

(* The side chat's inductive invariant: the session's messages and the fork *)
(* tell the same story, in the order of pi's loop, and lose no result       *)
(* between them (ForkSnapshot, btw-context.ts).                             *)
THEOREM ChatInvariant == ChatSpec => []ChatInv
  BY AlwaysTold, ToldIsInv, PTL

(* Behind a swap marker the view starts at the longest tail that parts no   *)
(* call from its result and fits the budget (selectContextTail and llmView, *)
(* context-cap-view.ts).                                                    *)
THEOREM TailIsAlwaysLongest == ChatSpec => []TailIsLongest
  BY AlwaysTold, ToldHasTail, PTL

(* What the side chat would send holds every message once, in order, with   *)
(* results behind their calls, and calls pending what runs and only what    *)
(* runs or was orphaned (buildBtwMessages, btw-context.ts).                 *)
THEOREM ForkIsAlwaysPaired == ChatSpec => []ForkIsPaired
  BY AlwaysTold, ToldIsPaired, PTL
===============================================================================
