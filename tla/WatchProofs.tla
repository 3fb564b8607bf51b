----------------------------- MODULE WatchProofs ------------------------------
(***************************************************************************)
(* Theorems about the watch overlay and what it shows: ChildView, for      *)
(* branches of any length and any number of calls and views;               *)
(* WatchViewport, for bodies and terminals of any size; WatchOverlay, for  *)
(* any children, records and terminals.                                    *)
(***************************************************************************)
EXTENDS ChildView, WatchViewport, WatchOverlay, DataLemmas

-----------------------------------------------------------------------------
(* The replay *)

LEMMA ReplayedIs ==
  ASSUME NEW v \in Views, NEW entry \in Entries
  PROVE  ReplayEntry(v, entry) \in Views
<1>1. entry.calls \in SUBSET CallIds /\ v.rows \in SUBSET CallIds /\ v.pending \in SUBSET CallIds
      /\ v.failed \in SUBSET CallIds /\ v.users + 1 \in Nat /\ v.dividers + 1 \in Nat
  BY DEF Views, Entries
<1>2. SyncToolCalls(v, entry.calls) \in Views
  BY <1>1 DEF SyncToolCalls, Views
<1>3. \A stop : \A w \in Views : FailNeverRunCalls(w, stop, entry.calls) \in Views
  BY <1>1 DEF FailNeverRunCalls, Views
<1>4. [v EXCEPT !.pending = @ \ {entry.of}] \in Views
  BY <1>1 DEF Views
<1>5. \A role : AddMessageBlock(v, role) \in Views
  <2>1. [v EXCEPT !.users = @ + 1] \in Views /\ [v EXCEPT !.dividers = @ + 1] \in Views
    BY <1>1 DEF Views
  <2> QED
    BY <2>1 DEF AddMessageBlock
<1> QED
  BY <1>2, <1>3, <1>4, <1>5 DEF ReplayEntry

(* The views of a replay, after each entry. *)
Replays(v, entries) ==
  /\ v \in [0..Len(entries) -> Views] /\ v[0] = EmptyView
  /\ \A k \in 1..Len(entries) : v[k] = ReplayEntry(v[k - 1], entries[k])

LEMMA ReplayFolds ==
  ASSUME NEW entries \in Seq(Entries)
  PROVE  \E v : Replays(v, entries)
               /\ FoldLeft(ReplayEntry, EmptyView, entries) = v[Len(entries)]
<1> DEFINE D == DOMAIN entries
           Is(g) == g = [s \in SUBSET D |->
                           IF s = {} THEN EmptyView ELSE ReplayEntry(g[s \ {Max(s)}], entries[Max(s)])]
           iter == CHOOSE g : Is(g)
           F == [p \in Views \X Entries |-> ReplayEntry(p[1], p[2])]
<1>1. Len(entries) \in Nat /\ D = 1..Len(entries) /\ \A k \in D : entries[k] \in Entries
  BY LenProperties, ElementOfSeq
<1>2. FoldLeft(ReplayEntry, EmptyView, entries) = iter[D]
  BY DEF FoldLeft, MapThenFoldSet
<1>3. EmptyView \in Views
  BY DEF EmptyView, Views
<1>4. F \in [Views \X Entries -> Views]
  BY ReplayedIs
<1>0. \A w \in Views, e \in Entries : F[<<w, e>>] = ReplayEntry(w, e)
  OBVIOUS
<1>5. \A s \in SUBSET D : s # {} => Max(s) \in D
  BY <1>1, MaxOfPlaces
<1> HIDE DEF F
<1>6. PICK g \in [SUBSET D -> Views] : FoldsTo(g, Views, F, EmptyView, entries)
  BY <1>3, <1>4, FoldOfPlaces
<1> HIDE DEF D
<1>7. Is(g)
  <2>1. ASSUME NEW s \in SUBSET D, s # {} PROVE g[s] = ReplayEntry(g[s \ {Max(s)}], entries[Max(s)])
    <3>1. g[s \ {Max(s)}] \in Views /\ entries[Max(s)] \in Entries
      BY <1>1, <1>5, <2>1
    <3> QED
      BY <1>0, <1>6, <2>1, <3>1 DEF FoldsTo, D
  <2>2. g = [s \in SUBSET D |-> g[s]] /\ g[{}] = EmptyView
    BY <1>6 DEF FoldsTo
  <2> QED
    BY <2>1, <2>2
<1> HIDE DEF iter
<1>8. Is(iter)
  <2> HIDE DEF Is
  <2> QED
    BY <1>7 DEF iter
<1>9. /\ iter[{}] = EmptyView
      /\ \A s \in SUBSET D : s # {} => iter[s] = ReplayEntry(iter[s \ {Max(s)}], entries[Max(s)])
  BY <1>8
<1> HIDE DEF Is
<1>10. FoldsTo(iter, Views, F, EmptyView, entries)
  BY <1>0, <1>1, <1>5, <1>9 DEF FoldsTo, D
<1>11. StepsTo(iter[D], Views, F, EmptyView, entries)
  BY <1>3, <1>4, <1>10, FoldIsSteps DEF D
<1>12. PICK v : FoldSteps(v, Views, F, EmptyView, entries) /\ iter[D] = v[Len(entries)]
  BY <1>11 DEF StepsTo
<1>13. Replays(v, entries)
  <2>1. ASSUME NEW k \in 1..Len(entries) PROVE v[k - 1] \in Views /\ entries[k] \in Entries
    <3>1. k - 1 \in 0..Len(entries)
      BY <1>1
    <3> QED
      BY <1>1, <1>12, <3>1 DEF FoldSteps
  <2> QED
    BY <1>0, <1>12, <2>1 DEF FoldSteps, Replays
<1> QED
  BY <1>2, <1>12, <1>13

(* The calls made, failed and done by the first k entries of a branch, and their blocks of a
   role. *)
MadeTo(b, k)   == UNION {b[i].calls : i \in 1..k}
FailedTo(b, k) == UNION {b[i].calls : i \in {j \in 1..k : b[j].stop \in {"aborted", "error"}}}
DoneTo(b, k)   == {b[i].of : i \in {j \in 1..k : b[j].role = "toolResult"}}
RolesTo(b, k, role) == {j \in 1..k : b[j].role = role}

LEMMA OneMore ==
  ASSUME NEW b, NEW k \in Nat
  PROVE  /\ MadeTo(b, k + 1) = MadeTo(b, k) \cup b[k + 1].calls
         /\ FailedTo(b, k + 1) = FailedTo(b, k) \cup
              (IF b[k + 1].stop \in {"aborted", "error"} THEN b[k + 1].calls ELSE {})
         /\ DoneTo(b, k + 1) = DoneTo(b, k) \cup
              (IF b[k + 1].role = "toolResult" THEN {b[k + 1].of} ELSE {})
         /\ \A role : /\ IsFiniteSet(RolesTo(b, k, role)) /\ Cardinality(RolesTo(b, k, role)) \in Nat
                      /\ Cardinality(RolesTo(b, k + 1, role)) =
                           IF b[k + 1].role = role THEN Cardinality(RolesTo(b, k, role)) + 1
                           ELSE Cardinality(RolesTo(b, k, role))
<1>1. 1..(k + 1) = (1..k) \cup {k + 1} /\ k + 1 \notin 1..k
  OBVIOUS
<1> DEFINE P == 1..k
           Q == 1..(k + 1)
           x == k + 1
<1>2. Q = P \cup {x} /\ x \notin P
  BY <1>1
<1>3. IsFiniteSet(P)
  BY FS_Interval
<1> HIDE DEF P, Q, x
<1>4. UNION {b[i].calls : i \in Q} = (UNION {b[i].calls : i \in P}) \cup b[x].calls
  BY <1>2
<1>5. UNION {b[i].calls : i \in {j \in Q : b[j].stop \in {"aborted", "error"}}} =
        (UNION {b[i].calls : i \in {j \in P : b[j].stop \in {"aborted", "error"}}}) \cup
          (IF b[x].stop \in {"aborted", "error"} THEN b[x].calls ELSE {})
  BY <1>2
<1>6. {b[i].of : i \in {j \in Q : b[j].role = "toolResult"}} =
        {b[i].of : i \in {j \in P : b[j].role = "toolResult"}} \cup
          (IF b[x].role = "toolResult" THEN {b[x].of} ELSE {})
  BY <1>2
<1>7. ASSUME NEW role
      PROVE  LET R == {j \in P : b[j].role = role}
             IN /\ IsFiniteSet(R) /\ Cardinality(R) \in Nat
                /\ Cardinality({j \in Q : b[j].role = role}) =
                     IF b[x].role = role THEN Cardinality(R) + 1 ELSE Cardinality(R)
  <2> DEFINE R == {j \in P : b[j].role = role}
  <2>1. {j \in Q : b[j].role = role} = IF b[x].role = role THEN R \cup {x} ELSE R
    BY <1>2
  <2>2. R \subseteq P /\ x \notin R
    BY <1>2
  <2> HIDE DEF R
  <2>3. IsFiniteSet(R) /\ Cardinality(R) \in Nat
    BY <1>3, <2>2, FS_Subset, FS_CardinalityType
  <2>4. Cardinality(R \cup {x}) = Cardinality(R) + 1
    BY <2>2, <2>3, FS_AddElement
  <2> QED
    BY <2>1, <2>3, <2>4 DEF R
<1>8. MadeTo(b, k + 1) = MadeTo(b, k) \cup b[k + 1].calls
  BY <1>4 DEF MadeTo, P, Q, x
<1>9. FailedTo(b, k + 1) = FailedTo(b, k) \cup
        (IF b[k + 1].stop \in {"aborted", "error"} THEN b[k + 1].calls ELSE {})
  BY <1>5 DEF FailedTo, P, Q, x
<1>10. DoneTo(b, k + 1) = DoneTo(b, k) \cup
         (IF b[k + 1].role = "toolResult" THEN {b[k + 1].of} ELSE {})
  BY <1>6 DEF DoneTo, P, Q, x
<1>11. \A role : /\ IsFiniteSet(RolesTo(b, k, role)) /\ Cardinality(RolesTo(b, k, role)) \in Nat
                /\ Cardinality(RolesTo(b, k + 1, role)) =
                     IF b[k + 1].role = role THEN Cardinality(RolesTo(b, k, role)) + 1
                     ELSE Cardinality(RolesTo(b, k, role))
  BY <1>7 DEF RolesTo, P, Q, x
<1> QED
  BY <1>8, <1>9, <1>10, <1>11

LEMMA WholeBranch ==
  ASSUME NEW b \in Seq(Entries), b = branch
  PROVE  /\ Len(b) \in Nat /\ DOMAIN b = 1..Len(b)
         /\ Made = MadeTo(b, Len(b)) /\ Done = DoneTo(b, Len(b))
         /\ \A role : Saved(role) = RolesTo(b, Len(b), role)
<1>1. Len(b) \in Nat /\ DOMAIN b = 1..Len(b)
  BY LenProperties
<1> QED
  BY <1>1 DEF Made, Done, Saved, MadeTo, DoneTo, RolesTo

(* Calls bear the places of their answers: none is made twice, results are of calls made, and
   no call of a failed answer has one. *)
LEMMA CallsApart ==
  ASSUME ViewTypeOK, CallsAreOfAnswers, NEW k \in 0..Len(branch)
  PROVE  /\ MadeTo(branch, k) \subseteq (1..k) \X Nat
         /\ FailedTo(branch, k) \subseteq MadeTo(branch, k)
         /\ DoneTo(branch, k) \subseteq MadeTo(branch, k)
         /\ FailedTo(branch, k) \cap DoneTo(branch, k) = {}
<1>1. Len(branch) \in Nat /\ DOMAIN branch = 1..Len(branch) /\ 1..k \subseteq DOMAIN branch
      /\ \A i \in 1..k : i \in Nat
  BY LenProperties DEF ViewTypeOK
<1>2. ASSUME NEW i \in 1..k PROVE branch[i].calls \subseteq {i} \X Nat
  BY <1>1 DEF CallsAreOfAnswers
<1>3. ASSUME NEW id \in DoneTo(branch, k)
      PROVE  \E j \in 1..k : branch[j].stop = "toolUse" /\ id \in branch[j].calls
  <2>1. PICK i \in 1..k : branch[i].role = "toolResult" /\ id = branch[i].of
    BY <1>3 DEF DoneTo
  <2>2. PICK j \in 1..(i - 1) : branch[j].stop = "toolUse" /\ branch[i].of \in branch[j].calls
    BY <1>1, <2>1 DEF CallsAreOfAnswers
  <2>3. j \in 1..k
    OBVIOUS
  <2> QED
    BY <2>1, <2>2, <2>3
<1>4. MadeTo(branch, k) \subseteq (1..k) \X Nat
  BY <1>2 DEF MadeTo
<1>5. FailedTo(branch, k) \subseteq MadeTo(branch, k)
  BY DEF MadeTo, FailedTo
<1>6. DoneTo(branch, k) \subseteq MadeTo(branch, k)
  BY <1>3 DEF MadeTo
<1>7. ASSUME NEW id \in FailedTo(branch, k), id \in DoneTo(branch, k) PROVE FALSE
  <2>1. PICK i \in 1..k : branch[i].stop \in {"aborted", "error"} /\ id \in branch[i].calls
    BY <1>7 DEF FailedTo
  <2>2. PICK j \in 1..k : branch[j].stop = "toolUse" /\ id \in branch[j].calls
    BY <1>3, <1>7
  <2>3. id[1] = i /\ id[1] = j
    BY <1>2, <2>1, <2>2
  <2> QED
    BY <2>1, <2>2, <2>3
<1> QED
  BY <1>4, <1>5, <1>6, <1>7

(* What the view of a branch's first k entries shows. *)
Sums(v, b, k) ==
  /\ v.rows = MadeTo(b, k) /\ v.failed = FailedTo(b, k)
  /\ v.pending = MadeTo(b, k) \ (FailedTo(b, k) \cup DoneTo(b, k))
  /\ v.users = Cardinality(RolesTo(b, k, "user"))
  /\ v.dividers = Cardinality(RolesTo(b, k, "marker"))
  /\ v.prompts = 0

LEMMA EntrySums ==
  ASSUME ViewTypeOK, CallsAreOfAnswers, NEW k \in 0..(Len(branch) - 1),
         NEW v \in Views, Sums(v, branch, k)
  PROVE  Sums(ReplayEntry(v, branch[k + 1]), branch, k + 1)
<1> DEFINE e == branch[k + 1]
           M == MadeTo(branch, k)
           F == FailedTo(branch, k)
           D == DoneTo(branch, k)
           U == Cardinality(RolesTo(branch, k, "user"))
           H == Cardinality(RolesTo(branch, k, "marker"))
           C == e.calls
           w == ReplayEntry(v, e)
           badly == e.stop \in {"aborted", "error"}
<1>1. Len(branch) \in Nat /\ DOMAIN branch = 1..Len(branch) /\ k \in Nat /\ k \in 0..Len(branch)
      /\ k + 1 \in DOMAIN branch
  BY LenProperties DEF ViewTypeOK
<1>2. /\ MadeTo(branch, k + 1) = M \cup C
      /\ FailedTo(branch, k + 1) = F \cup (IF badly THEN C ELSE {})
      /\ DoneTo(branch, k + 1) = D \cup (IF e.role = "toolResult" THEN {e.of} ELSE {})
      /\ U \in Nat /\ H \in Nat
      /\ Cardinality(RolesTo(branch, k + 1, "user")) = (IF e.role = "user" THEN U + 1 ELSE U)
      /\ Cardinality(RolesTo(branch, k + 1, "marker")) = (IF e.role = "marker" THEN H + 1 ELSE H)
  BY <1>1, OneMore
<1>3. M \subseteq (1..k) \X Nat /\ F \subseteq M /\ D \subseteq M /\ F \cap D = {}
  BY <1>1, CallsApart
<1>4. /\ C \subseteq {k + 1} \X Nat /\ (C # {} => e.role = "assistant")
      /\ e \in Entries
  BY <1>1, ElementOfSeq DEF CallsAreOfAnswers, ViewTypeOK
<1>5. C \cap M = {}
  <2>1. ASSUME NEW id \in C, id \in M PROVE FALSE
    <3>1. id[1] = k + 1 /\ id[1] \in 1..k
      BY <1>3, <1>4, <2>1
    <3> QED
      BY <1>1, <3>1
  <2> QED
    BY <2>1
<1>6. /\ v.rows = M /\ v.failed = F /\ v.pending = M \ (F \cup D)
      /\ v.users = U /\ v.dividers = H /\ v.prompts = 0
  BY DEF Sums
<1>7. Sums(w, branch, k + 1) <=>
        /\ w.rows = M \cup C /\ w.failed = F \cup (IF badly THEN C ELSE {})
        /\ w.pending = (M \cup C) \ ((F \cup (IF badly THEN C ELSE {}))
                          \cup (D \cup (IF e.role = "toolResult" THEN {e.of} ELSE {})))
        /\ w.users = (IF e.role = "user" THEN U + 1 ELSE U)
        /\ w.dividers = (IF e.role = "marker" THEN H + 1 ELSE H) /\ w.prompts = 0
  <2> HIDE DEF w, e, M, F, D, U, H, badly
  <2> QED
    BY <1>2 DEF Sums
<1> HIDE DEF M, F, D, U, H, badly, e
<1>8. ASSUME e.role = "assistant" PROVE Sums(w, branch, k + 1)
  <2> DEFINE s == SyncToolCalls(v, C)
  <2>1. s \in Views /\ s.rows = M \cup C /\ s.pending = v.pending \cup C /\ s.failed = F
        /\ s.users = U /\ s.dividers = H /\ s.prompts = 0
    BY <1>4, <1>6 DEF SyncToolCalls, Views, Entries
  <2>2. w = FailNeverRunCalls(s, e.stop, C)
    BY <1>8 DEF ReplayEntry
  <2> HIDE DEF s, C, w
  <2>3. CASE badly
    <3>1. w = [s EXCEPT !.failed = @ \cup C, !.pending = @ \ C]
      BY <2>2, <2>3 DEF FailNeverRunCalls, badly
    <3>2. w.rows = M \cup C /\ w.failed = F \cup C /\ w.pending = (v.pending \cup C) \ C
          /\ w.users = U /\ w.dividers = H /\ w.prompts = 0
      BY <2>1, <3>1 DEF Views
    <3>3. (v.pending \cup C) \ C = (M \cup C) \ ((F \cup C) \cup (D \cup {}))
      BY <1>3, <1>5, <1>6
    <3> QED
      BY <1>7, <1>8, <2>3, <3>2, <3>3
  <2>4. CASE ~badly
    <3>1. w = s
      BY <2>2, <2>4 DEF FailNeverRunCalls, badly
    <3>2. v.pending \cup C = (M \cup C) \ ((F \cup {}) \cup (D \cup {}))
      BY <1>3, <1>5, <1>6
    <3> QED
      BY <1>7, <1>8, <2>1, <2>4, <3>1, <3>2
  <2> QED
    BY <2>3, <2>4
<1>9. ASSUME e.role = "toolResult" PROVE Sums(w, branch, k + 1)
  <2>1. C = {}
    BY <1>4, <1>9
  <2>2. w = [v EXCEPT !.pending = @ \ {e.of}]
    BY <1>9 DEF ReplayEntry
  <2> HIDE DEF C, w
  <2>3. w.rows = M /\ w.failed = F /\ w.pending = v.pending \ {e.of}
        /\ w.users = U /\ w.dividers = H /\ w.prompts = 0
    BY <1>6, <2>2 DEF Views
  <2>4. v.pending \ {e.of} = (M \cup C) \ ((F \cup {}) \cup (D \cup {e.of}))
    BY <1>6, <2>1
  <2> QED
    BY <1>7, <1>9, <2>1, <2>3, <2>4
<1>10. ASSUME e.role \notin {"assistant", "toolResult"} PROVE Sums(w, branch, k + 1)
  <2>1. C = {}
    BY <1>4, <1>10
  <2>2. w = AddMessageBlock(v, e.role)
    BY <1>10 DEF ReplayEntry
  <2> HIDE DEF C, w
  <2>3. /\ w.rows = M /\ w.failed = F /\ w.pending = v.pending /\ w.prompts = 0
        /\ w.users = (IF e.role = "user" THEN U + 1 ELSE U)
        /\ w.dividers = (IF e.role = "marker" THEN H + 1 ELSE H)
    BY <1>6, <2>2 DEF AddMessageBlock, Views
  <2>4. v.pending = (M \cup C) \ ((F \cup {}) \cup (D \cup {}))
    BY <1>6, <2>1
  <2> QED
    BY <1>7, <1>10, <2>1, <2>3, <2>4
<1> QED
  BY <1>8, <1>9, <1>10 DEF w, e

(* A replay shows the branch: every call that was made, an error for each without a result,
   nothing pending, and each prompt and divider once. *)
LEMMA ReplayIsTrue ==
  ASSUME ViewTypeOK, CallsAreOfAnswers
  PROVE  LET v == Replay(branch)
         IN /\ v \in Views /\ v.pending = {} /\ v.rows = Made /\ v.failed = Made \ Done
            /\ v.users = Cardinality(Saved("user")) /\ v.dividers = Cardinality(Saved("marker"))
            /\ v.prompts = 0
<1> DEFINE n == Len(branch)
<1>1. branch \in Seq(Entries) /\ n \in Nat
  BY LenProperties DEF ViewTypeOK
<1>2. PICK v : Replays(v, branch) /\ FoldLeft(ReplayEntry, EmptyView, branch) = v[n]
  BY <1>1, ReplayFolds
<1>3. /\ v \in [0..n -> Views] /\ v[0] = EmptyView
      /\ \A k \in 1..n : v[k] = ReplayEntry(v[k - 1], branch[k])
  BY <1>2 DEF Replays
<1> DEFINE S == {k \in 0..n : Sums(v[k], branch, k)}
<1>4. 0 \in S
  <2>1. 1..0 = {}
    OBVIOUS
  <2>2. MadeTo(branch, 0) = {} /\ FailedTo(branch, 0) = {}
    BY <2>1 DEF MadeTo, FailedTo
  <2>3. Cardinality(RolesTo(branch, 0, "user")) = 0 /\ Cardinality(RolesTo(branch, 0, "marker")) = 0
    <3>1. RolesTo(branch, 0, "user") = {} /\ RolesTo(branch, 0, "marker") = {}
      BY <2>1 DEF RolesTo
    <3> QED
      BY <3>1, FS_EmptySet
  <2>4. Sums(EmptyView, branch, 0)
    BY <2>2, <2>3 DEF Sums, EmptyView
  <2> QED
    BY <1>1, <1>3, <2>4
<1>5. ASSUME NEW k \in 0..(n - 1), k \in S PROVE k + 1 \in S
  <2>1. k + 1 \in 1..n /\ k + 1 \in 0..n /\ k \in 0..n /\ (k + 1) - 1 = k
    BY <1>1
  <2>2. v[k] \in Views /\ Sums(v[k], branch, k)
    BY <1>3, <1>5, <2>1
  <2>3. v[k + 1] = ReplayEntry(v[(k + 1) - 1], branch[k + 1])
    BY <1>3, <2>1
  <2>4. Sums(ReplayEntry(v[k], branch[k + 1]), branch, k + 1)
    BY <2>2, EntrySums
  <2> QED
    BY <2>1, <2>3, <2>4
<1> HIDE DEF S
<1>6. 0..n \subseteq S
  BY <1>1, <1>4, <1>5, UpTo
<1> DEFINE w == v[n]
<1>7. w \in Views /\ Sums(w, branch, n)
  <2>1. n \in 0..n
    BY <1>1
  <2> QED
    BY <1>3, <1>6, <2>1 DEF S
<1>8. Replay(branch) = [w EXCEPT !.failed = @ \cup w.pending, !.pending = {}]
  BY <1>2 DEF Replay
<1> HIDE DEF w
<1> DEFINE r == Replay(branch)
<1>9. r \in Views /\ r.pending = {} /\ r.rows = w.rows /\ r.failed = w.failed \cup w.pending
      /\ r.users = w.users /\ r.dividers = w.dividers /\ r.prompts = w.prompts
  BY <1>7, <1>8 DEF Views
<1>10. Made = MadeTo(branch, n) /\ Done = DoneTo(branch, n)
       /\ \A role : Saved(role) = RolesTo(branch, n, role)
  BY <1>1, WholeBranch
<1>11. FailedTo(branch, n) \subseteq MadeTo(branch, n) /\ FailedTo(branch, n) \cap DoneTo(branch, n) = {}
  <2>1. n \in 0..n
    BY <1>1
  <2> QED
    BY <2>1, CallsApart
<1> HIDE DEF r, n
<1>12. /\ w.rows = MadeTo(branch, n) /\ w.failed = FailedTo(branch, n)
       /\ w.pending = MadeTo(branch, n) \ (FailedTo(branch, n) \cup DoneTo(branch, n))
       /\ w.users = Cardinality(RolesTo(branch, n, "user"))
       /\ w.dividers = Cardinality(RolesTo(branch, n, "marker")) /\ w.prompts = 0
  BY <1>7 DEF Sums
<1>13. r.failed = Made \ Done
  BY <1>9, <1>10, <1>11, <1>12
<1> QED
  BY <1>9, <1>10, <1>12, <1>13 DEF r

-----------------------------------------------------------------------------
(* The view's operations, live *)

LEMMA OperationsAreTyped ==
  ASSUME NEW v \in Views, NEW calls \in SUBSET CallIds
  PROVE  /\ SyncToolCalls(v, calls) \in Views /\ AddUserMessage(v) \in Views
         /\ [v EXCEPT !.streaming = TRUE] \in Views
         /\ \A stop : EndAssistant(v, calls, stop) \in Views
         /\ \A call : ToolExecutionEnd(v, call) \in Views
         /\ \A role : AddInjectedMessage(v, role) \in Views
<1>1. \A w \in Views : \A role : AddMessageBlock(w, role) \in Views
  <2>1. ASSUME NEW w \in Views
        PROVE  [w EXCEPT !.users = @ + 1] \in Views /\ [w EXCEPT !.dividers = @ + 1] \in Views
    <3>1. w.users + 1 \in Nat /\ w.dividers + 1 \in Nat
      BY DEF Views
    <3> QED
      BY <3>1 DEF Views
  <2> QED
    BY <2>1 DEF AddMessageBlock
<1>2. [v EXCEPT !.prompts = @ + 1] \in Views /\ (v.prompts > 0 => [v EXCEPT !.prompts = @ - 1] \in Views)
  <2>1. v.prompts + 1 \in Nat /\ (v.prompts > 0 => v.prompts - 1 \in Nat)
    BY DEF Views
  <2> QED
    BY <2>1 DEF Views
<1>3. AddUserMessage(v) \in Views
  BY <1>1, <1>2 DEF AddUserMessage
<1>4. \A role : AddInjectedMessage(v, role) \in Views
  BY <1>1, <1>2 DEF AddInjectedMessage
<1>5. SyncToolCalls(v, calls) \in Views
  BY DEF SyncToolCalls, Views
<1>6. [v EXCEPT !.streaming = TRUE] \in Views /\ \A call : ToolExecutionEnd(v, call) \in Views
  BY DEF ToolExecutionEnd, Views
<1>7. ASSUME NEW stop PROVE EndAssistant(v, calls, stop) \in Views
  <2> DEFINE s == SyncToolCalls(v, calls)
             f == FailNeverRunCalls(s, stop, s.pending)
  <2>1. s \in Views
    BY <1>5
  <2>2. EndAssistant(v, calls, stop) = [f EXCEPT !.streaming = FALSE]
    BY DEF EndAssistant
  <2> HIDE DEF s
  <2>3. f \in Views
    BY <2>1 DEF FailNeverRunCalls, Views
  <2> HIDE DEF f
  <2> QED
    BY <2>2, <2>3 DEF Views
<1> QED
  BY <1>3, <1>4, <1>5, <1>6, <1>7

(* What a view shows of the calls under way, made and done, and of the prompts and markers. *)
Shows(v, calls, made, done, users, markers) ==
  /\ v.pending = calls /\ v.rows = made \cup calls /\ v.failed = made \ (done \cup calls)
  /\ v.users = users + v.prompts /\ v.dividers = markers

LEMMA CallShows ==
  ASSUME NEW v \in Views, NEW calls, NEW made, NEW done, NEW users, NEW markers,
         Shows(v, calls, made, done, users, markers), NEW call, call \notin made
  PROVE  Shows(SyncToolCalls(v, calls \cup {call}), calls \cup {call}, made, done, users, markers)
<1> DEFINE C == calls \cup {call}
           w == SyncToolCalls(v, C)
<1>1. w.pending = v.pending \cup C /\ w.rows = v.rows \cup C /\ w.failed = v.failed
      /\ w.users = v.users /\ w.prompts = v.prompts /\ w.dividers = v.dividers
  BY DEF SyncToolCalls, Views
<1> HIDE DEF w
<1>2. w.pending = C /\ w.rows = made \cup C /\ w.failed = made \ (done \cup C)
  BY <1>1 DEF Shows
<1> QED
  BY <1>1, <1>2 DEF Shows, w

LEMMA EndShows ==
  ASSUME NEW v \in Views, NEW calls \in SUBSET CallIds, NEW made, NEW done, NEW users, NEW markers, NEW stop,
         Shows(v, calls, made, done, users, markers), calls \cap made = {}, done \subseteq made,
         stop = "stop" => calls = {}, stop \in {"stop", "toolUse", "error", "aborted"}
  PROVE  Shows(EndAssistant(v, calls, stop), IF stop = "toolUse" THEN calls ELSE {},
               made \cup calls, done, users, markers)
<1> DEFINE s == SyncToolCalls(v, calls)
           f == FailNeverRunCalls(s, stop, s.pending)
           w == EndAssistant(v, calls, stop)
           left == IF stop = "toolUse" THEN calls ELSE {}
<1>1. s.pending = v.pending \cup calls /\ s.rows = v.rows \cup calls /\ s.failed = v.failed
      /\ s.users = v.users /\ s.prompts = v.prompts /\ s.dividers = v.dividers
  BY DEF SyncToolCalls, Views
<1>2. s \in Views
  BY OperationsAreTyped
<1>3. w = [f EXCEPT !.streaming = FALSE]
  BY DEF EndAssistant
<1> HIDE DEF s, w
<1>4. /\ f.rows = s.rows /\ f.users = s.users /\ f.prompts = s.prompts /\ f.dividers = s.dividers
      /\ f.failed = s.failed \cup (IF stop \in {"aborted", "error"} THEN s.pending ELSE {})
      /\ f.pending = IF stop \in {"aborted", "error"} THEN {} ELSE s.pending
      /\ f \in Views
  BY <1>2 DEF FailNeverRunCalls, Views
<1> HIDE DEF f
<1>5. w.rows = f.rows /\ w.users = f.users /\ w.prompts = f.prompts /\ w.dividers = f.dividers
      /\ w.failed = f.failed /\ w.pending = f.pending
  BY <1>3, <1>4 DEF Views
<1>6. w.pending = left
  BY <1>1, <1>4, <1>5 DEF Shows
<1>7. w.rows = (made \cup calls) \cup left
  BY <1>1, <1>4, <1>5 DEF Shows
<1>8. w.failed = (made \cup calls) \ (done \cup left)
  BY <1>1, <1>4, <1>5 DEF Shows
<1> QED
  BY <1>1, <1>4, <1>5, <1>6, <1>7, <1>8 DEF Shows, w

LEMMA ResultShows ==
  ASSUME NEW v \in Views, NEW calls, NEW made, NEW done, NEW users, NEW markers,
         Shows(v, calls, made, done, users, markers), NEW call, call \in made, call \in calls
  PROVE  Shows(ToolExecutionEnd(v, call), calls \ {call}, made, done \cup {call}, users, markers)
<1> DEFINE w == ToolExecutionEnd(v, call)
<1>1. w.pending = v.pending \ {call} /\ w.rows = v.rows /\ w.failed = v.failed
      /\ w.users = v.users /\ w.prompts = v.prompts /\ w.dividers = v.dividers
  BY DEF ToolExecutionEnd, Views
<1> HIDE DEF w
<1> QED
  <2>1. w.rows = made \cup (calls \ {call})
    BY <1>1 DEF Shows
  <2>2. w.failed = made \ ((done \cup {call}) \cup (calls \ {call}))
    BY <1>1 DEF Shows
  <2> QED
    BY <1>1, <2>1, <2>2 DEF Shows, w

(* A message of the run that is saved: the prompt in front of it is counted once. *)
LEMMA MessageShows ==
  ASSUME NEW v \in Views, NEW calls, NEW made, NEW done, NEW users \in Nat, NEW markers \in Nat,
         Shows(v, calls, made, done, users, markers), NEW role \in {"user", "demand", "marker"}
  PROVE  Shows(AddInjectedMessage(v, role), calls, made, done,
               IF role = "user" THEN users + 1 ELSE users,
               IF role = "marker" THEN markers + 1 ELSE markers)
<1> DEFINE w == AddInjectedMessage(v, role)
<1>1. v.users \in Nat /\ v.prompts \in Nat /\ v.dividers \in Nat
  BY DEF Views
<1>2. w.pending = v.pending /\ w.rows = v.rows /\ w.failed = v.failed
  BY DEF AddInjectedMessage, AddMessageBlock, Views
<1>3. w.dividers = IF role = "marker" THEN v.dividers + 1 ELSE v.dividers
  BY DEF AddInjectedMessage, AddMessageBlock, Views
<1>4. CASE role = "user" /\ v.prompts > 0
  <2>1. w.users = v.users /\ w.prompts = v.prompts - 1
    BY <1>4 DEF AddInjectedMessage, Views
  <2> HIDE DEF w
  <2>2. w.users = (users + 1) + w.prompts
    BY <1>1, <2>1 DEF Shows
  <2> QED
    BY <1>2, <1>3, <1>4, <2>2 DEF Shows, w
<1>5. CASE role = "user" /\ ~(v.prompts > 0)
  <2>1. w.users = v.users + 1 /\ w.prompts = v.prompts
    BY <1>5 DEF AddInjectedMessage, AddMessageBlock, Views
  <2> HIDE DEF w
  <2>2. w.users = (users + 1) + w.prompts
    BY <1>1, <2>1 DEF Shows
  <2> QED
    BY <1>2, <1>3, <1>5, <2>2 DEF Shows, w
<1>6. CASE role # "user"
  <2>1. w.users = v.users /\ w.prompts = v.prompts
    BY <1>6 DEF AddInjectedMessage, AddMessageBlock, Views
  <2> HIDE DEF w
  <2> QED
    BY <1>2, <1>3, <1>6, <2>1 DEF Shows, w
<1> QED
  BY <1>4, <1>5, <1>6

-----------------------------------------------------------------------------
(* The saved branch *)

Prompts == Cardinality(Saved("user"))
Markers == Cardinality(Saved("marker"))

LEMMA SavedGrows ==
  ASSUME branch \in Seq(Entries), NEW e \in Entries, Save(e)
  PROVE  /\ branch' \in Seq(Entries) /\ Len(branch) \in Nat /\ DOMAIN branch = 1..Len(branch)
         /\ DOMAIN branch' = 1..(Len(branch) + 1) /\ branch'[Len(branch) + 1] = e
         /\ \A i \in 1..Len(branch) : branch'[i] = branch[i]
         /\ Made' = Made \cup e.calls
         /\ Done' = Done \cup (IF e.role = "toolResult" THEN {e.of} ELSE {})
         /\ Prompts \in Nat /\ Markers \in Nat
         /\ Prompts' = (IF e.role = "user" THEN Prompts + 1 ELSE Prompts)
         /\ Markers' = (IF e.role = "marker" THEN Markers + 1 ELSE Markers)
<1> DEFINE n == Len(branch)
           b == branch'
<1>1. n \in Nat /\ DOMAIN branch = 1..n
  BY LenProperties
<1>2. b \in Seq(Entries) /\ Len(b) = n + 1 /\ b[n + 1] = e /\ \A i \in 1..n : b[i] = branch[i]
  BY AppendProperties DEF Save
<1>3. DOMAIN b = 1..(n + 1)
  BY <1>2, LenProperties
<1>4. Made = MadeTo(branch, n) /\ Done = DoneTo(branch, n)
      /\ \A role : Saved(role) = RolesTo(branch, n, role)
  BY <1>1 DEF Made, Done, Saved, MadeTo, DoneTo, RolesTo
<1>5. Made' = MadeTo(b, n + 1) /\ Done' = DoneTo(b, n + 1)
      /\ Saved("user")' = RolesTo(b, n + 1, "user") /\ Saved("marker")' = RolesTo(b, n + 1, "marker")
  BY <1>3 DEF Made, Done, Saved, MadeTo, DoneTo, RolesTo
<1>6. MadeTo(b, n) = MadeTo(branch, n) /\ DoneTo(b, n) = DoneTo(branch, n)
      /\ \A role : RolesTo(b, n, role) = RolesTo(branch, n, role)
  <2> HIDE DEF n, b
  <2>1. MadeTo(b, n) = MadeTo(branch, n)
    BY <1>2 DEF MadeTo
  <2>2. DoneTo(b, n) = DoneTo(branch, n)
    BY <1>2 DEF DoneTo
  <2>3. \A role : RolesTo(b, n, role) = RolesTo(branch, n, role)
    BY <1>2 DEF RolesTo
  <2> QED
    BY <2>1, <2>2, <2>3
<1> HIDE DEF n, b
<1>7. /\ MadeTo(b, n + 1) = MadeTo(b, n) \cup b[n + 1].calls
      /\ DoneTo(b, n + 1) = DoneTo(b, n) \cup
           (IF b[n + 1].role = "toolResult" THEN {b[n + 1].of} ELSE {})
      /\ \A role : /\ Cardinality(RolesTo(b, n, role)) \in Nat
                   /\ Cardinality(RolesTo(b, n + 1, role)) =
                        IF b[n + 1].role = role THEN Cardinality(RolesTo(b, n, role)) + 1
                        ELSE Cardinality(RolesTo(b, n, role))
  BY <1>1, OneMore
<1>8. Made' = Made \cup e.calls
      /\ Done' = Done \cup (IF e.role = "toolResult" THEN {e.of} ELSE {})
  BY <1>2, <1>4, <1>5, <1>6, <1>7
<1>9. Prompts = Cardinality(RolesTo(b, n, "user")) /\ Markers = Cardinality(RolesTo(b, n, "marker"))
      /\ Prompts' = Cardinality(RolesTo(b, n + 1, "user"))
      /\ Markers' = Cardinality(RolesTo(b, n + 1, "marker"))
  BY <1>4, <1>5, <1>6 DEF Prompts, Markers
<1>10. Prompts \in Nat /\ Markers \in Nat
       /\ Prompts' = (IF e.role = "user" THEN Prompts + 1 ELSE Prompts)
       /\ Markers' = (IF e.role = "marker" THEN Markers + 1 ELSE Markers)
  BY <1>2, <1>7, <1>9
<1> QED
  BY <1>1, <1>2, <1>3, <1>8, <1>10 DEF n, b

(* A saved branch whose calls are of its answers stays one when an entry of the kind follows. *)
LEMMA AnswersGrow ==
  ASSUME branch \in Seq(Entries), CallsAreOfAnswers, NEW e \in Entries, Save(e),
         e.calls \subseteq {Len(branch) + 1} \X Nat,
         e.calls # {} => e.role = "assistant" /\ e.stop \in {"toolUse", "error", "aborted"},
         e.role = "toolResult" =>
           \E j \in DOMAIN branch : branch[j].stop = "toolUse" /\ e.of \in branch[j].calls
  PROVE  CallsAreOfAnswers'
<1> DEFINE n == Len(branch)
           b == branch'
<1>1. n \in Nat /\ DOMAIN branch = 1..n /\ DOMAIN b = 1..(n + 1) /\ b[n + 1] = e
      /\ \A i \in 1..n : b[i] = branch[i]
  BY SavedGrows
<1>2. ASSUME NEW i \in DOMAIN b
      PROVE  /\ b[i].calls \subseteq {i} \X Nat
             /\ b[i].calls # {} => b[i].role = "assistant" /\ b[i].stop \in {"toolUse", "error", "aborted"}
             /\ b[i].role = "toolResult" =>
                  \E j \in 1..(i - 1) : b[j].stop = "toolUse" /\ b[i].of \in b[j].calls
  <2>1. i \in 1..n \/ i = n + 1
    BY <1>1
  <2>2. CASE i \in 1..n
    <3>1. /\ branch[i].calls \subseteq {i} \X Nat
          /\ branch[i].calls # {} => branch[i].role = "assistant" /\ branch[i].stop \in {"toolUse", "error", "aborted"}
          /\ branch[i].role = "toolResult" =>
               \E j \in 1..(i - 1) : branch[j].stop = "toolUse" /\ branch[i].of \in branch[j].calls
      BY <1>1, <2>2 DEF CallsAreOfAnswers
    <3>2. b[i] = branch[i] /\ \A j \in 1..(i - 1) : j \in 1..n
      BY <1>1, <2>2
    <3> HIDE DEF n, b
    <3> QED
      BY <1>1, <3>1, <3>2
  <2>3. CASE i = n + 1
    <3>1. 1..(i - 1) = 1..n
      BY <1>1, <2>3
    <3> HIDE DEF b
    <3> QED
      BY <1>1, <2>3, <3>1
  <2> QED
    BY <2>1, <2>2, <2>3
<1> QED
  BY <1>2 DEF CallsAreOfAnswers

(* The calls under way are none of the saved ones while their answer streams; results are of
   saved calls. *)
LEMMA CallsUnderWay ==
  ASSUME ViewInv
  PROVE  /\ Made \subseteq (1..Len(branch)) \X Nat /\ Done \subseteq Made
         /\ \A c \in Nat : <<Len(branch) + 1, c>> \notin Made
         /\ turn.step = "streaming" => turn.calls \cap Made = {}
         /\ turn.step = "acting" => turn.calls \subseteq Made
<1> DEFINE n == Len(branch)
<1>1. n \in Nat /\ DOMAIN branch = 1..n /\ n \in 0..n
  BY LenProperties DEF ViewInv, ViewTypeOK
<1>2. Made = MadeTo(branch, n) /\ Done = DoneTo(branch, n)
  BY <1>1 DEF Made, Done, Saved, MadeTo, DoneTo
<1>3. Made \subseteq (1..n) \X Nat /\ Done \subseteq Made
  BY <1>1, <1>2, CallsApart DEF ViewInv
<1>4. ASSUME NEW id \in {n + 1} \X Nat PROVE id \notin Made
  <2>1. ASSUME id \in Made PROVE FALSE
    <3>1. id[1] = n + 1 /\ id[1] \in 1..n
      BY <1>3, <2>1
    <3> QED
      BY <1>1, <3>1
  <2> QED
    BY <2>1
<1>5. \A c \in Nat : <<n + 1, c>> \notin Made
  BY <1>4
<1>6. turn.step = "streaming" => turn.calls \cap Made = {}
  <2>1. turn.step = "streaming" => turn.calls \subseteq {n + 1} \X Nat
    BY DEF ViewInv, TurnIsCurrent
  <2> QED
    BY <1>4, <2>1
<1>7. turn.step = "acting" => turn.calls \subseteq Made
  BY DEF ViewInv, TurnIsCurrent, Made
<1> QED
  BY <1>3, <1>5, <1>6, <1>7

-----------------------------------------------------------------------------
(* The invariant *)

LEMMA SettledMeans ==
  /\ CallsAreSettled <=> (~orphaned => Shows(view, turn.calls, Made, Done, Prompts, Markers))
  /\ CallsAreSettled' <=>
       (~orphaned' => Shows(view', turn'.calls, Made', Done', Prompts', Markers'))
<1>1. CallsAreSettled <=> (~orphaned => Shows(view, turn.calls, Made, Done, Prompts, Markers))
  BY DEF CallsAreSettled, Shows, Prompts, Markers
<1>2. CallsAreSettled' <=>
        (~orphaned' => Shows(view', turn'.calls, Made', Done', Prompts', Markers'))
  BY DEF CallsAreSettled, Shows, Prompts, Markers
<1> QED
  BY <1>1, <1>2

LEMMA BranchStays ==
  ASSUME UNCHANGED branch
  PROVE  /\ Made' = Made /\ Done' = Done /\ Prompts' = Prompts /\ Markers' = Markers
         /\ CallsAreOfAnswers => CallsAreOfAnswers'
  BY DEF Made, Done, Saved, Prompts, Markers, CallsAreOfAnswers

(* While the loop is not at rest and no run went on unwatched, the view hears its events. *)
LEMMA ViewHears ==
  ASSUME ViewInv, turn.step # "rest", NEW v \in Views, Handle(v)
  PROVE  view' \in Views /\ (~orphaned => view' = v)
  BY DEF ViewInv, ViewTypeOK, TurnIsCurrent, Handle

LEMMA RunStartsKeeps ==
  ASSUME ViewInv, RunStarts
  PROVE  ViewInv'
<1>1. /\ turn.step = "rest" /\ watched' = TRUE /\ view' = AddUserMessage(view)
      /\ turn' = [turn EXCEPT !.step = "prompted"] /\ UNCHANGED <<branch, lives, orphaned>>
  BY DEF RunStarts, Step
<1>2. turn.calls = {} /\ turn'.step = "prompted" /\ turn'.calls = {}
  BY <1>1 DEF ViewInv, ViewTypeOK, TurnIsCurrent
<1>3. ViewTypeOK'
  <2>1. view' \in Views
    BY <1>1, OperationsAreTyped DEF ViewInv, ViewTypeOK
  <2>2. turn' \in [step: Steps, calls: SUBSET CallIds] /\ IsFiniteSet(turn'.calls)
    BY <1>1, <1>2, FS_EmptySet DEF ViewInv, ViewTypeOK, Steps
  <2> QED
    BY <1>1, <2>1, <2>2 DEF ViewInv, ViewTypeOK
<1>4. CallsAreOfAnswers'
  BY <1>1, BranchStays DEF ViewInv
<1>5. TurnIsCurrent'
  BY <1>1, <1>2 DEF TurnIsCurrent
<1>6. CallsAreSettled'
  <2>1. view'.pending = view.pending /\ view'.rows = view.rows /\ view'.failed = view.failed
        /\ view'.users = view.users + 1 /\ view'.prompts = view.prompts + 1
        /\ view'.dividers = view.dividers
    BY <1>1 DEF AddUserMessage, AddMessageBlock, ViewInv, ViewTypeOK, Views
  <2>2. view.users \in Nat /\ view.prompts \in Nat /\ Prompts \in Nat
    <3>1. IsFiniteSet(DOMAIN branch)
      <4>1. DOMAIN branch = 1..Len(branch) /\ Len(branch) \in Nat
        BY LenProperties DEF ViewInv, ViewTypeOK
      <4> QED
        BY <4>1, FS_Interval
    <3>2. Saved("user") \subseteq DOMAIN branch
      BY DEF Saved
    <3>3. Prompts \in Nat
      BY <3>1, <3>2, FS_Subset, FS_CardinalityType DEF Prompts
    <3> QED
      BY <3>3 DEF ViewInv, ViewTypeOK, Views
  <2>3. Made' = Made /\ Done' = Done /\ Prompts' = Prompts /\ Markers' = Markers
    BY <1>1, BranchStays
  <2>4. ~orphaned => Shows(view, turn.calls, Made, Done, Prompts, Markers)
    BY SettledMeans DEF ViewInv
  <2>5. ~orphaned => Shows(view', turn'.calls, Made, Done, Prompts, Markers)
    BY <1>2, <2>1, <2>2, <2>4 DEF Shows
  <2> QED
    BY <1>1, <2>3, <2>5, SettledMeans
<1> QED
  BY <1>3, <1>4, <1>5, <1>6 DEF ViewInv

(* The prompt, a demand or a marker is saved and shown. *)
LEMMA MessageKeeps ==
  ASSUME ViewInv, NEW role \in {"user", "demand", "marker"}, turn.step # "rest", turn.calls = {},
         Save(Block(role)), Handle(AddInjectedMessage(view, role)), Step("ready"), RunGoesOn
  PROVE  ViewInv'
<1> DEFINE e == Block(role)
           w == AddInjectedMessage(view, role)
<1>1. e \in Entries /\ e.role = role /\ e.calls = {}
  BY DEF Block, Entry, Entries
<1>2. branch \in Seq(Entries) /\ view \in Views /\ turn \in [step: Steps, calls: SUBSET CallIds]
  BY DEF ViewInv, ViewTypeOK
<1>3. turn' = [turn EXCEPT !.step = "ready"] /\ watched' = watched /\ lives' = lives
      /\ orphaned' = orphaned
  BY DEF Step, RunGoesOn
<1>4. turn'.step = "ready" /\ turn'.calls = {}
  BY <1>2, <1>3
<1>5. w \in Views
  BY <1>2, OperationsAreTyped
<1> HIDE DEF w, e
<1>6. view' \in Views /\ (~orphaned => view' = w)
  BY <1>5, ViewHears DEF w
<1>7. /\ branch' \in Seq(Entries) /\ Made' = Made /\ Done' = Done
      /\ Prompts \in Nat /\ Markers \in Nat
      /\ Prompts' = (IF role = "user" THEN Prompts + 1 ELSE Prompts)
      /\ Markers' = (IF role = "marker" THEN Markers + 1 ELSE Markers)
  <2>1. Save(e)
    BY DEF e
  <2>2. /\ branch' \in Seq(Entries) /\ Made' = Made \cup e.calls
        /\ Done' = Done \cup (IF e.role = "toolResult" THEN {e.of} ELSE {})
        /\ Prompts \in Nat /\ Markers \in Nat
        /\ Prompts' = (IF e.role = "user" THEN Prompts + 1 ELSE Prompts)
        /\ Markers' = (IF e.role = "marker" THEN Markers + 1 ELSE Markers)
    BY <1>1, <1>2, <2>1, SavedGrows
  <2> QED
    BY <1>1, <2>2
<1>8. ViewTypeOK'
  <2>1. turn' \in [step: Steps, calls: SUBSET CallIds] /\ IsFiniteSet(turn'.calls)
    BY <1>2, <1>3, <1>4, FS_EmptySet DEF Steps
  <2> QED
    BY <1>3, <1>6, <1>7, <2>1 DEF ViewInv, ViewTypeOK
<1>9. CallsAreOfAnswers'
  BY <1>1, <1>2, AnswersGrow DEF ViewInv, e
<1>10. TurnIsCurrent'
  BY <1>3, <1>4 DEF ViewInv, TurnIsCurrent
<1>11. CallsAreSettled'
  <2>1. ~orphaned => Shows(view, turn.calls, Made, Done, Prompts, Markers)
    BY SettledMeans DEF ViewInv
  <2>2. ~orphaned => Shows(w, turn.calls, Made, Done,
               IF role = "user" THEN Prompts + 1 ELSE Prompts,
               IF role = "marker" THEN Markers + 1 ELSE Markers)
    BY <1>2, <1>7, <2>1, MessageShows DEF w
  <2> QED
    BY <1>3, <1>4, <1>6, <1>7, <2>2, SettledMeans
<1> QED
  BY <1>8, <1>9, <1>10, <1>11 DEF ViewInv

(* A step of the run or of its watcher that shows and saves nothing. *)
LEMMA StillKeeps ==
  ASSUME ViewInv, UNCHANGED <<view, branch, lives>>,
         \/ turn' = turn
         \/ turn.calls = {} /\ \E step \in {"rest", "ready"} : Step(step),
         watched' \in BOOLEAN, orphaned' \in BOOLEAN, orphaned => orphaned',
         turn'.step # "rest" => watched' \/ orphaned'
  PROVE  ViewInv'
<1>1. turn' \in [step: Steps, calls: SUBSET CallIds] /\ turn'.calls = turn.calls
      /\ (turn' = turn \/ (turn'.calls = {} /\ turn'.step \in {"rest", "ready"}))
  BY DEF Step, Steps, ViewInv, ViewTypeOK
<1>2. ViewTypeOK'
  BY <1>1 DEF ViewInv, ViewTypeOK
<1>3. CallsAreOfAnswers' /\ Made' = Made /\ Done' = Done /\ Prompts' = Prompts /\ Markers' = Markers
  BY BranchStays DEF ViewInv
<1>4. TurnIsCurrent'
  BY <1>1, <1>3 DEF ViewInv, TurnIsCurrent
<1>5. CallsAreSettled'
  <2>1. ~orphaned => Shows(view, turn.calls, Made, Done, Prompts, Markers)
    BY SettledMeans DEF ViewInv
  <2> QED
    BY <1>1, <1>3, <2>1, SettledMeans
<1> QED
  BY <1>2, <1>3, <1>4, <1>5 DEF ViewInv

LEMMA AnswerStartsKeeps ==
  ASSUME ViewInv, AnswerStarts
  PROVE  ViewInv'
<1> DEFINE w == [view EXCEPT !.streaming = TRUE]
<1>1. /\ turn.step = "ready" /\ turn' = [step |-> "streaming", calls |-> {}]
      /\ Handle(w) /\ UNCHANGED <<branch, watched, lives, orphaned>>
  BY DEF AnswerStarts, RunGoesOn
<1>2. turn.calls = {} /\ turn'.step = "streaming" /\ turn'.calls = {}
  BY <1>1 DEF ViewInv, TurnIsCurrent
<1>3. view' \in Views /\ (~orphaned => view' = w)
  <2>1. w \in Views
    BY OperationsAreTyped DEF ViewInv, ViewTypeOK
  <2> QED
    BY <1>1, <2>1, ViewHears
<1>4. ViewTypeOK'
  <2>1. turn' \in [step: Steps, calls: SUBSET CallIds] /\ IsFiniteSet(turn'.calls)
    BY <1>1, <1>2, FS_EmptySet DEF Steps
  <2> QED
    BY <1>1, <1>3, <2>1 DEF ViewInv, ViewTypeOK
<1>5. CallsAreOfAnswers' /\ Made' = Made /\ Done' = Done /\ Prompts' = Prompts /\ Markers' = Markers
  BY <1>1, BranchStays DEF ViewInv
<1>6. TurnIsCurrent'
  BY <1>1, <1>2 DEF ViewInv, TurnIsCurrent
<1>7. CallsAreSettled'
  <2>1. ~orphaned => Shows(view, turn.calls, Made, Done, Prompts, Markers)
    BY SettledMeans DEF ViewInv
  <2>2. w.pending = view.pending /\ w.rows = view.rows /\ w.failed = view.failed
        /\ w.users = view.users /\ w.prompts = view.prompts /\ w.dividers = view.dividers
    BY DEF ViewInv, ViewTypeOK, Views
  <2> HIDE DEF w
  <2>3. ~orphaned => Shows(w, turn.calls, Made, Done, Prompts, Markers)
    BY <2>1, <2>2 DEF Shows
  <2> QED
    BY <1>1, <1>2, <1>3, <1>5, <2>3, SettledMeans
<1> QED
  BY <1>4, <1>5, <1>6, <1>7 DEF ViewInv

LEMMA CallStreamsKeeps ==
  ASSUME ViewInv, CallStreams
  PROVE  ViewInv'
<1> DEFINE n == Len(branch)
           id == <<n + 1, Cardinality(turn.calls) + 1>>
           C == turn.calls \cup {id}
           w == SyncToolCalls(view, C)
<1>1. /\ turn.step = "streaming" /\ turn' = [turn EXCEPT !.calls = C]
      /\ Handle(w) /\ UNCHANGED <<branch, watched, lives, orphaned>>
  BY DEF CallStreams, RunGoesOn
<1>2. n \in Nat /\ Cardinality(turn.calls) \in Nat
  BY LenProperties, FS_CardinalityType DEF ViewInv, ViewTypeOK
<1>3. id \in {n + 1} \X Nat /\ id \in CallIds
  BY <1>2 DEF CallIds
<1>4. id \notin Made
  BY <1>2, CallsUnderWay
<1>5. turn.calls \subseteq {n + 1} \X Nat /\ turn.calls \in SUBSET CallIds /\ IsFiniteSet(turn.calls)
  BY <1>1 DEF ViewInv, ViewTypeOK, TurnIsCurrent
<1> HIDE DEF id
<1>6. C \subseteq {n + 1} \X Nat /\ C \in SUBSET CallIds /\ IsFiniteSet(C)
  BY <1>3, <1>5, FS_AddElement
<1>7. turn'.step = "streaming" /\ turn'.calls = C
      /\ turn' \in [step: Steps, calls: SUBSET CallIds]
  BY <1>1, <1>6 DEF ViewInv, ViewTypeOK, Steps
<1>8. ~orphaned => Shows(w, C, Made, Done, Prompts, Markers)
  <2>1. ~orphaned => Shows(view, turn.calls, Made, Done, Prompts, Markers)
    BY SettledMeans DEF ViewInv
  <2>2. view \in Views
    BY DEF ViewInv, ViewTypeOK
  <2> QED
    BY <1>4, <2>1, <2>2, CallShows
<1>9. view' \in Views /\ (~orphaned => view' = w)
  <2>1. w \in Views
    BY <1>6, OperationsAreTyped DEF ViewInv, ViewTypeOK
  <2> HIDE DEF w
  <2> QED
    BY <1>1, <2>1, ViewHears
<1> HIDE DEF w, C
<1>10. ViewTypeOK'
  BY <1>1, <1>6, <1>7, <1>9 DEF ViewInv, ViewTypeOK
<1>11. CallsAreOfAnswers' /\ Made' = Made /\ Done' = Done /\ Prompts' = Prompts /\ Markers' = Markers
  BY <1>1, BranchStays DEF ViewInv
<1>12. TurnIsCurrent'
  <2>1. watched' \/ orphaned'
    BY <1>1 DEF ViewInv, TurnIsCurrent
  <2> QED
    BY <1>1, <1>6, <1>7, <2>1 DEF TurnIsCurrent
<1>13. CallsAreSettled'
  BY <1>1, <1>7, <1>8, <1>9, <1>11, SettledMeans
<1> QED
  BY <1>10, <1>11, <1>12, <1>13 DEF ViewInv

LEMMA AnswerIsOverKeeps ==
  ASSUME ViewInv, NEW stop \in {"stop", "toolUse", "error", "aborted"}, AnswerIsOver(stop)
  PROVE  ViewInv'
<1> DEFINE n == Len(branch)
           C == turn.calls
           e == Entry("assistant", C, <<>>, stop)
           w == EndAssistant(view, C, stop)
           left == IF stop = "toolUse" THEN C ELSE {}
<1>1. /\ turn.step = "streaming" /\ (stop = "stop" => C = {})
      /\ Save(e) /\ Handle(w) /\ UNCHANGED <<watched, lives, orphaned>>
      /\ turn' = IF stop = "toolUse" THEN [turn EXCEPT !.step = "acting"] ELSE [step |-> "ended", calls |-> {}]
  BY DEF AnswerIsOver, RunGoesOn
<1>2. /\ branch \in Seq(Entries) /\ view \in Views /\ turn \in [step: Steps, calls: SUBSET CallIds]
      /\ C \in SUBSET CallIds /\ IsFiniteSet(C) /\ C \subseteq {n + 1} \X Nat
  BY <1>1 DEF ViewInv, ViewTypeOK, TurnIsCurrent
<1>3. e \in Entries /\ e.role = "assistant" /\ e.calls = C /\ e.stop = stop
  BY <1>2 DEF Entry, Entries
<1>4. C \cap Made = {} /\ Done \subseteq Made
  BY <1>1, CallsUnderWay
<1>5. /\ turn'.calls = left /\ turn'.step = (IF stop = "toolUse" THEN "acting" ELSE "ended")
      /\ turn' \in [step: Steps, calls: SUBSET CallIds] /\ IsFiniteSet(turn'.calls)
  BY <1>1, <1>2, FS_EmptySet DEF Steps
<1> HIDE DEF e
<1>6. /\ branch' \in Seq(Entries) /\ n \in Nat /\ DOMAIN branch' = 1..(n + 1) /\ branch'[n + 1] = e
      /\ Made' = Made \cup C /\ Done' = Done /\ Prompts' = Prompts /\ Markers' = Markers
  <2>1. /\ branch' \in Seq(Entries) /\ n \in Nat /\ DOMAIN branch' = 1..(n + 1) /\ branch'[n + 1] = e
        /\ Made' = Made \cup e.calls
        /\ Done' = Done \cup (IF e.role = "toolResult" THEN {e.of} ELSE {})
        /\ Prompts' = (IF e.role = "user" THEN Prompts + 1 ELSE Prompts)
        /\ Markers' = (IF e.role = "marker" THEN Markers + 1 ELSE Markers)
    BY <1>1, <1>2, <1>3, SavedGrows
  <2> QED
    BY <1>3, <2>1
<1>7. view' \in Views /\ (~orphaned => view' = w)
  <2>1. w \in Views
    BY <1>2, OperationsAreTyped
  <2> HIDE DEF w
  <2> QED
    BY <1>1, <2>1, ViewHears
<1>8. ~orphaned => Shows(w, left, Made \cup C, Done, Prompts, Markers)
  <2>1. ~orphaned => Shows(view, C, Made, Done, Prompts, Markers)
    BY SettledMeans DEF ViewInv
  <2> HIDE DEF C
  <2> QED
    BY <1>1, <1>2, <1>4, <2>1, EndShows
<1> HIDE DEF w
<1>9. ViewTypeOK'
  BY <1>1, <1>5, <1>6, <1>7 DEF ViewInv, ViewTypeOK
<1>10. CallsAreOfAnswers'
  BY <1>1, <1>2, <1>3, AnswersGrow DEF ViewInv
<1>11. TurnIsCurrent'
  <2>1. watched' \/ orphaned'
    BY <1>1 DEF ViewInv, TurnIsCurrent
  <2>2. ASSUME stop = "toolUse", NEW id \in turn'.calls
        PROVE  id \notin Done' /\ \E j \in DOMAIN branch' :
                 branch'[j].stop = "toolUse" /\ id \in branch'[j].calls
    <3>1. id \in C /\ id \notin Done'
      BY <1>4, <1>5, <1>6, <2>2
    <3>2. n + 1 \in DOMAIN branch'
      BY <1>6
    <3> QED
      BY <1>3, <1>6, <2>2, <3>1, <3>2
  <2> HIDE DEF C
  <2> QED
    BY <1>5, <2>1, <2>2 DEF TurnIsCurrent
<1>12. CallsAreSettled'
  BY <1>1, <1>5, <1>6, <1>7, <1>8, SettledMeans
<1> QED
  BY <1>9, <1>10, <1>11, <1>12 DEF ViewInv

LEMMA CallIsOverKeeps ==
  ASSUME ViewInv, NEW id \in turn.calls, CallIsOver(id)
  PROVE  ViewInv'
<1> DEFINE n == Len(branch)
           C == turn.calls
           e == Entry("toolResult", {}, id, "-")
           w == ToolExecutionEnd(view, id)
<1>1. /\ turn.step = "acting" /\ Save(e) /\ Handle(w) /\ UNCHANGED <<watched, lives, orphaned>>
      /\ turn' = [step |-> IF C = {id} THEN "ended" ELSE "acting", calls |-> C \ {id}]
  BY DEF CallIsOver, RunGoesOn
<1>2. /\ branch \in Seq(Entries) /\ view \in Views /\ C \in SUBSET CallIds /\ IsFiniteSet(C)
      /\ id \in CallIds
  BY DEF ViewInv, ViewTypeOK
<1>3. e \in Entries /\ e.role = "toolResult" /\ e.calls = {} /\ e.of = id
  BY <1>2 DEF Entry, Entries
<1>4. C \subseteq Made
  BY <1>1, CallsUnderWay
<1>5. \A c \in C : c \notin Done /\ \E j \in DOMAIN branch :
        branch[j].stop = "toolUse" /\ c \in branch[j].calls
  BY <1>1 DEF ViewInv, TurnIsCurrent
<1> HIDE DEF e, w
<1>6. /\ turn'.calls = C \ {id} /\ turn'.step = (IF C = {id} THEN "ended" ELSE "acting")
      /\ turn' \in [step: Steps, calls: SUBSET CallIds] /\ IsFiniteSet(turn'.calls)
  <2>1. IsFiniteSet(C \ {id})
    BY <1>2, FS_Subset
  <2> QED
    BY <1>1, <1>2, <2>1 DEF Steps
<1>7. /\ branch' \in Seq(Entries) /\ DOMAIN branch = 1..n /\ DOMAIN branch' = 1..(n + 1)
      /\ n \in Nat /\ \A i \in 1..n : branch'[i] = branch[i]
      /\ Made' = Made /\ Done' = Done \cup {id} /\ Prompts' = Prompts /\ Markers' = Markers
  <2>1. /\ branch' \in Seq(Entries) /\ DOMAIN branch = 1..n /\ DOMAIN branch' = 1..(n + 1)
        /\ n \in Nat /\ (\A i \in 1..n : branch'[i] = branch[i])
        /\ Made' = Made \cup e.calls
        /\ Done' = Done \cup (IF e.role = "toolResult" THEN {e.of} ELSE {})
        /\ Prompts' = (IF e.role = "user" THEN Prompts + 1 ELSE Prompts)
        /\ Markers' = (IF e.role = "marker" THEN Markers + 1 ELSE Markers)
    BY <1>1, <1>2, <1>3, SavedGrows
  <2> QED
    BY <1>3, <2>1
<1>8. view' \in Views /\ (~orphaned => view' = w)
  <2>1. w \in Views
    BY <1>2, OperationsAreTyped DEF w
  <2> QED
    BY <1>1, <2>1, ViewHears
<1>9. ~orphaned => Shows(w, C \ {id}, Made, Done \cup {id}, Prompts, Markers)
  <2>1. ~orphaned => Shows(view, C, Made, Done, Prompts, Markers)
    BY SettledMeans DEF ViewInv
  <2> QED
    BY <1>2, <1>4, <2>1, ResultShows DEF w
<1>10. ViewTypeOK'
  BY <1>1, <1>6, <1>7, <1>8 DEF ViewInv, ViewTypeOK
<1>11. CallsAreOfAnswers'
  BY <1>1, <1>2, <1>3, <1>5, AnswersGrow DEF ViewInv
<1>12. TurnIsCurrent'
  <2>1. watched' \/ orphaned'
    BY <1>1 DEF ViewInv, TurnIsCurrent
  <2>2. ASSUME NEW c \in turn'.calls
        PROVE  c \notin Done' /\ \E j \in DOMAIN branch' :
                 branch'[j].stop = "toolUse" /\ c \in branch'[j].calls
    <3>1. c \in C /\ c # id
      BY <1>6
    <3>2. PICK j \in DOMAIN branch : branch[j].stop = "toolUse" /\ c \in branch[j].calls
      BY <1>5, <3>1
    <3>3. c \notin Done'
      BY <1>5, <1>7, <3>1
    <3>4. j \in DOMAIN branch' /\ branch'[j] = branch[j]
      BY <1>7
    <3> QED
      BY <3>2, <3>3, <3>4
  <2>3. turn'.step = "ended" => turn'.calls = {}
    BY <1>6
  <2> HIDE DEF C
  <2> QED
    BY <1>6, <2>1, <2>2, <2>3 DEF TurnIsCurrent
<1>13. CallsAreSettled'
  BY <1>1, <1>6, <1>7, <1>8, <1>9, SettledMeans
<1> QED
  BY <1>10, <1>11, <1>12, <1>13 DEF ViewInv

LEMMA ReopenedKeeps ==
  ASSUME ViewInv, Reopened
  PROVE  ViewInv'
<1> DEFINE w == Replay(branch)
<1>1. /\ lives' = lives + 1 /\ view' = w /\ turn' = AtRest /\ watched' = FALSE
      /\ orphaned' = FALSE /\ branch' = branch
  BY DEF Reopened
<1>2. /\ w \in Views /\ w.pending = {} /\ w.rows = Made /\ w.failed = Made \ Done
      /\ w.users = Prompts /\ w.dividers = Markers /\ w.prompts = 0
  BY ReplayIsTrue DEF ViewInv, Prompts, Markers
<1> HIDE DEF w
<1>3. turn'.step = "rest" /\ turn'.calls = {} /\ turn' \in [step: Steps, calls: SUBSET CallIds]
      /\ IsFiniteSet(turn'.calls)
  BY <1>1, FS_EmptySet DEF AtRest, Steps
<1>4. ViewTypeOK'
  <2>1. branch \in Seq(Entries) /\ lives \in Nat
    BY DEF ViewInv, ViewTypeOK
  <2>2. view' \in Views /\ lives' \in Nat /\ branch' \in Seq(Entries)
    BY <1>1, <1>2, <2>1
  <2> QED
    BY <1>1, <1>3, <2>2 DEF ViewTypeOK
<1>5. CallsAreOfAnswers' /\ Made' = Made /\ Done' = Done /\ Prompts' = Prompts /\ Markers' = Markers
  BY <1>1, BranchStays DEF ViewInv
<1>6. TurnIsCurrent'
  BY <1>3 DEF TurnIsCurrent
<1>7. Shows(view', {}, Made, Done, Prompts, Markers)
  <2>1. Prompts \in Nat
    <3>1. DOMAIN branch = 1..Len(branch) /\ Len(branch) \in Nat
      BY LenProperties DEF ViewInv, ViewTypeOK
    <3>2. Saved("user") \subseteq DOMAIN branch
      BY DEF Saved
    <3>3. IsFiniteSet(DOMAIN branch)
      BY <3>1, FS_Interval
    <3> QED
      BY <3>2, <3>3, FS_Subset, FS_CardinalityType DEF Prompts
  <2>2. Prompts = Prompts + 0
    BY <2>1
  <2> QED
    BY <1>1, <1>2, <2>2 DEF Shows
<1>8. CallsAreSettled'
  BY <1>3, <1>5, <1>7, SettledMeans
<1> QED
  BY <1>4, <1>5, <1>6, <1>8 DEF ViewInv

(* Every step of the child's loop, of its watcher and of a reopening keeps the invariant
   (child-view.ts, child-session.ts). *)
LEMMA ViewStepKeeps ==
  ASSUME ViewInv, [ViewNext]_viewVars
  PROVE  ViewInv'
<1>1. ASSUME RunStarts PROVE ViewInv'
  BY <1>1, RunStartsKeeps
<1>2. ASSUME PromptDelivered PROVE ViewInv'
  <2>1. turn.step = "prompted" /\ turn.calls = {}
    BY <1>2 DEF PromptDelivered, ViewInv, TurnIsCurrent
  <2> QED
    BY <1>2, <2>1, MessageKeeps DEF PromptDelivered
<1>3. ASSUME PromptRejected PROVE ViewInv'
  <2>1. turn.calls = {} /\ turn'.step = "rest"
    BY <1>3 DEF PromptRejected, Step, ViewInv, ViewTypeOK, TurnIsCurrent
  <2>2. UNCHANGED <<view, branch, lives, watched, orphaned>> /\ Step("rest")
    BY <1>3 DEF PromptRejected, RunGoesOn
  <2>3. watched' \in BOOLEAN /\ orphaned' \in BOOLEAN
    BY <2>2 DEF ViewInv, ViewTypeOK
  <2> QED
    BY <2>1, <2>2, <2>3, StillKeeps
<1>4. ASSUME AnswerStarts PROVE ViewInv'
  BY <1>4, AnswerStartsKeeps
<1>5. ASSUME CallStreams PROVE ViewInv'
  BY <1>5, CallStreamsKeeps
<1>6. ASSUME NEW stop \in {"stop", "toolUse", "error", "aborted"}, AnswerIsOver(stop) PROVE ViewInv'
  BY <1>6, AnswerIsOverKeeps
<1>7. ASSUME NEW id \in turn.calls, CallIsOver(id) PROVE ViewInv'
  BY <1>7, CallIsOverKeeps
<1>8. ASSUME TurnIsOver PROVE ViewInv'
  <2>1. turn.step = "ended" /\ turn.calls = {} /\ (watched \/ orphaned) /\ RunGoesOn
    BY <1>8 DEF TurnIsOver, ViewInv, TurnIsCurrent
  <2>2. ASSUME NEW step \in {"rest", "ready"}, Step(step), UNCHANGED <<view, branch>> PROVE ViewInv'
    <3>1. UNCHANGED <<view, branch, lives, watched, orphaned>>
      BY <2>1, <2>2 DEF RunGoesOn
    <3>2. watched' \in BOOLEAN /\ orphaned' \in BOOLEAN /\ (watched' \/ orphaned')
      BY <2>1, <3>1 DEF ViewInv, ViewTypeOK
    <3> QED
      BY <2>1, <2>2, <3>1, <3>2, StillKeeps
  <2>3. ASSUME NEW role \in {"demand", "marker"}, Step("ready"), Save(Block(role)),
               Handle(AddInjectedMessage(view, role))
        PROVE  ViewInv'
    BY <2>1, <2>3, MessageKeeps
  <2> QED
    BY <1>8, <2>2, <2>3 DEF TurnIsOver
<1>9. ASSUME RunIsQuiet PROVE ViewInv'
  <2>1. /\ turn' = turn /\ turn'.step = "rest" /\ watched' = FALSE
        /\ UNCHANGED <<view, branch, lives, orphaned>>
    BY <1>9 DEF RunIsQuiet
  <2>2. orphaned' \in BOOLEAN
    BY <2>1 DEF ViewInv, ViewTypeOK
  <2> QED
    BY <2>1, <2>2, StillKeeps
<1>10. ASSUME GraceIsOver PROVE ViewInv'
  <2>1. /\ turn' = turn /\ watched' = FALSE /\ orphaned' = TRUE
        /\ UNCHANGED <<view, branch, lives>>
    BY <1>10 DEF GraceIsOver
  <2> QED
    BY <2>1, StillKeeps
<1>11. ASSUME Reopened PROVE ViewInv'
  BY <1>11, ReopenedKeeps
<1>12. ASSUME UNCHANGED viewVars PROVE ViewInv'
  <2>1. turn' = turn /\ UNCHANGED <<view, branch, lives, watched, orphaned>>
    BY <1>12 DEF viewVars
  <2>2. /\ watched' \in BOOLEAN /\ orphaned' \in BOOLEAN
        /\ turn'.step # "rest" => watched' \/ orphaned'
    BY <2>1 DEF ViewInv, ViewTypeOK, TurnIsCurrent
  <2> QED
    BY <2>1, <2>2, StillKeeps
<1> QED
  BY <1>1, <1>2, <1>3, <1>4, <1>5, <1>6, <1>7, <1>8, <1>9, <1>10, <1>11, <1>12 DEF ViewNext

LEMMA ViewStarts ==
  ASSUME ViewInit
  PROVE  ViewInv
<1>1. view = EmptyView /\ branch = <<>> /\ turn = AtRest /\ watched = FALSE /\ lives = 1
      /\ orphaned = FALSE
  BY DEF ViewInit
<1>2. DOMAIN branch = {} /\ branch \in Seq(Entries)
  BY <1>1, EmptySeq
<1>3. ViewTypeOK
  BY <1>1, <1>2, FS_EmptySet DEF ViewTypeOK, EmptyView, Views, AtRest, Steps
<1>4. CallsAreOfAnswers
  BY <1>2 DEF CallsAreOfAnswers
<1>5. TurnIsCurrent
  BY <1>1 DEF TurnIsCurrent, AtRest
<1>6. CallsAreSettled
  <2>1. Made = {} /\ Done = {} /\ Saved("user") = {} /\ Saved("marker") = {}
    BY <1>2 DEF Made, Done, Saved
  <2>2. Cardinality({}) = 0
    BY FS_EmptySet
  <2>3. view.pending = {} /\ view.rows = {} /\ view.failed = {} /\ view.users = 0
        /\ view.dividers = 0 /\ view.prompts = 0 /\ turn.calls = {}
    BY <1>1 DEF EmptyView, AtRest
  <2>4. Cardinality(Saved("user")) = 0 /\ Cardinality(Saved("marker")) = 0
    BY <2>1, <2>2
  <2> QED
    BY <2>1, <2>3, <2>4 DEF CallsAreSettled
<1> QED
  BY <1>3, <1>4, <1>5, <1>6 DEF ViewInv

(* The inductive invariant of a child's transcript holds in every state (child-view.ts). *)
THEOREM ViewInvariant == ViewSpec => []ViewInv
<1>1. ViewInit => ViewInv
  BY ViewStarts
<1>2. ViewInv /\ [ViewNext]_viewVars => ViewInv'
  BY ViewStepKeeps
<1> QED
  BY <1>1, <1>2, PTL DEF ViewSpec

(* Live or replayed, the view shows a call as pending exactly while it streams or runs, as failed
   exactly when it never got a result, and every prompt and handoff once, for branches of any
   length (child-view.ts failNeverRunCalls, replay, addInjectedMessage). *)
THEOREM CallsAlwaysSettled == ViewSpec => []CallsAreSettled
<1>1. ViewInv => CallsAreSettled
  BY DEF ViewInv
<1> QED
  BY <1>1, ViewInvariant, PTL

-----------------------------------------------------------------------------
(* Frames *)

LEMMA TailIs ==
  ASSUME NEW length \in Nat, NEW rows \in Nat
  PROVE  /\ Max({0, length - rows}) = IF length >= rows THEN length - rows ELSE 0
         /\ Max({0, length - rows}) \in Nat
<1>1. 0 \in Int /\ length - rows \in Int
  OBVIOUS
<1>2. Max({0, length - rows}) = IF 0 >= length - rows THEN 0 ELSE length - rows
  BY <1>1, GreaterOf
<1> QED
  BY <1>2

(* A frame leaves the viewport at the tail, and then following, or before it. *)
Laid(s, last, rows) ==
  /\ s \in Viewports /\ s.viewport = rows /\ s.maxOffset = last /\ s.offset <= last
  /\ s.follow <=> s.offset = last

LEMMA LayoutIs ==
  ASSUME NEW s \in Viewports, NEW length \in Nat, NEW rows \in Nat
  PROVE  LET last == Max({0, length - rows})
             t == Layout(s, length, rows)
         IN /\ Laid(t, last, rows)
            /\ t.offset = IF s.follow \/ s.offset >= last THEN last ELSE s.offset
<1> DEFINE last == Max({0, length - rows})
           follow == s.follow \/ s.offset >= last
           t == Layout(s, length, rows)
<1>1. last \in Nat
  BY TailIs
<1>2. t = [offset |-> IF follow THEN last ELSE s.offset, follow |-> follow, viewport |-> rows, maxOffset |-> last]
  BY DEF Layout
<1>3. s.offset \in Nat /\ s.follow \in BOOLEAN
  BY DEF Viewports
<1> HIDE DEF last
<1>4. follow \in BOOLEAN
  BY <1>3
<1> HIDE DEF follow
<1>5. (IF follow THEN last ELSE s.offset) \in Nat
  BY <1>1, <1>3
<1>6. t \in Viewports /\ t.viewport = rows /\ t.maxOffset = last
      /\ t.offset = (IF follow THEN last ELSE s.offset) /\ (t.follow <=> follow)
  <2> HIDE DEF t
  <2> QED
    BY <1>1, <1>2, <1>4, <1>5 DEF Viewports
<1> HIDE DEF t
<1>7. t.offset <= last /\ (t.follow <=> t.offset = last)
  <2>1. CASE follow
    BY <1>1, <1>6, <2>1
  <2>2. CASE ~follow
    <3>1. ~(s.offset >= last)
      BY <2>2 DEF follow
    <3> QED
      BY <1>1, <1>3, <1>6, <2>2, <3>1
  <2> QED
    BY <2>1, <2>2
<1>8. Laid(t, last, rows)
  BY <1>6, <1>7 DEF Laid
<1> QED
  BY <1>6, <1>8 DEF follow, t, last

(* A jump down, drawn: to the tail when no divider is between the top and it, else to the
   first of them.  A jump up: to the last divider above the top, or nowhere. *)
GoesDown(s, t, A, last) ==
  \/ t.follow /\ \A a \in A : a > s.offset => a > last
  \/ /\ t.offset \in A /\ t.offset > s.offset
     /\ \A a \in A : a > s.offset => a >= t.offset

GoesUp(s, t, A) ==
  \/ \A a \in A : ~(a < s.offset)
  \/ /\ t.offset \in A /\ t.offset < s.offset
     /\ \A a \in A : a < s.offset => a <= t.offset

LEMMA JumpDown ==
  ASSUME NEW length \in Nat, NEW rows \in Nat \ {0}, NEW A \in SUBSET Nat, NEW s,
         Laid(s, Max({0, length - rows}), rows)
  PROVE  LET last == Max({0, length - rows})
             t == Layout(JumpHandoff(s, A, 1), length, rows)
         IN Laid(t, last, rows) /\ GoesDown(s, t, A, last)
<1> DEFINE last == Max({0, length - rows})
           t == Layout(JumpHandoff(s, A, 1), length, rows)
           below == {a \in A : a > s.offset}
<1>0. last \in Nat /\ s \in Viewports /\ s.maxOffset = last /\ s.offset \in Nat
  BY TailIs DEF Laid, Viewports
<1>1. CASE below = {} \/ Min(below) > s.maxOffset
  <2>1. JumpHandoff(s, A, 1) = [s EXCEPT !.follow = TRUE]
    <3>1. JumpHandoff(s, A, 1) = AtEnd(s)
      BY <1>1 DEF JumpHandoff
    <3> QED
      BY <3>1 DEF AtEnd
  <2>2. [s EXCEPT !.follow = TRUE] \in Viewports /\ [s EXCEPT !.follow = TRUE].follow
    BY <1>0 DEF Viewports
  <2> DEFINE j == JumpHandoff(s, A, 1)
  <2>3. Laid(t, last, rows) /\ t.offset = last
    <3>1. j \in Viewports /\ j.follow
      BY <2>1, <2>2
    <3> HIDE DEF j
    <3> QED
      BY <3>1, LayoutIs DEF j
  <2>4. \A a \in A : a > s.offset => a > last
    <3>1. ASSUME NEW a \in A, a > s.offset PROVE a > last
      <4>1. a \in below /\ below \in SUBSET Nat /\ a \in Nat
        BY <3>1
      <4>2. Min(below) \in Nat /\ Min(below) <= a
        BY <4>1, MinIsIn
      <4>3. Min(below) > last
        BY <1>0, <1>1, <4>1
      <4> HIDE DEF below
      <4> QED
        BY <1>0, <4>1, <4>2, <4>3
    <3> QED
      BY <3>1
  <2>5. t.follow
    BY <2>3 DEF Laid
  <2> QED
    BY <2>3, <2>4, <2>5 DEF GoesDown
<1>2. CASE ~(below = {} \/ Min(below) > s.maxOffset)
  <2>1. JumpHandoff(s, A, 1) = [s EXCEPT !.follow = FALSE, !.offset = Min(below)]
    BY <1>2 DEF JumpHandoff, JumpedTo
  <2>2. Min(below) \in below /\ (\A a \in below : Min(below) <= a) /\ Min(below) \in Nat
    BY <1>2, MinIsIn
  <2> DEFINE m == Min(below)
             j == JumpHandoff(s, A, 1)
  <2>3. m \in A /\ m > s.offset /\ m \in Nat /\ (\A a \in A : a > s.offset => a >= m) /\ m <= last
    BY <1>0, <1>2, <2>2
  <2>4. j = [s EXCEPT !.follow = FALSE, !.offset = m]
    BY <2>1
  <2> HIDE DEF m, j
  <2>5. j \in Viewports /\ ~j.follow /\ j.offset = m
    BY <1>0, <2>3, <2>4 DEF Viewports
  <2>6. Laid(t, last, rows) /\ t.offset = IF j.follow \/ j.offset >= last THEN last ELSE j.offset
    BY <2>5, LayoutIs DEF j
  <2>7. t.offset = m
    <3> HIDE DEF last, t
    <3> QED
      BY <1>0, <2>3, <2>5, <2>6
  <2> QED
    BY <2>3, <2>6, <2>7 DEF GoesDown
<1> QED
  BY <1>1, <1>2

LEMMA JumpUp ==
  ASSUME NEW length \in Nat, NEW rows \in Nat \ {0}, NEW A \in SUBSET Nat, NEW s,
         Laid(s, Max({0, length - rows}), rows)
  PROVE  LET last == Max({0, length - rows})
             t == Layout(JumpHandoff(s, A, -1), length, rows)
         IN Laid(t, last, rows) /\ GoesUp(s, t, A)
<1> DEFINE last == Max({0, length - rows})
           t == Layout(JumpHandoff(s, A, -1), length, rows)
           above == {a \in A : a < s.offset}
           j == JumpHandoff(s, A, -1)
<1>0. last \in Nat /\ s \in Viewports /\ s.offset \in Nat /\ s.offset <= last
  BY TailIs DEF Laid, Viewports
<1>1. CASE above = {}
  <2>1. j = s
    BY <1>1 DEF JumpHandoff
  <2>2. Laid(t, last, rows)
    BY <1>0, <2>1, LayoutIs
  <2> QED
    BY <1>1, <2>2 DEF GoesUp
<1>2. CASE above # {}
  <2>1. j = [s EXCEPT !.follow = FALSE, !.offset = Max(above)]
    BY <1>2 DEF JumpHandoff, JumpedTo
  <2>2. Max(above) \in above /\ \A a \in above : a <= Max(above)
    <3>1. above \in SUBSET Nat
      OBVIOUS
    <3>2. ASSUME NEW a \in above PROVE a <= s.offset
      <4>1. a \in Nat /\ a < s.offset
        OBVIOUS
      <4> HIDE DEF above
      <4> QED
        BY <1>0, <4>1
    <3> HIDE DEF above
    <3> QED
      BY <1>0, <1>2, <3>1, <3>2, MaxIsIn
  <2> DEFINE m == Max(above)
  <2>3. m \in A /\ m < s.offset /\ m \in Nat /\ (\A a \in A : a < s.offset => a <= m)
    BY <1>0, <2>2
  <2>4. j = [s EXCEPT !.follow = FALSE, !.offset = m]
    BY <2>1
  <2> HIDE DEF m, j
  <2>5. j \in Viewports /\ ~j.follow /\ j.offset = m
    BY <1>0, <2>3, <2>4 DEF Viewports
  <2>6. Laid(t, last, rows) /\ t.offset = IF j.follow \/ j.offset >= last THEN last ELSE j.offset
    BY <2>5, LayoutIs DEF j
  <2>7. t.offset = m
    <3> HIDE DEF last, t
    <3> QED
      BY <1>0, <2>3, <2>5, <2>6
  <2> QED
    BY <2>3, <2>6, <2>7 DEF GoesUp
<1> QED
  BY <1>1, <1>2

LEMMA JumpIs ==
  ASSUME NEW A \in SUBSET Nat, NEW s \in Viewports, NEW dir
  PROVE  JumpHandoff(s, A, dir) \in Viewports
<1> DEFINE below == {a \in A : a > s.offset}
           above == {a \in A : a < s.offset}
<1>1. below # {} => Min(below) \in Nat
  <2>1. below \in SUBSET Nat
    OBVIOUS
  <2> HIDE DEF below
  <2> QED
    BY <2>1, MinIsIn
<1>2. above # {} => Max(above) \in Nat
  <2>1. above \in SUBSET Nat /\ s.offset \in Nat
    BY DEF Viewports
  <2>2. ASSUME NEW a \in above PROVE a <= s.offset
    <3>1. a \in Nat /\ a < s.offset
      OBVIOUS
    <3> HIDE DEF above
    <3> QED
      BY <2>1, <3>1
  <2> HIDE DEF above
  <2> QED
    BY <2>1, <2>2, MaxIsIn
<1>3. AtEnd(s) \in Viewports /\ \A line \in Nat : JumpedTo(s, line) \in Viewports
  BY DEF AtEnd, JumpedTo, Viewports
<1>4. \/ JumpHandoff(s, A, dir) = AtEnd(s)
      \/ JumpHandoff(s, A, dir) = s
      \/ JumpHandoff(s, A, dir) = JumpedTo(s, Min(below)) /\ below # {}
      \/ JumpHandoff(s, A, dir) = JumpedTo(s, Max(above)) /\ above # {}
  BY Zenon DEF JumpHandoff
<1> HIDE DEF below, above
<1> QED
  BY <1>1, <1>2, <1>3, <1>4

-----------------------------------------------------------------------------
(* Presses *)

(* What n presses draw: a frame after each. *)
LEMMA PressesAre ==
  ASSUME ScrollTypeOK, NEW s0 \in Viewports, NEW dir, NEW n \in Nat
  PROVE  LET f == Presses(s0, dir, n)
         IN /\ DOMAIN f = 0..n /\ f[0] = s0
            /\ \A k \in 1..n : f[k] = Layout(JumpHandoff(f[k - 1], body.anchors, dir), body.length, s0.viewport)
<1> DEFINE Next1(s) == Layout(JumpHandoff(s, body.anchors, dir), body.length, s0.viewport)
           step == [s \in Viewports |-> Next1(s)]
           f == Presses(s0, dir, n)
           Is(g) == g = [k \in 0..n |-> IF k = 0 THEN s0 ELSE Next1(g[k - 1])]
<1>1. body.anchors \in SUBSET Nat /\ body.length \in Nat /\ s0.viewport \in Nat
  BY DEF ScrollTypeOK, Viewports
<1>2. ASSUME NEW s \in Viewports PROVE Next1(s) \in Viewports
  BY <1>1, JumpIs, LayoutIs DEF Laid
<1>3. f = CHOOSE g : Is(g)
  BY DEF Presses
<1> HIDE DEF Next1
<1>4. step \in [Viewports -> Viewports]
  BY <1>2
<1>5. PICK g \in [0..n -> Viewports] : g[0] = s0 /\ \A k \in 1..n : g[k] = step[g[k - 1]]
  <2>1. PICK g : Repeats(g, Viewports, step, s0, n)
    <3> HIDE DEF step
    <3> QED
      BY <1>4, Repeated
  <2> QED
    BY <2>1 DEF Repeats
<1>6. Is(g)
  <2>1. ASSUME NEW k \in 0..n, k # 0 PROVE g[k] = Next1(g[k - 1])
    <3>1. k \in 1..n /\ k - 1 \in 0..n
      BY <2>1
    <3>2. g[k - 1] \in Viewports /\ g[k] = step[g[k - 1]]
      BY <1>5, <3>1
    <3> QED
      BY <3>2
  <2>2. g = [k \in 0..n |-> g[k]]
    BY <1>5
  <2> QED
    BY <1>5, <2>1, <2>2
<1> HIDE DEF f
<1>7. Is(f)
  <2> HIDE DEF Is
  <2> QED
    BY <1>3, <1>6
<1>8. DOMAIN f = 0..n /\ \A k \in 0..n : f[k] = IF k = 0 THEN s0 ELSE Next1(f[k - 1])
  <2>1. DOMAIN f = 0..n
    BY <1>7
  <2>2. ASSUME NEW k \in 0..n PROVE f[k] = IF k = 0 THEN s0 ELSE Next1(f[k - 1])
    BY <1>7, Zenon
  <2> QED
    BY <2>1, <2>2
<1>9. f[0] = s0 /\ \A k \in 1..n : f[k] = Next1(f[k - 1])
  <2>1. 0 \in 0..n /\ \A k \in 1..n : k \in 0..n /\ k # 0
    OBVIOUS
  <2> QED
    BY <1>8, <2>1
<1> QED
  BY <1>8, <1>9 DEF Next1, f

(* The dividers of a body, and the tail of one. *)
LEMMA BodyIs ==
  ASSUME ScrollTypeOK
  PROVE  /\ body.length \in Nat /\ body.anchors \in SUBSET Nat
         /\ \A a \in body.anchors : a < body.length
         /\ IsFiniteSet(body.anchors) /\ Cardinality(body.anchors) \in Nat
<1>1. body.length \in Nat /\ body.anchors \in SUBSET Nat /\ body.anchors \subseteq 0..(body.length - 1)
  BY DEF ScrollTypeOK
<1>2. IsFiniteSet(0..(body.length - 1))
  BY <1>1, FS_Interval
<1>3. IsFiniteSet(body.anchors)
  BY <1>1, <1>2, FS_Subset
<1>4. ASSUME NEW a \in body.anchors PROVE a < body.length
  BY <1>1, <1>4
<1> QED
  BY <1>1, <1>3, <1>4, FS_CardinalityType

LEMMA Fewer ==
  ASSUME NEW S, IsFiniteSet(S), NEW x \in S, NEW T, T \subseteq S \ {x}
  PROVE  Cardinality(T) \in Nat /\ Cardinality(S) \in Nat /\ Cardinality(T) <= Cardinality(S) - 1
<1>1. IsFiniteSet(S \ {x}) /\ Cardinality(S \ {x}) = Cardinality(S) - 1
  BY FS_RemoveElement
<1>2. IsFiniteSet(T) /\ Cardinality(T) <= Cardinality(S \ {x})
  BY <1>1, FS_Subset
<1>3. Cardinality(T) \in Nat /\ Cardinality(S) \in Nat
  BY <1>2, FS_CardinalityType
<1> QED
  BY <1>1, <1>2, <1>3

(* Frames of n presses, each made from the one before. *)
Frames(f, s0, dir, n, rows) ==
  /\ DOMAIN f = 0..n /\ f[0] = s0
  /\ \A k \in 0..n : Laid(f[k], Max({0, body.length - rows}), rows)
  /\ \A k \in 0..(n - 1) : f[k + 1] = Layout(JumpHandoff(f[k], body.anchors, dir), body.length, rows)

LEMMA FramesLaid ==
  ASSUME ScrollTypeOK, NEW rows \in Nat \ {0}, NEW s0, NEW dir \in {-1, 1}, NEW n \in Nat,
         Laid(s0, Max({0, body.length - rows}), rows)
  PROVE  Frames(Presses(s0, dir, n), s0, dir, n, rows)
<1> DEFINE f == Presses(s0, dir, n)
           last == Max({0, body.length - rows})
           S == {k \in 0..n : Laid(f[k], last, rows)}
<1>0. s0 \in Viewports /\ s0.viewport = rows /\ Laid(s0, last, rows)
  BY DEF Laid
<1>1. /\ DOMAIN f = 0..n /\ f[0] = s0
      /\ \A k \in 1..n : f[k] = Layout(JumpHandoff(f[k - 1], body.anchors, dir), body.length, rows)
  BY <1>0, PressesAre
<1> HIDE DEF f
<1>2. ASSUME NEW k \in 0..(n - 1)
      PROVE  f[k + 1] = Layout(JumpHandoff(f[k], body.anchors, dir), body.length, rows)
  <2>1. k + 1 \in 1..n /\ (k + 1) - 1 = k
    BY <1>2
  <2>2. f[k + 1] = Layout(JumpHandoff(f[(k + 1) - 1], body.anchors, dir), body.length, rows)
    BY <1>1, <2>1
  <2> QED
    BY <2>1, <2>2
<1>3. 0 \in S
  BY <1>0, <1>1
<1>4. ASSUME NEW k \in 0..(n - 1), k \in S PROVE k + 1 \in S
  <2>1. Laid(f[k], last, rows) /\ k + 1 \in 0..n
    BY <1>4
  <2> DEFINE s == f[k]
             A == body.anchors
  <2>2. body.length \in Nat /\ A \in SUBSET Nat /\ Laid(s, Max({0, body.length - rows}), rows)
    BY <2>1, BodyIs
  <2>3. f[k + 1] = Layout(JumpHandoff(s, A, dir), body.length, rows)
    BY <1>2
  <2> HIDE DEF s, A
  <2>4. Laid(Layout(JumpHandoff(s, A, 1), body.length, rows), last, rows)
    BY <2>2, JumpDown
  <2>5. Laid(Layout(JumpHandoff(s, A, -1), body.length, rows), last, rows)
    BY <2>2, JumpUp
  <2> QED
    BY <2>1, <2>3, <2>4, <2>5
<1> HIDE DEF S
<1>5. 0..n \subseteq S
  BY <1>3, <1>4, UpTo
<1>6. \A k \in 0..n : Laid(f[k], last, rows)
  BY <1>5 DEF S
<1> QED
  BY <1>1, <1>2, <1>6 DEF f, Frames

(* Pressed once more than there are dividers, the jump down shows each one below as the top
   line of a frame, unless it is on the last screen, and ends there. *)
LEMMA PressedDown ==
  ASSUME ScrollTypeOK, NEW rows \in Nat \ {0}, NEW s0, Laid(s0, Max({0, body.length - rows}), rows)
  PROVE  LET n == Cardinality(body.anchors) + 1
             f == Presses(s0, 1, n)
         IN /\ f[n].follow
            /\ \A a \in body.anchors : a > s0.offset =>
                 a >= Max({0, body.length - rows}) \/ \E k \in 0..n : f[k].offset = a
<1> DEFINE A == body.anchors
           c == Cardinality(A)
           n == c + 1
           f == Presses(s0, 1, n)
           last == Max({0, body.length - rows})
           Below(k) == {a \in A : a > f[k].offset}
           S == {k \in 0..n : f[k].follow \/ Cardinality(Below(k)) <= c - k}
           U == {k \in 0..n : \A a \in A : a > s0.offset /\ a <= f[k].offset =>
                   a >= last \/ \E j \in 0..n : f[j].offset = a}
<1>1. A \in SUBSET Nat /\ IsFiniteSet(A) /\ c \in Nat /\ n \in Nat /\ last \in Nat
  BY BodyIs, TailIs
<1>2. /\ DOMAIN f = 0..n /\ f[0] = s0 /\ \A k \in 0..n : Laid(f[k], last, rows)
      /\ \A k \in 0..(n - 1) : f[k + 1] = Layout(JumpHandoff(f[k], A, 1), body.length, rows)
  <2>1. Frames(f, s0, 1, n, rows)
    <3> HIDE DEF n
    <3> QED
      BY <1>1, FramesLaid
  <2> HIDE DEF f
  <2> QED
    BY <2>1 DEF Frames
<1> HIDE DEF f, last
<1>3. ASSUME NEW k \in 0..n
      PROVE  /\ f[k].offset \in Nat /\ f[k].offset <= last /\ (f[k].follow <=> f[k].offset = last)
             /\ IsFiniteSet(Below(k))
  <2>1. Below(k) \subseteq A
    OBVIOUS
  <2> HIDE DEF A
  <2> QED
    BY <1>1, <1>2, <2>1, FS_Subset DEF Laid, Viewports
<1>4. ASSUME NEW k \in 0..(n - 1) PROVE GoesDown(f[k], f[k + 1], A, last)
  <2>1. k \in 0..n /\ body.length \in Nat
    BY <1>1, BodyIs
  <2> DEFINE s == f[k]
  <2>2. Laid(s, Max({0, body.length - rows}), rows)
        /\ f[k + 1] = Layout(JumpHandoff(s, A, 1), body.length, rows)
    BY <1>2, <2>1 DEF last
  <2> HIDE DEF s, A
  <2>3. GoesDown(s, Layout(JumpHandoff(s, A, 1), body.length, rows), A, last)
    BY <1>1, <2>1, <2>2, JumpDown DEF last
  <2> QED
    BY <2>2, <2>3 DEF s
<1> HIDE DEF A, c
<1>5. 0..n \subseteq S
  <2>1. 0 \in S
    <3>1. Below(0) \subseteq A
      OBVIOUS
    <3>2. Cardinality(Below(0)) <= c
      BY <1>1, <3>1, FS_Subset DEF c
    <3> HIDE DEF Below
    <3> QED
      BY <1>1, <3>2
  <2>2. ASSUME NEW k \in 0..(n - 1), k \in S PROVE k + 1 \in S
    <3>1. k \in 0..n /\ k + 1 \in 0..n
      BY <1>1
    <3>2. SUFFICES ASSUME ~f[k + 1].follow PROVE Cardinality(Below(k + 1)) <= c - (k + 1)
      BY <3>1
    <3>3. /\ f[k + 1].offset \in A /\ f[k + 1].offset > f[k].offset
          /\ \A a \in A : a > f[k].offset => a >= f[k + 1].offset
      BY <1>4, <3>2 DEF GoesDown
    <3>9. /\ f[k].offset \in Nat /\ f[k + 1].offset \in Nat /\ f[k + 1].offset <= last
          /\ f[k].follow <=> f[k].offset = last
      BY <1>3, <3>1
    <3>4. ~f[k].follow
      <4>1. ~(f[k].offset = last)
        BY <1>1, <3>3, <3>9
      <4> QED
        BY <3>9, <4>1
    <3>5. f[k + 1].offset \in Below(k) /\ Below(k + 1) \subseteq Below(k) \ {f[k + 1].offset}
      <4>1. ASSUME NEW a \in A, a > f[k + 1].offset PROVE a > f[k].offset /\ a # f[k + 1].offset
        <5>1. a \in Nat
          BY <1>1
        <5> QED
          BY <3>3, <3>9, <4>1, <5>1
      <4> QED
        BY <3>3, <4>1
    <3>6. Cardinality(Below(k)) <= c - k
      BY <2>2, <3>4
    <3>7. IsFiniteSet(Below(k))
      BY <1>3, <3>1
    <3> HIDE DEF Below
    <3>8. Cardinality(Below(k + 1)) \in Nat /\ Cardinality(Below(k)) \in Nat
          /\ Cardinality(Below(k + 1)) <= Cardinality(Below(k)) - 1
      BY <3>5, <3>7, Fewer
    <3> QED
      BY <1>1, <3>1, <3>6, <3>8
  <2> HIDE DEF S
  <2> QED
    BY <1>1, <2>1, <2>2, UpTo
<1>6. f[n].follow
  <2>1. n \in 0..n /\ n = c + 1
    BY <1>1
  <2>2. Cardinality(Below(n)) \in Nat
    BY <1>3, <2>1, FS_CardinalityType
  <2>3. f[n].follow \/ Cardinality(Below(n)) <= c - n
    BY <1>5, <2>1
  <2> HIDE DEF Below, n
  <2> QED
    BY <1>1, <2>1, <2>2, <2>3
<1>7. 0..n \subseteq U
  <2>1. 0 \in U
    <3>1. ASSUME NEW a \in A, a > s0.offset, a <= f[0].offset PROVE FALSE
      <4>1. 0 \in 0..n
        BY <1>1
      <4>2. f[0].offset \in Nat /\ s0.offset = f[0].offset
        BY <1>2, <1>3, <4>1
      <4> QED
        BY <1>1, <3>1, <4>2
    <3> QED
      BY <1>1, <3>1
  <2>2. ASSUME NEW k \in 0..(n - 1), k \in U PROVE k + 1 \in U
    <3>1. k \in 0..n /\ k + 1 \in 0..n
      BY <1>1
    <3>2. ASSUME NEW a \in A, a > s0.offset, a <= f[k + 1].offset
          PROVE  a >= last \/ \E j \in 0..n : f[j].offset = a
      <4>1. CASE a <= f[k].offset
        BY <2>2, <3>2, <4>1
      <4>2. CASE a > f[k].offset
        <5>1. a \in Nat /\ f[k + 1].offset \in Nat
          BY <1>1, <1>3, <3>1
        <5>2. a > last \/ a >= f[k + 1].offset
          BY <1>4, <4>2 DEF GoesDown
        <5>3. a >= last \/ a = f[k + 1].offset
          BY <1>1, <3>2, <5>1, <5>2
        <5> QED
          BY <3>1, <5>3
      <4>3. a \in Nat /\ f[k].offset \in Nat
        BY <1>1, <1>3, <3>1
      <4> QED
        BY <4>1, <4>2, <4>3
    <3> QED
      BY <3>1, <3>2
  <2> HIDE DEF U
  <2> QED
    BY <1>1, <2>1, <2>2, UpTo
<1>8. ASSUME NEW a \in A, a > s0.offset PROVE a >= last \/ \E k \in 0..n : f[k].offset = a
  <2>1. n \in 0..n /\ a \in Nat
    BY <1>1
  <2>2. f[n].offset = last
    BY <1>3, <1>6, <2>1
  <2>3. a > s0.offset /\ a <= last => a >= last \/ \E j \in 0..n : f[j].offset = a
    BY <1>7, <2>1, <2>2
  <2> QED
    BY <1>1, <1>8, <2>1, <2>3
<1> QED
  BY <1>6, <1>8 DEF A, c, f, last

(* Pressed as often, the jump up shows each divider above as the top line of a frame. *)
LEMMA PressedUp ==
  ASSUME ScrollTypeOK, NEW rows \in Nat \ {0}, NEW s0, Laid(s0, Max({0, body.length - rows}), rows)
  PROVE  LET n == Cardinality(body.anchors) + 1
             f == Presses(s0, -1, n)
         IN \A a \in body.anchors : a < s0.offset => \E k \in 0..n : f[k].offset = a
<1> DEFINE A == body.anchors
           c == Cardinality(A)
           n == c + 1
           f == Presses(s0, -1, n)
           last == Max({0, body.length - rows})
           Above(k) == {a \in A : a < f[k].offset}
           S == {k \in 0..n : Above(k) = {} \/ Cardinality(Above(k)) <= c - k}
           U == {k \in 0..n : \A a \in A : a < s0.offset =>
                   a < f[k].offset \/ \E j \in 0..n : f[j].offset = a}
<1>1. A \in SUBSET Nat /\ IsFiniteSet(A) /\ c \in Nat /\ n \in Nat
  BY BodyIs
<1>2. /\ DOMAIN f = 0..n /\ f[0] = s0 /\ \A k \in 0..n : Laid(f[k], last, rows)
      /\ \A k \in 0..(n - 1) : f[k + 1] = Layout(JumpHandoff(f[k], A, -1), body.length, rows)
  <2>1. Frames(f, s0, -1, n, rows)
    <3> HIDE DEF n
    <3> QED
      BY <1>1, FramesLaid
  <2> HIDE DEF f
  <2> QED
    BY <2>1 DEF Frames
<1> HIDE DEF f, last
<1>3. ASSUME NEW k \in 0..n PROVE f[k].offset \in Nat /\ IsFiniteSet(Above(k))
  <2>1. Above(k) \subseteq A
    OBVIOUS
  <2> HIDE DEF A
  <2> QED
    BY <1>1, <1>2, <2>1, FS_Subset DEF Laid, Viewports
<1>4. ASSUME NEW k \in 0..(n - 1) PROVE GoesUp(f[k], f[k + 1], A)
  <2>1. k \in 0..n /\ body.length \in Nat
    BY <1>1, BodyIs
  <2> DEFINE s == f[k]
  <2>2. Laid(s, Max({0, body.length - rows}), rows)
        /\ f[k + 1] = Layout(JumpHandoff(s, A, -1), body.length, rows)
    BY <1>2, <2>1 DEF last
  <2> HIDE DEF s, A
  <2>3. GoesUp(s, Layout(JumpHandoff(s, A, -1), body.length, rows), A)
    BY <1>1, <2>1, <2>2, JumpUp
  <2> QED
    BY <2>2, <2>3 DEF s
<1> HIDE DEF A, c
<1>5. ASSUME NEW k \in 0..(n - 1), Above(k) = {} PROVE Above(k + 1) = {}
  <2>1. k \in 0..n /\ k + 1 \in 0..n
    BY <1>1
  <2> DEFINE s == f[k]
             t == f[k + 1]
  <2>2. \A a \in A : ~(a < s.offset)
    BY <1>5
  <2>3. t = Layout(s, body.length, rows) /\ Laid(s, last, rows)
    <3>1. JumpHandoff(s, A, -1) = s
      BY <1>5 DEF JumpHandoff
    <3> QED
      BY <1>2, <2>1, <3>1
  <2> HIDE DEF s, t
  <2>4. s \in Viewports /\ s.offset \in Nat /\ s.offset <= last /\ (s.follow <=> s.offset = last) /\ last \in Nat
    BY <2>3, BodyIs, TailIs DEF Laid, Viewports, last
  <2>5. t.offset = IF s.follow \/ s.offset >= last THEN last ELSE s.offset
    BY <2>3, <2>4, LayoutIs, BodyIs DEF last
  <2>6. t.offset = s.offset
    BY <2>4, <2>5
  <2> QED
    BY <2>2, <2>6 DEF t
<1>6. 0..n \subseteq S
  <2>1. 0 \in S
    <3>1. Above(0) \subseteq A
      OBVIOUS
    <3>2. Cardinality(Above(0)) <= c
      BY <1>1, <3>1, FS_Subset DEF c
    <3> HIDE DEF Above
    <3> QED
      BY <1>1, <3>2
  <2>2. ASSUME NEW k \in 0..(n - 1), k \in S PROVE k + 1 \in S
    <3>1. k \in 0..n /\ k + 1 \in 0..n
      BY <1>1
    <3>2. SUFFICES ASSUME Above(k) # {} PROVE Cardinality(Above(k + 1)) <= c - (k + 1)
      BY <1>5, <3>1
    <3>3. /\ f[k + 1].offset \in A /\ f[k + 1].offset < f[k].offset
          /\ \A a \in A : a < f[k].offset => a <= f[k + 1].offset
      BY <1>4, <3>2 DEF GoesUp
    <3>4. f[k].offset \in Nat /\ f[k + 1].offset \in Nat
      BY <1>3, <3>1
    <3>5. f[k + 1].offset \in Above(k) /\ Above(k + 1) \subseteq Above(k) \ {f[k + 1].offset}
      <4>1. ASSUME NEW a \in A, a < f[k + 1].offset PROVE a < f[k].offset /\ a # f[k + 1].offset
        <5>1. a \in Nat
          BY <1>1
        <5> QED
          BY <3>3, <3>4, <4>1, <5>1
      <4> QED
        BY <3>3, <4>1
    <3>6. Cardinality(Above(k)) <= c - k
      BY <2>2, <3>2
    <3>7. IsFiniteSet(Above(k))
      BY <1>3, <3>1
    <3> HIDE DEF Above
    <3>8. Cardinality(Above(k + 1)) \in Nat /\ Cardinality(Above(k)) \in Nat
          /\ Cardinality(Above(k + 1)) <= Cardinality(Above(k)) - 1
      BY <3>5, <3>7, Fewer
    <3> QED
      BY <1>1, <3>1, <3>6, <3>8
  <2> HIDE DEF S
  <2> QED
    BY <1>1, <2>1, <2>2, UpTo
<1>7. Above(n) = {}
  <2>1. n \in 0..n /\ n = c + 1
    BY <1>1
  <2>2. Cardinality(Above(n)) \in Nat
    BY <1>3, <2>1, FS_CardinalityType
  <2>3. Above(n) = {} \/ Cardinality(Above(n)) <= c - n
    BY <1>6, <2>1
  <2> HIDE DEF Above, n
  <2> QED
    BY <1>1, <2>1, <2>2, <2>3
<1>8. 0..n \subseteq U
  <2>1. 0 \in U
    BY <1>1, <1>2
  <2>2. ASSUME NEW k \in 0..(n - 1), k \in U PROVE k + 1 \in U
    <3>1. k \in 0..n /\ k + 1 \in 0..n
      BY <1>1
    <3>2. ASSUME NEW a \in A, a < s0.offset
          PROVE  a < f[k + 1].offset \/ \E j \in 0..n : f[j].offset = a
      <4>1. SUFFICES ASSUME a < f[k].offset
                     PROVE  a < f[k + 1].offset \/ f[k + 1].offset = a
        BY <2>2, <3>1, <3>2
      <4>2. a <= f[k + 1].offset
        BY <1>4, <4>1 DEF GoesUp
      <4>3. a \in Nat /\ f[k + 1].offset \in Nat
        BY <1>1, <1>3, <3>1
      <4> QED
        BY <4>2, <4>3
    <3> QED
      BY <3>1, <3>2
  <2> HIDE DEF U
  <2> QED
    BY <1>1, <2>1, <2>2, UpTo
<1>9. ASSUME NEW a \in A, a < s0.offset PROVE \E k \in 0..n : f[k].offset = a
  <2>1. n \in 0..n /\ ~(a < f[n].offset)
    BY <1>1, <1>7
  <2> QED
    BY <1>8, <1>9, <2>1
<1> QED
  BY <1>9 DEF A, c, f

-----------------------------------------------------------------------------
(* What a frame shows *)

(* A divider as the top line is shown; at the tail the last lines are. *)
LEMMA FrameShows ==
  ASSUME ScrollTypeOK, NEW rows \in Nat \ {0}, NEW s, Laid(s, Max({0, body.length - rows}), rows)
  PROVE  /\ s.offset < body.length => s.offset \in VisibleLines(s)
         /\ s.follow => \A line \in Nat :
              line >= Max({0, body.length - rows}) /\ line < body.length => line \in VisibleLines(s)
<1> DEFINE last == Max({0, body.length - rows})
           end == Min({s.offset + s.viewport, body.length})
<1>1. /\ s.offset \in Nat /\ s.viewport = rows /\ (s.follow <=> s.offset = last) /\ body.length \in Nat
      /\ s.offset + s.viewport \in Int /\ body.length \in Int
  BY BodyIs DEF Laid, Viewports
<1>2. last = IF body.length >= rows THEN body.length - rows ELSE 0
  BY <1>1, TailIs
<1>3. end = IF s.offset + s.viewport <= body.length THEN s.offset + s.viewport ELSE body.length
  BY <1>1, LesserOf
<1>4. VisibleLines(s) = s.offset..(end - 1)
  BY DEF VisibleLines
<1> HIDE DEF last, end
<1>5. s.offset < body.length => s.offset \in s.offset..(end - 1)
  BY <1>1, <1>3
<1>6. ASSUME s.follow, NEW line \in Nat, line >= last, line < body.length
      PROVE  line \in s.offset..(end - 1)
  <2>1. s.offset = last
    BY <1>1, <1>6
  <2> QED
    BY <1>1, <1>2, <1>3, <1>6, <2>1
<1> QED
  BY <1>4, <1>5, <1>6 DEF last

(* The header names the context of a line that is shown, at the tail the last context. *)
LEMMA HeaderIs ==
  ASSUME ScrollTypeOK, NEW rows \in Nat \ {0}, NEW s, Laid(s, Max({0, body.length - rows}), rows)
  PROVE  LET context == HandoffViewContext(body.anchors, s, body.length)
         IN /\ \/ body.length = 0
               \/ \E line \in VisibleLines(s) : context = HandoffContextIndex(body.anchors, line)
            /\ s.follow => context = Cardinality(body.anchors) + 1
<1> DEFINE last == Max({0, body.length - rows})
           end == Min({s.offset + s.viewport, body.length})
           line == IF s.offset < last THEN s.offset ELSE end - 1
           context == HandoffViewContext(body.anchors, s, body.length)
<1>1. /\ s.offset \in Nat /\ s.offset <= last /\ s.viewport = rows /\ (s.follow <=> s.offset = last)
      /\ body.length \in Nat /\ s.offset + s.viewport \in Int /\ body.length \in Int
  BY BodyIs DEF Laid, Viewports
<1>2. last \in Nat /\ last = IF body.length >= rows THEN body.length - rows ELSE 0
  BY <1>1, TailIs
<1>3. end = IF s.offset + s.viewport <= body.length THEN s.offset + s.viewport ELSE body.length
  BY <1>1, LesserOf
<1>4. context = HandoffContextIndex(body.anchors, line)
  BY <1>1 DEF HandoffViewContext
<1> HIDE DEF last, end, context
<1>5. ASSUME s.offset = last PROVE line = body.length - 1
  BY <1>1, <1>2, <1>3, <1>5
<1>6. body.length = 0 \/ line \in VisibleLines(s)
  <2>1. CASE s.offset < last
    <3>1. s.offset < body.length /\ line = s.offset
      BY <1>1, <1>2, <2>1
    <3> HIDE DEF line
    <3> QED
      BY <3>1, FrameShows
  <2>2. CASE ~(s.offset < last)
    <3>1. s.offset = last
      BY <1>1, <1>2, <2>2
    <3>2. s.follow /\ line = body.length - 1
      BY <1>1, <1>5, <3>1
    <3> HIDE DEF line
    <3>3. body.length # 0 => line \in Nat /\ line >= last /\ line < body.length
      BY <1>1, <1>2, <3>2
    <3> QED
      BY <3>2, <3>3, FrameShows DEF last
  <2> QED
    BY <2>1, <2>2
<1>7. ASSUME s.follow PROVE context = Cardinality(body.anchors) + 1
  <2>1. line = body.length - 1
    BY <1>1, <1>5, <1>7
  <2> HIDE DEF line
  <2>2. {a \in body.anchors : a <= line} = body.anchors
    <3>1. ASSUME NEW a \in body.anchors PROVE a <= line
      <4>1. a \in Nat /\ a < body.length
        BY BodyIs
      <4> QED
        BY <1>1, <2>1, <4>1
    <3> QED
      BY <3>1
  <2>3. context = 1 + Cardinality(body.anchors)
    BY <1>4, <2>2 DEF HandoffContextIndex
  <2> QED
    BY <2>3, BodyIs
<1> HIDE DEF line
<1> QED
  BY <1>4, <1>6, <1>7 DEF context

-----------------------------------------------------------------------------
(* Theorems *)

LEMMA ScrolledByIs ==
  ASSUME NEW s \in Viewports, NEW delta \in Int
  PROVE  ScrolledBy(s, delta) \in Viewports
<1>1. s.offset + delta \in Int
  BY DEF Viewports
<1> DEFINE m == Max({0, s.offset + delta})
<1>2. m \in Nat
  BY <1>1, GreaterOf
<1>3. ScrolledBy(s, delta) = [s EXCEPT !.follow = FALSE, !.offset = m]
  BY DEF ScrolledBy
<1> HIDE DEF m
<1> QED
  BY <1>2, <1>3 DEF Viewports

(* Lines stay lines and the scroll state a viewport's, whatever keys, frames and changes of
   the body do (watch-viewport.ts). *)
THEOREM ScrollTypeCorrect == ScrollSpec => []ScrollTypeOK
<1>1. ScrollInit => ScrollTypeOK
  BY DEF ScrollInit, ScrollTypeOK, EmptyBody, Viewports
<1>2. ASSUME ScrollTypeOK, [ScrollNext]_scrollVars PROVE ScrollTypeOK'
  <2>0. scroll \in Viewports /\ body.anchors \in SUBSET Nat /\ drawn \in SUBSET Nat /\ body.length \in Nat
    BY <1>2 DEF ScrollTypeOK
  <2>1. CASE Grow
    <3>1. PICK added \in SUBSET {body.length} :
            body' = [length |-> body.length + 1, anchors |-> body.anchors \cup added]
      BY <2>1 DEF Grow
    <3>2. \A a \in body.anchors \cup added : a \in 0..((body.length + 1) - 1)
      BY <1>2, <2>0, <3>1 DEF ScrollTypeOK
    <3>3. body'.length = body.length + 1 /\ body'.anchors = body.anchors \cup added
      BY <3>1
    <3>4. body'.anchors \subseteq 0..(body'.length - 1) /\ body' \in [length: Nat, anchors: SUBSET Nat]
      BY <2>0, <3>1, <3>2, <3>3
    <3> QED
      BY <1>2, <2>1, <3>4 DEF Grow, ScrollTypeOK
  <2>2. CASE OtherBody
    <3>1. AtEnd(scroll) \in Viewports
      BY <2>0 DEF AtEnd, Viewports
    <3> QED
      BY <1>2, <2>2, <3>1 DEF OtherBody, ScrollTypeOK, EmptyBody
  <2>3. ASSUME NEW s \in Viewports, Key(s) PROVE ScrollTypeOK'
    BY <1>2, <2>3 DEF Key, ScrollTypeOK
  <2>4. CASE ScrollKey
    <3>1. PICK delta \in {-1, 1, 1 - scroll.viewport, scroll.viewport - 1, -WheelLines, WheelLines} :
            Key(ScrolledBy(scroll, delta))
      BY <2>4 DEF ScrollKey
    <3>2. delta \in Int
      BY <2>0, ViewportAssumption DEF Viewports
    <3> QED
      BY <2>0, <2>3, <3>1, <3>2, ScrolledByIs
  <2>5. CASE HomeKey
    <3>1. AtHome(scroll) \in Viewports
      BY <2>0 DEF AtHome, Viewports
    <3> QED
      BY <2>3, <2>5, <3>1 DEF HomeKey
  <2>6. CASE EndKey
    <3>1. AtEnd(scroll) \in Viewports
      BY <2>0 DEF AtEnd, Viewports
    <3> QED
      BY <2>3, <2>6, <3>1 DEF EndKey
  <2>7. CASE JumpKey
    BY <2>0, <2>3, <2>7, JumpIs DEF JumpKey
  <2>8. ASSUME NEW length \in 0..MaxBody, Fold(length) PROVE ScrollTypeOK'
    <3>1. PICK anchors \in kSubset(Cardinality(body.anchors), 0..(length - 1)) :
            body' = [length |-> length, anchors |-> anchors]
      BY <2>8 DEF Fold
    <3>2. anchors \subseteq 0..(length - 1) /\ length \in Nat
      BY <3>1, ViewportAssumption DEF kSubset
    <3>3. anchors \in SUBSET Nat
      BY <3>2
    <3> QED
      BY <1>2, <2>8, <3>1, <3>2, <3>3 DEF Fold, ScrollTypeOK
  <2>9. ASSUME NEW rows \in 1..MaxRows, Frame(rows) PROVE ScrollTypeOK'
    <3>1. rows \in Nat
      BY ViewportAssumption
    <3>2. Layout(scroll, body.length, rows) \in Viewports
      BY <2>0, <3>1, LayoutIs DEF Laid
    <3> QED
      BY <1>2, <2>0, <2>9, <3>2 DEF Frame, ScrollTypeOK
  <2>10. CASE UNCHANGED scrollVars
    BY <1>2, <2>10 DEF scrollVars, ScrollTypeOK
  <2> QED
    BY <1>2, <2>1, <2>2, <2>4, <2>5, <2>6, <2>7, <2>8, <2>9, <2>10 DEF ScrollNext
<1> QED
  BY <1>1, <1>2, PTL DEF ScrollSpec

LEMMA JumpsShow ==
  ASSUME ScrollTypeOK, NEW rows \in Nat \ {0}, NEW s0, Laid(s0, Max({0, body.length - rows}), rows)
  PROVE  LET n == Cardinality(body.anchors) + 1
             down == Presses(s0, 1, n)
             up == Presses(s0, -1, n)
         IN /\ {a \in body.anchors : a > s0.offset} \subseteq Seen(down)
            /\ down[n].follow
            /\ body.length = 0 \/ body.length - 1 \in VisibleLines(down[n])
            /\ {a \in body.anchors : a < s0.offset} \subseteq Seen(up)
            /\ \A frames \in {down, up}, k \in 0..n :
                 LET context == HandoffViewContext(body.anchors, frames[k], body.length)
                 IN /\ \/ body.length = 0
                       \/ \E line \in VisibleLines(frames[k]) :
                            context = HandoffContextIndex(body.anchors, line)
                    /\ frames[k].follow => context = n
<1> DEFINE n == Cardinality(body.anchors) + 1
           down == Presses(s0, 1, n)
           up == Presses(s0, -1, n)
           last == Max({0, body.length - rows})
<1>1. /\ n \in Nat /\ last \in Nat /\ last = (IF body.length >= rows THEN body.length - rows ELSE 0)
      /\ body.length \in Nat /\ body.anchors \in SUBSET Nat /\ \A a \in body.anchors : a < body.length
  BY BodyIs, TailIs
<1>2. /\ down[n].follow
      /\ \A a \in body.anchors : a > s0.offset => a >= last \/ \E k \in 0..n : down[k].offset = a
  BY PressedDown
<1>3. \A a \in body.anchors : a < s0.offset => \E k \in 0..n : up[k].offset = a
  BY PressedUp
<1>4. ASSUME NEW f \in {down, up}
      PROVE  DOMAIN f = 0..n /\ \A k \in 0..n : Laid(f[k], last, rows)
  <2>1. Frames(down, s0, 1, n, rows) /\ Frames(up, s0, -1, n, rows)
    <3> HIDE DEF n
    <3> QED
      BY <1>1, FramesLaid
  <2>2. Frames(f, s0, 1, n, rows) \/ Frames(f, s0, -1, n, rows)
    BY <1>4, <2>1
  <2> QED
    BY <2>2 DEF Frames
<1> HIDE DEF n, down, up
<1>5. ASSUME NEW f \in {down, up}, NEW k \in 0..n
      PROVE  /\ f[k].offset < body.length => f[k].offset \in Seen(f)
             /\ f[k].follow => \A line \in Nat :
                  line >= last /\ line < body.length => line \in VisibleLines(f[k]) /\ line \in Seen(f)
  <2>1. DOMAIN f = 0..n /\ Laid(f[k], Max({0, body.length - rows}), rows)
    BY <1>4, <1>5
  <2>2. /\ f[k].offset < body.length => f[k].offset \in VisibleLines(f[k])
        /\ f[k].follow => \A line \in Nat :
             line >= last /\ line < body.length => line \in VisibleLines(f[k])
    BY <2>1, FrameShows
  <2>3. VisibleLines(f[k]) \subseteq Seen(f)
    BY <2>1 DEF Seen
  <2> QED
    BY <2>2, <2>3
<1>6. n \in 0..n
  BY <1>1
<1>7. {a \in body.anchors : a > s0.offset} \subseteq Seen(down)
  <2>1. ASSUME NEW a \in body.anchors, a > s0.offset PROVE a \in Seen(down)
    <3>1. a \in Nat /\ a < body.length
      BY <1>1
    <3>2. CASE a >= last
      BY <1>2, <1>5, <1>6, <3>1, <3>2
    <3>3. CASE \E k \in 0..n : down[k].offset = a
      BY <1>5, <3>1, <3>3
    <3> QED
      BY <1>2, <2>1, <3>2, <3>3
  <2> QED
    BY <2>1
<1>8. {a \in body.anchors : a < s0.offset} \subseteq Seen(up)
  <2>1. ASSUME NEW a \in body.anchors, a < s0.offset PROVE a \in Seen(up)
    BY <1>1, <1>3, <1>5, <2>1
  <2> QED
    BY <2>1
<1>9. body.length = 0 \/ body.length - 1 \in VisibleLines(down[n])
  <2>1. body.length # 0 => body.length - 1 \in Nat /\ body.length - 1 >= last /\ body.length - 1 < body.length
    BY <1>1
  <2> QED
    BY <1>2, <1>5, <1>6, <2>1
<1>10. ASSUME NEW f \in {down, up}, NEW k \in 0..n
       PROVE  LET context == HandoffViewContext(body.anchors, f[k], body.length)
              IN /\ \/ body.length = 0
                    \/ \E line \in VisibleLines(f[k]) : context = HandoffContextIndex(body.anchors, line)
                 /\ f[k].follow => context = n
  <2>1. Laid(f[k], Max({0, body.length - rows}), rows)
    BY <1>4, <1>10
  <2> QED
    BY <2>1, HeaderIs DEF n
<1> QED
  BY <1>2, <1>7, <1>8, <1>9, <1>10 DEF n, down, up

(* From any state of the viewport the jump keys show every divider, down to the tail, and the
   header is true to what is shown, for bodies and terminals of any size (watch-viewport.ts,
   handoffJumpTarget, layout, handoffViewContext). *)
THEOREM JumpsAlwaysShowAll == ScrollSpec => []JumpsShowAll
<1>1. ASSUME ScrollTypeOK PROVE JumpsShowAll
  <2>1. ASSUME NEW rows \in 1..MaxRows
        PROVE  rows \in Nat \ {0}
               /\ Laid(Layout(scroll, body.length, rows), Max({0, body.length - rows}), rows)
    <3>1. rows \in Nat \ {0} /\ scroll \in Viewports /\ body.length \in Nat
      BY <1>1, ViewportAssumption DEF ScrollTypeOK
    <3> QED
      BY <3>1, LayoutIs
  <2>2. ASSUME NEW rows \in 1..MaxRows
        PROVE  LET s0 == Layout(scroll, body.length, rows)
                   n == Cardinality(body.anchors) + 1
                   down == Presses(s0, 1, n)
                   up == Presses(s0, -1, n)
               IN /\ {a \in body.anchors : a > s0.offset} \subseteq Seen(down)
                  /\ down[n].follow
                  /\ body.length = 0 \/ body.length - 1 \in VisibleLines(down[n])
                  /\ {a \in body.anchors : a < s0.offset} \subseteq Seen(up)
                  /\ \A frames \in {down, up}, k \in 0..n :
                       LET context == HandoffViewContext(body.anchors, frames[k], body.length)
                       IN /\ \/ body.length = 0
                             \/ \E line \in VisibleLines(frames[k]) :
                                  context = HandoffContextIndex(body.anchors, line)
                          /\ frames[k].follow => context = n
    <3> DEFINE s0 == Layout(scroll, body.length, rows)
    <3>1. rows \in Nat \ {0} /\ Laid(s0, Max({0, body.length - rows}), rows)
      BY <2>1
    <3> HIDE DEF s0
    <3> QED
      BY <1>1, <3>1, JumpsShow DEF s0
  <2> QED
    BY <2>2 DEF JumpsShowAll
<1> QED
  BY <1>1, ScrollTypeCorrect, PTL

-----------------------------------------------------------------------------
(* Places *)

(* A child's place among the records, 0 without one. *)
LEMMA PlaceIs ==
  ASSUME OverlayTypeOK, NEW id
  PROVE  /\ Place(id) \in 0..Len(records) /\ Len(records) \in Nat /\ DOMAIN records = 1..Len(records)
         /\ Place(id) # 0 => born[records[Place(id)]] = id
         /\ Place(id) = 0 => \A i \in DOMAIN records : born[records[i]] # id
<1> DEFINE I == {i \in 1..Len(records) : born[records[i]] = id}
<1>1. Len(records) \in Nat /\ DOMAIN records = 1..Len(records)
  BY LenProperties DEF OverlayTypeOK
<1>2. Place(id) = IF I # {} THEN Min(I) ELSE 0
  BY DEF Place, SelectInSeq
<1>3. CASE I = {}
  BY <1>1, <1>2, <1>3
<1>4. CASE I # {}
  <2>1. Min(I) \in I
    BY <1>1, <1>4, MinIsIn
  <2> QED
    BY <1>1, <1>2, <1>4, <2>1
<1> QED
  BY <1>3, <1>4

LEMMA RecordsAre ==
  ASSUME OverlayTypeOK
  PROVE  /\ Len(records) \in Nat /\ DOMAIN records = 1..Len(records)
         /\ Len(born) \in Nat
         /\ \A i \in 1..Len(records) : records[i] \in 1..Len(born) /\ born[records[i]] \in Kids
<1>1. /\ records \in [1..Len(records) -> 1..Len(born)] /\ born \in [1..Len(born) -> Kids]
      /\ Len(records) \in Nat /\ Len(born) \in Nat
  BY LenProperties DEF OverlayTypeOK
<1> QED
  BY <1>1

(* The child after a place, or before it, is one of them. *)
LEMMA NextIs ==
  ASSUME OverlayTypeOK, records # <<>>, NEW id
  PROVE  NextChild(id) \in 1..Len(born) /\ PrevChild(id) \in 1..Len(born)
<1> DEFINE n == Len(records)
           p == Place(id)
<1>1. n \in Nat \ {0} /\ p \in 0..n /\ \A i \in 1..n : records[i] \in 1..Len(born)
  BY RecordsAre, PlaceIs, EmptySeq DEF OverlayTypeOK
<1>2. NextChild(id) = records[(p % n) + 1]
  BY DEF NextChild, At
<1>3. PrevChild(id) = IF p = 0 THEN records[n] ELSE records[((p + n - 2) % n) + 1]
  BY DEF PrevChild, At, Last
<1> HIDE DEF n, p
<1>4. (p % n) + 1 \in 1..n
  BY <1>1
<1>5. p # 0 => p + n - 2 \in Int
  BY <1>1
<1>6. p # 0 => ((p + n - 2) % n) + 1 \in 1..n
  BY <1>1, <1>5
<1> QED
  BY <1>1, <1>2, <1>3, <1>4, <1>6

LEMMA TargetIs ==
  ASSUME OverlayTypeOK, records # <<>>
  PROVE  WatchTarget \in 1..Len(born)
<1> DEFINE I == {i \in 1..Len(records) : records[i] \in busy}
           running == SelectInSeq(records, LAMBDA r : r \in busy)
<1>1. Len(records) \in Nat \ {0} /\ \A i \in 1..Len(records) : records[i] \in 1..Len(born)
  BY RecordsAre, EmptySeq DEF OverlayTypeOK
<1>2. running = IF I # {} THEN Min(I) ELSE 0
  BY DEF SelectInSeq
<1>3. running \in 0..Len(records)
  <2>1. I # {} => Min(I) \in I
    BY <1>1, MinIsIn
  <2> QED
    BY <1>1, <1>2, <2>1
<1>4. WatchTarget = IF Place(cursor) # 0 THEN NextChild(cursor)
                    ELSE IF running # 0 THEN records[running] ELSE records[Len(records)]
  BY DEF WatchTarget, Last
<1> HIDE DEF running
<1> QED
  BY <1>1, <1>3, <1>4, NextIs

(* A sequence without its i-th element. *)
LEMMA RemoveAtIs ==
  ASSUME NEW S, NEW s \in Seq(S), NEW i \in 1..Len(s)
  PROVE  /\ RemoveAt(s, i) \in Seq(S) /\ Len(RemoveAt(s, i)) = Len(s) - 1
         /\ \A j \in 1..(Len(s) - 1) : RemoveAt(s, i)[j] = IF j < i THEN s[j] ELSE s[j + 1]
<1> DEFINE front == SubSeq(s, 1, i - 1)
           back == SubSeq(s, i + 1, Len(s))
<1>0. Len(s) \in Nat /\ i \in Nat /\ i >= 1 /\ i <= Len(s)
  BY LenProperties
<1>1. front \in Seq(S) /\ Len(front) = i - 1 /\ \A j \in 1..(i - 1) : front[j] = s[j]
  <2>1. \A j \in 1..(i - 1) : j \in 1..Len(s)
    BY <1>0
  <2>2. front \in Seq(S)
    BY <1>0, <2>1, SubSeqProperties
  <2>3. Len(front) = i - 1
    BY <1>0, <2>1, SubSeqProperties
  <2> QED
    BY <1>0, <2>1, <2>2, <2>3, SubSeqProperties
<1>2. back \in Seq(S) /\ Len(back) = Len(s) - i /\ \A j \in 1..(Len(s) - i) : back[j] = s[i + j]
  <2>1. \A j \in (i + 1)..Len(s) : j \in 1..Len(s)
    BY <1>0
  <2>2. back \in Seq(S)
    BY <1>0, <2>1, SubSeqProperties
  <2>3. Len(back) = Len(s) - i
    BY <1>0, <2>1, SubSeqProperties
  <2> QED
    BY <1>0, <2>1, <2>2, <2>3, SubSeqProperties
<1>3. RemoveAt(s, i) = front \o back
  BY DEF RemoveAt
<1> HIDE DEF front, back
<1>4. /\ front \o back \in Seq(S) /\ Len(front \o back) = Len(s) - 1
      /\ \A j \in 1..(Len(s) - 1) :
           (front \o back)[j] = IF j <= i - 1 THEN front[j] ELSE back[j - (i - 1)]
  <2>1. /\ front \o back \in Seq(S) /\ Len(front \o back) = Len(front) + Len(back)
        /\ \A j \in 1..(Len(front) + Len(back)) :
             (front \o back)[j] = IF j <= Len(front) THEN front[j] ELSE back[j - Len(front)]
    BY <1>1, <1>2, ConcatProperties
  <2>2. Len(front) + Len(back) = Len(s) - 1 /\ Len(front) = i - 1
    BY <1>0, <1>1, <1>2
  <2> QED
    BY <2>1, <2>2
<1>5. \A j \in 1..(Len(s) - 1) : (front \o back)[j] = IF j < i THEN s[j] ELSE s[j + 1]
  <2>1. ASSUME NEW j \in 1..(Len(s) - 1) PROVE (front \o back)[j] = IF j < i THEN s[j] ELSE s[j + 1]
    <3>1. CASE j < i
      BY <1>0, <1>1, <1>4, <3>1
    <3>2. CASE ~(j < i)
      <4>1. j - (i - 1) \in 1..(Len(s) - i) /\ i + (j - (i - 1)) = j + 1
        BY <1>0, <3>2
      <4>2. back[j - (i - 1)] = s[j + 1]
        BY <1>2, <4>1
      <4> QED
        BY <1>0, <1>4, <3>2, <4>2
    <3> QED
      BY <3>1, <3>2
  <2> QED
    BY <2>1
<1> QED
  BY <1>3, <1>4, <1>5

-----------------------------------------------------------------------------
(* The registry *)

LEMMA RegistryStays ==
  ASSUME OverlayTypeOK, OneRecordEach, [OverlayNext]_overlayVars
  PROVE  /\ born' \in Seq(Kids) /\ records' \in Seq((1..Len(born))') /\ Len(born) <= Len(born)'
         /\ Len(born)' \in Nat /\ OneRecordEach'
<1>0. /\ born \in Seq(Kids) /\ records \in Seq(1..Len(born)) /\ Len(records) \in Nat /\ Len(born) \in Nat
      /\ DOMAIN records = 1..Len(records)
      /\ \A i \in 1..Len(records) : records[i] \in 1..Len(born) /\ born[records[i]] \in Kids
  BY RecordsAre DEF OverlayTypeOK
<1>1. ASSUME NEW id \in Kids, KidEnters(id)
      PROVE  /\ born' \in Seq(Kids) /\ records' \in Seq((1..Len(born))') /\ Len(born) <= Len(born)'
             /\ Len(born)' \in Nat /\ OneRecordEach'
  <2>0. /\ born' = Append(born, id) /\ records' = Append(records, Len(born) + 1)
        /\ \A i \in DOMAIN records : born[records[i]] # id
    BY <1>1 DEF KidEnters, LiveKids, ToSet
  <2>1. /\ born' \in Seq(Kids) /\ Len(born)' = Len(born) + 1 /\ born'[Len(born) + 1] = id
        /\ \A r \in 1..Len(born) : born'[r] = born[r]
    BY <1>0, <2>0, AppendProperties
  <2>2. records \in Seq(1..(Len(born) + 1))
    <3>1. records \in [1..Len(records) -> 1..(Len(born) + 1)]
      <4>1. records \in [1..Len(records) -> 1..Len(born)]
        BY <1>0, LenProperties
      <4>2. 1..Len(born) \subseteq 1..(Len(born) + 1)
        BY <1>0
      <4> QED
        BY <4>1, <4>2
    <3> QED
      BY <1>0, <3>1, SeqDef
  <2>3. Len(born) + 1 \in 1..(Len(born) + 1)
    BY <1>0
  <2>4. /\ records' \in Seq(1..(Len(born) + 1)) /\ Len(records') = Len(records) + 1
        /\ records'[Len(records) + 1] = Len(born) + 1
        /\ \A i \in 1..Len(records) : records'[i] = records[i]
    BY <2>0, <2>2, <2>3, AppendProperties
  <2>5. DOMAIN records' = 1..(Len(records) + 1)
    BY <2>4, LenProperties
  <2>6. \A i \in 1..Len(records) : born'[records'[i]] = born[records[i]] /\ born'[records'[i]] # id
    BY <1>0, <2>0, <2>1, <2>4
  <2>7. born'[records'[Len(records) + 1]] = id
    BY <2>1, <2>4
  <2>8. OneRecordEach'
    <3>1. ASSUME NEW i \in 1..(Len(records) + 1), NEW j \in 1..(Len(records) + 1),
                 born'[records'[i]] = born'[records'[j]]
          PROVE  i = j
      <4>1. CASE i \in 1..Len(records) /\ j \in 1..Len(records)
        BY <1>0, <2>6, <3>1, <4>1 DEF OneRecordEach
      <4>2. CASE ~(i \in 1..Len(records) /\ j \in 1..Len(records))
        <5>1. i = Len(records) + 1 \/ j = Len(records) + 1
          BY <1>0, <4>2
        <5>2. i = j \/ i \in 1..Len(records) \/ j \in 1..Len(records)
          BY <1>0
        <5> QED
          BY <2>6, <2>7, <3>1, <5>1, <5>2
      <4> QED
        BY <4>1, <4>2
    <3> QED
      BY <2>5, <3>1 DEF OneRecordEach
  <2> QED
    BY <1>0, <2>1, <2>4, <2>8
<1>2. ASSUME NEW k \in DOMAIN records, KidEvicted(k)
      PROVE  born' = born /\ records' \in Seq(1..Len(born)) /\ OneRecordEach'
  <2>0. records' = RemoveAt(records, k) /\ born' = born
    BY <1>2 DEF KidEvicted
  <2>1. /\ records' \in Seq(1..Len(born)) /\ Len(records') = Len(records) - 1
        /\ \A j \in 1..(Len(records) - 1) : records'[j] = IF j < k THEN records[j] ELSE records[j + 1]
    BY <1>0, <2>0, RemoveAtIs
  <2>2. DOMAIN records' = 1..(Len(records) - 1)
    BY <2>1, LenProperties
  <2>3. ASSUME NEW i \in 1..(Len(records) - 1), NEW j \in 1..(Len(records) - 1),
               born[records'[i]] = born[records'[j]]
        PROVE  i = j
    <3> DEFINE old(x) == IF x < k THEN x ELSE x + 1
    <3>1. \A x \in 1..(Len(records) - 1) : old(x) \in 1..Len(records) /\ records'[x] = records[old(x)]
      <4>1. ASSUME NEW x \in 1..(Len(records) - 1)
            PROVE  old(x) \in 1..Len(records) /\ records'[x] = records[old(x)]
        <5>1. x \in 1..Len(records) /\ x + 1 \in 1..Len(records)
          BY <1>0
        <5>2. records'[x] = IF x < k THEN records[x] ELSE records[x + 1]
          BY <2>1
        <5> QED
          BY <5>1, <5>2
      <4> QED
        BY <4>1
    <3>2. old(i) = old(j) => i = j
      BY <1>0
    <3> HIDE DEF old
    <3>3. old(i) = old(j)
      BY <1>0, <2>3, <3>1 DEF OneRecordEach
    <3> QED
      BY <3>2, <3>3
  <2>4. OneRecordEach'
    BY <2>0, <2>2, <2>3 DEF OneRecordEach
  <2> QED
    BY <2>0, <2>1, <2>4
<1>3. ASSUME born' = born, records' = records \/ records' = <<>>
      PROVE  records' \in Seq(1..Len(born)) /\ OneRecordEach'
  <2>1. CASE records' = records
    BY <1>0, <1>3, <2>1 DEF OneRecordEach
  <2>2. CASE records' = <<>>
    <3>1. records' \in Seq(1..Len(born)) /\ DOMAIN records' = {}
      BY <2>2, EmptySeq
    <3> QED
      BY <3>1 DEF OneRecordEach
  <2> QED
    BY <1>3, <2>1, <2>2
<1>4. CASE \/ \E k \in DOMAIN records : KidRuns(records[k])
           \/ SessionEnds \/ PiDraws \/ WatchKey \/ PiCloses
           \/ \E delta \in {-1, 1} : PickerMoves(delta)
           \/ \E n \in 1..9 : PickerDigit(n)
           \/ PickerEnter \/ PickerEscape \/ LeaveView \/ ShowNextChild \/ ShowPrevChild
           \/ OpenChildBtw \/ OpenMainBtw \/ SubmitQuestion \/ FlightLands \/ CloseBtw
           \/ UNCHANGED overlayVars
  <2>1. born' = born /\ (records' = records \/ records' = <<>>)
    BY <1>4 DEF KidRuns, SessionEnds, PiDraws, WatchKey, PiCloses, Dispose, PickerMoves, PickerDigit, PickerEnter,
       PickerEscape, LeaveView, ShowNextChild, ShowPrevChild, ShowChild, EnterView, OpenChildBtw, OpenMainBtw,
       SubmitQuestion, FlightLands, CloseBtw, overlayVars, kids, Stay
  <2> QED
    BY <1>0, <1>3, <2>1
<1> QED
  BY <1>0, <1>1, <1>2, <1>4 DEF OverlayNext

-----------------------------------------------------------------------------
(* The overlay *)

(* What the invariant says of the overlay, the terminal, the views and the chat. *)
Overlaid ==
  /\ cursor \in Kids \cup {NoKid}
  /\ overlay \in [shown: {"none", "watch", "btw"}, mode: {"picker", "view", "btw"}, fromPicker: BOOLEAN,
                  selected: Nat, record: 0..Len(born)]
  /\ term \in [kind: Terminals, alt: BOOLEAN, mouse: BOOLEAN, frame: {"main", "blank", "alt"},
               kept: {"-", "main"}]
  /\ ticking \in BOOLEAN /\ flight \in BOOLEAN
  /\ OneView /\ OverlayLeavesNothing

LEMMA OverlaidIs == OverlayInv <=> /\ born \in Seq(Kids) /\ records \in Seq(1..Len(born))
                                   /\ OneRecordEach /\ Overlaid
BY DEF OverlayInv, OverlayTypeOK, Overlaid

(* Nothing here calls back into the overlay. *)
LEMMA ChildrenComeAndGo ==
  ASSUME Overlaid, Len(born) \in Nat, Len(born)' \in Nat, Len(born) <= Len(born)', OffScreen,
         cursor' \in Kids \cup {NoKid}
  PROVE  Overlaid'
<1>1. 0..Len(born) \subseteq (0..Len(born))'
  OBVIOUS
<1>2. /\ overlay' \in [shown: {"none", "watch", "btw"}, mode: {"picker", "view", "btw"}, fromPicker: BOOLEAN,
                       selected: Nat, record: (0..Len(born))']
      /\ overlay' = overlay /\ painters' = painters /\ ticking' = ticking /\ term' = term /\ flight' = flight
  BY <1>1 DEF Overlaid, OffScreen
<1>3. OneView' /\ OverlayLeavesNothing'
  BY <1>2 DEF Overlaid, OneView, OverlayLeavesNothing, Chatting
<1> QED
  BY <1>2, <1>3 DEF Overlaid

(* The screen is entered from pi's and left to it. *)
LEMMA ScreenEntered ==
  ASSUME Overlaid, overlay.shown = "none", term' = EnterScreen(term)
  PROVE  /\ term' \in [kind: Terminals, alt: BOOLEAN, mouse: BOOLEAN, frame: {"main", "blank", "alt"},
                       kept: {"-", "main"}]
         /\ term'.alt <=> term'.kind = "regular"
         /\ term'.mouse <=> term'.kind # "fullscreen"
         /\ IF term'.alt THEN term'.frame # "main" /\ term'.kept = "main" ELSE term'.frame = "main"
BY DEF Overlaid, OverlayLeavesNothing, EnterScreen

LEMMA ScreenLeft ==
  ASSUME Overlaid, term' = ExitScreen(term)
  PROVE  /\ term' \in [kind: Terminals, alt: BOOLEAN, mouse: BOOLEAN, frame: {"main", "blank", "alt"},
                       kept: {"-", "main"}]
         /\ ~term'.alt /\ ~term'.mouse /\ term'.frame = "main"
BY DEF Overlaid, OverlayLeavesNothing, ExitScreen

LEMMA Disposed ==
  ASSUME Overlaid, Len(born) \in Nat, Dispose
  PROVE  Overlaid'
<1>0. /\ term' = ExitScreen(term) /\ painters' = painters \ {overlay.record} /\ overlay' = NoOverlay
      /\ ticking' = FALSE /\ flight' = FALSE /\ born' = born /\ cursor' = cursor
  BY DEF Dispose, kids
<1>1. painters' = {}
  BY <1>0 DEF Overlaid, OverlayLeavesNothing
<1>2. /\ NoOverlay \in [shown: {"none", "watch", "btw"}, mode: {"picker", "view", "btw"}, fromPicker: BOOLEAN,
                        selected: Nat, record: 0..Len(born)]
      /\ NoOverlay.shown = "none"
  BY DEF NoOverlay, NoRecord
<1>3. OverlayLeavesNothing'
  BY <1>0, <1>1, <1>2, ScreenLeft DEF OverlayLeavesNothing, Chatting
<1>4. OneView'
  BY <1>0, <1>2 DEF OneView
<1> QED
  BY <1>0, <1>2, <1>3, <1>4, ScreenLeft DEF Overlaid

LEMMA Opened ==
  ASSUME OverlayInv, WatchKey \/ OpenMainBtw
  PROVE  Overlaid'
<1>0. OverlayTypeOK /\ Overlaid /\ Len(born) \in Nat
  BY OverlaidIs, RecordsAre DEF OverlayInv
<1>1. CASE WatchKey
  <2> DEFINE several == Len(records) > 1
             initial == IF several THEN NoRecord ELSE WatchTarget
  <2>0. /\ overlay.shown = "none" /\ records # <<>> /\ born' = born /\ flight' = flight /\ ticking' = TRUE
        /\ term' = EnterScreen(term)
        /\ overlay' = [shown |-> "watch", mode |-> IF several THEN "picker" ELSE "view", fromPicker |-> several,
                       selected |-> Max({0, Place(cursor) - 1}), record |-> initial]
        /\ cursor' = IF several THEN cursor ELSE born[initial]
        /\ painters' = painters \cup ({initial} \ {NoRecord})
    BY <1>1 DEF WatchKey, Open, kids
  <2>1. WatchTarget \in 1..Len(born)
    BY <1>0, <2>0, TargetIs
  <2>2. initial \in 0..Len(born) /\ (several <=> initial = NoRecord) /\ several \in BOOLEAN
    BY <1>0, <2>1 DEF NoRecord
  <2>3. Max({0, Place(cursor) - 1}) \in Nat
    <3>1. Place(cursor) - 1 \in Int
      BY <1>0, PlaceIs
    <3> QED
      BY <3>1, GreaterOf
  <2>4. cursor' \in Kids \cup {NoKid}
    <3>1. ~several => initial \in 1..Len(born)
      BY <2>1
    <3>2. born \in [1..Len(born) -> Kids]
      BY <1>0, LenProperties DEF OverlayTypeOK
    <3>3. cursor \in Kids \cup {NoKid}
      BY <1>0 DEF Overlaid
    <3> HIDE DEF initial, several
    <3> QED
      BY <2>0, <3>1, <3>2, <3>3
  <2>5. painters = {} /\ ~flight
    BY <1>0, <2>0 DEF Overlaid, OverlayLeavesNothing, Chatting
  <2> HIDE DEF initial, several
  <2>6. /\ overlay' \in [shown: {"none", "watch", "btw"}, mode: {"picker", "view", "btw"}, fromPicker: BOOLEAN,
                         selected: Nat, record: 0..Len(born)]
        /\ overlay'.shown = "watch" /\ (overlay'.mode = "picker" <=> overlay'.record = NoRecord)
        /\ painters' = {overlay'.record} \ {NoRecord}
    BY <2>0, <2>2, <2>3, <2>5
  <2>7. OneView'
    BY <2>6 DEF OneView
  <2>8. painters' = IF overlay'.mode # "picker" THEN {overlay'.record} ELSE {}
    BY <2>6
  <2>9. OverlayLeavesNothing'
    <3>1. term'.alt <=> term'.kind = "regular"
      BY <1>0, <2>0, ScreenEntered
    <3>2. term'.mouse <=> term'.kind # "fullscreen"
      BY <1>0, <2>0, ScreenEntered
    <3>3. IF term'.alt THEN term'.frame # "main" /\ term'.kept = "main" ELSE term'.frame = "main"
      BY <1>0, <2>0, ScreenEntered
    <3> QED
      BY <2>0, <2>5, <2>6, <2>8, <3>1, <3>2, <3>3 DEF OverlayLeavesNothing
  <2> QED
    BY <1>0, <2>0, <2>4, <2>6, <2>7, <2>9, ScreenEntered DEF Overlaid
<1>2. CASE OpenMainBtw
  <2>0. /\ overlay.shown = "none" /\ overlay' = [NoOverlay EXCEPT !.shown = "btw", !.mode = "btw"]
        /\ term' = EnterScreen(term) /\ flight' \in BOOLEAN /\ born' = born /\ cursor' = cursor
        /\ painters' = painters /\ ticking' = ticking
    BY <1>2 DEF OpenMainBtw, Open, kids
  <2>1. /\ overlay' \in [shown: {"none", "watch", "btw"}, mode: {"picker", "view", "btw"}, fromPicker: BOOLEAN,
                         selected: Nat, record: 0..Len(born)]
        /\ overlay'.shown = "btw" /\ overlay'.mode = "btw" /\ overlay'.record = NoRecord
    <3> DEFINE R == [shown: {"none", "watch", "btw"}, mode: {"picker", "view", "btw"}, fromPicker: BOOLEAN,
                     selected: Nat, record: 0..Len(born)]
    <3>1. NoOverlay \in R /\ NoOverlay.record = NoRecord
      BY <1>0 DEF NoOverlay, NoRecord
    <3>2. ASSUME NEW o \in R, NEW p, p = [o EXCEPT !.shown = "btw", !.mode = "btw"]
          PROVE  p \in R /\ p.shown = "btw" /\ p.mode = "btw" /\ p.record = o.record
      BY <3>2
    <3> QED
      BY <2>0, <3>1, <3>2
  <2>2. painters = {} /\ ~ticking
    BY <1>0, <2>0 DEF Overlaid, OverlayLeavesNothing
  <2>3. OneView'
    BY <2>1 DEF OneView
  <2>4. OverlayLeavesNothing'
    BY <1>0, <2>0, <2>1, <2>2, ScreenEntered DEF OverlayLeavesNothing, Chatting
  <2>5. cursor \in Kids \cup {NoKid} /\ ticking \in BOOLEAN
    BY <1>0 DEF Overlaid
  <2> QED
    BY <1>0, <2>0, <2>1, <2>3, <2>4, <2>5, ScreenEntered DEF Overlaid
<1> QED
  BY <1>1, <1>2

(* A step within the open overlay leaves terminal and ticker alone. *)
LEMMA StaysOpen ==
  ASSUME Overlaid, overlay.shown # "none", overlay'.shown = overlay.shown, Stay,
         overlay' \in [shown: {"none", "watch", "btw"}, mode: {"picker", "view", "btw"}, fromPicker: BOOLEAN,
                       selected: Nat, record: 0..Len(born)],
         OneView', cursor' \in Kids \cup {NoKid}, flight' \in BOOLEAN, flight' => overlay'.mode = "btw",
         painters' = IF overlay'.shown = "watch" /\ overlay'.mode # "picker" THEN {overlay'.record} ELSE {}
  PROVE  Overlaid'
<1>0. term' = term /\ ticking' = ticking /\ born' = born
  BY DEF Stay, kids
<1>1. flight' => Chatting'
  BY DEF Chatting
<1>2. /\ ticking <=> overlay.shown = "watch"
      /\ term.alt <=> overlay.shown # "none" /\ term.kind = "regular"
      /\ term.mouse <=> overlay.shown # "none" /\ term.kind # "fullscreen"
      /\ IF term.alt THEN term.frame # "main" /\ term.kept = "main" ELSE term.frame = "main"
  BY DEF Overlaid, OverlayLeavesNothing
<1>3. OverlayLeavesNothing'
  BY <1>0, <1>1, <1>2 DEF OverlayLeavesNothing
<1> QED
  BY <1>0, <1>3 DEF Overlaid

(* The view's renderer follows the child that is shown. *)
LEMMA Switched ==
  ASSUME OverlayInv, NEW r \in 1..Len(born), overlay.shown = "watch", overlay.mode \in {"picker", "view"},
         SwitchTo([overlay EXCEPT !.mode = "view"], r), cursor' = born[r], flight' = flight, Stay
  PROVE  Overlaid'
<1>0. /\ Overlaid /\ OverlayTypeOK /\ born \in [1..Len(born) -> Kids] /\ Len(born) \in Nat
      /\ OneView /\ born' = born
  BY OverlaidIs, RecordsAre, LenProperties DEF OverlayInv, OverlayTypeOK, Stay, kids
<1> DEFINE R == [shown: {"none", "watch", "btw"}, mode: {"picker", "view", "btw"}, fromPicker: BOOLEAN,
                 selected: Nat, record: 0..Len(born)]
<1>1. overlay \in R
  BY <1>0 DEF Overlaid
<1>2. /\ overlay' = [[overlay EXCEPT !.mode = "view"] EXCEPT !.record = r]
      /\ painters' = IF r = overlay.record THEN painters ELSE (painters \ {overlay.record}) \cup {r}
  <2>1. [overlay EXCEPT !.mode = "view"].record = overlay.record
    BY <1>1
  <2> QED
    BY <2>1 DEF SwitchTo
<1>3. overlay' \in R /\ overlay'.shown = "watch" /\ overlay'.mode = "view" /\ overlay'.record = r
  <2>1. r \in 0..Len(born)
    BY <1>0
  <2> QED
    BY <1>1, <1>2, <2>1
<1>4. r # NoRecord
  BY DEF NoRecord
<1>5. OneView'
  BY <1>3, <1>4 DEF OneView
<1>6. painters' = {r}
  <2>1. painters = IF overlay.mode = "picker" THEN {} ELSE {overlay.record}
    BY <1>0 DEF Overlaid, OverlayLeavesNothing
  <2>2. overlay.mode = "picker" => overlay.record = NoRecord
    BY <1>0 DEF OneView
  <2> QED
    BY <1>2, <1>4, <2>1, <2>2
<1>7. ~flight
  BY <1>0 DEF Overlaid, OverlayLeavesNothing, Chatting
<1>8. cursor' \in Kids \cup {NoKid} /\ flight' \in BOOLEAN
  <2>1. flight \in BOOLEAN /\ born[r] \in Kids
    BY <1>0 DEF Overlaid
  <2> QED
    BY <2>1
<1> HIDE DEF R
<1> QED
  BY <1>0, <1>3, <1>5, <1>6, <1>7, <1>8, StaysOpen DEF R

LEMMA SelectionIsNat ==
  ASSUME NEW index \in Int, NEW delta \in {-1, 1}, NEW count \in Nat
  PROVE  MovePickerSelection(index, delta, count) \in Nat
<1>1. CASE count = 0
  BY <1>1 DEF MovePickerSelection
<1>2. CASE count # 0
  <2>1. count - 1 \in Int
    OBVIOUS
  <2>2. Min({index, count - 1}) \in Int
    BY <2>1, LesserOf
  <2>3. Max({0, Min({index, count - 1})}) \in Nat
    BY <2>2, GreaterOf
  <2> DEFINE m == Max({0, Min({index, count - 1})})
  <2>4. m + delta + count \in Int
    BY <2>3
  <2> HIDE DEF m
  <2>5. (m + delta + count) % count \in Nat
    BY <1>2, <2>4
  <2> QED
    BY <1>2, <2>5 DEF MovePickerSelection, m
<1> QED
  BY <1>1, <1>2

(* The picker's rows move, by a key or because rows are gone. *)
LEMMA PickerMoved ==
  ASSUME OverlayInv, PiDraws \/ \E delta \in {-1, 1} : PickerMoves(delta)
  PROVE  Overlaid'
<1>0. /\ Overlaid /\ Len(records) \in Nat /\ Len(born) \in Nat /\ born' = born
      /\ cursor' = cursor /\ painters' = painters /\ ticking' = ticking /\ flight' = flight
  BY OverlaidIs, RecordsAre DEF OverlayInv, PiDraws, PickerMoves, Stay, kids
<1> DEFINE R == [shown: {"none", "watch", "btw"}, mode: {"picker", "view", "btw"}, fromPicker: BOOLEAN,
                 selected: Nat, record: 0..Len(born)]
<1>1. overlay \in R /\ overlay.selected \in Nat
  BY <1>0 DEF Overlaid
<1>2. ASSUME NEW n \in Nat, overlay' = [overlay EXCEPT !.selected = n] \/ overlay' = overlay
      PROVE  /\ overlay' \in R /\ overlay'.shown = overlay.shown /\ overlay'.mode = overlay.mode
             /\ overlay'.record = overlay.record
  BY <1>1, <1>2
<1>3. \E n \in Nat : overlay' = overlay \/ (overlay.shown = "watch" /\ overlay' = [overlay EXCEPT !.selected = n])
  <2>1. CASE PiDraws
    <3>1. Max({0, Min({overlay.selected, Len(records) - 1})}) \in Nat
      <4>1. overlay.selected \in Int /\ Len(records) - 1 \in Int
        BY <1>0, <1>1
      <4> DEFINE m == Min({overlay.selected, Len(records) - 1})
      <4>2. m \in Int
        BY <4>1, LesserOf
      <4> HIDE DEF m
      <4>3. Max({0, m}) \in Nat
        BY <4>2, GreaterOf
      <4> QED
        BY <4>3 DEF m
    <3>2. \/ overlay' = overlay
          \/ /\ overlay.shown = "watch"
             /\ overlay' = [overlay EXCEPT !.selected = Max({0, Min({overlay.selected, Len(records) - 1})})]
      BY <2>1 DEF PiDraws
    <3> QED
      BY <3>1, <3>2
  <2>2. ASSUME NEW delta \in {-1, 1}, PickerMoves(delta)
        PROVE  \E n \in Nat : overlay' = overlay
                 \/ (overlay.shown = "watch" /\ overlay' = [overlay EXCEPT !.selected = n])
    <3>1. MovePickerSelection(overlay.selected, delta, Len(records)) \in Nat
      <4>1. overlay.selected \in Int
        BY <1>1
      <4> QED
        BY <1>0, <4>1, SelectionIsNat
    <3>2. /\ overlay.shown = "watch"
          /\ overlay' = [overlay EXCEPT !.selected = MovePickerSelection(overlay.selected, delta, Len(records))]
      BY <2>2 DEF PickerMoves, InMode
    <3> QED
      BY <3>1, <3>2
  <2> QED
    BY <2>1, <2>2
<1>4. /\ overlay' \in R /\ overlay'.shown = overlay.shown /\ overlay'.mode = overlay.mode
      /\ overlay'.record = overlay.record /\ (overlay.shown = "none" => overlay' = overlay)
  BY <1>1, <1>3
<1>5. OneView'
  BY <1>0, <1>4 DEF Overlaid, OneView
<1>6. /\ term' \in [kind: Terminals, alt: BOOLEAN, mouse: BOOLEAN, frame: {"main", "blank", "alt"},
                    kept: {"-", "main"}]
      /\ term'.kind = term.kind /\ term'.alt = term.alt /\ term'.mouse = term.mouse /\ term'.kept = term.kept
      /\ IF term'.alt THEN term'.frame # "main" /\ term'.kept = "main" ELSE term'.frame = "main"
  <2>1. CASE PiDraws
    BY <1>0, <2>1 DEF Overlaid, OverlayLeavesNothing, PiDraws
  <2>2. CASE \E delta \in {-1, 1} : PickerMoves(delta)
    <3>1. term' = term
      BY <2>2 DEF PickerMoves, Stay
    <3> QED
      BY <1>0, <3>1 DEF Overlaid, OverlayLeavesNothing
  <2> QED
    BY <2>1, <2>2
<1> HIDE DEF R
<1>7. OverlayLeavesNothing'
  <2>1. /\ painters = IF overlay.shown = "watch" /\ overlay.mode # "picker" THEN {overlay.record} ELSE {}
        /\ ticking <=> overlay.shown = "watch"
        /\ flight => overlay.shown # "none" /\ overlay.mode = "btw"
        /\ term.alt <=> overlay.shown # "none" /\ term.kind = "regular"
        /\ term.mouse <=> overlay.shown # "none" /\ term.kind # "fullscreen"
    BY <1>0 DEF Overlaid, OverlayLeavesNothing, Chatting
  <2> QED
    BY <1>0, <1>4, <1>6, <2>1 DEF OverlayLeavesNothing, Chatting
<1>8. cursor \in Kids \cup {NoKid} /\ ticking \in BOOLEAN /\ flight \in BOOLEAN
  BY <1>0 DEF Overlaid
<1> QED
  BY <1>0, <1>4, <1>5, <1>6, <1>7, <1>8 DEF Overlaid, R

LEMMA ViewLeft ==
  ASSUME OverlayInv, LeaveView
  PROVE  Overlaid'
<1>0. /\ Overlaid /\ OverlayTypeOK /\ Len(born) \in Nat /\ Len(records) \in Nat
      /\ overlay.shown = "watch" /\ overlay.mode = "view"
  BY OverlaidIs, RecordsAre DEF OverlayInv, LeaveView, InMode
<1>1. CASE ~overlay.fromPicker \/ Len(records) <= 1
  BY <1>0, <1>1, Disposed DEF LeaveView
<1>2. CASE ~(~overlay.fromPicker \/ Len(records) <= 1)
  <2> DEFINE I == {i \in 1..Len(records) : records[i] = overlay.record}
             place == SelectInSeq(records, LAMBDA r : r = overlay.record)
             row == IF Contains(records, overlay.record) THEN place - 1 ELSE overlay.selected
             R == [shown: {"none", "watch", "btw"}, mode: {"picker", "view", "btw"}, fromPicker: BOOLEAN,
                   selected: Nat, record: 0..Len(born)]
  <2>1. overlay \in R
    BY <1>0 DEF Overlaid
  <2>2. row \in Nat
    <3>1. CASE I # {}
      <4>0. I \in SUBSET Nat
        BY <1>0
      <4>1. Min(I) \in I
        <5> HIDE DEF I
        <5> QED
          BY <3>1, <4>0, MinIsIn
      <4>2. place = Min(I)
        BY <3>1 DEF SelectInSeq
      <4> QED
        BY <2>1, <4>1, <4>2
    <3>2. CASE I = {}
      <4>1. ~Contains(records, overlay.record)
        BY <3>2 DEF Contains
      <4> QED
        BY <2>1, <4>1
    <3> QED
      BY <3>1, <3>2
  <2>3. /\ overlay' = [overlay EXCEPT !.mode = "picker", !.record = NoRecord, !.selected = row]
        /\ painters' = painters \ {overlay.record} /\ cursor' = cursor /\ flight' = flight /\ Stay
    BY <1>2 DEF LeaveView
  <2> HIDE DEF row
  <2>4. /\ overlay' \in R /\ overlay'.shown = "watch" /\ overlay'.mode = "picker" /\ overlay'.record = NoRecord
    <3>1. NoRecord \in 0..Len(born)
      BY <1>0 DEF NoRecord
    <3> QED
      BY <1>0, <2>1, <2>2, <2>3, <3>1
  <2>5. OneView'
    BY <2>4 DEF OneView
  <2>6. painters' = {} /\ ~flight /\ cursor' \in Kids \cup {NoKid} /\ flight' \in BOOLEAN
    BY <1>0, <2>3 DEF Overlaid, OverlayLeavesNothing, Chatting
  <2> HIDE DEF R
  <2> QED
    BY <1>0, <2>3, <2>4, <2>5, <2>6, StaysOpen DEF R
<1> QED
  BY <1>1, <1>2

LEMMA ChatSteps ==
  ASSUME OverlayInv, OpenChildBtw \/ SubmitQuestion \/ FlightLands \/ CloseBtw
  PROVE  Overlaid'
<1>0. /\ Overlaid /\ Len(born) \in Nat /\ OneView /\ cursor \in Kids \cup {NoKid} /\ flight \in BOOLEAN
      /\ overlay \in [shown: {"none", "watch", "btw"}, mode: {"picker", "view", "btw"}, fromPicker: BOOLEAN,
                      selected: Nat, record: 0..Len(born)]
      /\ painters = IF overlay.shown = "watch" /\ overlay.mode # "picker" THEN {overlay.record} ELSE {}
      /\ flight => Chatting
  BY OverlaidIs, RecordsAre DEF OverlayInv, Overlaid, OverlayLeavesNothing
<1>1. ASSUME NEW mode \in {"view", "btw"}, overlay.shown = "watch", overlay.mode # "picker",
             overlay' = [overlay EXCEPT !.mode = mode], UNCHANGED <<cursor, painters>>, Stay,
             flight' \in BOOLEAN, flight' => mode = "btw"
      PROVE  Overlaid'
  <2>1. /\ overlay' \in [shown: {"none", "watch", "btw"}, mode: {"picker", "view", "btw"}, fromPicker: BOOLEAN,
                         selected: Nat, record: 0..Len(born)]
        /\ overlay'.shown = "watch" /\ overlay'.mode = mode /\ overlay'.record = overlay.record
    BY <1>0, <1>1
  <2>2. OneView'
    BY <1>0, <1>1, <2>1 DEF OneView
  <2> QED
    BY <1>0, <1>1, <2>1, <2>2, StaysOpen
<1>2. ASSUME Chatting, UNCHANGED <<overlay, cursor, painters>>, Stay, flight' \in BOOLEAN
      PROVE  Overlaid'
  <2>1. OneView'
    BY <1>0, <1>2 DEF OneView
  <2> QED
    BY <1>0, <1>2, <2>1, StaysOpen DEF Stay, kids, Chatting
<1>3. CASE OpenChildBtw
  <2>1. flight' = flight
    BY <1>3 DEF OpenChildBtw
  <2> QED
    BY <1>0, <1>1, <1>3, <2>1 DEF OpenChildBtw, InMode
<1>4. CASE SubmitQuestion
  BY <1>0, <1>2, <1>4 DEF SubmitQuestion
<1>5. CASE FlightLands
  BY <1>0, <1>2, <1>5 DEF FlightLands
<1>6. CASE CloseBtw
  <2>1. CASE overlay.shown = "btw"
    BY <1>0, <1>6, <2>1, Disposed DEF CloseBtw
  <2>2. CASE overlay.shown # "btw"
    <3>1. overlay.shown = "watch" /\ overlay.mode = "btw"
      BY <1>0, <1>6, <2>2 DEF CloseBtw, Chatting
    <3> QED
      BY <1>1, <1>6, <2>2, <3>1 DEF CloseBtw
  <2> QED
    BY <2>1, <2>2
<1> QED
  BY <1>3, <1>4, <1>5, <1>6

LEMMA ViewSteps ==
  ASSUME OverlayInv, \/ PickerEnter \/ \E n \in 1..9 : PickerDigit(n)
                     \/ ShowNextChild \/ ShowPrevChild
  PROVE  Overlaid'
<1>0. /\ OverlayTypeOK /\ Len(records) \in Nat /\ DOMAIN records = 1..Len(records)
      /\ \A i \in 1..Len(records) : records[i] \in 1..Len(born)
      /\ overlay.selected \in Nat
      /\ overlay \in [shown: {"none", "watch", "btw"}, mode: {"picker", "view", "btw"}, fromPicker: BOOLEAN,
                      selected: Nat, record: 0..Len(born)]
  BY RecordsAre DEF OverlayInv, OverlayTypeOK
<1>1. ASSUME NEW r \in 1..Len(born), InMode("picker"), EnterView(r)
      PROVE  Overlaid'
  BY <1>1, Switched DEF InMode, EnterView
<1>2. ASSUME NEW r \in 1..Len(born), ShowChild(r)
      PROVE  Overlaid'
  <2>1. overlay.shown = "watch" /\ overlay.mode = "view"
    BY <1>2 DEF ShowChild, InMode
  <2>2. overlay = [overlay EXCEPT !.mode = "view"]
    BY <1>0, <2>1
  <2>3. SwitchTo([overlay EXCEPT !.mode = "view"], r)
    BY <1>2, <2>2 DEF ShowChild
  <2> QED
    BY <1>2, <2>1, <2>3, Switched DEF ShowChild
<1>3. CASE PickerEnter
  <2>1. Len(records) # 0
    BY <1>0, <1>3, EmptySeq DEF PickerEnter, OverlayTypeOK
  <2> DEFINE m == Min({overlay.selected, Len(records) - 1})
  <2>2. m + 1 \in 1..Len(records)
    <3>1. overlay.selected \in Int /\ Len(records) - 1 \in Int
      BY <1>0
    <3>2. m = IF overlay.selected <= Len(records) - 1 THEN overlay.selected ELSE Len(records) - 1
      BY <3>1, LesserOf
    <3> HIDE DEF m
    <3>3. overlay.selected \in Nat /\ Len(records) \in Nat
      BY <1>0
    <3>4. m \in Nat /\ m <= Len(records) - 1
      BY <2>1, <3>2, <3>3
    <3> QED
      BY <3>3, <3>4
  <2> QED
    BY <1>0, <1>1, <1>3, <2>2 DEF PickerEnter
<1>4. ASSUME NEW n \in 1..9, PickerDigit(n) PROVE Overlaid'
  BY <1>0, <1>1, <1>4 DEF PickerDigit
<1>5. CASE ShowNextChild \/ ShowPrevChild
  <2>1. records # <<>>
    BY <1>5 DEF ShowNextChild, ShowPrevChild, ShowChild
  <2>2. /\ NextChild(born[overlay.record]) \in 1..Len(born)
        /\ PrevChild(born[overlay.record]) \in 1..Len(born)
    BY <1>0, <2>1, NextIs
  <2> QED
    BY <1>2, <1>5, <2>2 DEF ShowNextChild, ShowPrevChild
<1> QED
  BY <1>3, <1>4, <1>5

(* The overlay, the terminal, the views and the chat agree, with any children
   (child-watch.ts, alt-screen.ts). *)
THEOREM OverlayInvariant == OverlaySpec => []OverlayInv
<1>1. OverlayInit => OverlayInv
  <2> SUFFICES ASSUME OverlayInit PROVE OverlayInv
    OBVIOUS
  <2>0. /\ records = <<>> /\ born = <<>> /\ cursor = NoKid /\ overlay = NoOverlay /\ painters = {}
        /\ ticking = FALSE /\ flight = FALSE
        /\ \E kind \in Terminals : term = MainScreen(kind)
    BY DEF OverlayInit
  <2>1. born \in Seq(Kids) /\ records \in Seq(1..Len(born)) /\ DOMAIN records = {} /\ Len(born) = 0
    BY <2>0, EmptySeq
  <2>2. OneRecordEach
    BY <2>1 DEF OneRecordEach
  <2>3. /\ overlay \in [shown: {"none", "watch", "btw"}, mode: {"picker", "view", "btw"}, fromPicker: BOOLEAN,
                        selected: Nat, record: 0..Len(born)]
        /\ overlay.shown = "none"
    BY <2>0, <2>1 DEF NoOverlay, NoRecord
  <2>4. /\ term \in [kind: Terminals, alt: BOOLEAN, mouse: BOOLEAN, frame: {"main", "blank", "alt"},
                     kept: {"-", "main"}]
        /\ ~term.alt /\ ~term.mouse /\ term.frame = "main"
    BY <2>0 DEF MainScreen
  <2>5. OneView
    BY <2>0, <2>3 DEF OneView
  <2>6. OverlayLeavesNothing
    BY <2>0, <2>3, <2>4 DEF OverlayLeavesNothing
  <2> QED
    BY <2>0, <2>1, <2>2, <2>3, <2>4, <2>5, <2>6, OverlaidIs DEF Overlaid
<1>2. OverlayInv /\ [OverlayNext]_overlayVars => OverlayInv'
  <2> SUFFICES ASSUME OverlayInv, [OverlayNext]_overlayVars PROVE OverlayInv'
    OBVIOUS
  <2>0. OverlayTypeOK /\ OneRecordEach /\ Overlaid /\ Len(born) \in Nat
    BY OverlaidIs, RecordsAre DEF OverlayInv
  <2>1. /\ born' \in Seq(Kids) /\ records' \in Seq((1..Len(born))') /\ Len(born) <= Len(born)'
        /\ Len(born)' \in Nat /\ OneRecordEach'
    BY <2>0, RegistryStays
  <2>2. Overlaid'
    <3>1. CASE \/ \E id \in Kids : KidEnters(id)
               \/ \E i \in DOMAIN records : KidRuns(records[i]) \/ KidEvicted(i)
               \/ SessionEnds \/ UNCHANGED overlayVars
      <4>1. OffScreen /\ cursor' \in {cursor, NoKid}
        BY <3>1 DEF KidEnters, KidRuns, KidEvicted, SessionEnds, overlayVars, OffScreen
      <4>2. cursor \in Kids \cup {NoKid}
        BY <2>0 DEF Overlaid
      <4> QED
        BY <2>0, <2>1, <4>1, <4>2, ChildrenComeAndGo
    <3>2. CASE PiCloses \/ PickerEscape
      BY <2>0, <3>2, Disposed DEF PiCloses, PickerEscape
    <3> QED
      BY <3>1, <3>2, Opened, PickerMoved, ViewLeft, ChatSteps, ViewSteps DEF OverlayNext
  <2> QED
    BY <2>1, <2>2 DEF OverlayInv, OverlayTypeOK, Overlaid
<1> QED
  BY <1>1, <1>2, PTL DEF OverlaySpec

(* However the overlay was left, nothing of it is left, and what repaints or waits for an
   answer is what is shown (child-watch.ts, dispose, switchTo; alt-screen.ts). *)
THEOREM NothingIsLeft == OverlaySpec => []OverlayLeavesNothing
<1>1. OverlayInv => OverlayLeavesNothing
  BY DEF OverlayInv
<1> QED
  BY <1>1, OverlayInvariant, PTL

-----------------------------------------------------------------------------
(* Stepping through the children *)

LEMMA NextPlace ==
  ASSUME NEW n \in Nat \ {0}, NEW p \in 0..n
  PROVE  (p % n) + 1 = IF p < n THEN p + 1 ELSE 1
<1>1. CASE p < n
  BY <1>1
<1>2. CASE p = n
  BY <1>2
<1> QED
  BY <1>1, <1>2

(* From the cursor on, round the end: the k-th child shown is the one at this place. *)
Stop(k) == IF Place(cursor) + k <= Len(records) THEN Place(cursor) + k
           ELSE Place(cursor) + k - Len(records)

LEMMA StopsFollow ==
  ASSUME OverlayTypeOK, OneRecordEach, records # <<>>
  PROVE  /\ \A k \in 1..Len(records) : Stop(k) \in 1..Len(records)
         /\ NextChild(cursor) = records[Stop(1)]
         /\ \A k \in 2..Len(records) : NextChild(born[records[Stop(k - 1)]]) = records[Stop(k)]
         /\ \A i \in 1..Len(records) : \E k \in 1..Len(records) : Stop(k) = i
<1> DEFINE n == Len(records)
           p == Place(cursor)
<1>1. n \in Nat \ {0} /\ p \in 0..n /\ DOMAIN records = 1..n
  BY RecordsAre, PlaceIs, EmptySeq DEF OverlayTypeOK
<1>2. \A k : Stop(k) = IF p + k <= n THEN p + k ELSE p + k - n
  BY DEF Stop
<1>3. \A i \in 1..n : Place(born[records[i]]) = i
  <2>1. ASSUME NEW i \in 1..n PROVE Place(born[records[i]]) = i
    <3>1. /\ Place(born[records[i]]) \in 1..n
          /\ born[records[Place(born[records[i]])]] = born[records[i]]
      BY <1>1, PlaceIs
    <3> QED
      BY <1>1, <3>1 DEF OneRecordEach
  <2> QED
    BY <2>1
<1>4. \A id : NextChild(id) = records[(Place(id) % n) + 1]
  BY DEF NextChild, At
<1> HIDE DEF n, p
<1>5. \A k \in 1..n : Stop(k) \in 1..n
  BY <1>1, <1>2
<1>6. NextChild(cursor) = records[Stop(1)]
  <2>1. (p % n) + 1 = Stop(1)
    <3>1. (p % n) + 1 = IF p < n THEN p + 1 ELSE 1
      BY <1>1, NextPlace
    <3>2. Stop(1) = IF p < n THEN p + 1 ELSE 1
      BY <1>1, <1>2
    <3> QED
      BY <3>1, <3>2
  <2> QED
    BY <1>4, <2>1 DEF p
<1>7. \A k \in 2..n : NextChild(born[records[Stop(k - 1)]]) = records[Stop(k)]
  <2>1. ASSUME NEW k \in 2..n PROVE NextChild(born[records[Stop(k - 1)]]) = records[Stop(k)]
    <3>1. k - 1 \in 1..n /\ k \in Nat
      BY <1>1
    <3>2. Stop(k - 1) \in 1..n
      BY <1>5, <3>1
    <3>3. (Stop(k - 1) % n) + 1 = IF Stop(k - 1) < n THEN Stop(k - 1) + 1 ELSE 1
      <4> DEFINE q == Stop(k - 1)
      <4>1. q \in 0..n
        BY <1>1, <3>2
      <4> HIDE DEF q
      <4>2. (q % n) + 1 = IF q < n THEN q + 1 ELSE 1
        BY <1>1, <4>1, NextPlace
      <4> QED
        BY <4>2 DEF q
    <3>4. Stop(k) = IF Stop(k - 1) < n THEN Stop(k - 1) + 1 ELSE 1
      <4>1. Stop(k) = IF p + k <= n THEN p + k ELSE p + k - n
        BY <1>2
      <4>2. Stop(k - 1) = IF p + (k - 1) <= n THEN p + (k - 1) ELSE p + (k - 1) - n
        BY <1>2
      <4> QED
        BY <1>1, <3>1, <4>1, <4>2
    <3>5. NextChild(born[records[Stop(k - 1)]]) = records[(Stop(k - 1) % n) + 1]
      BY <1>3, <1>4, <3>2
    <3> QED
      BY <3>3, <3>4, <3>5
  <2> QED
    BY <2>1
<1>8. \A i \in 1..n : \E k \in 1..n : Stop(k) = i
  <2>1. ASSUME NEW i \in 1..n PROVE \E k \in 1..n : Stop(k) = i
    <3>1. CASE i > p
      <4>1. i - p \in 1..n /\ p + (i - p) = i
        BY <1>1, <3>1
      <4>2. Stop(i - p) = IF p + (i - p) <= n THEN p + (i - p) ELSE p + (i - p) - n
        BY <1>2
      <4>3. Stop(i - p) = i
        BY <1>1, <4>1, <4>2
      <4> QED
        BY <4>1, <4>3
    <3>2. CASE i <= p
      <4>1. n + i - p \in 1..n /\ p + (n + i - p) = n + i
        BY <1>1, <3>2
      <4>2. Stop(n + i - p) = IF p + (n + i - p) <= n THEN p + (n + i - p) ELSE p + (n + i - p) - n
        BY <1>2
      <4>3. Stop(n + i - p) = i
        BY <1>1, <4>1, <4>2
      <4> QED
        BY <4>1, <4>3
    <3> QED
      BY <1>1, <3>1, <3>2
  <2> QED
    BY <2>1
<1> QED
  BY <1>5, <1>6, <1>7, <1>8 DEF n

LEMMA WalkReachesAll ==
  ASSUME OverlayTypeOK, OneRecordEach
  PROVE  EveryChildReached
<1> DEFINE n == Len(records)
           Walked(f) == [k \in 0..n |-> IF k = 0 THEN cursor ELSE born[NextChild(f[k - 1])]]
           walk == CHOOSE f : f = Walked(f)
           shown == [k \in 0..n |-> IF k = 0 THEN cursor ELSE born[records[Stop(k)]]]
<1>0. n \in Nat /\ DOMAIN records = 1..n
  BY RecordsAre
<1>1. SUFFICES LiveKids \subseteq {walk[k] : k \in DOMAIN walk}
  BY DEF EveryChildReached
<1>2. CASE records = <<>>
  BY <1>2 DEF LiveKids, ToSet
<1>3. CASE records # <<>>
  <2>0. /\ NextChild(cursor) = records[Stop(1)]
        /\ \A k \in 2..n : NextChild(born[records[Stop(k - 1)]]) = records[Stop(k)]
    BY <1>3, StopsFollow
  <2>1. \A k \in 1..n : born[NextChild(shown[k - 1])] = shown[k]
    <3>1. ASSUME NEW k \in 1..n PROVE born[NextChild(shown[k - 1])] = shown[k]
      <4>1. shown[k] = born[records[Stop(k)]]
        BY <1>0
      <4>2. CASE k = 1
        <5>1. shown[k - 1] = cursor
          BY <1>0, <4>2
        <5> QED
          BY <2>0, <4>1, <4>2, <5>1
      <4>3. CASE k # 1
        <5>1. k - 1 \in 1..n /\ k \in 2..n
          BY <1>0, <4>3
        <5>2. shown[k - 1] = born[records[Stop(k - 1)]]
          BY <1>0, <5>1
        <5> QED
          BY <2>0, <4>1, <5>1, <5>2
      <4> QED
        BY <4>2, <4>3
    <3> QED
      BY <3>1
  <2>2. shown = Walked(shown)
    <3>1. \A k \in 0..n : Walked(shown)[k] = shown[k]
      <4>1. ASSUME NEW k \in 0..n PROVE Walked(shown)[k] = shown[k]
        <5>1. CASE k = 0
          BY <1>0, <5>1
        <5>2. CASE k # 0
          <6>1. Walked(shown)[k] = born[NextChild(shown[k - 1])] /\ k \in 1..n
            <7> HIDE DEF shown
            <7> QED
              BY <1>0, <5>2
          <6> QED
            BY <2>1, <6>1
        <5> QED
          BY <5>1, <5>2
      <4> QED
        BY <4>1
    <3>2. Walked(shown) = [k \in 0..n |-> Walked(shown)[k]] /\ shown = [k \in 0..n |-> shown[k]]
      OBVIOUS
    <3> QED
      BY <3>1, <3>2
  <2> HIDE DEF shown
  <2>3. walk = Walked(walk)
    BY <2>2
  <2> HIDE DEF walk
  <2>4. DOMAIN walk = 0..n /\ walk[0] = cursor /\ \A k \in 1..n : walk[k] = born[NextChild(walk[k - 1])]
    <3>1. ASSUME NEW f, f = Walked(f)
          PROVE  DOMAIN f = 0..n /\ f[0] = cursor /\ \A k \in 1..n : f[k] = born[NextChild(f[k - 1])]
      <4>1. DOMAIN f = 0..n /\ \A k \in 0..n : f[k] = Walked(f)[k]
        BY <3>1
      <4>2. \A k \in 0..n : Walked(f)[k] = IF k = 0 THEN cursor ELSE born[NextChild(f[k - 1])]
        OBVIOUS
      <4>3. 0 \in 0..n /\ \A k \in 1..n : k \in 0..n /\ k # 0
        BY <1>0
      <4> HIDE DEF Walked
      <4> QED
        BY <4>1, <4>2, <4>3
    <3> HIDE DEF Walked
    <3> QED
      BY <2>3, <3>1
  <2>5. \A k \in 0..n : walk[k] = shown[k]
    <3> DEFINE off == {k \in 0..n : walk[k] # shown[k]}
    <3>1. SUFFICES ASSUME off # {} PROVE FALSE
      OBVIOUS
    <3>2. off \in SUBSET Nat
      BY <1>0
    <3> DEFINE least == Min(off)
    <3>3. least \in off /\ \A x \in off : least <= x
      <4> HIDE DEF off
      <4> QED
        BY <3>1, <3>2, MinIsIn
    <3> HIDE DEF least
    <3>4. least \in 0..n /\ walk[least] # shown[least]
      BY <3>3
    <3>5. least # 0
      <4>1. shown[0] = cursor
        BY <1>0 DEF shown
      <4> QED
        BY <2>4, <3>4, <4>1
    <3>6. least - 1 \in 0..n /\ least \in 1..n /\ ~(least <= least - 1)
      BY <1>0, <3>4, <3>5
    <3>7. walk[least - 1] = shown[least - 1]
      BY <3>3, <3>6
    <3> QED
      BY <2>1, <2>4, <3>4, <3>6, <3>7
  <2>6. ASSUME NEW id \in LiveKids PROVE \E k \in DOMAIN walk : walk[k] = id
    <3>1. PICK i \in 1..n : id = born[records[i]]
      BY <1>0, <2>6 DEF LiveKids, ToSet
    <3>2. PICK k \in 1..n : Stop(k) = i
      BY <1>3, <3>1, StopsFollow
    <3>3. k \in 0..n /\ shown[k] = born[records[Stop(k)]]
      BY <1>0 DEF shown
    <3> QED
      BY <2>4, <2>5, <3>1, <3>2, <3>3
  <2> QED
    BY <2>6
<1> QED
  BY <1>2, <1>3

(* The watch key shown again and again reaches every child, whichever ones are gone and
   however many there are (child-watch-cursor.ts, nextChild). *)
THEOREM AllChildrenReached == OverlaySpec => []EveryChildReached
<1>1. OverlayInv => EveryChildReached
  BY WalkReachesAll DEF OverlayInv
<1> QED
  BY <1>1, OverlayInvariant, PTL
===============================================================================
