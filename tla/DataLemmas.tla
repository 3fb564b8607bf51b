------------------------------ MODULE DataLemmas ------------------------------
(***************************************************************************)
(* What the proofs need to know of data: the least and the greatest of     *)
(* numbers, steps repeated, sequences folded, sums over sets.               *)
(***************************************************************************)
EXTENDS Integers, FiniteSets, Sequences, SequencesExt, FiniteSetsExt,
        Functions, FiniteSetTheorems, SequenceTheorems, WellFoundedInduction, TLAPS

-----------------------------------------------------------------------------
(* Numbers *)

(* The least of a set of naturals. *)
LEMMA MinIsIn ==
  ASSUME NEW S \in SUBSET Nat, S # {}
  PROVE  Min(S) \in S /\ \A x \in S : Min(S) <= x
<1>1. PICK m \in S : \A x \in S : <<x, m>> \notin OpToRel(<, Nat)
  BY WFMin, NatLessThanWellFounded
<1>2. \A x \in S : m <= x
  <2>1. ASSUME NEW x \in S, x < m PROVE FALSE
    BY <1>1, <2>1 DEF OpToRel
  <2>2. m \in Nat /\ \A x \in S : x \in Nat /\ ~(x < m)
    BY <2>1
  <2> QED
    BY <2>2
<1>3. Min(S) \in S /\ \A x \in S : Min(S) =< x
  BY <1>2, Zenon DEF Min
<1> QED
  BY <1>3

(* The greatest of a set of naturals below a bound. *)
LEMMA MaxIsIn ==
  ASSUME NEW S \in SUBSET Nat, S # {}, NEW b \in Nat, \A x \in S : x <= b
  PROVE  Max(S) \in S /\ \A x \in S : x <= Max(S)
<1> DEFINE D == {d \in 0..b : b - d \in S}
<1>1. PICK x \in S : TRUE
  OBVIOUS
<1>2. b - x \in D /\ D \in SUBSET Nat
  BY <1>1
<1>3. Min(D) \in D /\ \A d \in D : Min(D) <= d
  BY <1>2, MinIsIn
<1> DEFINE m == b - Min(D)
<1>4. m \in S /\ \A y \in S : m >= y
  <2>1. Min(D) \in 0..b /\ m \in S
    BY <1>3
  <2>2. ASSUME NEW y \in S PROVE m >= y
    <3>1. b - y \in D
      BY <2>2
    <3>2. Min(D) <= b - y
      BY <1>3, <3>1
    <3> HIDE DEF D
    <3> QED
      BY <2>1, <3>2
  <2> QED
    BY <2>1, <2>2
<1> HIDE DEF m
<1>5. Max(S) \in S /\ \A y \in S : Max(S) >= y
  BY <1>4, Zenon DEF Max
<1> QED
  BY <1>5

LEMMA MaxUpTo ==
  ASSUME NEW n \in Nat, NEW S \in SUBSET (0..n), S # {}
  PROVE  Max(S) \in S /\ \A x \in S : x <= Max(S)
<1>1. S \in SUBSET Nat /\ \A x \in S : x <= n
  OBVIOUS
<1> QED
  BY <1>1, MaxIsIn

(* The greater and the lesser of two. *)
LEMMA GreaterOf ==
  ASSUME NEW a \in Int, NEW b \in Int
  PROVE  /\ Max({a, b}) = IF a >= b THEN a ELSE b
         /\ Max({a, b}) \in Int /\ (a \in Nat => Max({a, b}) \in Nat)
<1>1. Max({a, b}) = CHOOSE x \in {a, b} : \A y \in {a, b} : x >= y
  BY DEF Max
<1>2. Max({a, b}) = IF a >= b THEN a ELSE b
  BY <1>1
<1> QED
  BY <1>2

LEMMA LesserOf ==
  ASSUME NEW a \in Int, NEW b \in Int
  PROVE  /\ Min({a, b}) = IF a <= b THEN a ELSE b
         /\ Min({a, b}) \in Int
<1>1. Min({a, b}) = CHOOSE x \in {a, b} : \A y \in {a, b} : x =< y
  BY DEF Min
<1>2. Min({a, b}) = IF a <= b THEN a ELSE b
  BY <1>1
<1> QED
  BY <1>2

(* What holds of 0, and with each number of the next, holds up to n. *)
LEMMA UpTo ==
  ASSUME NEW n \in Nat, NEW S, 0 \in S, \A k \in 0..(n - 1) : k \in S => k + 1 \in S
  PROVE  0..n \subseteq S
<1> SUFFICES ASSUME NEW m \in 0..n, m \notin S PROVE FALSE
  OBVIOUS
<1> DEFINE U == {k \in 0..n : k \notin S}
<1>1. Min(U) \in U /\ \A x \in U : Min(U) <= x
  BY MinIsIn
<1> DEFINE k == Min(U)
<1>2. k \in 0..n /\ k \notin S /\ \A x \in 0..n : x \notin S => k <= x
  BY <1>1
<1> HIDE DEF k
<1>3. k # 0
  BY <1>2
<1>4. k - 1 \in 0..(n - 1) /\ k - 1 \in 0..n /\ ~(k <= k - 1) /\ (k - 1) + 1 = k
  BY <1>2, <1>3
<1>5. k - 1 \in S
  BY <1>2, <1>4
<1> QED
  BY <1>2, <1>4, <1>5

(* A step repeated n times. *)
Repeats(f, T, step, s0, n) ==
  f \in [0..n -> T] /\ f[0] = s0 /\ \A k \in 1..n : f[k] = step[f[k - 1]]

LEMMA Repeated ==
  ASSUME NEW T, NEW step \in [T -> T], NEW s0 \in T, NEW n \in Nat
  PROVE  \E f : Repeats(f, T, step, s0, n)
<1> USE DEF Repeats
<1> DEFINE Runs(m) == \E f : Repeats(f, T, step, s0, m)
           S == {m \in Nat : Runs(m)}
<1>1. 0 \in S
  <2> DEFINE f == [k \in 0..0 |-> s0]
  <2>1. f \in [0..0 -> T] /\ f[0] = s0 /\ \A k \in 1..0 : f[k] = step[f[k - 1]]
    OBVIOUS
  <2>2. Runs(0)
    BY <2>1
  <2> QED
    BY <2>2
<1>2. ASSUME NEW m \in 0..(n - 1), m \in S PROVE m + 1 \in S
  <2>1. PICK f \in [0..m -> T] : f[0] = s0 /\ \A k \in 1..m : f[k] = step[f[k - 1]]
    BY <1>2
  <2> DEFINE g == [k \in 0..(m + 1) |-> IF k = m + 1 THEN step[f[m]] ELSE f[k]]
  <2>2. m \in Nat /\ 0 \in 0..m /\ m \in 0..m
    OBVIOUS
  <2>3. g \in [0..(m + 1) -> T] /\ g[0] = s0
    <3>1. \A k \in 0..(m + 1) : k # m + 1 => k \in 0..m
      BY <2>2
    <3> QED
      BY <2>1, <2>2, <3>1
  <2>4. ASSUME NEW k \in 1..(m + 1) PROVE g[k] = step[g[k - 1]]
    <3>1. k \in 0..(m + 1) /\ k - 1 \in 0..(m + 1) /\ k - 1 # m + 1 /\ (k # m + 1 => k \in 1..m)
      BY <2>2
    <3>2. k = m + 1 => k - 1 = m
      BY <2>2
    <3>3. g[k - 1] = f[k - 1]
      BY <3>1
    <3> QED
      BY <2>1, <3>1, <3>2, <3>3
  <2> HIDE DEF g
  <2>5. Runs(m + 1)
    BY <2>3, <2>4
  <2> QED
    BY <2>2, <2>5
<1> HIDE DEF S
<1>3. 0..n \subseteq S
  BY <1>1, <1>2, UpTo
<1> QED
  BY <1>3 DEF S

-----------------------------------------------------------------------------
(* Folding over a sequence *)

(* A fold from the greatest place down, of what op makes of a value and a place. *)
Folds(g, T, base, op, n) ==
  /\ g \in [SUBSET (1..n) -> T]
  /\ \A s \in SUBSET (1..n) :
       g[s] = IF s = {} THEN base ELSE op[<<g[s \ {Max(s)}], Max(s)>>]

LEMMA MaxOfPlaces ==
  ASSUME NEW n \in Nat, NEW s \in SUBSET (1..n), s # {}
  PROVE  Max(s) \in s /\ \A x \in s : x <= Max(s)
<1>1. s \in SUBSET Nat /\ \A x \in s : x <= n
  OBVIOUS
<1> QED
  BY <1>1, MaxIsIn

LEMMA FoldExists ==
  ASSUME NEW n \in Nat, NEW T, NEW base \in T, NEW op \in [T \X (1..n) -> T]
  PROVE  \E g : Folds(g, T, base, op, n)
<1> DEFINE S == {m \in 0..n : \E g : Folds(g, T, base, op, m)}
<1>1. 0 \in S
  <2> DEFINE g == [s \in SUBSET (1..0) |-> base]
  <2>1. \A s \in SUBSET (1..0) : s = {}
    OBVIOUS
  <2>2. Folds(g, T, base, op, 0)
    BY <2>1 DEF Folds
  <2> QED
    BY <2>2
<1>2. ASSUME NEW m \in 0..(n - 1), m \in S PROVE m + 1 \in S
  <2>1. PICK g : Folds(g, T, base, op, m)
    BY <1>2
  <2>2. m \in Nat /\ m + 1 \in 1..n /\ m + 1 \in 0..n /\ m + 1 \in 1..(m + 1)
    OBVIOUS
  <2> DEFINE P == SUBSET (1..(m + 1))
             h == [s \in P |-> IF m + 1 \in s THEN op[<<g[s \ {m + 1}], m + 1>>] ELSE g[s]]
  <2>3. ASSUME NEW s \in P PROVE s \ {m + 1} \in SUBSET (1..m)
    <3>1. \A x \in s : x # m + 1 => x \in 1..m
      BY <2>2
    <3> QED
      BY <3>1
  <2>4. ASSUME NEW s \in P, m + 1 \notin s PROVE s \in SUBSET (1..m)
    BY <2>3, <2>4
  <2>5. \A s \in SUBSET (1..m) : g[s] \in T
    BY <2>1 DEF Folds
  <2>6. h \in [P -> T]
    <3>1. ASSUME NEW s \in P PROVE h[s] \in T
      <4>1. CASE m + 1 \in s
        <5>1. g[s \ {m + 1}] \in T
          BY <2>3, <2>5
        <5> QED
          BY <2>2, <4>1, <5>1
      <4>2. CASE m + 1 \notin s
        BY <2>4, <2>5, <4>2
      <4> QED
        BY <4>1, <4>2
    <3> QED
      BY <3>1
  <2>7. ASSUME NEW s \in P
        PROVE  h[s] = IF s = {} THEN base ELSE op[<<h[s \ {Max(s)}], Max(s)>>]
    <3>1. CASE m + 1 \in s
      <4>1. Max(s) = m + 1
        <5>1. Max(s) \in s /\ \A x \in s : x <= Max(s)
          BY <2>2, <3>1, MaxOfPlaces
        <5> DEFINE x == Max(s)
        <5>2. x \in 1..(m + 1) /\ m + 1 <= x
          BY <3>1, <5>1
        <5> HIDE DEF x
        <5>3. x = m + 1
          BY <2>2, <5>2
        <5> QED
          BY <5>3 DEF x
      <4>2. h[s] = op[<<g[s \ {m + 1}], m + 1>>]
        BY <3>1
      <4> DEFINE r == s \ {m + 1}
      <4>3. r \in P /\ m + 1 \notin r
        OBVIOUS
      <4>4. h[r] = g[r]
        BY <4>3
      <4> HIDE DEF h
      <4> QED
        BY <3>1, <4>1, <4>2, <4>4
    <3>2. CASE m + 1 \notin s
      <4>1. s \in SUBSET (1..m) /\ h[s] = g[s]
        BY <2>4, <3>2
      <4>2. g[s] = IF s = {} THEN base ELSE op[<<g[s \ {Max(s)}], Max(s)>>]
        BY <2>1, <4>1 DEF Folds
      <4> DEFINE r == s \ {Max(s)}
      <4>3. r \in P /\ m + 1 \notin r
        BY <3>2
      <4>4. h[r] = g[r]
        BY <4>3
      <4> HIDE DEF h
      <4> QED
        BY <4>1, <4>2, <4>4
    <3> QED
      BY <3>1, <3>2
  <2> HIDE DEF h
  <2>8. Folds(h, T, base, op, m + 1)
    BY <2>6, <2>7 DEF Folds
  <2> QED
    BY <2>2, <2>8
<1> HIDE DEF S
<1>3. 0..n \subseteq S
  BY <1>1, <1>2, UpTo
<1> QED
  BY <1>3 DEF S

(* What F makes of a value and the first element, then the second, and so on. *)
FoldSteps(v, T, F, base, seq) ==
  /\ v \in [0..Len(seq) -> T] /\ v[0] = base
  /\ \A k \in 1..Len(seq) : v[k] = F[<<v[k - 1], seq[k]>>]

StepsTo(x, T, F, base, seq) == \E v : FoldSteps(v, T, F, base, seq) /\ x = v[Len(seq)]

(* t is defined on sets of places as the library's fold defines it, as far as it stays in T. *)
FoldsTo(t, T, F, base, seq) ==
  /\ t[{}] = base
  /\ \A s \in SUBSET DOMAIN seq :
       s # {} /\ t[s \ {Max(s)}] \in T => t[s] = F[<<t[s \ {Max(s)}], seq[Max(s)]>>]

(* There is such a function. *)
LEMMA FoldOfPlaces ==
  ASSUME NEW T, NEW E, NEW base \in T, NEW F \in [T \X E -> T], NEW seq \in Seq(E)
  PROVE  \E g \in [SUBSET DOMAIN seq -> T] : FoldsTo(g, T, F, base, seq)
<1> DEFINE n == Len(seq)
           op == [p \in T \X (1..n) |-> F[<<p[1], seq[p[2]]>>]]
<1>1. n \in Nat /\ DOMAIN seq = 1..n /\ \A k \in 1..n : seq[k] \in E
  BY LenProperties, ElementOfSeq
<1> HIDE DEF n
<1>2. op \in [T \X (1..n) -> T]
  BY <1>1
<1>3. PICK g : Folds(g, T, base, op, n)
  <2> HIDE DEF op
  <2> QED
    BY <1>1, <1>2, FoldExists
<1>4. g \in [SUBSET (1..n) -> T]
  BY <1>3 DEF Folds
<1>5. ASSUME NEW s \in SUBSET (1..n)
      PROVE  g[s] = IF s = {} THEN base ELSE F[<<g[s \ {Max(s)}], seq[Max(s)]>>]
  <2>1. g[s] = IF s = {} THEN base ELSE op[<<g[s \ {Max(s)}], Max(s)>>]
    BY <1>3 DEF Folds
  <2>2. ASSUME s # {} PROVE op[<<g[s \ {Max(s)}], Max(s)>>] = F[<<g[s \ {Max(s)}], seq[Max(s)]>>]
    <3>1. Max(s) \in 1..n
      BY <1>1, <2>2, MaxOfPlaces
    <3>2. g[s \ {Max(s)}] \in T
      BY <1>4
    <3> DEFINE w == g[s \ {Max(s)}]
               x == Max(s)
    <3> HIDE DEF w, x
    <3>3. op[<<w, x>>] = F[<<w, seq[x]>>]
      BY <3>1, <3>2 DEF w, x
    <3> QED
      BY <3>3 DEF w, x
  <2> HIDE DEF op
  <2> QED
    BY <2>1, <2>2
<1>6. FoldsTo(g, T, F, base, seq)
  BY <1>1, <1>5 DEF FoldsTo
<1> QED
  BY <1>1, <1>4, <1>6

(* A function so defined, on the sets of the first places. *)
LEMMA FoldIsSteps ==
  ASSUME NEW T, NEW E, NEW base \in T, NEW F \in [T \X E -> T], NEW seq \in Seq(E),
         NEW t, FoldsTo(t, T, F, base, seq)
  PROVE  StepsTo(t[DOMAIN seq], T, F, base, seq)
<1> DEFINE n == Len(seq)
           v == [k \in 0..n |-> t[1..k]]
<1>1. n \in Nat /\ DOMAIN seq = 1..n /\ \A k \in 1..n : seq[k] \in E
  BY LenProperties, ElementOfSeq
<1>0. /\ t[{}] = base
      /\ \A s \in SUBSET (1..n) :
           s # {} /\ t[s \ {Max(s)}] \in T => t[s] = F[<<t[s \ {Max(s)}], seq[Max(s)]>>]
  BY <1>1 DEF FoldsTo
<1> HIDE DEF n
<1>2. v[0] = base
  <2>1. 1..0 = {} /\ 0 \in 0..n
    BY <1>1
  <2> QED
    BY <1>0, <2>1
<1>3. ASSUME NEW k \in 1..n, v[k - 1] \in T PROVE v[k] = F[<<v[k - 1], seq[k]>>]
  <2>1. k \in 0..n /\ k - 1 \in 0..n /\ k \in 1..k /\ k \in Nat /\ 1..k \in SUBSET (1..n)
    BY <1>1
  <2>2. Max(1..k) = k
    <3>1. Max(1..k) \in 1..k /\ \A x \in 1..k : x <= Max(1..k)
      BY <2>1, MaxOfPlaces
    <3> DEFINE x == Max(1..k)
    <3>2. x \in 1..k /\ k <= x
      BY <2>1, <3>1
    <3> HIDE DEF x
    <3>3. x = k
      BY <2>1, <3>2
    <3> QED
      BY <3>3 DEF x
  <2>3. (1..k) \ {k} = 1..(k - 1)
    BY <2>1
  <2>4. t[1..(k - 1)] \in T
    BY <1>3, <2>1
  <2>5. t[1..k] = F[<<t[(1..k) \ {Max(1..k)}], seq[Max(1..k)]>>]
    BY <1>0, <2>1, <2>2, <2>3, <2>4
  <2>6. t[1..k] = F[<<t[1..(k - 1)], seq[k]>>]
    BY <2>2, <2>3, <2>5
  <2> QED
    BY <2>1, <2>6
<1>4. v[n] = t[DOMAIN seq]
  BY <1>1
<1> DEFINE S == {k \in 0..n : v[k] \in T}
<1>5. 0 \in S
  BY <1>1, <1>2
<1>6. ASSUME NEW k \in 0..(n - 1), k \in S PROVE k + 1 \in S
  <2>1. k + 1 \in 1..n /\ k + 1 \in 0..n /\ (k + 1) - 1 = k
    BY <1>1
  <2> HIDE DEF v
  <2>2. v[k + 1] = F[<<v[k], seq[k + 1]>>]
    BY <1>3, <1>6, <2>1
  <2>3. seq[k + 1] \in E /\ v[k] \in T
    BY <1>1, <1>6, <2>1
  <2> QED
    BY <2>1, <2>2, <2>3
<1> HIDE DEF S
<1>7. 0..n \subseteq S
  BY <1>1, <1>5, <1>6, UpTo
<1>8. v \in [0..n -> T]
  BY <1>7 DEF S
<1>9. \A k \in 1..n : k - 1 \in 0..n /\ v[k - 1] \in T
  <2>1. \A k \in 1..n : k - 1 \in 0..n
    BY <1>1
  <2> HIDE DEF v
  <2> QED
    BY <1>8, <2>1
<1> HIDE DEF v
<1>10. FoldSteps(v, T, F, base, seq)
  BY <1>2, <1>3, <1>8, <1>9 DEF FoldSteps, n
<1> QED
  BY <1>4, <1>10 DEF n, StepsTo

-----------------------------------------------------------------------------
(* Sums over a finite set *)

(* What holds of each subset when it holds of those with one member less holds of all. *)
LEMMA SubsetsDownTo ==
  ASSUME NEW S, IsFiniteSet(S), NEW Q,
         \A s \in SUBSET S : (\A x \in s : s \ {x} \in Q) => s \in Q
  PROVE  SUBSET S \subseteq Q
<1> DEFINE n == Cardinality(S)
           K == {k \in 0..n : \A s \in SUBSET S : Cardinality(s) = k => s \in Q}
<1>1. n \in Nat /\ \A s \in SUBSET S : IsFiniteSet(s) /\ Cardinality(s) \in 0..n
  <2>1. n \in Nat
    BY FS_CardinalityType
  <2>2. ASSUME NEW s \in SUBSET S PROVE IsFiniteSet(s) /\ Cardinality(s) \in 0..n
    <3>1. IsFiniteSet(s) /\ Cardinality(s) <= n
      BY FS_Subset
    <3>2. Cardinality(s) \in Nat
      BY <3>1, FS_CardinalityType
    <3> QED
      BY <2>1, <3>1, <3>2
  <2> QED
    BY <2>1, <2>2
<1> HIDE DEF n
<1>2. 0 \in K
  <2>1. \A s \in SUBSET S : Cardinality(s) = 0 => s = {}
    BY <1>1, FS_EmptySet
  <2> QED
    BY <1>1, <2>1
<1>3. ASSUME NEW k \in 0..(n - 1), k \in K PROVE k + 1 \in K
  <2>1. k \in Nat /\ k + 1 \in 0..n
    BY <1>1
  <2>2. ASSUME NEW s \in SUBSET S, Cardinality(s) = k + 1 PROVE s \in Q
    <3>1. ASSUME NEW x \in s PROVE s \ {x} \in Q
      <4>1. IsFiniteSet(s)
        BY <1>1
      <4>2. Cardinality(s \ {x}) = Cardinality(s) - 1
        BY <4>1, FS_RemoveElement
      <4>3. Cardinality(s \ {x}) = k
        BY <2>1, <2>2, <4>2
      <4> QED
        BY <1>3, <4>3
    <3> QED
      BY <3>1
  <2> QED
    BY <2>1, <2>2
<1> HIDE DEF K
<1>4. 0..n \subseteq K
  BY <1>1, <1>2, <1>3, UpTo
<1> QED
  BY <1>1, <1>4 DEF K

(* What holds of the empty set, and with each subset of one more, holds of every subset. *)
LEMMA SubsetsUpTo ==
  ASSUME NEW S, IsFiniteSet(S), NEW Q, {} \in Q,
         \A s \in SUBSET S : \A x \in S \ s : s \in Q => s \cup {x} \in Q
  PROVE  SUBSET S \subseteq Q
<1>1. ASSUME NEW s \in SUBSET S, \A x \in s : s \ {x} \in Q PROVE s \in Q
  <2>1. CASE s # {}
    <3>1. PICK x \in s : TRUE
      BY <2>1
    <3>2. s \ {x} \in SUBSET S /\ x \in S \ (s \ {x}) /\ s = (s \ {x}) \cup {x} /\ s \ {x} \in Q
      BY <1>1, <3>1
    <3> QED
      BY <3>2
  <2> QED
    BY <2>1
<1> QED
  BY <1>1, SubsetsDownTo

(* The sums of f over the subsets of S, in any order. *)
Adds(g, S, f) ==
  /\ g \in [SUBSET S -> Nat] /\ g[{}] = 0
  /\ \A s \in SUBSET S : \A x \in S \ s : g[s \cup {x}] = g[s] + f[x]

LEMMA SumExists ==
  ASSUME NEW S, IsFiniteSet(S), NEW f \in [S -> Nat]
  PROVE  \E g : Adds(g, S, f)
<1> DEFINE Q == {s \in SUBSET S : \E g : Adds(g, s, f)}
<1>1. {} \in Q
  <2> DEFINE g == [s \in SUBSET {} |-> 0]
  <2>1. Adds(g, {}, f)
    BY DEF Adds
  <2> QED
    BY <2>1
<1>2. ASSUME NEW s \in SUBSET S, NEW x \in S \ s, s \in Q PROVE s \cup {x} \in Q
  <2>1. PICK g : Adds(g, s, f)
    BY <1>2
  <2> DEFINE t == s \cup {x}
             h == [u \in SUBSET t |-> IF x \in u THEN g[u \ {x}] + f[x] ELSE g[u]]
  <2>2. ASSUME NEW u \in SUBSET t
        PROVE  u \ {x} \in SUBSET s /\ (x \notin u => u \in SUBSET s) /\ h[u] \in Nat
    BY <2>1 DEF Adds
  <2>3. h[{}] = 0
    BY <2>1 DEF Adds
  <2>4. ASSUME NEW u \in SUBSET t, NEW y \in t \ u PROVE h[u \cup {y}] = h[u] + f[y]
    <3>1. CASE y = x
      <4>1. (u \cup {y}) \ {x} = u /\ x \notin u
        BY <2>4, <3>1
      <4> QED
        BY <3>1, <4>1
    <3>2. CASE y # x /\ x \in u
      <4> DEFINE v == u \ {x}
      <4>1. v \in SUBSET s /\ y \in s \ v /\ (u \cup {y}) \ {x} = v \cup {y}
        BY <3>2
      <4>2. g[v \cup {y}] = g[v] + f[y] /\ g[v] \in Nat
        BY <2>1, <4>1 DEF Adds
      <4>3. h[u \cup {y}] = g[v \cup {y}] + f[x] /\ h[u] = g[v] + f[x]
        BY <3>2, <4>1
      <4>4. f[x] \in Nat /\ f[y] \in Nat
        BY <4>1
      <4> HIDE DEF h, v
      <4> QED
        BY <4>2, <4>3, <4>4
    <3>3. CASE y # x /\ x \notin u
      <4>1. u \in SUBSET s /\ y \in s \ u /\ x \notin u \cup {y}
        BY <3>3
      <4>2. g[u \cup {y}] = g[u] + f[y]
        BY <2>1, <4>1 DEF Adds
      <4> QED
        BY <3>3, <4>1, <4>2
    <3> QED
      BY <3>1, <3>2, <3>3
  <2>5. h \in [SUBSET t -> Nat]
    BY <2>2
  <2> HIDE DEF h
  <2>6. Adds(h, t, f)
    BY <2>3, <2>4, <2>5 DEF Adds
  <2> QED
    BY <2>6
<1> HIDE DEF Q
<1>3. SUBSET S \subseteq Q
  BY <1>1, <1>2, SubsetsUpTo
<1> QED
  BY <1>3 DEF Q

(* The library's sum over a finite set is this one, in whatever order it adds up. *)
LEMMA SumIsAdded ==
  ASSUME NEW D, IsFiniteSet(D), NEW f, \A x \in D : f[x] \in Nat, NEW g, Adds(g, D, f)
  PROVE  SumFunctionOnSet(f, D) = g[D]
<1> DEFINE Is(t) == t = [s \in SUBSET D |->
                           IF s = {} THEN 0
                           ELSE f[CHOOSE x \in s : TRUE] + t[s \ {CHOOSE x \in s : TRUE}]]
           iter == CHOOSE t : Is(t)
<1>1. SumFunctionOnSet(f, D) = iter[D]
  BY DEF SumFunctionOnSet, FoldFunctionOnSet, MapThenFoldSet
<1>2. Is(g)
  <2>1. ASSUME NEW s \in SUBSET D, s # {}
        PROVE  g[s] = f[CHOOSE x \in s : TRUE] + g[s \ {CHOOSE x \in s : TRUE}]
    <3> DEFINE y == CHOOSE x \in s : TRUE
    <3>1. y \in s
      BY <2>1
    <3> HIDE DEF y
    <3>2. s \ {y} \in SUBSET D /\ y \in D \ (s \ {y}) /\ (s \ {y}) \cup {y} = s
      BY <3>1
    <3>3. g[s] = g[s \ {y}] + f[y] /\ g[s \ {y}] \in Nat /\ f[y] \in Nat
      BY <3>1, <3>2 DEF Adds
    <3>4. g[s] = f[y] + g[s \ {y}]
      BY <3>3
    <3> QED
      BY <3>4 DEF y
  <2>2. g = [s \in SUBSET D |-> g[s]] /\ g[{}] = 0
    BY DEF Adds
  <2> QED
    BY <2>1, <2>2
<1> HIDE DEF iter
<1>3. Is(iter)
  <2> HIDE DEF Is
  <2> QED
    BY <1>2 DEF iter
<1> DEFINE Q == {s \in SUBSET D : iter[s] = g[s]}
<1>4. ASSUME NEW s \in SUBSET D, \A x \in s : s \ {x} \in Q PROVE s \in Q
  <2>1. CASE s = {}
    <3>1. iter[{}] = 0
      BY <1>3
    <3> QED
      BY <2>1, <3>1 DEF Adds
  <2>2. CASE s # {}
    <3> DEFINE y == CHOOSE x \in s : TRUE
    <3>1. iter[s] = f[y] + iter[s \ {y}] /\ g[s] = f[y] + g[s \ {y}]
      BY <1>2, <1>3, <2>2
    <3>2. y \in s
      BY <2>2
    <3> HIDE DEF y, iter, Is
    <3>3. iter[s \ {y}] = g[s \ {y}]
      BY <1>4, <3>2
    <3>4. iter[s] = g[s]
      BY <3>1, <3>3
    <3> QED
      BY <3>4
  <2> QED
    BY <2>1, <2>2
<1> HIDE DEF Q
<1>5. SUBSET D \subseteq Q
  BY <1>4, SubsetsDownTo
<1> QED
  BY <1>1, <1>5 DEF Q

(* Where each member of I stands for another one of E and adds at most what that one does, the
   sum is at most that of E; it is the same when none is missing. *)
LEMMA SumsCompare ==
  ASSUME NEW I, NEW E, IsFiniteSet(E), NEW h \in [I -> E],
         \A i, j \in I : h[i] = h[j] => i = j,
         NEW f \in [I -> Nat], NEW w \in [E -> Nat],
         NEW gi, Adds(gi, I, f), NEW ge, Adds(ge, E, w)
  PROVE  /\ (\A i \in I : f[i] <= w[h[i]]) => gi[I] <= ge[E]
         /\ (\A i \in I : f[i] = w[h[i]]) /\ (\A e \in E : e \in {h[i] : i \in I} \/ w[e] = 0)
              => gi[I] = ge[E]
<1> DEFINE On(T) == {i \in I : h[i] \in T}
           Less == \A i \in I : f[i] <= w[h[i]]
           Same == (\A i \in I : f[i] = w[h[i]]) /\ (\A e \in E : e \in {h[i] : i \in I} \/ w[e] = 0)
           Q == {T \in SUBSET E : (Less => gi[On(T)] <= ge[T]) /\ (Same => gi[On(T)] = ge[T])}
<1>1. {} \in Q
  <2>1. On({}) = {}
    OBVIOUS
  <2>2. gi[{}] = 0 /\ ge[{}] = 0
    BY DEF Adds
  <2> HIDE DEF On, Less, Same
  <2>3. gi[On({})] = 0 /\ 0 <= 0
    BY <2>1, <2>2
  <2> QED
    BY <2>2, <2>3
<1>2. ASSUME NEW T \in SUBSET E, NEW e \in E \ T, T \in Q PROVE T \cup {e} \in Q
  <2>1. ge[T \cup {e}] = ge[T] + w[e] /\ ge[T] \in Nat /\ w[e] \in Nat
    BY DEF Adds
  <2>2. On(T) \in SUBSET I /\ gi[On(T)] \in Nat
    BY DEF Adds
  <2>3. (Less => gi[On(T)] <= ge[T]) /\ (Same => gi[On(T)] = ge[T])
    BY <1>2
  <2>4. CASE \E i \in I : h[i] = e
    <3>1. PICK i \in I : h[i] = e
      BY <2>4
    <3>2. On(T \cup {e}) = On(T) \cup {i} /\ i \in I \ On(T)
      BY <3>1
    <3>3. gi[On(T \cup {e})] = gi[On(T)] + f[i] /\ f[i] \in Nat
      BY <2>2, <3>2 DEF Adds
    <3>4. (Less => f[i] <= w[e]) /\ (Same => f[i] = w[e])
      BY <3>1
    <3> HIDE DEF On, Less, Same
    <3>5. (Less => gi[On(T \cup {e})] <= ge[T \cup {e}]) /\ (Same => gi[On(T \cup {e})] = ge[T \cup {e}])
      BY <2>1, <2>2, <2>3, <3>3, <3>4
    <3> QED
      BY <3>5
  <2>5. CASE \A i \in I : h[i] # e
    <3>1. On(T \cup {e}) = On(T)
      BY <2>5
    <3>2. Same => w[e] = 0
      BY <2>5
    <3> HIDE DEF On, Less, Same
    <3>3. (Less => gi[On(T \cup {e})] <= ge[T \cup {e}]) /\ (Same => gi[On(T \cup {e})] = ge[T \cup {e}])
      BY <2>1, <2>2, <2>3, <3>1, <3>2
    <3> QED
      BY <3>3
  <2> QED
    BY <2>4, <2>5
<1> HIDE DEF Q
<1>3. SUBSET E \subseteq Q
  BY <1>1, <1>2, SubsetsUpTo
<1>4. E \in Q
  BY <1>3
<1>5. On(E) = I
  OBVIOUS
<1>6. (Less => gi[On(E)] <= ge[E]) /\ (Same => gi[On(E)] = ge[E])
  BY <1>4 DEF Q
<1> QED
  BY <1>5, <1>6
===============================================================================
