----------------------------- MODULE DataTheorems -----------------------------
(***************************************************************************)
(* Lemmas about finite data that the proofs keep needing: least elements,  *)
(* that a function defined by recursion over the finite sets exists and is *)
(* the only one, and what follows for the sums and folds of the community  *)
(* modules.  Their recursion is over sets, so they are proved by a         *)
(* smallest counterexample.                                                *)
(***************************************************************************)
EXTENDS Integers, FiniteSetsExt, FiniteSetTheorems, WellFoundedInduction, TLAPS

(* Of finite sets, one contains no other. *)
LEMMA SmallestOf ==
  ASSUME NEW Ts, Ts # {}, \A T \in Ts : IsFiniteSet(T)
  PROVE  \E T \in Ts : \A U \in Ts : U \subseteq T => U = T
<1> DEFINE S == UNION Ts
<1>1. Ts \subseteq FiniteSubsetsOf(S)
  BY DEF FiniteSubsetsOf
<1>2. IsWellFoundedOn(StrictSubsetOrdering(S), FiniteSubsetsOf(S))
  BY FS_StrictSubsetOrderingWellFounded
<1>3. PICK T \in Ts : \A U \in Ts : ~(<<U, T>> \in StrictSubsetOrdering(S))
  <2> HIDE DEF S
  <2> QED BY <1>1, <1>2, WFMin
<1> QED BY <1>3 DEF StrictSubsetOrdering

(* Of natural numbers, one is the least. *)
LEMMA LeastOf ==
  ASSUME NEW S \in SUBSET Nat, S # {}
  PROVE  \E x \in S : \A y \in S : x <= y
<1> DEFINE Ts == {0..n : n \in S}
<1>0. \A n \in S : IsFiniteSet(0..n)
  BY FS_Interval
<1>1. Ts # {} /\ \A T \in Ts : IsFiniteSet(T)
  BY <1>0
<1>2. PICK T \in Ts : \A U \in Ts : U \subseteq T => U = T
  <2> HIDE DEF Ts
  <2> QED BY <1>1, SmallestOf
<1>3. PICK n \in S : T = 0..n
  BY <1>2
<1>4. ASSUME NEW m \in S, m < n PROVE FALSE
  <2>1. 0..m \in Ts /\ 0..m \subseteq 0..n
    BY <1>4
  <2>2. 0..m = 0..n
    BY <1>2, <1>3, <2>1
  <2>3. n \in 0..n /\ n \notin 0..m
    BY <1>4
  <2> QED BY <2>2, <2>3
<1> QED BY <1>3, <1>4

(* Induction over the finite sets; what is proved of them is given as the    *)
(* set of those it holds of.                                                 *)
LEMMA SetInduction ==
  ASSUME NEW S, IsFiniteSet(S), NEW Good, {} \in Good,
         \A T \in SUBSET S : T # {} /\ (\A x \in T : T \ {x} \in Good) => T \in Good
  PROVE  SUBSET S \subseteq Good
<1> DEFINE Bad == {T \in SUBSET S : T \notin Good}
<1> SUFFICES ASSUME Bad # {} PROVE FALSE
  OBVIOUS
<1>1. \A T \in Bad : IsFiniteSet(T)
  BY FS_Subset
<1>2. PICK T \in Bad : \A U \in Bad : U \subseteq T => U = T
  <2> HIDE DEF Bad
  <2> QED BY <1>1, SmallestOf
<1>3. \A x \in T : T \ {x} \in Good
  BY <1>2
<1> QED BY <1>2, <1>3

(* Some integers, finitely many, have a least and a largest. *)
LEMMA Extremes ==
  ASSUME NEW S, IsFiniteSet(S), S # {}, \A x \in S : x \in Int
  PROVE  (\E x \in S : \A y \in S : x <= y) /\ (\E x \in S : \A y \in S : y <= x)
<1> DEFINE Least(T) == \E x \in T : \A y \in T : x <= y
           Largest(T) == \E x \in T : \A y \in T : y <= x
           Good == {T \in SUBSET S : T = {} \/ (Least(T) /\ Largest(T))}
<1>1. ASSUME NEW T \in SUBSET S, T # {}, \A x \in T : T \ {x} \in Good PROVE T \in Good
  <2>1. PICK a \in T : TRUE
    BY <1>1
  <2>2. CASE T \ {a} = {}
    <3>1. \A y \in T : a <= y /\ y <= a
      BY <2>1, <2>2
    <3> QED BY <2>1, <3>1
  <2>3. CASE T \ {a} # {}
    <3>1. PICK x \in T \ {a} : \A y \in T \ {a} : x <= y
      BY <1>1, <2>3
    <3>2. PICK z \in T \ {a} : \A y \in T \ {a} : y <= z
      BY <1>1, <2>3
    <3>3. x \in Int /\ a \in Int /\ z \in Int /\ \A y \in T : y \in Int
      BY <2>1, <3>1, <3>2
    <3>4. Least(T)
      <4>1. CASE x <= a
        BY <3>1, <4>1
      <4>2. CASE a <= x
        <5>1. \A y \in T : a <= y
          BY <2>1, <3>1, <3>3, <4>2
        <5> QED BY <2>1, <5>1
      <4> QED BY <3>3, <4>1, <4>2
    <3>5. Largest(T)
      <4>1. CASE a <= z
        BY <3>2, <4>1
      <4>2. CASE z <= a
        <5>1. \A y \in T : y <= a
          BY <2>1, <3>2, <3>3, <4>2
        <5> QED BY <2>1, <5>1
      <4> QED BY <3>3, <4>1, <4>2
    <3> QED BY <3>4, <3>5
  <2> QED BY <2>2, <2>3
<1>2. {} \in Good
  OBVIOUS
<1>3. SUBSET S \subseteq Good
  <2> HIDE DEF Good
  <2> QED BY <1>1, <1>2, SetInduction
<1> QED BY <1>3

(* A quotient, rounded down. *)
LEMMA DivIs ==
  ASSUME NEW a \in Int, NEW b \in Nat \ {0}
  PROVE  a \div b \in Int /\ (a \div b) * b <= a /\ a < (a \div b) * b + b
OBVIOUS

-----------------------------------------------------------------------------
(* g folds the subsets of W: the element picked first is done last. *)
FoldsOn(W, g, base, pick, step) ==
  \A T \in SUBSET W : g[T] = IF T = {} THEN base ELSE step[pick[T]][g[T \ {pick[T]}]]

Picks(S, pick) == \A T \in SUBSET S : T # {} => pick[T] \in T

LEMMA FoldUnique ==
  ASSUME NEW S, IsFiniteSet(S), NEW base, NEW pick, NEW step, Picks(S, pick),
         NEW V \in SUBSET S, NEW W \in SUBSET S, NEW g, NEW h,
         FoldsOn(V, g, base, pick, step), FoldsOn(W, h, base, pick, step),
         NEW T \in SUBSET V, T \in SUBSET W
  PROVE  g[T] = h[T]
<1> SUFFICES ASSUME g[T] # h[T] PROVE FALSE
  OBVIOUS
<1> DEFINE Bad == {U \in SUBSET T : g[U] # h[U]}
<1>1. \A U \in Bad : IsFiniteSet(U)
  BY FS_Subset
<1>2. PICK U \in Bad : \A R \in Bad : R \subseteq U => R = U
  <2>1. Bad # {}
    OBVIOUS
  <2> HIDE DEF Bad
  <2> QED BY <1>1, <2>1, SmallestOf
<1>3. U # {}
  BY DEF FoldsOn
<1>4. pick[U] \in U
  BY <1>3 DEF Picks
<1>5. g[U \ {pick[U]}] = h[U \ {pick[U]}]
  BY <1>2, <1>4
<1> QED BY <1>2, <1>3, <1>5 DEF FoldsOn

LEMMA FoldExists ==
  ASSUME NEW S, IsFiniteSet(S), NEW R, NEW base \in R, NEW pick, Picks(S, pick),
         NEW step \in [S -> [R -> R]]
  PROVE  \E g \in [SUBSET S -> R] : FoldsOn(S, g, base, pick, step)
<1> DEFINE Is(W, g) == g \in [SUBSET W -> R] /\ FoldsOn(W, g, base, pick, step)
           Bad == {U \in SUBSET S : ~\E g : Is(U, g)}
<1> SUFFICES ASSUME Bad # {} PROVE FALSE
  OBVIOUS
<1>1. Bad # {} /\ \A U \in Bad : IsFiniteSet(U)
  BY FS_Subset
<1>2. PICK U \in Bad : \A T \in Bad : T \subseteq U => T = U
  <2> HIDE DEF Bad
  <2> QED BY <1>1, SmallestOf
<1> DEFINE Of(W) == CHOOSE g : Is(W, g)
           Rest(T) == T \ {pick[T]}
           val(T) == IF T = {} THEN base ELSE step[pick[T]][Of(Rest(T))[Rest(T)]]
           g == [T \in SUBSET U |-> val(T)]
<1>3. ASSUME NEW W \in SUBSET U, W # U PROVE Is(W, Of(W))
  <2>1. \E f : Is(W, f)
    BY <1>2, <1>3
  <2> HIDE DEF Is
  <2> QED BY <2>1
<1>4. ASSUME NEW T \in SUBSET U, T # {}
      PROVE  Rest(T) \in SUBSET U /\ Rest(T) # U /\ pick[T] \in S
  BY <1>4 DEF Picks
<1>5. ASSUME NEW T \in SUBSET U PROVE val(T) \in R
  <2>1. CASE T # {}
    <3>1. PICK W : W = Rest(T)
      OBVIOUS
    <3>2. Is(W, Of(W))
      BY <1>3, <1>4, <2>1, <3>1
    <3>3. Of(W)[W] \in R /\ pick[T] \in S
      BY <1>4, <2>1, <3>2
    <3>4. val(T) = step[pick[T]][Of(W)[W]]
      BY <2>1, <3>1
    <3> HIDE DEF val, Of
    <3> QED BY <3>3, <3>4
  <2> QED BY <2>1
<1>6. \A T \in SUBSET U : g[T] = val(T)
  OBVIOUS
<1>7. ASSUME NEW W \in SUBSET U, W # U PROVE g[W] = Of(W)[W]
  <2>1. Is(W, Of(W))
    BY <1>3, <1>7
  <2>2. CASE W = {}
    <3>1. Of(W)[W] = base
      <4> HIDE DEF Of
      <4> QED BY <2>1, <2>2 DEF FoldsOn
    <3> QED BY <1>6, <2>2, <3>1
  <2>3. CASE W # {}
    <3>1. PICK V : V = Rest(W)
      OBVIOUS
    <3>2. V \in SUBSET W /\ V \in SUBSET U /\ V # U
      BY <1>4, <2>3, <3>1
    <3>3. Of(W)[V] = Of(V)[V]
      <4>1. Is(V, Of(V)) /\ V \in SUBSET V /\ W \in SUBSET S
        BY <1>3, <3>2
      <4> HIDE DEF Of
      <4> QED BY <2>1, <3>2, <4>1, FoldUnique
    <3>4. Of(W)[W] = step[pick[W]][Of(W)[V]]
      <4> HIDE DEF Of
      <4> QED BY <2>1, <2>3, <3>1 DEF FoldsOn
    <3>5. g[W] = step[pick[W]][Of(V)[V]]
      BY <1>6, <1>7, <2>3, <3>1
    <3> QED BY <3>3, <3>4, <3>5
  <2> QED BY <2>2, <2>3
<1>8. Is(U, g)
  <2>1. g \in [SUBSET U -> R]
    BY <1>5
  <2>2. ASSUME NEW T \in SUBSET U
        PROVE  g[T] = IF T = {} THEN base ELSE step[pick[T]][g[T \ {pick[T]}]]
    <3>1. CASE T = {}
      BY <1>6, <3>1
    <3>2. CASE T # {}
      <4>1. g[T] = step[pick[T]][Of(Rest(T))[Rest(T)]]
        BY <1>6, <3>2
      <4>2. g[Rest(T)] = Of(Rest(T))[Rest(T)]
        BY <1>4, <1>7, <3>2
      <4> HIDE DEF g, Of
      <4> QED BY <3>2, <4>1, <4>2
    <3> QED BY <3>1, <3>2
  <2> HIDE DEF g
  <2> QED BY <2>1, <2>2 DEF FoldsOn
<1> QED BY <1>2, <1>8

-----------------------------------------------------------------------------
(* The sum of v over T, as MapThenSumSet computes it. *)
Sum(v, T) == MapThenSumSet(LAMBDA x : v[x], T)

(* How it does: *)
SumOn(v, S, g) ==
  \A T \in SUBSET S :
    g[T] = IF T = {} THEN 0 ELSE v[CHOOSE x \in T : TRUE] + g[T \ {CHOOSE x \in T : TRUE}]

LEMMA SumIs ==
  ASSUME NEW S, IsFiniteSet(S), NEW v \in [S -> Int]
  PROVE  \E g \in [SUBSET S -> Int] :
           SumOn(v, S, g) /\ \A T \in SUBSET S : Sum(v, T) = g[T]
<1> DEFINE pick == [T \in SUBSET S |-> CHOOSE x \in T : TRUE]
           step == [x \in S |-> [n \in Int |-> v[x] + n]]
<1>1. Picks(S, pick)
  <2>1. ASSUME NEW T \in SUBSET S, T # {} PROVE (CHOOSE x \in T : TRUE) \in T
    BY <2>1
  <2> QED BY <2>1 DEF Picks
<1>2. step \in [S -> [Int -> Int]]
  OBVIOUS
<1>3. PICK g \in [SUBSET S -> Int] : FoldsOn(S, g, 0, pick, step)
  <2>1. \A R, base : base \in R /\ step \in [S -> [R -> R]] =>
          \E g \in [SUBSET S -> R] : FoldsOn(S, g, base, pick, step)
    <3> HIDE DEF pick, step
    <3> QED BY <1>1, FoldExists
  <2>2. 0 \in Int
    OBVIOUS
  <2> HIDE DEF pick, step
  <2> QED BY <1>2, <2>1, <2>2
<1>5. SumOn(v, S, g)
  <2>1. ASSUME NEW T \in SUBSET S, T # {}
        PROVE  g[T] = v[CHOOSE x \in T : TRUE] + g[T \ {CHOOSE x \in T : TRUE}]
    <3>1. pick[T] = (CHOOSE x \in T : TRUE) /\ pick[T] \in S
      BY <1>1, <2>1 DEF Picks
    <3>2. PICK x : x = pick[T]
      OBVIOUS
    <3>3. g[T] = step[x][g[T \ {x}]] /\ g[T \ {x}] \in Int /\ x \in S
      BY <1>3, <2>1, <3>1, <3>2 DEF FoldsOn
    <3>4. step[x][g[T \ {x}]] = v[x] + g[T \ {x}]
      BY <3>3
    <3> QED BY <3>1, <3>2, <3>3, <3>4
  <2>2. g[{}] = 0
    BY <1>3 DEF FoldsOn
  <2> QED BY <2>1, <2>2 DEF SumOn
<1>6. ASSUME NEW W \in SUBSET S PROVE Sum(v, W) = g[W]
  <2> DEFINE Is(h) == h = [T \in SUBSET W |->
               IF T = {} THEN 0 ELSE v[CHOOSE x \in T : TRUE] + h[T \ {CHOOSE x \in T : TRUE}]]
             h == CHOOSE f : Is(f)
             gw == [T \in SUBSET W |-> g[T]]
  <2>1. Sum(v, W) = h[W]
    BY Zenon DEF Sum, MapThenSumSet, MapThenFoldSet
  <2>2. Is(gw)
    <3>1. ASSUME NEW T \in SUBSET W
          PROVE  gw[T] = IF T = {} THEN 0
                         ELSE v[CHOOSE x \in T : TRUE] + gw[T \ {CHOOSE x \in T : TRUE}]
      BY <1>5 DEF SumOn
    <3>2. DOMAIN gw = SUBSET W /\ gw = [T \in SUBSET W |-> gw[T]]
      OBVIOUS
    <3> HIDE DEF gw
    <3> QED BY <3>1, <3>2
  <2>3. Is(h)
    <3> HIDE DEF gw, Is
    <3> QED BY <2>2
  <2>4. ASSUME NEW T \in SUBSET W PROVE h[T] = g[T]
    <3> DEFINE Bad == {U \in SUBSET W : h[U] # g[U]}
    <3> SUFFICES ASSUME Bad # {} PROVE FALSE
      OBVIOUS
    <3>1. \A U \in Bad : IsFiniteSet(U)
      BY FS_Subset
    <3>2. PICK U \in Bad : \A R \in Bad : R \subseteq U => R = U
      <4> HIDE DEF Bad
      <4> QED BY <3>1, SmallestOf
    <3>3. PICK x : x = CHOOSE y \in U : TRUE
      OBVIOUS
    <3>4. U # {} => x \in U
      BY <3>3
    <3>5. h[U] = IF U = {} THEN 0 ELSE v[x] + h[U \ {x}]
      <4> HIDE DEF h
      <4> QED BY <2>3, <3>3
    <3>6. g[U] = IF U = {} THEN 0 ELSE v[x] + g[U \ {x}]
      BY <1>5, <3>3 DEF SumOn
    <3>7. U # {} => h[U \ {x}] = g[U \ {x}]
      <4> HIDE DEF h
      <4> QED BY <3>2, <3>4
    <3> HIDE DEF h
    <3> QED BY <3>2, <3>5, <3>6, <3>7
  <2> HIDE DEF h
  <2> QED BY <2>1, <2>4
<1> QED BY <1>5, <1>6

(* Nothing sums to 0, and any element can be taken out. *)
LEMMA SumRules ==
  ASSUME NEW S, IsFiniteSet(S), NEW v \in [S -> Int]
  PROVE  /\ Sum(v, {}) = 0
         /\ \A T \in SUBSET S : /\ Sum(v, T) \in Int
                                /\ \A x \in T : Sum(v, T) = v[x] + Sum(v, T \ {x})
<1>1. PICK g \in [SUBSET S -> Int] : SumOn(v, S, g) /\ \A T \in SUBSET S : Sum(v, T) = g[T]
  <2>1. \A w \in [S -> Int] : \E g \in [SUBSET S -> Int] :
          SumOn(w, S, g) /\ \A T \in SUBSET S : Sum(w, T) = g[T]
    BY SumIs, Zenon
  <2> QED BY <2>1
<1> DEFINE Good == {T \in SUBSET S : \A x \in T : g[T] = v[x] + g[T \ {x}]}
<1>2. ASSUME NEW T \in SUBSET S, T # {}, \A x \in T : T \ {x} \in Good PROVE T \in Good
  <2>1. PICK a : a = CHOOSE x \in T : TRUE
    OBVIOUS
  <2>2. a \in T /\ g[T] = v[a] + g[T \ {a}]
    BY <1>1, <1>2, <2>1 DEF SumOn
  <2>3. ASSUME NEW x \in T, x # a PROVE g[T] = v[x] + g[T \ {x}]
    <3>1. g[T \ {a}] = v[x] + g[(T \ {a}) \ {x}]
      BY <1>2, <2>2, <2>3
    <3>2. g[T \ {x}] = v[a] + g[(T \ {x}) \ {a}]
      BY <1>2, <2>2, <2>3
    <3>3. (T \ {a}) \ {x} = (T \ {x}) \ {a}
      OBVIOUS
    <3>4. PICK n \in Int : n = g[(T \ {a}) \ {x}]
      BY <1>1
    <3>5. v[x] \in Int /\ v[a] \in Int
      BY <2>2
    <3>6. g[T] = v[a] + (v[x] + n) /\ g[T \ {x}] = v[a] + n
      BY <2>2, <3>1, <3>2, <3>3, <3>4
    <3> QED BY <3>4, <3>5, <3>6
  <2> QED BY <2>2, <2>3
<1>3. {} \in Good
  OBVIOUS
<1>4. SUBSET S \subseteq Good
  <2> HIDE DEF Good
  <2> QED BY <1>2, <1>3, SetInduction
<1>5. g[{}] = 0
  BY <1>1 DEF SumOn
<1> QED BY <1>1, <1>4, <1>5

(* Larger terms make a larger sum, the same terms the same. *)
LEMMA SumMonotone ==
  ASSUME NEW S, IsFiniteSet(S), NEW v \in [S -> Int], NEW w \in [S -> Int],
         \A x \in S : v[x] <= w[x]
  PROVE  \A T \in SUBSET S : Sum(v, T) <= Sum(w, T)
<1> DEFINE Good == {T \in SUBSET S : Sum(v, T) <= Sum(w, T)}
<1>1. ASSUME NEW T \in SUBSET S, T # {}, \A x \in T : T \ {x} \in Good PROVE T \in Good
  <2>1. PICK x \in T : TRUE
    BY <1>1
  <2>2. Sum(v, T) = v[x] + Sum(v, T \ {x}) /\ Sum(w, T) = w[x] + Sum(w, T \ {x})
    BY SumRules
  <2>3. /\ Sum(v, T \ {x}) \in Int /\ Sum(w, T \ {x}) \in Int /\ v[x] \in Int /\ w[x] \in Int
        /\ Sum(v, T \ {x}) <= Sum(w, T \ {x}) /\ v[x] <= w[x]
    BY <1>1, SumRules
  <2> QED BY <2>2, <2>3
<1>2. {} \in Good
  BY SumRules
<1>3. SUBSET S \subseteq Good
  <2> HIDE DEF Good
  <2> QED BY <1>1, <1>2, SetInduction
<1> QED BY <1>3

LEMMA SumSame ==
  ASSUME NEW S, IsFiniteSet(S), NEW v \in [S -> Int], NEW w \in [S -> Int],
         NEW T \in SUBSET S, \A x \in T : v[x] = w[x]
  PROVE  Sum(v, T) = Sum(w, T)
<1> DEFINE Good == {U \in SUBSET T : Sum(v, U) = Sum(w, U)}
<1>1. ASSUME NEW U \in SUBSET T, U # {}, \A x \in U : U \ {x} \in Good PROVE U \in Good
  <2>1. PICK x \in U : TRUE
    BY <1>1
  <2>2. Sum(v, U) = v[x] + Sum(v, U \ {x}) /\ Sum(w, U) = w[x] + Sum(w, U \ {x})
    BY SumRules
  <2> QED BY <1>1, <2>2
<1>2. {} \in Good
  BY SumRules
<1>3. SUBSET T \subseteq Good
  <2>1. IsFiniteSet(T)
    BY FS_Subset
  <2> HIDE DEF Good
  <2> QED BY <1>1, <1>2, <2>1, SetInduction
<1> QED BY <1>3

(* What a term changes by, the sum does. *)
LEMMA SumChange ==
  ASSUME NEW S, IsFiniteSet(S), NEW v \in [S -> Int], NEW s \in S, NEW n \in Int
  PROVE  Sum([v EXCEPT ![s] = n], S) = Sum(v, S) - v[s] + n
<1> DEFINE w == [v EXCEPT ![s] = n]
<1>1. w \in [S -> Int] /\ w[s] = n /\ \A x \in S \ {s} : w[x] = v[x]
  OBVIOUS
<1> HIDE DEF w
<1>2. S \in SUBSET S /\ S \ {s} \in SUBSET S
  OBVIOUS
<1>3. Sum(w, S \ {s}) = Sum(v, S \ {s})
  BY <1>1, <1>2, SumSame
<1>4. Sum(w, S) = w[s] + Sum(w, S \ {s})
  BY <1>1, <1>2, SumRules
<1>5. Sum(v, S) = v[s] + Sum(v, S \ {s}) /\ Sum(v, S \ {s}) \in Int /\ v[s] \in Int
  BY <1>2, SumRules
<1>6. Sum(w, S) = Sum(v, S) - v[s] + n
  BY <1>1, <1>3, <1>4, <1>5
<1> QED BY <1>6 DEF w

(* A sum of larger things is larger. *)
LEMMA SumStrict ==
  ASSUME NEW S, IsFiniteSet(S), NEW v \in [S -> Int], NEW w \in [S -> Int],
         \A x \in S : v[x] < w[x]
  PROVE  \A T \in SUBSET S : T # {} => Sum(v, T) < Sum(w, T)
<1> SUFFICES ASSUME NEW T \in SUBSET S, T # {} PROVE Sum(v, T) < Sum(w, T)
  OBVIOUS
<1>1. PICK x \in T : TRUE
  OBVIOUS
<1>2. T \ {x} \in SUBSET S /\ x \in S /\ v[x] \in Int /\ w[x] \in Int
  OBVIOUS
<1>3. Sum(v, T \ {x}) <= Sum(w, T \ {x})
  <2>1. \A y \in S : v[y] <= w[y]
    OBVIOUS
  <2> QED BY <1>2, <2>1, SumMonotone
<1>4. /\ Sum(v, T) = v[x] + Sum(v, T \ {x}) /\ Sum(v, T \ {x}) \in Int
      /\ Sum(w, T) = w[x] + Sum(w, T \ {x}) /\ Sum(w, T \ {x}) \in Int
  <2>1. \A f \in [S -> Int] : \A U \in SUBSET S :
          Sum(f, U) \in Int /\ \A y \in U : Sum(f, U) = f[y] + Sum(f, U \ {y})
    BY SumRules
  <2> QED BY <1>2, <2>1
<1> QED BY <1>2, <1>3, <1>4

(* The rules, of any terms at once. *)
LEMMA SumsAre ==
  ASSUME NEW S, IsFiniteSet(S)
  PROVE  \A v \in [S -> Int] :
           /\ Sum(v, {}) = 0
           /\ \A T \in SUBSET S : /\ Sum(v, T) \in Int
                                  /\ \A x \in T : Sum(v, T) = v[x] + Sum(v, T \ {x})
BY SumRules

(* Sums of sums, of parts, and of the same. *)
LEMMA SumPlus ==
  ASSUME NEW S, IsFiniteSet(S), NEW u \in [S -> Int], NEW v \in [S -> Int], NEW w \in [S -> Int],
         \A x \in S : u[x] = v[x] + w[x]
  PROVE  \A T \in SUBSET S : Sum(u, T) = Sum(v, T) + Sum(w, T)
<1> DEFINE Good == {T \in SUBSET S : Sum(u, T) = Sum(v, T) + Sum(w, T)}
<1>1. ASSUME NEW T \in SUBSET S, T # {}, \A x \in T : T \ {x} \in Good PROVE T \in Good
  <2>1. PICK x \in T : TRUE
    BY <1>1
  <2>2. /\ Sum(u, T) = u[x] + Sum(u, T \ {x}) /\ Sum(v, T) = v[x] + Sum(v, T \ {x})
        /\ Sum(w, T) = w[x] + Sum(w, T \ {x})
    BY SumRules
  <2>3. /\ Sum(v, T \ {x}) \in Int /\ Sum(w, T \ {x}) \in Int /\ v[x] \in Int /\ w[x] \in Int
        /\ u[x] = v[x] + w[x] /\ Sum(u, T \ {x}) = Sum(v, T \ {x}) + Sum(w, T \ {x})
    BY <1>1, SumRules
  <2> QED BY <2>2, <2>3
<1>2. {} \in Good
  BY SumRules
<1>3. SUBSET S \subseteq Good
  <2> HIDE DEF Good
  <2> QED BY <1>1, <1>2, SetInduction
<1> QED BY <1>3

Adds(S, u, v, w) == \A x \in S : u[x] = v[x] + w[x]
SumAdds(S, u, v, w) == \A T \in SUBSET S : Sum(u, T) = Sum(v, T) + Sum(w, T)

LEMMA SumsAdd ==
  ASSUME NEW S, IsFiniteSet(S)
  PROVE  \A u \in [S -> Int], v \in [S -> Int], w \in [S -> Int] :
           Adds(S, u, v, w) => SumAdds(S, u, v, w)
BY SumPlus DEF Adds, SumAdds

LEMMA SumUnion ==
  ASSUME NEW S, IsFiniteSet(S), NEW v \in [S -> Int],
         NEW A \in SUBSET S, NEW B \in SUBSET S, A \cap B = {}
  PROVE  Sum(v, A \union B) = Sum(v, A) + Sum(v, B)
<1> DEFINE Good == {T \in SUBSET B : Sum(v, A \union T) = Sum(v, A) + Sum(v, T)}
<1>1. ASSUME NEW T \in SUBSET B, T # {}, \A x \in T : T \ {x} \in Good PROVE T \in Good
  <2>1. PICK x \in T : TRUE
    BY <1>1
  <2>2. (A \union T) \ {x} = A \union (T \ {x}) /\ A \union T \in SUBSET S /\ x \in A \union T
        /\ T \in SUBSET S /\ x \in S
    BY <2>1
  <2>3. Sum(v, A \union T) = v[x] + Sum(v, A \union (T \ {x})) /\ Sum(v, T) = v[x] + Sum(v, T \ {x})
    BY <2>1, <2>2, SumRules
  <2>4. Sum(v, A \union (T \ {x})) = Sum(v, A) + Sum(v, T \ {x})
    BY <1>1, <2>1
  <2>5. Sum(v, A) \in Int /\ Sum(v, T \ {x}) \in Int /\ v[x] \in Int
    <3>1. T \ {x} \in SUBSET S
      BY <2>2
    <3> QED BY <2>2, <3>1, SumRules
  <2> QED BY <2>3, <2>4, <2>5
<1>2. {} \in Good
  <2>1. A \union {} = A /\ Sum(v, A) \in Int /\ Sum(v, {}) = 0
    BY SumRules
  <2> QED BY <2>1
<1>3. SUBSET B \subseteq Good
  <2>1. IsFiniteSet(B)
    BY FS_Subset
  <2> HIDE DEF Good
  <2> QED BY <1>1, <1>2, <2>1, SetInduction
<1> QED BY <1>3

LEMMA SumConstant ==
  ASSUME NEW S, IsFiniteSet(S), NEW c \in Int, NEW v \in [S -> Int], \A x \in S : v[x] = c
  PROVE  \A T \in SUBSET S : Sum(v, T) = c * Cardinality(T)
<1> DEFINE Good == {T \in SUBSET S : Sum(v, T) = c * Cardinality(T)}
<1>1. ASSUME NEW T \in SUBSET S, T # {}, \A x \in T : T \ {x} \in Good PROVE T \in Good
  <2>1. PICK x \in T : TRUE
    BY <1>1
  <2>2. Sum(v, T) = c + Sum(v, T \ {x})
    BY SumRules
  <2>3. PICK n \in Int : n = Cardinality(T \ {x}) /\ Cardinality(T) = n + 1
    <3>1. IsFiniteSet(T)
      BY FS_Subset
    <3> QED BY <2>1, <3>1, FS_RemoveElement, FS_CardinalityType
  <2>4. Sum(v, T \ {x}) = c * n
    BY <1>1, <2>1, <2>3
  <2>5. c + c * n = c * (n + 1)
    OBVIOUS
  <2> QED BY <2>2, <2>3, <2>4, <2>5
<1>2. {} \in Good
  <2>1. Cardinality({}) = 0 /\ c * 0 = 0
    BY FS_EmptySet
  <2> QED BY <2>1, SumRules
<1>3. SUBSET S \subseteq Good
  <2> HIDE DEF Good
  <2> QED BY <1>1, <1>2, SetInduction
<1> QED BY <1>3

(* Of things that are not negative, none is in a sum of 0. *)
LEMMA SumOfNone ==
  ASSUME NEW S, IsFiniteSet(S), NEW v \in [S -> Nat], Sum(v, S) = 0
  PROVE  \A x \in S : v[x] = 0
<1>1. v \in [S -> Int]
  OBVIOUS
<1> DEFINE z == [x \in S |-> 0]
<1>2. z \in [S -> Int] /\ (\A x \in S : z[x] = 0) /\ \A x \in S : z[x] <= v[x]
  OBVIOUS
<1> HIDE DEF z
<1>3. \A T \in SUBSET S : Sum(z, T) = 0 * Cardinality(T)
  <2>1. 0 \in Int
    OBVIOUS
  <2> QED BY <1>2, <2>1, SumConstant
<1>4. \A T \in SUBSET S : Sum(z, T) = 0
  <2>1. \A T \in SUBSET S : Cardinality(T) \in Nat
    BY FS_Subset, FS_CardinalityType
  <2> QED BY <1>3, <2>1
<1>5. \A T \in SUBSET S : Sum(z, T) <= Sum(v, T)
  BY <1>1, <1>2, SumMonotone
<1> SUFFICES ASSUME NEW x \in S PROVE v[x] = 0
  OBVIOUS
<1>6. S \in SUBSET S /\ S \ {x} \in SUBSET S
  OBVIOUS
<1>7. Sum(v, S) = v[x] + Sum(v, S \ {x}) /\ Sum(v, S \ {x}) \in Int
  BY <1>1, <1>6, SumRules
<1>8. 0 <= Sum(v, S \ {x})
  BY <1>4, <1>5, <1>6
<1>9. v[x] \in Nat
  OBVIOUS
<1> QED BY <1>7, <1>8, <1>9

(* The parts by a label add up to the whole. *)
Labelled(I, G, label, part) ==
  /\ label \in [I -> G] /\ \A g \in G : \E i \in I : label[i] = g
  /\ part \in [G -> SUBSET I] /\ \A g \in G, i \in I : i \in part[g] <=> label[i] = g
PartsAdded(G, v, part, w) == \A g \in G : w[g] = Sum(v, part[g])

LEMMA SumOfParts ==
  ASSUME NEW I, IsFiniteSet(I), NEW v \in [I -> Int], NEW G, NEW label, NEW part,
         Labelled(I, G, label, part),
         NEW w \in [G -> Int], PartsAdded(G, v, part, w)
  PROVE  IsFiniteSet(G) /\ Sum(w, G) = Sum(v, I)
<1>a. /\ label \in [I -> G] /\ \A g \in G : \E i \in I : label[i] = g
      /\ part \in [G -> SUBSET I] /\ \A g \in G, i \in I : i \in part[g] <=> label[i] = g
      /\ \A g \in G : w[g] = Sum(v, part[g])
  BY DEF Labelled, PartsAdded
<1>1. IsFiniteSet(G)
  <2> DEFINE Fine == {T \in SUBSET I : IsFiniteSet({label[i] : i \in T})}
  <2>1. ASSUME NEW T \in SUBSET I, T # {}, \A x \in T : T \ {x} \in Fine PROVE T \in Fine
    <3>1. PICK x \in T : TRUE
      BY <2>1
    <3>2. {label[i] : i \in T} = {label[i] : i \in T \ {x}} \union {label[x]}
      BY <3>1
    <3>3. IsFiniteSet({label[i] : i \in T \ {x}})
      BY <2>1, <3>1
    <3>4. PICK A : A = {label[i] : i \in T \ {x}}
      OBVIOUS
    <3>5. PICK y : y = label[x]
      OBVIOUS
    <3>6. IsFiniteSet(A)
      BY <3>3, <3>4
    <3>7. IsFiniteSet(A \union {y})
      BY <3>6, FS_AddElement
    <3> QED BY <3>2, <3>4, <3>5, <3>7
  <2>2. {} \in Fine
    <3>1. {label[i] : i \in {}} = {}
      OBVIOUS
    <3> QED BY <3>1, FS_EmptySet
  <2>3. SUBSET I \subseteq Fine
    <3> HIDE DEF Fine
    <3> QED BY <2>1, <2>2, SetInduction
  <2>4. G = {label[i] : i \in I}
    <3>1. \A g \in {label[i] : i \in I} : g \in G
      BY <1>a
    <3>2. \A g \in G : g \in {label[i] : i \in I}
      BY <1>a
    <3> QED BY <3>1, <3>2, Zenon
  <2> QED BY <2>3, <2>4
<1> DEFINE Of(T) == {i \in I : label[i] \in T}
           Good == {T \in SUBSET G : Sum(w, T) = Sum(v, Of(T))}
<1>2. ASSUME NEW T \in SUBSET G, T # {}, \A x \in T : T \ {x} \in Good PROVE T \in Good
  <2>1. PICK x \in T : TRUE
    BY <1>2
  <2>2. Sum(w, T) = w[x] + Sum(w, T \ {x})
    BY <1>1, SumRules
  <2>3. w[x] = Sum(v, Of({x})) /\ Sum(w, T \ {x}) = Sum(v, Of(T \ {x}))
    <3>1. Of({x}) = part[x]
      <4>1. \A i : i \in Of({x}) <=> i \in part[x]
        BY <1>a, <2>1
      <4> HIDE DEF Of
      <4> QED BY <4>1
    <3> QED BY <1>2, <1>a, <2>1, <3>1
  <2>4. Of(T) = Of({x}) \union Of(T \ {x}) /\ Of({x}) \cap Of(T \ {x}) = {}
    BY <2>1
  <2>5. Of({x}) \in SUBSET I /\ Of(T \ {x}) \in SUBSET I
    OBVIOUS
  <2>6. Sum(v, Of(T)) = Sum(v, Of({x})) + Sum(v, Of(T \ {x}))
    <3>1. \A A \in SUBSET I, B \in SUBSET I :
            A \cap B = {} => Sum(v, A \union B) = Sum(v, A) + Sum(v, B)
      BY SumUnion
    <3> HIDE DEF Of
    <3> QED BY <2>4, <2>5, <3>1
  <2> QED BY <2>2, <2>3, <2>6
<1>3. {} \in Good
  <2>1. Of({}) = {}
    OBVIOUS
  <2>2. Sum(v, {}) = 0 /\ Sum(w, {}) = 0
    BY <1>1, SumRules
  <2> QED BY <2>1, <2>2
<1>4. SUBSET G \subseteq Good
  <2> HIDE DEF Good
  <2> QED BY <1>1, <1>2, <1>3, SetInduction
<1>5. Of(G) = I
  BY <1>a
<1>6. G \in Good
  BY <1>4
<1> QED BY <1>1, <1>5, <1>6

(* Adding rows or columns first is the same. *)
Table(F, I, m) == \A f \in F : m[f] \in [I -> Int]
Transposed(F, I, m, at) == \A f \in F, i \in I : at[i][f] = m[f][i]
RowsAdded(F, I, m, r) == \A f \in F : r[f] = Sum(m[f], I)
Columns(F, I, m, at) == \A i \in I : at[i] = [f \in F |-> m[f][i]]

LEMMA ColumnsAreATable ==
  ASSUME NEW F, NEW I, NEW m, Table(F, I, m), NEW at, Columns(F, I, m, at)
  PROVE  Table(I, F, at) /\ Transposed(F, I, m, at)
<1>1. ASSUME NEW i \in I PROVE at[i] \in [F -> Int] /\ \A f \in F : at[i][f] = m[f][i]
  <2>1. at[i] = [f \in F |-> m[f][i]]
    BY DEF Columns
  <2>2. \A f \in F : m[f][i] \in Int
    BY DEF Table
  <2> QED BY <2>1, <2>2
<1>2. Table(I, F, at)
  BY <1>1 DEF Table
<1>3. Transposed(F, I, m, at)
  BY <1>1 DEF Transposed
<1> QED BY <1>2, <1>3

LEMMA SumSwap ==
  ASSUME NEW F, IsFiniteSet(F), NEW I, IsFiniteSet(I), NEW m, Table(F, I, m),
         NEW at, Table(I, F, at), Transposed(F, I, m, at),
         NEW r \in [F -> Int], RowsAdded(F, I, m, r),
         NEW c \in [I -> Int], RowsAdded(I, F, at, c)
  PROVE  Sum(r, F) = Sum(c, I)
<1>a. \A v \in [F -> Int] :
        /\ Sum(v, {}) = 0
        /\ \A T \in SUBSET F : /\ Sum(v, T) \in Int
                               /\ \A x \in T : Sum(v, T) = v[x] + Sum(v, T \ {x})
  BY SumsAre, Zenon
<1>b. \A u \in [I -> Int], v \in [I -> Int], w \in [I -> Int] :
        Adds(I, u, v, w) => SumAdds(I, u, v, w)
  BY SumsAdd, Zenon
<1> DEFINE col(T) == [i \in I |-> Sum(at[i], T)]
           Good == {T \in SUBSET F : Sum(r, T) = Sum(col(T), I)}
<1>0. I \in SUBSET I
  OBVIOUS
<1>1. \A i \in I : /\ Sum(at[i], {}) = 0
                   /\ \A T \in SUBSET F : /\ Sum(at[i], T) \in Int
                                          /\ \A x \in T : Sum(at[i], T) = at[i][x] + Sum(at[i], T \ {x})
  BY SumsAre DEF Table
<1>2. \A T \in SUBSET F : col(T) \in [I -> Int] /\ \A i \in I : col(T)[i] = Sum(at[i], T)
  BY <1>1
<1>3. ASSUME NEW T \in SUBSET F, T # {}, \A x \in T : T \ {x} \in Good PROVE T \in Good
  <2>1. PICK x \in T : TRUE
    BY <1>3
  <2>2. T \ {x} \in SUBSET F /\ x \in F /\ m[x] \in [I -> Int]
    BY <2>1 DEF Table
  <2>3. PICK u \in [I -> Int], w \in [I -> Int], v \in [I -> Int] :
          u = col(T) /\ w = col(T \ {x}) /\ v = m[x]
    BY <1>2, <2>2
  <2>4. \A i \in I : u[i] = v[i] + w[i]
    <3>1. ASSUME NEW i \in I PROVE Sum(at[i], T) = m[x][i] + Sum(at[i], T \ {x})
      <4>1. Sum(at[i], T) = at[i][x] + Sum(at[i], T \ {x})
        BY <1>1, <2>1, Zenon
      <4>2. at[i][x] = m[x][i]
        BY <2>2 DEF Transposed
      <4> QED BY <4>1, <4>2
    <3>2. \A i \in I : u[i] = Sum(at[i], T) /\ w[i] = Sum(at[i], T \ {x}) /\ v[i] = m[x][i]
      BY <1>2, <2>2, <2>3
    <3> HIDE DEF col
    <3> QED BY <3>1, <3>2
  <2>5. Sum(u, I) = Sum(v, I) + Sum(w, I)
    <3>1. Adds(I, u, v, w)
      BY <2>4 DEF Adds
    <3>2. SumAdds(I, u, v, w)
      BY <1>b, <3>1
    <3> QED BY <1>0, <3>2 DEF SumAdds
  <2>6. Sum(r, T) = r[x] + Sum(r, T \ {x})
    <3> HIDE DEF col
    <3> QED BY <1>a, <2>1
  <2>7. Sum(r, T \ {x}) = Sum(w, I) /\ r[x] = Sum(v, I)
    BY <1>3, <2>1, <2>2, <2>3 DEF RowsAdded
  <2>8. Sum(v, I) \in Int /\ Sum(w, I) \in Int
    BY <1>0, SumsAre
  <2>9. Sum(r, T) = Sum(u, I)
    BY <2>5, <2>6, <2>7, <2>8
  <2> QED BY <2>3, <2>9
<1>4. {} \in Good
  <2>1. PICK z \in [I -> Int] : z = col({}) /\ \A i \in I : z[i] = 0
    <3>1. col({}) \in [I -> Int] /\ \A i \in I : col({})[i] = Sum(at[i], {})
      BY <1>2
    <3>2. \A i \in I : Sum(at[i], {}) = 0
      BY <1>1
    <3> HIDE DEF col
    <3> QED BY <3>1, <3>2
  <2>2. \A U \in SUBSET I : Sum(z, U) = 0 * Cardinality(U)
    <3>1. 0 \in Int
      OBVIOUS
    <3> QED BY <2>1, <3>1, SumConstant
  <2>3. Cardinality(I) \in Nat
    BY FS_CardinalityType
  <2>4. Sum(z, I) = 0
    BY <1>0, <2>2, <2>3
  <2>5. Sum(r, {}) = 0
    BY SumRules
  <2> QED BY <2>1, <2>4, <2>5
<1>5. SUBSET F \subseteq Good
  <2> HIDE DEF Good
  <2> QED BY <1>3, <1>4, SetInduction
<1>6. F \in Good
  BY <1>5
<1>7. col(F) = c
  <2>1. PICK z \in [I -> Int] : z = col(F) /\ \A i \in I : z[i] = c[i]
    BY <1>2 DEF RowsAdded
  <2>2. z = c
    BY <2>1
  <2> QED BY <2>1, <2>2
<1> HIDE DEF col
<1> QED BY <1>6, <1>7

-----------------------------------------------------------------------------
(* A finite set has parts of every size up to its own. *)
LEMMA PartsOfSize ==
  ASSUME NEW S, IsFiniteSet(S)
  PROVE  \A k \in 0..Cardinality(S) : \E T \in SUBSET S : Cardinality(T) = k
<1> DEFINE Has(U) == \A k \in 0..Cardinality(U) : \E T \in SUBSET U : Cardinality(T) = k
           Good == {U \in SUBSET S : Has(U)}
<1>1. {} \in Good
  <2>1. Cardinality({}) = 0
    BY FS_EmptySet
  <2> QED BY <2>1
<1>2. ASSUME NEW U \in SUBSET S, U # {}, \A x \in U : U \ {x} \in Good PROVE U \in Good
  <2>1. PICK x \in U : TRUE
    BY <1>2
  <2>2. IsFiniteSet(U) /\ Cardinality(U) \in Nat /\ Cardinality(U \ {x}) = Cardinality(U) - 1
    BY FS_Subset, FS_CardinalityType, FS_RemoveElement
  <2>3. \A k \in 0..(Cardinality(U) - 1) : \E T \in SUBSET U : Cardinality(T) = k
    BY <1>2, <2>1, <2>2
  <2>4. \A k \in 0..Cardinality(U) : k \in 0..(Cardinality(U) - 1) \/ k = Cardinality(U)
    BY <2>2
  <2> QED BY <2>3, <2>4
<1> HIDE DEF Good
<1>3. SUBSET S \subseteq Good
  BY <1>1, <1>2, SetInduction
<1> QED BY <1>3 DEF Good

(* Induction from 0 up to n, in the same form. *)
LEMMA StepInduction ==
  ASSUME NEW n \in Nat, NEW Good, 0 \in Good, \A k \in 0..(n - 1) : k \in Good => k + 1 \in Good
  PROVE  0..n \subseteq Good
<1> DEFINE Bad == {k \in 0..n : k \notin Good}
<1> SUFFICES ASSUME Bad # {} PROVE FALSE
  OBVIOUS
<1>1. PICK k \in Bad : \A j \in Bad : k <= j
  <2>1. Bad \in SUBSET Nat /\ Bad # {}
    OBVIOUS
  <2> HIDE DEF Bad
  <2> QED BY <2>1, LeastOf
<1>2. k # 0 /\ k - 1 \in 0..(n - 1)
  BY <1>1
<1>3. k - 1 \in Good
  BY <1>1, <1>2
<1>4. (k - 1) + 1 = k
  BY <1>1
<1> QED BY <1>1, <1>2, <1>3, <1>4

(* A function defined from the last argument down, each value by one at a    *)
(* later argument.                                                           *)
Descends(n, R, base, next, step) ==
  /\ base \in R
  /\ next \in [1..n -> 1..(n + 1)] /\ \A i \in 1..n : next[i] > i
  /\ step \in [1..n -> [R -> R]]
Descent(f, n, base, next, step) ==
  f[n + 1] = base /\ \A i \in 1..n : f[i] = step[i][f[next[i]]]

LEMMA DescentExists ==
  ASSUME NEW n \in Nat, NEW R, NEW base, NEW next, NEW step, Descends(n, R, base, next, step)
  PROVE  \E f \in [1..(n + 1) -> R] : Descent(f, n, base, next, step)
<1>0. /\ base \in R
      /\ next \in [1..n -> 1..(n + 1)] /\ \A i \in 1..n : next[i] > i
      /\ step \in [1..n -> [R -> R]]
  BY DEF Descends
<1> DEFINE Fits(f, k) == f[n + 1] = base /\ \A i \in 1..n : i > n - k => f[i] = step[i][f[next[i]]]
           Good == {k \in 0..n : \E f \in [1..(n + 1) -> R] : Fits(f, k)}
<1>1. 0 \in Good
  <2>1. PICK f : f = [i \in 1..(n + 1) |-> base]
    OBVIOUS
  <2>2. f \in [1..(n + 1) -> R] /\ Fits(f, 0)
    BY <1>0, <2>1
  <2> QED BY <2>2
<1>2. ASSUME NEW k \in 0..(n - 1), k \in Good PROVE k + 1 \in Good
  <2>1. PICK f \in [1..(n + 1) -> R] : Fits(f, k)
    BY <1>2
  <2>2. PICK j \in 1..n : j = n - k
    OBVIOUS
  <2>3. PICK r \in R : r = step[j][f[next[j]]]
    <3>1. f[next[j]] \in R
      BY <1>0
    <3> QED BY <1>0, <3>1
  <2>4. PICK g : g = [f EXCEPT ![j] = r]
    OBVIOUS
  <2>5. g \in [1..(n + 1) -> R] /\ g[j] = r /\ \A i \in 1..(n + 1) : i # j => g[i] = f[i]
    BY <2>4
  <2>6. g[n + 1] = base
    BY <2>1, <2>2, <2>5
  <2>7. ASSUME NEW i \in 1..n, i > n - (k + 1) PROVE g[i] = step[i][g[next[i]]]
    <3>1. next[i] \in 1..(n + 1) /\ next[i] > i
      BY <1>0
    <3>2. next[i] # j
      BY <2>2, <2>7, <3>1
    <3>3. g[next[i]] = f[next[i]]
      BY <2>5, <3>1, <3>2
    <3>4. CASE i = j
      BY <2>3, <2>5, <3>3, <3>4
    <3>5. CASE i # j
      <4>1. i > n - k
        BY <2>2, <2>7, <3>5
      <4>2. f[i] = step[i][f[next[i]]]
        BY <2>1, <4>1
      <4>3. g[i] = f[i]
        BY <2>5, <3>5
      <4> QED BY <3>3, <4>2, <4>3
    <3> QED BY <3>4, <3>5
  <2>8. Fits(g, k + 1)
    BY <2>6, <2>7
  <2> QED BY <2>5, <2>8
<1>3. 0..n \subseteq Good
  <2> HIDE DEF Good
  <2> QED BY <1>1, <1>2, StepInduction
<1>4. n \in Good
  BY <1>3
<1> QED BY <1>4 DEF Descent

(* The numbers of a finite set have their ranks. *)
LEMMA RanksExist ==
  ASSUME NEW S, IsFiniteSet(S), S \in SUBSET Int
  PROVE  \A n \in 1..Cardinality(S) : \E x \in S : Cardinality({y \in S : y < x}) = n - 1
<1> DEFINE Has(T) == \A n \in 1..Cardinality(T) : \E x \in T : Cardinality({y \in T : y < x}) = n - 1
           Good == {T \in SUBSET S : Has(T)}
<1>1. {} \in Good
  BY FS_EmptySet
<1>2. ASSUME NEW T \in SUBSET S, T # {}, \A x \in T : T \ {x} \in Good PROVE T \in Good
  <2>0. IsFiniteSet(T)
    BY FS_Subset
  <2>1. PICK x \in T : \A y \in T : y <= x
    BY <1>2, <2>0, Extremes
  <2>2. PICK U : U = T \ {x}
    OBVIOUS
  <2>3. IsFiniteSet(U) /\ Cardinality(U) \in Nat /\ Cardinality(T) = Cardinality(U) + 1
    <3>1. IsFiniteSet(U)
      BY <2>0, <2>2, FS_Subset
    <3>2. T = U \union {x} /\ x \notin U
      BY <2>2
    <3>3. Cardinality(U \union {x}) = Cardinality(U) + 1
      BY <3>1, <3>2, FS_AddElement
    <3> QED BY <3>1, <3>2, <3>3, FS_CardinalityType
  <2>4. ASSUME NEW n \in 1..Cardinality(T)
        PROVE  \E z \in T : Cardinality({y \in T : y < z}) = n - 1
    <3>1. CASE n = Cardinality(T)
      <4>1. {y \in T : y < x} = U
        <5>1. \A y \in T : y < x <=> y # x
          BY <2>1
        <5> QED BY <2>2, <5>1
      <4>2. n - 1 = Cardinality(U)
        BY <2>3, <3>1
      <4> QED BY <4>1, <4>2, Zenon
    <3>2. CASE n # Cardinality(T)
      <4>1. n \in 1..Cardinality(U)
        BY <2>3, <3>2
      <4>2. Has(U)
        BY <1>2, <2>2
      <4>3. PICK z \in U : Cardinality({y \in U : y < z}) = n - 1
        BY <4>1, <4>2
      <4>4. {y \in T : y < z} = {y \in U : y < z}
        <5>1. ~(x < z)
          BY <2>1, <2>2, <4>3
        <5> QED BY <2>2, <5>1
      <4> QED BY <2>2, <4>3, <4>4
    <3> QED BY <3>1, <3>2
  <2> QED BY <2>4
<1>3. SUBSET S \subseteq Good
  <2> HIDE DEF Good
  <2> QED BY <1>1, <1>2, SetInduction
<1> QED BY <1>3

(* The rules of sums, as one. *)
Summed(S, v) ==
  /\ Sum(v, {}) = 0
  /\ \A T \in SUBSET S : Sum(v, T) \in Int
  /\ \A T \in SUBSET S : \A x \in T : Sum(v, T) = v[x] + Sum(v, T \ {x})
  /\ \A C, D \in SUBSET S : C \cap D = {} => Sum(v, C \union D) = Sum(v, C) + Sum(v, D)

LEMMA AllSummed ==
  ASSUME NEW S, IsFiniteSet(S), NEW v \in [S -> Int]
  PROVE  Summed(S, v)
<1>1. \A C, D \in SUBSET S : C \cap D = {} => Sum(v, C \union D) = Sum(v, C) + Sum(v, D)
  BY SumUnion
<1> QED BY <1>1, SumRules DEF Summed

(* A function has no more values than arguments. *)
LEMMA ImagesAreFewer ==
  ASSUME NEW D, IsFiniteSet(D), NEW a
  PROVE  Cardinality({a[h] : h \in D}) <= Cardinality(D)
<1> DEFINE Img(T) == {a[h] : h \in T}
           Good == {T \in SUBSET D : IsFiniteSet(Img(T)) /\ Cardinality(Img(T)) <= Cardinality(T)}
<1>1. {} \in Good
  <2>1. Img({}) = {}
    OBVIOUS
  <2> QED BY <2>1, FS_EmptySet
<1>2. ASSUME NEW T \in SUBSET D, T # {}, \A x \in T : T \ {x} \in Good PROVE T \in Good
  <2>1. PICK x \in T : TRUE
    BY <1>2
  <2>2. Img(T) = Img(T \ {x}) \union {a[x]}
    OBVIOUS
  <2>3. PICK U, y : U = Img(T \ {x}) /\ y = a[x]
    OBVIOUS
  <2>4. IsFiniteSet(U) /\ Cardinality(U) <= Cardinality(T \ {x})
    BY <1>2, <2>3
  <2> HIDE DEF Img
  <2>5. PICK t \in Nat : t = Cardinality(T) /\ Cardinality(T \ {x}) = t - 1
    BY FS_Subset, FS_RemoveElement, FS_CardinalityType
  <2>6. /\ IsFiniteSet(U \union {y}) /\ Cardinality(U) \in Nat
        /\ Cardinality(U \union {y}) <= Cardinality(U) + 1
    <3>1. PICK u \in Nat : u = Cardinality(U)
      BY <2>4, FS_CardinalityType
    <3>2. IsFiniteSet(U \union {y}) /\ (Cardinality(U \union {y}) = u \/ Cardinality(U \union {y}) = u + 1)
      BY <2>4, <3>1, FS_AddElement
    <3>3. u <= u + 1
      OBVIOUS
    <3> QED BY <3>1, <3>2, <3>3
  <2>7. Cardinality(U \union {y}) <= t
    <3>1. PICK u \in Nat, v \in Nat : u = Cardinality(U) /\ v = Cardinality(U \union {y})
      BY <2>6, FS_CardinalityType
    <3>2. u <= t - 1 /\ v <= u + 1
      BY <2>4, <2>5, <2>6, <3>1
    <3> QED BY <3>1, <3>2
  <2>8. IsFiniteSet(Img(T)) /\ Cardinality(Img(T)) <= Cardinality(T)
    BY <2>2, <2>3, <2>5, <2>6, <2>7
  <2> QED BY <2>8
<1>3. D \in Good
  <2> HIDE DEF Good
  <2>1. SUBSET D \subseteq Good
    BY <1>1, <1>2, SetInduction
  <2> QED BY <2>1
<1> QED BY <1>3

(* Two functions on the subsets of S agree when they do on the empty one and *)
(* the same makes both grow.                                                 *)
Grow(S, f, g) ==
  \A T \in SUBSET S : T # {} /\ (\A x \in T : f[T \ {x}] = g[T \ {x}]) => f[T] = g[T]

Agree(S, f, g) == \A T \in SUBSET S : f[T] = g[T]

LEMMA PartsAgree ==
  ASSUME NEW S, IsFiniteSet(S), NEW f, NEW g, f[{}] = g[{}], Grow(S, f, g)
  PROVE  Agree(S, f, g)
<1> DEFINE Good == {T \in SUBSET S : f[T] = g[T]}
<1>1. {} \in Good
  OBVIOUS
<1>2. ASSUME NEW T \in SUBSET S, T # {}, \A x \in T : T \ {x} \in Good PROVE T \in Good
  BY <1>2 DEF Grow
<1>3. SUBSET S \subseteq Good
  <2> HIDE DEF Good
  <2> QED BY <1>1, <1>2, SetInduction
<1> QED BY <1>3 DEF Agree

(* How FoldLeft goes over the places of a sequence, last place first: fold   *)
(* has the value over every set of places, walk the one after each place.    *)
LastOf(T) == CHOOSE x \in T : \A y \in T : x >= y
FoldsFrom(n, R, base, step) == base \in R /\ step \in [1..n -> [R -> R]]
FoldOver(fold, n, base, step) ==
  /\ fold[{}] = base
  /\ \A T \in SUBSET (1..n) : T # {} =>
       LastOf(T) \in T /\ fold[T] = step[LastOf(T)][fold[T \ {LastOf(T)}]]
WalkOver(walk, fold, n, base, step) ==
  /\ walk[0] = base /\ walk[n] = fold[1..n]
  /\ \A j \in 1..n : walk[j] = step[j][walk[j - 1]]

LEMMA LastIs ==
  ASSUME NEW n \in Nat, NEW T \in SUBSET (1..n), T # {}
  PROVE  LastOf(T) \in T /\ \A y \in T : y <= LastOf(T)
<1>1. IsFiniteSet(T)
  <2>1. IsFiniteSet(1..n)
    BY FS_Interval
  <2> QED BY <2>1, FS_Subset
<1>2. PICK x \in T : \A y \in T : y <= x
  <2>1. \A x \in T : x \in Int
    OBVIOUS
  <2> QED BY <1>1, <2>1, Extremes
<1>3. x \in T /\ \A y \in T : x >= y
  BY <1>2
<1>4. LastOf(T) \in T /\ \A y \in T : LastOf(T) >= y
  BY <1>3 DEF LastOf
<1> QED BY <1>4

LEMMA FoldWalks ==
  ASSUME NEW n \in Nat, NEW R, NEW base, NEW step, FoldsFrom(n, R, base, step)
  PROVE  \E fold \in [SUBSET (1..n) -> R], walk \in [0..n -> R] :
           FoldOver(fold, n, base, step) /\ WalkOver(walk, fold, n, base, step)
<1> DEFINE pick == [T \in SUBSET (1..n) |-> LastOf(T)]
<1>1. base \in R /\ step \in [1..n -> [R -> R]] /\ IsFiniteSet(1..n)
  BY FS_Interval DEF FoldsFrom
<1>2. Picks(1..n, pick)
  BY LastIs DEF Picks
<1>3. PICK g \in [SUBSET (1..n) -> R] : FoldsOn(1..n, g, base, pick, step)
  <2> HIDE DEF pick
  <2> QED BY <1>1, <1>2, FoldExists
<1>4. ASSUME NEW T \in SUBSET (1..n), T # {}
      PROVE  LastOf(T) \in T /\ g[T] = step[LastOf(T)][g[T \ {LastOf(T)}]]
  <2>1. pick[T] = LastOf(T) /\ LastOf(T) \in T
    BY <1>4, LastIs
  <2> HIDE DEF pick
  <2> QED BY <1>3, <1>4, <2>1 DEF FoldsOn
<1>5. g[{}] = base
  BY <1>3 DEF FoldsOn
<1>6. FoldOver(g, n, base, step)
  BY <1>4, <1>5 DEF FoldOver
<1>7. PICK a : a = [j \in 0..n |-> g[1..j]]
  OBVIOUS
<1>8. a \in [0..n -> R] /\ \A j \in 0..n : a[j] = g[1..j]
  <2>1. \A j \in 0..n : 1..j \in SUBSET (1..n)
    OBVIOUS
  <2> QED BY <1>7, <2>1
<1>9. a[0] = base
  <2>1. 1..0 = {}
    OBVIOUS
  <2> QED BY <1>5, <1>8, <2>1
<1>10. ASSUME NEW j \in 1..n PROVE a[j] = step[j][a[j - 1]]
  <2>1. PICK T \in SUBSET (1..n) : T = 1..j
    OBVIOUS
  <2>2. T # {} /\ j \in T /\ \A y \in T : y <= j
    <3>1. j \in 1..j /\ \A y \in 1..j : y <= j
      OBVIOUS
    <3> QED BY <2>1, <3>1, Zenon
  <2>3. LastOf(T) = j
    <3>1. LastOf(T) \in T /\ \A y \in T : y <= LastOf(T)
      BY <2>2, LastIs
    <3> QED BY <2>1, <2>2, <3>1
  <2>4. T \ {j} = 1..(j - 1)
    BY <2>1
  <2>5. g[T] = step[j][g[T \ {j}]]
    BY <1>4, <2>2, <2>3
  <2>6. a[j] = g[T] /\ a[j - 1] = g[T \ {j}]
    <3>1. j \in 0..n /\ j - 1 \in 0..n
      OBVIOUS
    <3> QED BY <1>8, <2>1, <2>4, <3>1, Zenon
  <2> QED BY <2>5, <2>6
<1>11. a[n] = g[1..n]
  BY <1>8
<1>12. WalkOver(a, g, n, base, step)
  BY <1>9, <1>10, <1>11 DEF WalkOver
<1> QED BY <1>6, <1>8, <1>12

(* What folds in the same way has the same values. *)
GrowsAs(h, fold, n) ==
  \A T \in SUBSET (1..n) :
    T # {} /\ h[T \ {LastOf(T)}] = fold[T \ {LastOf(T)}] => h[T] = fold[T]

LEMMA SameFold ==
  ASSUME NEW n \in Nat, NEW fold, NEW h, h[{}] = fold[{}], GrowsAs(h, fold, n)
  PROVE  h[1..n] = fold[1..n]
<1>1. Grow(1..n, h, fold)
  BY LastIs DEF Grow, GrowsAs
<1>2. IsFiniteSet(1..n)
  <2>1. 1 \in Int /\ n \in Int
    OBVIOUS
  <2> QED BY <2>1, FS_Interval, Zenon
<1>3. Agree(1..n, h, fold)
  BY <1>1, <1>2, PartsAgree
<1> QED BY <1>3 DEF Agree

(* What a walk adds up, place by place. *)
AddsUp(n, v, F, b) ==
  b[0] = 0 /\ \A j \in 1..n : b[j] = IF j \in F THEN b[j - 1] + v[j] ELSE b[j - 1]

LEMMA RunningSum ==
  ASSUME NEW n \in Nat, NEW v \in [1..n -> Int], NEW F \in SUBSET (1..n),
         NEW b \in [0..n -> Int], AddsUp(n, v, F, b)
  PROVE  b[n] = Sum(v, F)
<1> DEFINE Upto(k) == {i \in F : i <= k}
           Good == {k \in 0..n : b[k] = Sum(v, Upto(k))}
<1>0. \A i \in F : i \in Int /\ 1 <= i /\ i <= n
  OBVIOUS
<1>1. Summed(1..n, v)
  <2>1. IsFiniteSet(1..n)
    BY FS_Interval
  <2> QED BY <2>1, AllSummed
<1>2. \A k \in 0..n : Upto(k) \in SUBSET (1..n)
  OBVIOUS
<1>3. 0 \in Good
  <2>1. Upto(0) = {}
    <3>1. \A i \in F : ~(i <= 0)
      BY <1>0
    <3> QED BY <3>1, Zenon
  <2>2. Sum(v, Upto(0)) = 0
    BY <1>1, <2>1 DEF Summed
  <2> HIDE DEF Upto
  <2> QED BY <2>2 DEF AddsUp
<1>4. ASSUME NEW k \in 0..(n - 1), k \in Good PROVE k + 1 \in Good
  <2>1. PICK j \in 1..n : j = k + 1 /\ j - 1 = k
    OBVIOUS
  <2>2. CASE j \in F
    <3>0. \A i \in F : i <= j /\ i # j <=> i <= k
      BY <1>0, <2>1
    <3>1. j \in Upto(j) /\ Upto(j) \ {j} = Upto(k)
      <4>1. j <= j
        BY <2>1
      <4>2. \A i : i \in Upto(j) \ {j} <=> i \in Upto(k)
        BY <3>0, Zenon
      <4>3. Upto(j) \ {j} = Upto(k)
        <5> HIDE DEF Upto
        <5> QED BY <4>2
      <4> QED BY <2>2, <4>1, <4>3, Zenon
    <3>2. Sum(v, Upto(j)) = v[j] + Sum(v, Upto(j) \ {j})
      <4>1. Upto(j) \in SUBSET (1..n)
        BY <1>2
      <4> HIDE DEF Upto
      <4> QED BY <1>1, <3>1, <4>1 DEF Summed
    <3>3. b[j] = b[k] + v[j] /\ b[k] = Sum(v, Upto(k))
      BY <1>4, <2>1, <2>2 DEF AddsUp
    <3>4. b[k] \in Int /\ v[j] \in Int
      OBVIOUS
    <3>5. b[j] = Sum(v, Upto(j))
      <4> HIDE DEF Upto
      <4>1. PICK x \in Int : x = b[k]
        BY <3>4
      <4>2. Sum(v, Upto(j) \ {j}) = x
        BY <3>1, <3>3, <4>1, Zenon
      <4> QED BY <3>2, <3>3, <3>4, <4>1, <4>2
    <3> QED BY <2>1, <3>5
  <2>3. CASE j \notin F
    <3>0. \A i \in F : i <= j <=> i <= k
      BY <1>0, <2>1, <2>3
    <3>1. Upto(j) = Upto(k)
      <4>1. \A i : i \in Upto(j) <=> i \in Upto(k)
        BY <3>0, Zenon
      <4> HIDE DEF Upto
      <4> QED BY <4>1
    <3>2. b[j] = b[k] /\ b[k] = Sum(v, Upto(k))
      BY <1>4, <2>1, <2>3 DEF AddsUp
    <3>3. b[j] = Sum(v, Upto(j))
      <4> HIDE DEF Upto
      <4> QED BY <3>1, <3>2
    <3> QED BY <2>1, <3>3
  <2> QED BY <2>2, <2>3
<1>5. 0..n \subseteq Good
  <2> HIDE DEF Good
  <2> QED BY <1>3, <1>4, StepInduction
<1>6. Upto(n) = F
  BY <1>0
<1> HIDE DEF Upto
<1> QED BY <1>5, <1>6
=============================================================================
