------------------------------ MODULE Induction ------------------------------
(***************************************************************************)
(* Induction over data for the proofs of the other modules: over the       *)
(* natural numbers, the subsets of a finite set and finite sequences, and  *)
(* what follows for the operators that recurse over them - sums and folds  *)
(* (MapThenSumSet, FoldLeft), Max and Min, Select.                         *)
(*                                                                         *)
(* The induction theorems of the library take the formula to be proved as  *)
(* an operator parameter, which the provers cannot instantiate.  Here it   *)
(* is a set, of the values it holds for, and rests on the least element of *)
(* a set of numbers (WFMin).  A recursive operator is handled the same     *)
(* way: its recursion is an equation between functions, so a function that *)
(* solves it exists by induction, and it is that of CHOOSE.                *)
(***************************************************************************)
EXTENDS Selection, Integers, FiniteSets, FiniteSetsExt, Functions, FiniteSetTheorems,
        NaturalsInduction, WellFoundedInduction, TLAPS

(***************************************************************************)
(* Induction.                                                              *)
(***************************************************************************)

(* over the natural numbers *)
LEMMA NatSet ==
  ASSUME NEW S, 0 \in S, \A n \in Nat : n \in S => n + 1 \in S
  PROVE  Nat \subseteq S
<1> DEFINE T == Nat \ S
<1> SUFFICES ASSUME T # {} PROVE FALSE
  OBVIOUS
<1>1. PICK x \in T : \A y \in T : ~(<<y, x>> \in OpToRel(<, Nat))
  <2>1. IsWellFoundedOn(OpToRel(<, Nat), Nat)
    BY NatLessThanWellFounded
  <2>2. T \subseteq Nat
    OBVIOUS
  <2> QED BY <2>1, <2>2, WFMin
<1>2. \A y \in T : ~(y < x)
  BY <1>1 DEF OpToRel
<1>3. x # 0 /\ x \in Nat
  OBVIOUS
<1>4. x - 1 \in Nat /\ x - 1 < x
  BY <1>3
<1>5. x - 1 \in S
  BY <1>2, <1>4
<1> QED BY <1>4, <1>5

(* over the subsets of a finite set, adding an element at a time *)
LEMMA FiniteSubsets ==
  ASSUME NEW S, IsFiniteSet(S), NEW G, {} \in G,
         \A T \in SUBSET S : \A x \in S \ T : T \in G => T \cup {x} \in G
  PROVE  \A T \in SUBSET S : T \in G
<1> DEFINE N == {n \in Nat : \A T \in SUBSET S : Cardinality(T) = n => T \in G}
<1>1. \A T \in SUBSET S : IsFiniteSet(T) /\ Cardinality(T) \in Nat
  BY FS_Subset, FS_CardinalityType
<1>2. 0 \in N
  BY <1>1, FS_EmptySet
<1>3. ASSUME NEW n \in Nat, n \in N PROVE n + 1 \in N
  <2> SUFFICES ASSUME NEW T \in SUBSET S, Cardinality(T) = n + 1 PROVE T \in G
    OBVIOUS
  <2>0. IsFiniteSet(T)
    BY <1>1
  <2>1. T # {}
    <3>1. Cardinality({}) = 0
      BY FS_EmptySet
    <3> QED BY <3>1
  <2>2. PICK x \in T : TRUE
    BY <2>1
  <2>3. Cardinality(T \ {x}) = n
    <3>1. Cardinality(T \ {x}) = IF x \in T THEN Cardinality(T) - 1 ELSE Cardinality(T)
      BY <2>0, FS_RemoveElement
    <3> QED BY <2>2, <3>1
  <2>4. T \ {x} \in G
    BY <1>3, <2>3
  <2>5. T = (T \ {x}) \cup {x}
    BY <2>2
  <2> QED BY <2>2, <2>4, <2>5
<1>4. Nat \subseteq N
  <2> HIDE DEF N
  <2> QED BY <1>2, <1>3, NatSet
<1> QED BY <1>1, <1>4

LEMMA NoElements == ASSUME NEW E PROVE <<>> \in Seq(E) /\ Len(<<>>) = 0 /\ DOMAIN <<>> = {} /\ \A s \in Seq(E) : s \o <<>> = s
  OBVIOUS

LEMMA SeqMonotone == ASSUME NEW E, NEW F, E \subseteq F, NEW s \in Seq(E) PROVE s \in Seq(F)
<1>1. s \in [1 .. Len(s) -> F] /\ Len(s) \in Nat
  OBVIOUS
<1> QED BY <1>1

LEMMA ConcatAppend ==
  ASSUME NEW E, NEW s \in Seq(E), NEW u \in Seq(E), NEW e \in E
  PROVE  s \o Append(u, e) = Append(s \o u, e) /\ s \o u \in Seq(E)
  OBVIOUS

(* over the subsets of a finite set, taking away any one of their elements *)
LEMMA FiniteDescent ==
  ASSUME NEW S, IsFiniteSet(S), NEW G, {} \in G,
         \A T \in SUBSET S : T # {} /\ (\A x \in T : T \ {x} \in G) => T \in G
  PROVE  \A T \in SUBSET S : T \in G
<1> DEFINE N == {n \in Nat : \A T \in SUBSET S : Cardinality(T) <= n => T \in G}
<1>1. \A T \in SUBSET S : IsFiniteSet(T) /\ Cardinality(T) \in Nat
  BY FS_Subset, FS_CardinalityType
<1>2. 0 \in N
  <2> SUFFICES ASSUME NEW T \in SUBSET S, Cardinality(T) <= 0 PROVE T = {}
    OBVIOUS
  <2>1. IsFiniteSet(T) /\ Cardinality(T) = 0
    BY <1>1
  <2> QED BY <2>1, FS_EmptySet
<1>3. ASSUME NEW n \in Nat, n \in N PROVE n + 1 \in N
  <2> SUFFICES ASSUME NEW T \in SUBSET S, Cardinality(T) <= n + 1 PROVE T \in G
    OBVIOUS
  <2>1. ASSUME NEW x \in T PROVE T \ {x} \in G
    <3>1. IsFiniteSet(T) /\ Cardinality(T) \in Nat
      BY <1>1
    <3>2. Cardinality(T \ {x}) = Cardinality(T) - 1
      BY <3>1, FS_RemoveElement
    <3>3. T \ {x} \in SUBSET S /\ Cardinality(T \ {x}) <= n
      BY <3>1, <3>2
    <3> QED BY <1>3, <3>3
  <2> QED BY <2>1
<1>4. Nat \subseteq N
  <2> HIDE DEF N
  <2> QED BY <1>2, <1>3, NatSet
<1> QED BY <1>1, <1>4

LEMMA UpToCount == ASSUME NEW n \in Nat PROVE IsFiniteSet(1 .. n) /\ Cardinality(1 .. n) = n
BY FS_Interval

(* over sequences, appending an element at a time *)
LEMMA AppendInduction ==
  ASSUME NEW E, NEW G, <<>> \in G, \A s \in Seq(E) : \A e \in E : s \in G => Append(s, e) \in G
  PROVE  Seq(E) \subseteq G
<1> DEFINE N == {n \in Nat : \A s \in Seq(E) : Len(s) = n => s \in G}
<1>1. 0 \in N
  OBVIOUS
<1>2. ASSUME NEW n \in Nat, n \in N PROVE n + 1 \in N
  <2> SUFFICES ASSUME NEW s \in Seq(E), Len(s) = n + 1 PROVE s \in G
    OBVIOUS
  <2> DEFINE front == [k \in 1 .. n |-> s[k]]
  <2>1. front \in Seq(E) /\ Len(front) = n
    OBVIOUS
  <2>2. s = Append(front, s[n + 1]) /\ s[n + 1] \in E
    OBVIOUS
  <2>3. front \in G
    BY <1>2, <2>1
  <2> HIDE DEF front
  <2> QED BY <2>1, <2>2, <2>3
<1>3. Nat \subseteq N
  <2> HIDE DEF N
  <2> QED BY <1>1, <1>2, NatSet
<1> QED BY <1>3

(***************************************************************************)
(* Folds.  MapThenFoldSet recurses over the subsets of S and takes from    *)
(* each the element that pick chooses.                                     *)
(***************************************************************************)

(* it folds F over every subset of S, from base *)
Folds(it, S, pick, base, F) ==
  it = [T \in SUBSET S |-> IF T = {} THEN base ELSE F[<<it[T \ {pick[T]}], pick[T]>>]]

(* Whatever is picked and however it is combined, the recursion has a solution. *)
LEMMA FoldExists ==
  ASSUME NEW S, IsFiniteSet(S), NEW pick, \A T \in SUBSET S : T # {} => pick[T] \in T,
         NEW V, NEW base \in V, NEW F \in [V \X S -> V]
  PROVE  \E it \in [SUBSET S -> V] : Folds(it, S, pick, base, F)
<1> DEFINE Small(n) == {T \in SUBSET S : Cardinality(T) <= n}
           Body(it, T) == IF T = {} THEN base ELSE F[<<it[T \ {pick[T]}], pick[T]>>]
           N == {n \in Nat : \E it \in [Small(n) -> V] : it = [T \in Small(n) |-> Body(it, T)]}
<1>1. \A T \in SUBSET S : IsFiniteSet(T) /\ Cardinality(T) \in Nat
  BY FS_Subset, FS_CardinalityType
<1>0. ASSUME NEW T \in SUBSET S, T # {}
      PROVE  /\ T \ {pick[T]} \in SUBSET S /\ pick[T] \in S
             /\ Cardinality(T \ {pick[T]}) = Cardinality(T) - 1
  <2>1. pick[T] \in T
    BY <1>0
  <2>2. IsFiniteSet(T)
    BY <1>1
  <2> QED BY <2>1, <2>2, FS_RemoveElement
<1>2. 0 \in N
  <2> DEFINE it == [T \in Small(0) |-> base]
  <2>1. \A T \in Small(0) : T = {}
    <3> SUFFICES ASSUME NEW T \in Small(0) PROVE T = {}
      OBVIOUS
    <3>1. IsFiniteSet(T) /\ Cardinality(T) = 0
      BY <1>1
    <3> QED BY <3>1, FS_EmptySet
  <2>2. it = [T \in Small(0) |-> Body(it, T)]
    BY <2>1
  <2>3. it \in [Small(0) -> V]
    OBVIOUS
  <2> QED BY <2>2, <2>3
<1>3. ASSUME NEW n \in Nat, n \in N PROVE n + 1 \in N
  <2>1. PICK it \in [Small(n) -> V] : it = [T \in Small(n) |-> Body(it, T)]
    BY <1>3
  <2> DEFINE up == [T \in Small(n + 1) |-> Body(it, T)]
  <2>2. ASSUME NEW T \in Small(n + 1) PROVE up[T] = Body(up, T) /\ Body(it, T) \in V
    <3>1. CASE T = {}
      BY <3>1
    <3>2. CASE T # {}
      <4> DEFINE U == T \ {pick[T]}
      <4>1. U \in Small(n) /\ U \in Small(n + 1) /\ pick[T] \in S
        BY <1>0, <1>1, <3>2
      <4>2. up[U] = Body(it, U) /\ it[U] = Body(it, U) /\ it[U] \in V
        BY <2>1, <4>1
      <4> QED BY <3>2, <4>1, <4>2
    <3> QED BY <3>1, <3>2
  <2>3. up = [T \in Small(n + 1) |-> Body(up, T)] /\ up \in [Small(n + 1) -> V]
    <3> HIDE DEF Body, Small
    <3> QED BY <2>2
  <2>4. \E new \in [Small(n + 1) -> V] : new = [T \in Small(n + 1) |-> Body(new, T)]
    <3> HIDE DEF up, Small, Body
    <3> QED BY <2>3
  <2> HIDE DEF Small, Body
  <2> QED BY <2>4
<1>4. Nat \subseteq N
  <2> HIDE DEF N
  <2> QED BY <1>2, <1>3, NatSet
<1>5. PICK it \in [Small(Cardinality(S)) -> V] : it = [T \in Small(Cardinality(S)) |-> Body(it, T)]
  BY <1>1, <1>4
<1>6. Small(Cardinality(S)) = SUBSET S
  BY FS_Subset
<1>7. it \in [SUBSET S -> V] /\ it = [T \in SUBSET S |-> Body(it, T)]
  BY <1>5, <1>6
<1> QED BY <1>7 DEF Folds

(* FoldLeft picks the last position, so it takes those of a sequence in order. *)
LEMMA GreatestOfPrefix ==
  ASSUME NEW k \in Nat \ {0}
  PROVE  Max(1 .. k) = k /\ (1 .. k) \ {k} = 1 .. k - 1 /\ 1 .. k # {}
  BY DEF Max

(***************************************************************************)
(* Sums.  The summands are a function f; MapThenSumSet sums f over every   *)
(* subset of S.                                                            *)
(***************************************************************************)

SumsUp(it, f, S) ==
  it = [T \in SUBSET S |-> IF T = {} THEN 0 ELSE LET x == CHOOSE x \in T : TRUE IN f[x] + it[T \ {x}]]

LEMMA SumsUpExists ==
  ASSUME NEW S, IsFiniteSet(S), NEW f, \A x \in S : f[x] \in Int
  PROVE  \E it : SumsUp(it, f, S)
<1> DEFINE pick == [T \in SUBSET S |-> CHOOSE x \in T : TRUE]
           F == [p \in Int \X S |-> f[p[2]] + p[1]]
           Rec(it, T) == IF T = {} THEN 0 ELSE F[<<it[T \ {pick[T]}], pick[T]>>]
           Body(it, T) == IF T = {} THEN 0 ELSE LET x == CHOOSE x \in T : TRUE IN f[x] + it[T \ {x}]
<1>1. F \in [Int \X S -> Int]
  OBVIOUS
<1>2. \A T \in SUBSET S : T # {} => pick[T] \in T
  OBVIOUS
<1>3. PICK it \in [SUBSET S -> Int] : it = [T \in SUBSET S |-> Rec(it, T)]
  <2> HIDE DEF F, pick
  <2>1. 0 \in Int
    OBVIOUS
  <2>2. \E it \in [SUBSET S -> Int] : Folds(it, S, pick, 0, F)
    BY <1>1, <1>2, <2>1, FoldExists
  <2> QED BY <2>2 DEF Folds
<1>4. ASSUME NEW T \in SUBSET S PROVE Rec(it, T) = Body(it, T)
  <2>1. CASE T = {}
    BY <2>1
  <2>2. CASE T # {}
    <3>1. pick[T] \in S /\ T \ {pick[T]} \in SUBSET S /\ pick[T] = CHOOSE x \in T : TRUE
      BY <1>2, <2>2
    <3>2. F[<<it[T \ {pick[T]}], pick[T]>>] = f[pick[T]] + it[T \ {pick[T]}]
      <4> HIDE DEF pick
      <4> QED BY <3>1
    <3> HIDE DEF F, pick
    <3> QED BY <2>2, <3>1, <3>2
  <2> QED BY <2>1, <2>2
<1>5. it = [T \in SUBSET S |-> Body(it, T)]
  <2> HIDE DEF Rec, Body
  <2> QED BY <1>3, <1>4
<1> QED BY <1>5 DEF SumsUp

LEMMA SumsUpStep ==
  ASSUME NEW S, IsFiniteSet(S), NEW f, \A x \in S : f[x] \in Int, NEW it, SumsUp(it, f, S)
  PROVE  /\ it[{}] = 0
         /\ \A T \in SUBSET S : it[T] \in Int
         /\ \A T \in SUBSET S : \A x \in S \ T : it[T \cup {x}] = f[x] + it[T]
<1> DEFINE G == {T \in SUBSET S : it[T] \in Int /\ \A x \in T : it[T] = f[x] + it[T \ {x}]}
           N == {n \in Nat : \A T \in SUBSET S : Cardinality(T) <= n => T \in G}
<1>1. \A T \in SUBSET S : IsFiniteSet(T) /\ Cardinality(T) \in Nat
  BY FS_Subset, FS_CardinalityType
<1>2. it[{}] = 0
  BY DEF SumsUp
<1>3. 0 \in N
  <2> SUFFICES ASSUME NEW T \in SUBSET S, Cardinality(T) <= 0 PROVE T = {}
    BY <1>2
  <2>1. IsFiniteSet(T) /\ Cardinality(T) = 0
    BY <1>1
  <2> QED BY <2>1, FS_EmptySet
<1>4. ASSUME NEW n \in Nat, n \in N PROVE n + 1 \in N
  <2> SUFFICES ASSUME NEW T \in SUBSET S, Cardinality(T) = n + 1 PROVE T \in G
    <3>1. \A T \in SUBSET S : Cardinality(T) <= n + 1 => Cardinality(T) <= n \/ Cardinality(T) = n + 1
      BY <1>1
    <3> HIDE DEF G
    <3> QED BY <1>4, <3>1
  <2>0. \A U \in SUBSET T : U # T => U \in G
    <3> SUFFICES ASSUME NEW U \in SUBSET T, U # T PROVE Cardinality(U) <= n
      BY <1>4
    <3>1. IsFiniteSet(T)
      BY <1>1
    <3>2. Cardinality(U) <= Cardinality(T) /\ Cardinality(U) # Cardinality(T)
      BY <3>1, FS_Subset
    <3>3. Cardinality(U) \in Nat
      BY <1>1
    <3> QED BY <3>2, <3>3
  <2> HIDE DEF N
  <2>1. T # {}
    <3>1. Cardinality({}) = 0
      BY FS_EmptySet
    <3> QED BY <3>1
  <2> DEFINE y == CHOOSE x \in T : TRUE
  <2>2. y \in T
    BY <2>1
  <2>3. it[T] = f[y] + it[T \ {y}]
    BY <2>1 DEF SumsUp
  <2> HIDE DEF y
  <2>4. it[T \ {y}] \in Int /\ it[T] \in Int
    BY <2>0, <2>2, <2>3
  <2>5. ASSUME NEW x \in T PROVE it[T] = f[x] + it[T \ {x}]
    <3>1. CASE x = y
      BY <2>3, <3>1
    <3>2. CASE x # y
      <4>0. (T \ {y}) \ {x} = (T \ {x}) \ {y}
        OBVIOUS
      <4>1. it[T \ {y}] = f[x] + it[(T \ {x}) \ {y}]
        BY <2>0, <2>2, <3>2, <4>0
      <4>2. it[T \ {x}] = f[y] + it[(T \ {x}) \ {y}]
        BY <2>0, <2>2, <3>2
      <4>3. it[(T \ {x}) \ {y}] \in Int
        BY <2>0, <2>2
      <4>4. f[x] \in Int /\ f[y] \in Int
        BY <2>2
      <4>5. \A a, b, c \in Int : a + (b + c) = b + (a + c)
        OBVIOUS
      <4> QED BY <2>3, <4>1, <4>2, <4>3, <4>4, <4>5
    <3> QED BY <3>1, <3>2
  <2> QED BY <2>4, <2>5
<1>5. Nat \subseteq N
  <2> HIDE DEF N
  <2> QED BY <1>3, <1>4, NatSet
<1>6. \A T \in SUBSET S : T \in G
  BY <1>1, <1>5
<1>7. ASSUME NEW T \in SUBSET S, NEW x \in S \ T PROVE it[T \cup {x}] = f[x] + it[T]
  <2>1. (T \cup {x}) \ {x} = T /\ T \cup {x} \in SUBSET S
    OBVIOUS
  <2> QED BY <1>6, <2>1
<1> QED BY <1>2, <1>6, <1>7

(* the sum of f over S *)
Sigma(f, S) == MapThenSumSet(LAMBDA x : f[x], S)

LEMMA SigmaSumsUp ==
  ASSUME NEW S, IsFiniteSet(S), NEW f, \A x \in S : f[x] \in Int
  PROVE  \E it : SumsUp(it, f, S) /\ Sigma(f, S) = it[S]
<1> DEFINE it == CHOOSE it : SumsUp(it, f, S)
<1>1. SumsUp(it, f, S)
  BY SumsUpExists
<1>2. Sigma(f, S) = it[S]
  BY DEF Sigma, MapThenSumSet, MapThenFoldSet, SumsUp
<1> QED BY <1>1, <1>2

(* The sum over a subset is the same, whatever set it is taken from. *)
LEMMA SumsUpOnce ==
  ASSUME NEW S, IsFiniteSet(S), NEW f, \A x \in S : f[x] \in Int, NEW it, SumsUp(it, f, S),
         NEW R \in SUBSET S, NEW of, SumsUp(of, f, R)
  PROVE  of[R] = it[R]
<1> DEFINE G == {T \in SUBSET R : of[T] = it[T]}
<1>1. IsFiniteSet(R)
  BY FS_Subset
<1>2. /\ of[{}] = 0 /\ it[{}] = 0
      /\ \A T \in SUBSET R : \A x \in R \ T : of[T \cup {x}] = f[x] + of[T] /\ it[T \cup {x}] = f[x] + it[T]
  BY <1>1, SumsUpStep
<1>3. {} \in G
  BY <1>2
<1>4. \A T \in SUBSET R : \A x \in R \ T : T \in G => T \cup {x} \in G
  BY <1>2
<1>5. R \in G
  <2> HIDE DEF G
  <2> QED BY <1>1, <1>3, <1>4, FiniteSubsets
<1> QED BY <1>5

LEMMA SigmaIs ==
  ASSUME NEW S, IsFiniteSet(S), NEW f, \A x \in S : f[x] \in Int, NEW it, SumsUp(it, f, S)
  PROVE  \A R \in SUBSET S : Sigma(f, R) = it[R]
<1> SUFFICES ASSUME NEW R \in SUBSET S PROVE Sigma(f, R) = it[R]
  OBVIOUS
<1>1. IsFiniteSet(R)
  BY FS_Subset
<1>2. PICK of : SumsUp(of, f, R) /\ Sigma(f, R) = of[R]
  BY <1>1, SigmaSumsUp
<1> QED BY <1>2, SumsUpOnce

(* A sum is that of its summands taken one by one, in any order. *)
LEMMA SigmaStep ==
  ASSUME NEW S, IsFiniteSet(S), NEW f, \A x \in S : f[x] \in Int
  PROVE  /\ Sigma(f, {}) = 0
         /\ \A T \in SUBSET S : Sigma(f, T) \in Int
         /\ \A T \in SUBSET S : \A x \in S \ T : Sigma(f, T \cup {x}) = f[x] + Sigma(f, T)
<1>1. PICK it : SumsUp(it, f, S)
  BY SumsUpExists
<1>2. \A R \in SUBSET S : Sigma(f, R) = it[R]
  BY <1>1, SigmaIs
<1>3. /\ it[{}] = 0
      /\ \A T \in SUBSET S : it[T] \in Int
      /\ \A T \in SUBSET S : \A x \in S \ T : it[T \cup {x}] = f[x] + it[T]
  BY <1>1, SumsUpStep
<1>4. ASSUME NEW T \in SUBSET S, NEW x \in S \ T PROVE Sigma(f, T \cup {x}) = f[x] + Sigma(f, T)
  <2>1. T \cup {x} \in SUBSET S
    OBVIOUS
  <2> QED BY <1>2, <1>3, <2>1
<1> QED BY <1>2, <1>3, <1>4

(* It grows with its summands, and by as much as they do. *)
LEMMA SigmaMonotone ==
  ASSUME NEW S, IsFiniteSet(S), NEW f, NEW g, \A x \in S : f[x] \in Int /\ g[x] \in Int /\ f[x] <= g[x]
  PROVE  Sigma(f, S) <= Sigma(g, S)
<1> DEFINE G == {T \in SUBSET S : Sigma(f, T) <= Sigma(g, T)}
<1>1. {} \in G
  BY SigmaStep
<1>2. ASSUME NEW T \in SUBSET S, NEW x \in S \ T, T \in G PROVE T \cup {x} \in G
  <2>1. Sigma(f, T \cup {x}) = f[x] + Sigma(f, T) /\ Sigma(f, T) \in Int
    BY SigmaStep
  <2>2. Sigma(g, T \cup {x}) = g[x] + Sigma(g, T) /\ Sigma(g, T) \in Int
    BY SigmaStep
  <2>3. \A a, b, c, d \in Int : a <= b /\ c <= d => a + c <= b + d
    OBVIOUS
  <2> QED BY <1>2, <2>1, <2>2, <2>3
<1>3. S \in G
  <2> HIDE DEF G
  <2> QED BY <1>1, <1>2, FiniteSubsets
<1> QED BY <1>3

LEMMA SigmaOfSum ==
  ASSUME NEW S, IsFiniteSet(S), NEW f, NEW g, NEW h,
         \A x \in S : f[x] \in Int /\ g[x] \in Int /\ h[x] = f[x] + g[x]
  PROVE  Sigma(h, S) = Sigma(f, S) + Sigma(g, S)
<1> DEFINE G == {T \in SUBSET S : Sigma(h, T) = Sigma(f, T) + Sigma(g, T)}
<1>0. \A x \in S : h[x] \in Int
  OBVIOUS
<1>1. {} \in G
  BY <1>0, SigmaStep
<1>2. ASSUME NEW T \in SUBSET S, NEW x \in S \ T, T \in G PROVE T \cup {x} \in G
  <2>1. Sigma(f, T \cup {x}) = f[x] + Sigma(f, T) /\ Sigma(f, T) \in Int
    BY SigmaStep
  <2>2. Sigma(g, T \cup {x}) = g[x] + Sigma(g, T) /\ Sigma(g, T) \in Int
    BY SigmaStep
  <2>3. Sigma(h, T \cup {x}) = h[x] + Sigma(h, T)
    BY <1>0, SigmaStep
  <2>4. \A a, b, c, d \in Int : (a + b) + (c + d) = (a + c) + (b + d)
    OBVIOUS
  <2> QED BY <1>2, <2>1, <2>2, <2>3, <2>4
<1>3. S \in G
  <2> HIDE DEF G
  <2> QED BY <1>1, <1>2, FiniteSubsets
<1> QED BY <1>3

LEMMA SigmaChange ==
  ASSUME NEW S, IsFiniteSet(S), NEW f, NEW g, NEW y \in S,
         \A x \in S : f[x] \in Int /\ g[x] \in Int, \A x \in S \ {y} : g[x] = f[x]
  PROVE  Sigma(g, S) = Sigma(f, S) + (g[y] - f[y])
<1> DEFINE G == {T \in SUBSET (S \ {y}) : Sigma(g, T) = Sigma(f, T)}
           R == S \ {y}
<1>1. {} \in G
  BY SigmaStep
<1>2. ASSUME NEW T \in SUBSET R, NEW x \in R \ T, T \in G PROVE T \cup {x} \in G
  <2>1. Sigma(f, T \cup {x}) = f[x] + Sigma(f, T)
    BY SigmaStep
  <2>2. Sigma(g, T \cup {x}) = g[x] + Sigma(g, T)
    BY SigmaStep
  <2> QED BY <1>2, <2>1, <2>2
<1>3. R \in G
  <2>1. IsFiniteSet(R)
    BY FS_Subset
  <2> HIDE DEF G, R
  <2> QED BY <1>1, <1>2, <2>1, FiniteSubsets
<1>4. R \in SUBSET S /\ y \in S \ R /\ R \cup {y} = S
  OBVIOUS
<1>5. Sigma(f, R \cup {y}) = f[y] + Sigma(f, R) /\ Sigma(g, R \cup {y}) = g[y] + Sigma(g, R) /\ Sigma(f, R) \in Int
  BY <1>4, SigmaStep
<1> HIDE DEF R
<1>6. Sigma(f, S) = f[y] + Sigma(f, R) /\ Sigma(g, S) = g[y] + Sigma(f, R)
  BY <1>3, <1>4, <1>5
<1>7. f[y] \in Int /\ g[y] \in Int /\ Sigma(f, R) \in Int
  BY <1>5
<1>8. \A a, b, c \in Int : b + c = (a + c) + (b - a)
  OBVIOUS
<1> QED BY <1>6, <1>7, <1>8

(* It is at most the number of summands that are not zero times the greatest. *)
LEMMA SigmaAtMost ==
  ASSUME NEW S, IsFiniteSet(S), NEW f, NEW B \in SUBSET S, NEW most \in Nat,
         \A x \in S : f[x] \in Nat, \A x \in B : f[x] <= most, \A x \in S \ B : f[x] = 0
  PROVE  Sigma(f, S) <= Cardinality(B) * most
<1> DEFINE G == {T \in SUBSET S : Sigma(f, T) <= Cardinality(T \cap B) * most}
<1>0. \A x \in S : f[x] \in Int
  OBVIOUS
<1>1. {} \in G
  <2>1. {} \cap B = {} /\ Cardinality({}) = 0 /\ 0 * most = 0
    BY FS_EmptySet
  <2> QED BY <1>0, <2>1, SigmaStep
<1>2. ASSUME NEW T \in SUBSET S, NEW x \in S \ T, T \in G PROVE T \cup {x} \in G
  <2>1. Sigma(f, T \cup {x}) = f[x] + Sigma(f, T) /\ Sigma(f, T) \in Int
    BY <1>0, SigmaStep
  <2>2. IsFiniteSet(T \cap B) /\ Cardinality(T \cap B) \in Nat
    BY FS_Subset, FS_CardinalityType
  <2>3. CASE x \in B
    <3>1. (T \cup {x}) \cap B = (T \cap B) \cup {x} /\ x \notin T \cap B
      BY <2>3
    <3>2. Cardinality((T \cup {x}) \cap B) = Cardinality(T \cap B) + 1
      BY <2>2, <3>1, FS_AddElement
    <3>3. \A n \in Nat : (n + 1) * most = n * most + most /\ n * most \in Nat
      OBVIOUS
    <3>4. \A a, b, c, d \in Int : a <= b /\ c <= d => a + c <= d + b
      OBVIOUS
    <3> QED BY <1>2, <2>1, <2>2, <2>3, <3>2, <3>3, <3>4
  <2>4. CASE x \notin B
    <3>1. (T \cup {x}) \cap B = T \cap B
      BY <2>4
    <3>2. f[x] = 0
      BY <2>4
    <3>3. Sigma(f, T \cup {x}) = Sigma(f, T)
      BY <2>1, <3>2
    <3> QED BY <1>2, <3>1, <3>3
  <2> QED BY <2>3, <2>4
<1>3. S \in G
  <2> HIDE DEF G
  <2> QED BY <1>1, <1>2, FiniteSubsets
<1>4. S \cap B = B
  OBVIOUS
<1> QED BY <1>3, <1>4

LEMMA SigmaNatural ==
  ASSUME NEW S, IsFiniteSet(S), NEW f, \A x \in S : f[x] \in Nat PROVE Sigma(f, S) \in Nat
<1> DEFINE zero == [x \in S |-> 0]
<1>1. Sigma(zero, S) = Sigma(zero, S) + Sigma(zero, S)
  BY SigmaOfSum
<1>2. Sigma(zero, S) \in Int /\ Sigma(f, S) \in Int
  BY SigmaStep
<1>3. Sigma(zero, S) <= Sigma(f, S)
  BY SigmaMonotone
<1> HIDE DEF zero
<1> QED BY <1>1, <1>2, <1>3

(* SumFunction of Functions is such a sum. *)
LEMMA SumIs == ASSUME NEW f PROVE SumFunction(f) = Sigma(f, DOMAIN f)
BY DEF SumFunction, SumFunctionOnSet, FoldFunctionOnSet, Sigma, MapThenSumSet

(***************************************************************************)
(* Max and Min.                                                            *)
(***************************************************************************)

(* A finite set of numbers that is not empty has a greatest and a least. *)
LEMMA FiniteExtremes ==
  ASSUME NEW S, S \subseteq Int, S # {}, IsFiniteSet(S)
  PROVE  /\ Max(S) \in S /\ \A y \in S : y <= Max(S)
         /\ Min(S) \in S /\ \A y \in S : Min(S) <= y
<1> DEFINE Greatest(T, m) == m \in T /\ \A y \in T : m >= y
           Least(T, m) == m \in T /\ \A y \in T : m <= y
           G == {T \in SUBSET S : T = {} \/ ((\E m : Greatest(T, m)) /\ \E m : Least(T, m))}
<1>1. {} \in G
  OBVIOUS
<1>2. ASSUME NEW T \in SUBSET S, NEW x \in S \ T, T \in G PROVE T \cup {x} \in G
  <2>1. CASE T = {}
    <3>1. Greatest(T \cup {x}, x) /\ Least(T \cup {x}, x)
      BY <2>1
    <3> QED BY <3>1
  <2>2. CASE T # {}
    <3>1. PICK m : Greatest(T, m)
      BY <1>2, <2>2
    <3>2. PICK n : Least(T, n)
      BY <1>2, <2>2
    <3>3. Greatest(T \cup {x}, IF x >= m THEN x ELSE m)
      BY <3>1
    <3>4. Least(T \cup {x}, IF x <= n THEN x ELSE n)
      BY <3>2
    <3> HIDE DEF Greatest, Least
    <3> QED BY <3>3, <3>4
  <2> QED BY <2>1, <2>2
<1>3. S \in G
  <2> HIDE DEF G
  <2> QED BY <1>1, <1>2, FiniteSubsets
<1>4. Greatest(S, Max(S)) /\ Least(S, Min(S))
  BY <1>3 DEF Max, Min
<1> QED BY <1>4

(***************************************************************************)
(* Select.                                                                 *)
(***************************************************************************)

(* the function Select computes, for the prefixes of seq *)
Selects(upTo, seq, S) ==
  upTo = [n \in 0 .. Len(seq) |->
            IF n = 0 THEN <<>>
            ELSE IF seq[n] \in S THEN Append(upTo[n - 1], seq[n]) ELSE upTo[n - 1]]

LEMMA SelectsExists ==
  ASSUME NEW E, NEW seq \in Seq(E), NEW S
  PROVE  \E upTo : Selects(upTo, seq, S)
<1> DEFINE Body(f, n) == IF n = 0 THEN <<>>
                         ELSE IF seq[n] \in S THEN Append(f[n - 1], seq[n]) ELSE f[n - 1]
           N == {n \in Nat : \E f : f = [k \in 0 .. n |-> Body(f, k)]}
<1>1. 0 \in N
  <2> DEFINE f == [k \in 0 .. 0 |-> <<>>]
  <2>1. f = [k \in 0 .. 0 |-> Body(f, k)]
    OBVIOUS
  <2> QED BY <2>1
<1>2. ASSUME NEW n \in Nat, n \in N PROVE n + 1 \in N
  <2>1. PICK f : f = [k \in 0 .. n |-> Body(f, k)]
    BY <1>2
  <2> DEFINE up == [k \in 0 .. n + 1 |-> Body(f, k)]
  <2>2. ASSUME NEW k \in 0 .. n + 1 PROVE up[k] = Body(up, k)
    <3>1. CASE k = 0
      BY <3>1
    <3>2. CASE k # 0
      <4>1. k - 1 \in 0 .. n /\ k - 1 \in 0 .. n + 1
        BY <3>2
      <4>2. up[k - 1] = Body(f, k - 1) /\ f[k - 1] = Body(f, k - 1)
        BY <2>1, <4>1
      <4>3. up[k - 1] = f[k - 1]
        BY <4>2
      <4> HIDE DEF up
      <4>4. Body(f, k) = Body(up, k)
        BY <3>2, <4>3
      <4> QED BY <4>4 DEF up
    <3> QED BY <3>1, <3>2
  <2>3. up = [k \in 0 .. n + 1 |-> Body(up, k)]
    <3> HIDE DEF Body
    <3> QED BY <2>2
  <2>4. \E new : new = [k \in 0 .. n + 1 |-> Body(new, k)]
    <3> HIDE DEF up, Body
    <3> QED BY <2>3
  <2> HIDE DEF Body
  <2> QED BY <2>4
<1>3. Nat \subseteq N
  <2> HIDE DEF N
  <2> QED BY <1>1, <1>2, NatSet
<1>4. Len(seq) \in Nat
  OBVIOUS
<1>5. PICK f : f = [k \in 0 .. Len(seq) |-> Body(f, k)]
  BY <1>3, <1>4
<1> QED BY <1>5 DEF Selects

LEMMA SelectIs ==
  ASSUME NEW E, NEW seq \in Seq(E), NEW S
  PROVE  \E upTo : Selects(upTo, seq, S) /\ Select(seq, S) = upTo[Len(seq)]
<1> DEFINE upTo == CHOOSE f : Selects(f, seq, S)
<1>1. Selects(upTo, seq, S)
  BY SelectsExists
<1>2. Select(seq, S) = upTo[Len(seq)]
  BY DEF Select, Selects
<1> QED BY <1>1, <1>2

(* One element at a time. *)
LEMMA SelectAppend ==
  ASSUME NEW E, NEW seq \in Seq(E), NEW e \in E, NEW S
  PROVE  Select(Append(seq, e), S) = IF e \in S THEN Append(Select(seq, S), e) ELSE Select(seq, S)
<1> DEFINE more == Append(seq, e)
<1>0. more \in Seq(E) /\ Len(more) = Len(seq) + 1 /\ more[Len(seq) + 1] = e
      /\ Len(seq) \in Nat /\ \A n \in 1 .. Len(seq) : more[n] = seq[n]
  OBVIOUS
<1> HIDE DEF more
<1>1. PICK f : Selects(f, seq, S) /\ Select(seq, S) = f[Len(seq)]
  BY SelectIs
<1>2. PICK g : Selects(g, more, S) /\ Select(more, S) = g[Len(more)]
  BY <1>0, SelectIs
<1> DEFINE N == {n \in Nat : n <= Len(seq) => g[n] = f[n]}
<1>3. 0 \in N
  BY <1>0, <1>1, <1>2 DEF Selects
<1>4. ASSUME NEW n \in Nat, n \in N PROVE n + 1 \in N
  <2> SUFFICES ASSUME n + 1 <= Len(seq) PROVE g[n + 1] = f[n + 1]
    OBVIOUS
  <2>1. n + 1 \in 0 .. Len(seq) /\ n + 1 \in 0 .. Len(more) /\ n + 1 # 0 /\ (n + 1) - 1 = n /\ more[n + 1] = seq[n + 1] /\ g[n] = f[n]
    BY <1>0, <1>4
  <2>2. f[n + 1] = IF seq[n + 1] \in S THEN Append(f[n], seq[n + 1]) ELSE f[n]
    BY <1>1, <2>1 DEF Selects
  <2>3. g[n + 1] = IF more[n + 1] \in S THEN Append(g[n], more[n + 1]) ELSE g[n]
    BY <1>2, <2>1 DEF Selects
  <2> QED BY <2>1, <2>2, <2>3
<1>5. Nat \subseteq N
  <2> HIDE DEF N
  <2> QED BY <1>3, <1>4, NatSet
<1>6. g[Len(seq)] = f[Len(seq)]
  BY <1>0, <1>5
<1>7. g[Len(seq) + 1] = IF e \in S THEN Append(g[Len(seq)], e) ELSE g[Len(seq)]
  <2>1. Len(seq) + 1 \in 0 .. Len(more) /\ Len(seq) + 1 # 0 /\ (Len(seq) + 1) - 1 = Len(seq)
    BY <1>0
  <2> QED BY <1>0, <1>2, <2>1 DEF Selects
<1> QED BY <1>0, <1>1, <1>2, <1>6, <1>7 DEF more

LEMMA SelectEmpty == \A S : Select(<<>>, S) = <<>>
<1> SUFFICES ASSUME NEW S PROVE Select(<<>>, S) = <<>>
  OBVIOUS
<1>1. <<>> \in Seq({}) /\ Len(<<>>) = 0
  OBVIOUS
<1>2. PICK f : Selects(f, <<>>, S) /\ Select(<<>>, S) = f[0]
  BY <1>1, SelectIs
<1> QED BY <1>1, <1>2 DEF Selects

LEMMA SelectType ==
  ASSUME NEW E, NEW S, NEW seq \in Seq(E)
  PROVE  Select(seq, S) \in Seq(E \cap S)
<1> DEFINE G == {s \in Seq(E) : Select(s, S) \in Seq(E \cap S)}
<1>1. <<>> \in G
  BY NoElements, SelectEmpty
<1>2. ASSUME NEW s \in Seq(E), NEW e \in E, s \in G PROVE Append(s, e) \in G
  <2>1. Select(Append(s, e), S) = IF e \in S THEN Append(Select(s, S), e) ELSE Select(s, S)
    BY SelectAppend
  <2>2. Select(s, S) \in Seq(E \cap S)
    BY <1>2
  <2>3. e \in S => Append(Select(s, S), e) \in Seq(E \cap S)
    BY <2>2
  <2>4. Append(s, e) \in Seq(E)
    OBVIOUS
  <2>5. Select(Append(s, e), S) \in Seq(E \cap S)
    BY <2>1, <2>2, <2>3
  <2> QED BY <2>4, <2>5
<1>3. Seq(E) \subseteq G
  <2> HIDE DEF G
  <2> QED BY <1>1, <1>2, AppendInduction
<1> QED BY <1>3

LEMMA SelectSeqOf == ASSUME NEW E, NEW S, NEW seq \in Seq(E) PROVE Select(seq, S) \in Seq(E)
<1>1. Select(seq, S) \in Seq(E \cap S)
  BY SelectType
<1> QED BY <1>1, SeqMonotone

(* Of two sequences, one after the other. *)
LEMMA SelectConcat ==
  ASSUME NEW E, NEW S, NEW s \in Seq(E), NEW t \in Seq(E)
  PROVE  Select(s \o t, S) = Select(s, S) \o Select(t, S)
<1> DEFINE G == {u \in Seq(E) : Select(s \o u, S) = Select(s, S) \o Select(u, S)}
<1>1. <<>> \in G
  BY NoElements, SelectEmpty, SelectSeqOf
<1>2. ASSUME NEW u \in Seq(E), NEW e \in E, u \in G PROVE Append(u, e) \in G
  <2>1. s \o Append(u, e) = Append(s \o u, e) /\ s \o u \in Seq(E)
    BY ConcatAppend
  <2>2. Select(s, S) \in Seq(E) /\ Select(u, S) \in Seq(E)
    BY SelectSeqOf
  <2>3. Select(s \o Append(u, e), S) = IF e \in S THEN Append(Select(s \o u, S), e) ELSE Select(s \o u, S)
    BY <2>1, SelectAppend
  <2>4. Select(Append(u, e), S) = IF e \in S THEN Append(Select(u, S), e) ELSE Select(u, S)
    BY SelectAppend
  <2>5. Append(Select(s, S) \o Select(u, S), e) = Select(s, S) \o Append(Select(u, S), e)
    <3>1. \A a \in Seq(E), b \in Seq(E) : a \o Append(b, e) = Append(a \o b, e)
      BY ConcatAppend
    <3> QED BY <2>2, <3>1
  <2>6. Select(s \o Append(u, e), S) = Select(s, S) \o Select(Append(u, e), S)
    BY <1>2, <2>3, <2>4, <2>5
  <2> QED BY <2>6
<1>3. Seq(E) \subseteq G
  <2> HIDE DEF G
  <2> QED BY <1>1, <1>2, AppendInduction
<1> QED BY <1>3

(* It keeps as many elements as qualify, and exactly those. *)
LEMMA SelectLength ==
  ASSUME NEW E, NEW S, NEW seq \in Seq(E)
  PROVE  /\ IsFiniteSet({n \in DOMAIN seq : seq[n] \in S})
         /\ Len(Select(seq, S)) = Cardinality({n \in DOMAIN seq : seq[n] \in S})
<1> DEFINE At(s) == {n \in DOMAIN s : s[n] \in S}
           G == {s \in Seq(E) : IsFiniteSet(At(s)) /\ Len(Select(s, S)) = Cardinality(At(s))}
<1>1. <<>> \in G
  <2>1. At(<<>>) = {}
    OBVIOUS
  <2> QED BY <2>1, NoElements, SelectEmpty, FS_EmptySet
<1>2. ASSUME NEW s \in Seq(E), NEW e \in E, s \in G PROVE Append(s, e) \in G
  <2>1. Select(s, S) \in Seq(E) /\ Append(s, e) \in Seq(E)
    BY SelectSeqOf
  <2>2. Select(Append(s, e), S) = IF e \in S THEN Append(Select(s, S), e) ELSE Select(s, S)
    BY SelectAppend
  <2>3. CASE e \in S
    <3>1. At(Append(s, e)) = At(s) \cup {Len(s) + 1} /\ Len(s) + 1 \notin At(s)
      BY <2>3
    <3>0. IsFiniteSet(At(s))
      BY <1>2
    <3>2. IsFiniteSet(At(Append(s, e))) /\ Cardinality(At(Append(s, e))) = Cardinality(At(s)) + 1
      <4> HIDE DEF At
      <4> QED BY <3>0, <3>1, FS_AddElement
    <3>3. Len(Append(Select(s, S), e)) = Len(Select(s, S)) + 1
      BY <2>1
    <3> QED BY <1>2, <2>1, <2>2, <2>3, <3>2, <3>3
  <2>4. CASE e \notin S
    <3>1. At(Append(s, e)) = At(s)
      BY <2>4
    <3> QED BY <1>2, <2>1, <2>2, <2>4, <3>1
  <2> QED BY <2>3, <2>4
<1>3. Seq(E) \subseteq G
  <2> HIDE DEF G
  <2> QED BY <1>1, <1>2, AppendInduction
<1> QED BY <1>3

LEMMA SelectRange ==
  ASSUME NEW E, NEW S, NEW seq \in Seq(E)
  PROVE  /\ \A n \in DOMAIN Select(seq, S) : Select(seq, S)[n] \in S /\ \E m \in DOMAIN seq : seq[m] = Select(seq, S)[n]
         /\ \A m \in DOMAIN seq : seq[m] \in S => \E n \in DOMAIN Select(seq, S) : Select(seq, S)[n] = seq[m]
<1> DEFINE Of(s) == {e \in E : \E n \in DOMAIN s : s[n] = e}
           G == {s \in Seq(E) : Of(Select(s, S)) = Of(s) \cap S}
<1>1. <<>> \in G
  BY SelectEmpty, NoElements
<1>2. ASSUME NEW s \in Seq(E), NEW e \in E, s \in G PROVE Append(s, e) \in G
  <2>1. Select(s, S) \in Seq(E) /\ Append(s, e) \in Seq(E)
    BY SelectSeqOf
  <2>2. Select(Append(s, e), S) = IF e \in S THEN Append(Select(s, S), e) ELSE Select(s, S)
    BY SelectAppend
  <2>3. \A u \in Seq(E) : Of(Append(u, e)) = Of(u) \cup {e}
    <3> SUFFICES ASSUME NEW u \in Seq(E) PROVE Of(Append(u, e)) = Of(u) \cup {e}
      OBVIOUS
    <3>1. DOMAIN Append(u, e) = DOMAIN u \cup {Len(u) + 1} /\ Append(u, e)[Len(u) + 1] = e
          /\ \A n \in DOMAIN u : Append(u, e)[n] = u[n]
      OBVIOUS
    <3> QED BY <3>1
  <2>4. Of(s) \cap S = Of(Select(s, S))
    BY <1>2
  <2> HIDE DEF Of
  <2>5. Of(Select(Append(s, e), S)) = Of(Append(s, e)) \cap S
    BY <2>1, <2>2, <2>3, <2>4
  <2> QED BY <2>1, <2>5
<1>3. Seq(E) \subseteq G
  <2> HIDE DEF G
  <2> QED BY <1>1, <1>2, AppendInduction
<1>4. Of(Select(seq, S)) = Of(seq) \cap S
  BY <1>3
<1>5. Select(seq, S) \in Seq(E)
  BY SelectSeqOf
<1> QED BY <1>4, <1>5

(* All of a sequence, or nothing of it. *)
LEMMA SelectAll == ASSUME NEW E, NEW S, E \subseteq S, NEW seq \in Seq(E) PROVE Select(seq, S) = seq
<1> DEFINE G == {s \in Seq(E) : Select(s, S) = s}
<1>1. <<>> \in G
  BY NoElements, SelectEmpty
<1>2. ASSUME NEW s \in Seq(E), NEW e \in E, s \in G PROVE Append(s, e) \in G
  <2>1. Select(Append(s, e), S) = IF e \in S THEN Append(Select(s, S), e) ELSE Select(s, S)
    BY SelectAppend
  <2> QED BY <1>2, <2>1
<1>3. Seq(E) \subseteq G
  <2> HIDE DEF G
  <2> QED BY <1>1, <1>2, AppendInduction
<1> QED BY <1>3

LEMMA SelectNone == ASSUME NEW E, NEW S, E \cap S = {}, NEW seq \in Seq(E) PROVE Select(seq, S) = <<>>
<1>1. Select(seq, S) \in Seq(E \cap S)
  BY SelectType
<1> QED BY <1>1

(* Which of its elements are in S is all that matters. *)
LEMMA SelectSame ==
  ASSUME NEW E, NEW S, NEW T, \A e \in E : e \in S <=> e \in T, NEW seq \in Seq(E)
  PROVE  Select(seq, S) = Select(seq, T)
<1> DEFINE G == {s \in Seq(E) : Select(s, S) = Select(s, T)}
<1>1. <<>> \in G
  BY NoElements, SelectEmpty
<1>2. ASSUME NEW s \in Seq(E), NEW e \in E, s \in G PROVE Append(s, e) \in G
  <2>1. /\ Select(Append(s, e), S) = IF e \in S THEN Append(Select(s, S), e) ELSE Select(s, S)
        /\ Select(Append(s, e), T) = IF e \in T THEN Append(Select(s, T), e) ELSE Select(s, T)
    BY SelectAppend
  <2>2. Select(s, S) = Select(s, T) /\ Append(s, e) \in Seq(E)
    BY <1>2
  <2>3. e \in S <=> e \in T
    OBVIOUS
  <2>4. Select(Append(s, e), S) = Select(Append(s, e), T)
    <3>1. CASE e \in S
      BY <2>1, <2>2, <2>3, <3>1
    <3>2. CASE e \notin S
      BY <2>1, <2>2, <2>3, <3>2
    <3> QED BY <3>1, <3>2
  <2> QED BY <2>2, <2>4
<1>3. Seq(E) \subseteq G
  <2> HIDE DEF G
  <2> QED BY <1>1, <1>2, AppendInduction
<1> QED BY <1>3

(* The values of a function on a finite set are finitely many. *)
LEMMA FiniteImage ==
  ASSUME NEW S, IsFiniteSet(S), NEW f
  PROVE  IsFiniteSet({f[x] : x \in S})
<1> DEFINE Image(T) == {f[x] : x \in T}
           G == {T \in SUBSET S : IsFiniteSet(Image(T))}
<1>1. {} \in G
  <2>1. Image({}) = {}
    OBVIOUS
  <2>2. IsFiniteSet(Image({}))
    BY <2>1, FS_EmptySet
  <2> QED BY <2>2
<1>2. ASSUME NEW T \in SUBSET S, NEW x \in S \ T, T \in G PROVE T \cup {x} \in G
  <2>1. Image(T \cup {x}) = Image(T) \cup {f[x]}
    OBVIOUS
  <2>2. IsFiniteSet(Image(T))
    BY <1>2
  <2> HIDE DEF Image
  <2>3. IsFiniteSet(Image(T) \cup {f[x]})
    BY <2>2, FS_AddElement
  <2>4. IsFiniteSet(Image(T \cup {x}))
    BY <2>1, <2>3
  <2> QED BY <2>4
<1>3. \A T \in SUBSET S : T \in G
  <2> HIDE DEF G
  <2> QED BY <1>1, <1>2, FiniteSubsets
<1> QED BY <1>3

(* A product of positive numbers is positive. *)
LEMMA PositiveProduct == \A a, b \in Nat : a * b \in Nat /\ (a > 0 /\ b > 0 => a * b > 0)
OBVIOUS

(* A finite set, counted by the values of a function on it. *)
Fiber(X, key, e) == {x \in X : key[x] = e}

LEMMA CountBy ==
  ASSUME NEW S, IsFiniteSet(S), NEW X, IsFiniteSet(X), NEW key, \A x \in X : key[x] \in S,
         NEW f, \A e \in S : f[e] = Cardinality(Fiber(X, key, e))
  PROVE  Sigma(f, S) = Cardinality(X)
<1> DEFINE Of(T) == {x \in X : key[x] \in T}
           Only(e) == {x \in X : key[x] = e}
           G == {T \in SUBSET S : Sigma(f, T) = Cardinality(Of(T))}
<1>1. \A T : IsFiniteSet(Of(T)) /\ Cardinality(Of(T)) \in Nat
  BY FS_Subset, FS_CardinalityType
<1>2. \A e : IsFiniteSet(Only(e)) /\ Cardinality(Only(e)) \in Nat
  BY FS_Subset, FS_CardinalityType
<1>3. \A e \in S : f[e] \in Int
  <2>1. \A e \in S : f[e] = Cardinality(Only(e))
    BY DEF Fiber
  <2> HIDE DEF Only
  <2> QED BY <1>2, <2>1
<1>4. {} \in G
  <2>1. Of({}) = {}
    OBVIOUS
  <2>2. Cardinality(Of({})) = 0
    BY <2>1, FS_EmptySet
  <2> HIDE DEF Of
  <2> QED BY <1>3, <2>2, SigmaStep
<1>5. ASSUME NEW T \in SUBSET S, NEW e \in S \ T, T \in G PROVE T \cup {e} \in G
  <2>1. Sigma(f, T \cup {e}) = f[e] + Sigma(f, T)
    BY <1>3, SigmaStep
  <2>2. Of(T \cup {e}) = Of(T) \cup Only(e) /\ Of(T) \cap Only(e) = {}
    OBVIOUS
  <2>3. Sigma(f, T) = Cardinality(Of(T)) /\ f[e] = Cardinality(Only(e))
    BY <1>5 DEF Fiber
  <2>4. T \cup {e} \in SUBSET S
    OBVIOUS
  <2> HIDE DEF Of, Only
  <2>5. Cardinality(Of(T) \cup Only(e)) = Cardinality(Of(T)) + Cardinality(Only(e)) - Cardinality(Of(T) \cap Only(e))
    BY <1>1, <1>2, FS_Union
  <2>6. Cardinality(Of(T)) \in Nat /\ Cardinality(Only(e)) \in Nat /\ Cardinality(Of(T) \cap Only(e)) = 0
    BY <1>1, <1>2, <2>2, FS_EmptySet
  <2>7. Cardinality(Of(T \cup {e})) = Cardinality(Only(e)) + Cardinality(Of(T))
    <3> DEFINE a == Cardinality(Of(T))
               b == Cardinality(Only(e))
               c == Cardinality(Of(T) \cap Only(e))
    <3>1. Cardinality(Of(T \cup {e})) = a + b - c
      BY <2>2, <2>5
    <3>2. a \in Nat /\ b \in Nat /\ c = 0
      BY <2>6
    <3> HIDE DEF a, b, c
    <3>3. a + b - c = b + a
      BY <3>2
    <3> QED BY <3>1, <3>3 DEF a, b
  <2> QED BY <2>1, <2>3, <2>4, <2>7 DEF G
<1>6. S \in G
  <2> HIDE DEF G
  <2>1. S \in SUBSET S
    OBVIOUS
  <2> QED BY <1>4, <1>5, <2>1, FiniteSubsets
<1>7. Of(S) = X
  OBVIOUS
<1> QED BY <1>6, <1>7
==============================================================================
