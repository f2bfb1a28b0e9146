----------------------------- MODULE Recursion -----------------------------
(***************************************************************************)
(* Induction without a predicate as a parameter: every non-empty set of    *)
(* numbers has a least element, and a function defined by recursion on a   *)
(* well-founded relation satisfies its equation.  The proofs about the     *)
(* recursive functions of the models rest on these.                        *)
(***************************************************************************)
EXTENDS Naturals, FiniteSets, FiniteSetTheorems, WellFoundedInduction, TLAPS

\* The numbers below n grow with n, and strict inclusion is well-founded on finite sets.
LEMMA LeastNumber ==
  ASSUME NEW T \in SUBSET Nat, T # {}
  PROVE  \E n \in T : \A m \in T : n <= m
<1> DEFINE Below(n) == {k \in Nat : k < n}
           Initials == {Below(n) : n \in T}
<1>1. Initials \subseteq FiniteSubsetsOf(Nat)
  <2>1. ASSUME NEW n \in T PROVE Below(n) \in FiniteSubsetsOf(Nat)
    <3>1. IsFiniteSet(Below(n))
      BY FS_BoundedSetOfNaturals
    <3> QED BY <3>1 DEF FiniteSubsetsOf
  <2> QED BY <2>1
<1>2. Initials # {}
  OBVIOUS
<1>3. IsWellFoundedOn(StrictSubsetOrdering(Nat), FiniteSubsetsOf(Nat))
  BY FS_StrictSubsetOrderingWellFounded
<1> HIDE DEF Initials
<1>4. PICK X \in Initials : \A Y \in Initials : ~ (<<Y, X>> \in StrictSubsetOrdering(Nat))
  BY <1>1, <1>2, <1>3, WFMin
<1>5. PICK n \in T : X = Below(n)
  BY DEF Initials
<1>6. ASSUME NEW m \in T, ~(n <= m) PROVE FALSE
  <2>1. Below(m) \in Initials
    BY DEF Initials
  <2>2. Below(m) \subseteq Below(n) /\ m \in Below(n) /\ m \notin Below(m)
    BY <1>6
  <2>3. <<Below(m), Below(n)>> \in StrictSubsetOrdering(Nat)
    BY <2>2 DEF StrictSubsetOrdering
  <2> QED BY <1>4, <1>5, <2>1, <2>3
<1> QED BY <1>6

\* R leads down from every member of S: each non-empty subset has one with nothing below.
Founded(R, S) == \A U \in SUBSET S : U # {} => \E x \in U : \A y \in U : <<y, x>> \notin R

\* The value F[x][g] depends on those of g below x only.
LooksBelow(F, R, S, T) ==
  \A x \in S : \A g, h \in [S -> T] :
    (\A y \in S : <<y, x>> \in R => g[y] = h[y]) => F[x][g] = F[x][h]

Solvable(F, S, T) == \E f \in [S -> T] : \A x \in S : f[x] = F[x][f]

\* A definition by recursion has a solution: F[x][g] is the value at x by the recursive
\* equation, which only looks at g below x.
LEMMA RecursionExists ==
  ASSUME NEW S, NEW T, NEW R, NEW F,
         T # {}, F \in [S -> [[S -> T] -> T]], Founded(R, S), LooksBelow(F, R, S, T)
  PROVE  Solvable(F, S, T)
<1> PICK default \in T : TRUE
  OBVIOUS
<1> USE DEF Founded, LooksBelow, Solvable
<1> DEFINE Closed(U) == \A x \in U : \A y \in S : <<y, x>> \in R => y \in U
           Solves(g, U) == \A x \in U : g[x] = F[x][g]
           Solved == {U \in SUBSET S : Closed(U) /\ \E g \in [S -> T] : Solves(g, U)}
           W == UNION Solved
           Of(U) == CHOOSE g \in [S -> T] : Solves(g, U)
           f == [x \in S |-> IF x \in W THEN Of(CHOOSE U \in Solved : x \in U)[x] ELSE default]
<1>1. ASSUME NEW U \in SUBSET S, NEW V \in SUBSET S, Closed(U), Closed(V),
             NEW g \in [S -> T], NEW h \in [S -> T], Solves(g, U), Solves(h, V)
      PROVE  \A x \in U \cap V : g[x] = h[x]
  <2> DEFINE D == {x \in U \cap V : g[x] # h[x]}
  <2>1. SUFFICES ASSUME D # {} PROVE FALSE
    OBVIOUS
  <2>2. PICK x \in D : \A y \in D : <<y, x>> \notin R
    <3>1. D \in SUBSET S
      OBVIOUS
    <3> QED BY <2>1, <3>1
  <2>3. \A y \in S : <<y, x>> \in R => g[y] = h[y]
    BY <1>1, <2>2
  <2>4. x \in S /\ F[x][g] = F[x][h]
    BY <2>2, <2>3
  <2> QED BY <1>1, <2>2, <2>4
<1>2. ASSUME NEW U \in Solved
      PROVE  Of(U) \in [S -> T] /\ Solves(Of(U), U) /\ U \in SUBSET S /\ Closed(U)
  <2>1. \E g \in [S -> T] : Solves(g, U)
    OBVIOUS
  <2> QED BY <2>1
<1>3. ASSUME NEW U \in Solved, NEW x \in U PROVE f[x] = Of(U)[x]
  <2> DEFINE V == CHOOSE V \in Solved : x \in V
  <2>1. V \in Solved /\ x \in V /\ x \in S /\ x \in W
    BY <1>2
  <2>2. f[x] = Of(V)[x]
    BY <2>1
  <2>3. /\ V \in SUBSET S /\ Closed(V) /\ Of(V) \in [S -> T] /\ Solves(Of(V), V)
        /\ U \in SUBSET S /\ Closed(U) /\ Of(U) \in [S -> T] /\ Solves(Of(U), U)
    BY <1>2, <2>1
  <2> HIDE DEF V, f, Solved
  <2>4. \A k \in U \cap V : Of(V)[k] = Of(U)[k]
    <3> DEFINE g == Of(V)
               h == Of(U)
    <3>1. /\ V \in SUBSET S /\ Closed(V) /\ g \in [S -> T] /\ Solves(g, V)
          /\ U \in SUBSET S /\ Closed(U) /\ h \in [S -> T] /\ Solves(h, U)
      BY <2>3
    <3> HIDE DEF g, h
    <3>2. \A k \in V \cap U : g[k] = h[k]
      BY <1>1, <3>1, SMTT(30)
    <3> QED BY <3>2 DEF g, h
  <2> QED BY <2>1, <2>2, <2>4
<1>4. f \in [S -> T]
  <2>1. ASSUME NEW x \in S PROVE f[x] \in T
    <3>1. CASE x \in W
      <4>1. PICK U \in Solved : x \in U
        BY <3>1
      <4> QED BY <4>1, <1>2, <1>3
    <3>2. CASE x \notin W
      BY <3>2
    <3> QED BY <3>1, <3>2
  <2> QED BY <2>1
<1>5. Closed(W) /\ Solves(f, W) /\ W \in SUBSET S
  <2>1. ASSUME NEW x \in W PROVE (\A y \in S : <<y, x>> \in R => y \in W) /\ f[x] = F[x][f]
    <3>1. PICK U \in Solved : x \in U
      OBVIOUS
    <3>2. U \in SUBSET S /\ Closed(U) /\ Of(U) \in [S -> T] /\ Solves(Of(U), U)
      BY <1>2, <3>1
    <3>3. \A y \in S : <<y, x>> \in R => y \in U
      BY <3>1, <3>2
    <3>4. \A y \in U : f[y] = Of(U)[y]
      BY <1>3, <3>1
    <3>5. U \subseteq W
      BY <3>1
    <3> HIDE DEF f, Of, W, Solved
    <3>8. x \in S /\ \A y \in S : <<y, x>> \in R => f[y] = Of(U)[y]
      BY <3>1, <3>2, <3>3, <3>4
    <3>6. F[x][f] = F[x][Of(U)]
      <4> DEFINE g == Of(U)
      <4>1. g \in [S -> T] /\ \A y \in S : <<y, x>> \in R => f[y] = g[y]
        BY <3>2, <3>8
      <4> HIDE DEF g
      <4>2. F[x][f] = F[x][g]
        BY <1>4, <3>8, <4>1
      <4> QED BY <4>2 DEF g
    <3>7. Of(U)[x] = F[x][Of(U)]
      BY <3>1, <3>2
    <3> QED BY <3>1, <3>3, <3>4, <3>5, <3>6, <3>7
  <2>2. W \in SUBSET S
    BY <1>2
  <2> HIDE DEF W, f
  <2> QED BY <2>1, <2>2
<1>6. S \subseteq W
  <2>1. SUFFICES ASSUME S \ W # {} PROVE FALSE
    OBVIOUS
  <2>2. PICK x \in S \ W : \A y \in S \ W : <<y, x>> \notin R
    <3> HIDE DEF W
    <3> QED BY <2>1
  <2> DEFINE g == [f EXCEPT ![x] = F[x][f]]
  <2>4. /\ g \in [S -> T] /\ g[x] = F[x][f]
        /\ \A y \in S \ {x} : g[y] = f[y]
    <3> HIDE DEF f, W
    <3> QED BY <1>4, <2>2
  <2> HIDE DEF g, f
  <2>5. ASSUME NEW k \in W \cup {x} PROVE g[k] = F[k][g] /\ \A y \in S : <<y, k>> \in R => y \in W
    <3> HIDE DEF W, Solved
    <3>1. \A y \in S : <<y, k>> \in R => y \in W
      BY <1>5, <2>2
    <3>2. \A y \in S : <<y, k>> \in R => g[y] = f[y]
      BY <2>2, <2>4, <3>1
    <3>3. k \in S
      BY <1>5, <2>2
    <3>4. F[k][g] = F[k][f]
      BY <1>4, <2>4, <3>2, <3>3
    <3>5. g[k] = F[k][f]
      BY <1>5, <2>2, <2>4, <3>3
    <3> QED BY <3>1, <3>4, <3>5
  <2>6. W \cup {x} \in Solved
    <3> HIDE DEF W
    <3>1. W \cup {x} \in SUBSET S
      BY <1>5, <2>2
    <3>2. Closed(W \cup {x}) /\ Solves(g, W \cup {x})
      BY <2>5
    <3> HIDE DEF Closed, Solves
    <3>3. \E h \in [S -> T] : Solves(h, W \cup {x})
      BY <2>4, <3>2
    <3> QED BY <3>1, <3>2, <3>3
  <2>7. x \in W
    <3> HIDE DEF Solved
    <3> QED BY <2>6
  <2> HIDE DEF W
  <2>8. x \notin W
    BY <2>2
  <2> QED BY <2>7, <2>8
<1> HIDE DEF f, W
<1>7. \A x \in S : f[x] = F[x][f]
  BY <1>5, <1>6
<1> QED BY <1>4, <1>7

\* Induction: P, which takes in a number of S with all the smaller ones of S in it, has all.
LEMMA InductionUp ==
  ASSUME NEW S \in SUBSET Nat, NEW P,
         \A x \in S : (\A y \in S : y < x => y \in P) => x \in P
  PROVE  S \subseteq P
<1> SUFFICES ASSUME S \ P # {} PROVE FALSE
  OBVIOUS
<1>1. PICK x \in S \ P : \A y \in S \ P : x <= y
  BY LeastNumber
<1> QED BY <1>1

\* The same from the larger ones, where they are bounded.
LEMMA InductionDown ==
  ASSUME NEW n \in Nat, NEW S \in SUBSET (0 .. n), NEW P,
         \A x \in S : (\A y \in S : x < y => y \in P) => x \in P
  PROVE  S \subseteq P
<1> SUFFICES ASSUME NEW k \in S, k \notin P PROVE FALSE
  OBVIOUS
<1> DEFINE Rest == {i \in Nat : i <= n /\ n - i \in S \ P}
<1>1. n - k \in Rest
  OBVIOUS
<1>2. PICK i \in Rest : \A m \in Rest : i <= m
  BY <1>1, LeastNumber
<1>3. ASSUME NEW y \in S, n - i < y PROVE y \in P
  <2>1. n - y \in Nat /\ n - y <= n /\ n - (n - y) = y /\ n - y < i
    BY <1>2, <1>3
  <2> QED BY <1>2, <2>1
<1> QED BY <1>2, <1>3

\* Recursion over numbers, from the smaller ones.
LEMMA RecursionUp ==
  ASSUME NEW S \in SUBSET Nat, NEW T, NEW F,
         T # {}, F \in [S -> [[S -> T] -> T]],
         \A x \in S : \A g, h \in [S -> T] :
           (\A y \in S : y < x => g[y] = h[y]) => F[x][g] = F[x][h]
  PROVE  Solvable(F, S, T)
<1> DEFINE R == {p \in S \X S : p[1] < p[2]}
<1>1. \A x, y \in S : <<y, x>> \in R <=> y < x
  OBVIOUS
<1> HIDE DEF R
<1>2. ASSUME NEW U \in SUBSET S, U # {} PROVE \E x \in U : \A y \in U : <<y, x>> \notin R
  <2>1. PICK x \in U : \A y \in U : x <= y
    BY <1>2, LeastNumber
  <2> QED BY <1>1, <2>1
<1>3. ASSUME NEW x \in S, NEW g \in [S -> T], NEW h \in [S -> T],
             \A y \in S : <<y, x>> \in R => g[y] = h[y]
      PROVE  F[x][g] = F[x][h]
  BY <1>1, <1>3
<1>4. Founded(R, S)
  BY <1>2 DEF Founded
<1>5. LooksBelow(F, R, S, T)
  BY <1>3 DEF LooksBelow
<1> QED BY <1>4, <1>5, RecursionExists

\* Recursion over numbers up to n, from the larger ones.
LEMMA RecursionDown ==
  ASSUME NEW n \in Nat, NEW S \in SUBSET (0 .. n), NEW T, NEW F,
         T # {}, F \in [S -> [[S -> T] -> T]],
         \A x \in S : \A g, h \in [S -> T] :
           (\A y \in S : x < y => g[y] = h[y]) => F[x][g] = F[x][h]
  PROVE  Solvable(F, S, T)
<1> DEFINE R == {p \in S \X S : p[2] < p[1]}
<1>1. \A x, y \in S : <<y, x>> \in R <=> x < y
  OBVIOUS
<1> HIDE DEF R
<1>2. ASSUME NEW U \in SUBSET S, U # {} PROVE \E x \in U : \A y \in U : <<y, x>> \notin R
  <2> DEFINE Rest == {n - x : x \in U}
  <2>0. \A x \in U : x \in Nat /\ x <= n
    OBVIOUS
  <2>1. Rest \in SUBSET Nat /\ Rest # {}
    <3>1. \A x \in U : n - x \in Nat
      BY <2>0
    <3>2. \E x \in U : TRUE
      BY <1>2
    <3> QED BY <3>1, <3>2
  <2>2. PICK k \in Rest : \A m \in Rest : k <= m
    <3> HIDE DEF Rest
    <3> QED BY <2>1, LeastNumber
  <2>3. PICK x \in U : k = n - x
    BY <2>2
  <2>4. ASSUME NEW y \in U PROVE ~(x < y)
    <3>1. n - y \in Rest
      OBVIOUS
    <3>2. n - x <= n - y
      BY <2>2, <2>3, <3>1
    <3>3. x \in Nat /\ y \in Nat /\ x <= n /\ y <= n
      BY <2>0
    <3> QED BY <3>2, <3>3
  <2> QED BY <1>1, <2>4
<1>3. ASSUME NEW x \in S, NEW g \in [S -> T], NEW h \in [S -> T],
             \A y \in S : <<y, x>> \in R => g[y] = h[y]
      PROVE  F[x][g] = F[x][h]
  BY <1>1, <1>3
<1>4. Founded(R, S)
  BY <1>2 DEF Founded
<1>5. LooksBelow(F, R, S, T)
  BY <1>3 DEF LooksBelow
<1> QED BY <1>4, <1>5, RecursionExists
=============================================================================
