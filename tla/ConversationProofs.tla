------------------------- MODULE ConversationProofs -------------------------
(***************************************************************************)
(* What holds of Conversation for every conversation it starts from, any   *)
(* set of requests and any number of them.                                 *)
(*                                                                         *)
(* First the functions on the tree: a branch is the one of the parent and  *)
(* the message, and what deletions, insertions and exclusions do to it.    *)
(* Then Since, how the rows that a request has read relate to those that   *)
(* are committed by the time it writes, and Fit, what every committed      *)
(* conversation satisfies.  Inv says both of every request at once, and    *)
(* the theorems at the end follow from it.                                 *)
(***************************************************************************)
EXTENDS Conversation, FiniteSetTheorems, Recursion, SequenceTheorems, TLAPS

Bound == Len(Start) + MaxRequests

\* The ids are numbers, and no id is none.
LEMMA IdsAre ==
  /\ Len(Start) \in Nat /\ MaxRequests \in Nat /\ Bound \in Nat /\ Ids = 1 .. Bound
  /\ Ids \cup {NoMsg} = 0 .. Bound /\ NoMsg = 0 /\ NoMsg \notin Ids
  /\ Len(Start) <= Bound
BY StartAssumption, RequestsAssumption DEF Bound, Ids, NoMsg

\* The rows as any request leaves them: a message is younger than its parent, and one that
\* is excluded with a summary has one.
Shape(d) ==
  /\ d \in Rows
  /\ d.live \subseteq 1 .. d.used /\ d.active <= d.used
  /\ \A i \in Ids : d.parent[i] < i
  /\ \A i \in Ids : i > d.used => d.reason[i] = "none" /\ i \notin d.summary
  /\ \A i \in Ids : d.reason[i] = "compressed" => i \in d.summary

\* The fields of rows of that shape.
LEMMA ShapeIs ==
  ASSUME NEW d, Shape(d)
  PROVE  /\ d.used \in 0 .. Bound /\ d.used \in Nat /\ d.live \subseteq Ids /\ d.live \subseteq 1 .. d.used
         /\ d.active \in 0 .. Bound /\ d.active \in 0 .. d.used
         /\ \A i \in Ids : d.parent[i] \in 0 .. Bound /\ d.parent[i] < i
         /\ d.parent \in [Ids -> Ids \cup {NoMsg}] /\ d.role \in [Ids -> Saved \cup {"memory"}]
         /\ d.reason \in [Ids -> {"none", "compressed", "covered", "discarded", "superseded", "file"}]
         /\ d.summary \in SUBSET Ids /\ d.account \in [Ids -> SUBSET Ids] /\ d.cut \in BOOLEAN
<1>1. d \in Rows
  BY DEF Shape
<1>2. d.used \in 0 .. Bound /\ d.active \in Ids \cup {NoMsg} /\ d.live \in SUBSET Ids
      /\ d.parent \in [Ids -> Ids \cup {NoMsg}]
  BY <1>1 DEF Rows, Bound
<1>3. d.used \in Nat /\ d.active \in 0 .. Bound
  BY <1>2, IdsAre
<1>4. d.active \in 0 .. d.used /\ d.live \subseteq 1 .. d.used
  BY <1>3 DEF Shape
<1>5. \A i \in Ids : d.parent[i] \in 0 .. Bound /\ d.parent[i] < i
  BY <1>2, IdsAre DEF Shape
<1>6. /\ d.role \in [Ids -> Saved \cup {"memory"}]
      /\ d.reason \in [Ids -> {"none", "compressed", "covered", "discarded", "superseded", "file"}]
      /\ d.summary \in SUBSET Ids /\ d.account \in [Ids -> SUBSET Ids] /\ d.cut \in BOOLEAN
  BY <1>1 DEF Rows
<1> QED BY <1>2, <1>3, <1>4, <1>5, <1>6

\* Only these decide what lies where.
Tree(live, parent) ==
  /\ live \in SUBSET Ids /\ parent \in [Ids -> Ids \cup {NoMsg}] /\ \A i \in Ids : parent[i] < i

\* Their messages are a tree.
LEMMA ShapeTree == \A d : Shape(d) => Tree(d.live, d.parent)
BY ShapeIs DEF Tree

\* The branch of a message is that of its parent, and the message.
UpFrom(d, g, k) == IF k \in d.live THEN Append(g[d.parent[k]], k) ELSE <<>>

\* Branch is what its definition says, at every message.
LEMMA BranchRecursion ==
  ASSUME NEW d, Tree(d.live, d.parent)
  PROVE  \A k \in Ids \cup {NoMsg} :
           /\ Branch(d, k) = IF k \in d.live THEN Append(Branch(d, d.parent[k]), k) ELSE <<>>
           /\ Branch(d, k) \in Seq(Ids)
<1> DEFINE S == Ids \cup {NoMsg}
           T == Seq(Ids)
           F == [k \in S |-> [g \in [S -> T] |-> UpFrom(d, g, k)]]
           up == CHOOSE c : c = [k \in S |-> UpFrom(d, c, k)]
<1>0. /\ S \in SUBSET Nat /\ T # {} /\ <<>> \in T
      /\ \A k \in d.live : k \in Ids /\ d.parent[k] \in S /\ d.parent[k] < k
  <2>1. S \in SUBSET Nat
    BY IdsAre
  <2>2. <<>> \in Seq(Ids)
    OBVIOUS
  <2>3. T # {} /\ <<>> \in T
    BY <2>2
  <2> QED BY <2>1, <2>3 DEF Tree
<1>1. ASSUME NEW k \in S, NEW g \in [S -> T] PROVE UpFrom(d, g, k) \in T
  <2>1. CASE k \in d.live
    <3>1. g[d.parent[k]] \in T /\ k \in Ids
      BY <1>0, <2>1
    <3>2. Append(g[d.parent[k]], k) \in Seq(Ids)
      BY <3>1
    <3> QED BY <2>1, <3>2 DEF UpFrom
  <2>2. CASE k \notin d.live
    BY <1>0, <2>2 DEF UpFrom
  <2> QED BY <2>1, <2>2
<1>2. F \in [S -> [[S -> T] -> T]]
  BY <1>1
<1>3. ASSUME NEW k \in S, NEW g \in [S -> T], NEW h \in [S -> T], \A y \in S : y < k => g[y] = h[y]
      PROVE  F[k][g] = F[k][h]
  <2>1. k \in d.live => g[d.parent[k]] = h[d.parent[k]]
    BY <1>0, <1>3
  <2>2. UpFrom(d, g, k) = UpFrom(d, h, k)
    BY <2>1 DEF UpFrom
  <2> QED BY <2>2
<1>4. Solvable(F, S, T)
  <2> HIDE DEF F, S, T
  <2> QED BY <1>0, <1>2, <1>3, RecursionUp
<1>5. PICK f \in [S -> T] : \A k \in S : f[k] = F[k][f]
  <2> HIDE DEF F, S, T
  <2> QED BY <1>4 DEF Solvable
<1>6. f = [k \in S |-> UpFrom(d, f, k)]
  BY <1>5
<1>7. up = [k \in S |-> UpFrom(d, up, k)]
  <2> HIDE DEF F, S, T
  <2> QED BY <1>6
<1>8. \A k \in S : Branch(d, k) = up[k]
  BY DEF Branch, UpFrom
<1> HIDE DEF up
<1>9. \A k \in S : up[k] = UpFrom(d, up, k)
  <2> HIDE DEF S
  <2> QED BY <1>7
<1>10. \A k \in S : Branch(d, k) = IF k \in d.live THEN Append(Branch(d, d.parent[k]), k) ELSE <<>>
  BY <1>0, <1>8, <1>9 DEF UpFrom
<1>11. S \subseteq {k \in S : Branch(d, k) \in T}
  <2> DEFINE Good == {k \in S : Branch(d, k) \in T}
  <2>1. ASSUME NEW k \in S, \A y \in S : y < k => y \in Good
        PROVE  k \in Good
    <3>1. CASE k \in d.live
      <4>1. Branch(d, d.parent[k]) \in Seq(Ids) /\ k \in Ids
        BY <1>0, <2>1, <3>1
      <4>2. Append(Branch(d, d.parent[k]), k) \in Seq(Ids)
        BY <4>1
      <4> QED BY <1>10, <3>1, <4>2
    <3>2. CASE k \notin d.live
      BY <1>0, <1>10, <3>2
    <3> QED BY <3>1, <3>2
  <2>2. S \subseteq Good
    <3> HIDE DEF Good, S
    <3> QED BY <1>0, <2>1, InductionUp
  <2> QED BY <2>2
<1> QED BY <1>10, <1>11

\* What is on a branch, and in which order.
Straight(d, k) ==
  LET b == Branch(d, k) IN
  \A i \in 1 .. Len(b) :
    /\ b[i] \in d.live /\ b[i] <= k
    /\ OnBranch(d, b[i]) = {b[j] : j \in 1 .. i}
    /\ \A j \in 1 .. Len(b) : i < j => b[i] < b[j]

\* So is the set of what is on it.
LEMMA OnBranchIs ==
  ASSUME NEW d, Tree(d.live, d.parent)
  PROVE  \A k \in Ids \cup {NoMsg} :
           /\ OnBranch(d, k) = IF k \in d.live THEN OnBranch(d, d.parent[k]) \cup {k} ELSE {}
           /\ OnBranch(d, k) = {Branch(d, k)[i] : i \in 1 .. Len(Branch(d, k))}
<1> TAKE k \in Ids \cup {NoMsg}
<1>1. \A j \in Ids \cup {NoMsg} : OnBranch(d, j) = {Branch(d, j)[i] : i \in 1 .. Len(Branch(d, j))}
  <2>1. \A j \in Ids \cup {NoMsg} : Branch(d, j) \in Seq(Ids)
    BY BranchRecursion
  <2>2. \A s \in Seq(Ids) : DOMAIN s = 1 .. Len(s)
    OBVIOUS
  <2> QED BY <2>1, <2>2 DEF OnBranch
<1>2. CASE k \in d.live
  <2> DEFINE p == d.parent[k]
             a == Branch(d, p)
             b == Branch(d, k)
  <2>1. p \in Ids \cup {NoMsg} /\ a \in Seq(Ids) /\ b = Append(a, k) /\ k \in Ids
    BY <1>2, BranchRecursion DEF Tree
  <2> HIDE DEF p, a, b
  <2>2. Len(b) = Len(a) + 1 /\ b[Len(a) + 1] = k /\ Len(a) \in Nat /\ \A i \in 1 .. Len(a) : b[i] = a[i]
    BY <2>1
  <2>3. \A i : i \in 1 .. Len(b) <=> i \in 1 .. Len(a) \/ i = Len(a) + 1
    BY <2>2
  <2>4. {b[i] : i \in 1 .. Len(b)} = {a[i] : i \in 1 .. Len(a)} \cup {k}
    BY <2>2, <2>3
  <2> QED BY <1>1, <1>2, <2>1, <2>4 DEF p, a, b
<1>3. CASE k \notin d.live
  <2>1. Branch(d, k) = <<>>
    BY <1>3, BranchRecursion
  <2>2. 1 .. Len(<<>>) = {}
    OBVIOUS
  <2> QED BY <1>1, <1>3, <2>1, <2>2
<1> QED BY <1>1, <1>2, <1>3

\* Every branch goes up strictly, and each message on it has the branch up to it as its own.
LEMMA BranchStraight ==
  ASSUME NEW d, Tree(d.live, d.parent)
  PROVE  \A k \in Ids \cup {NoMsg} : Straight(d, k)
<1> DEFINE S == Ids \cup {NoMsg}
           Good == {k \in S : Straight(d, k)}
<1>0. S \in SUBSET Nat
  BY IdsAre
<1>1. ASSUME NEW k \in S, \A y \in S : y < k => y \in Good
      PROVE  k \in Good
  <2> DEFINE p == d.parent[k]
             a == Branch(d, p)
             b == Branch(d, k)
  <2>1. CASE k \in d.live
    <3>1. p \in S /\ p < k /\ a \in Seq(Ids) /\ b = Append(a, k) /\ k \in Ids /\ Straight(d, p)
      BY <1>1, <2>1, BranchRecursion DEF Tree
    <3>2. OnBranch(d, k) = {b[i] : i \in 1 .. Len(b)}
      BY OnBranchIs
    <3>3. \A i \in 1 .. Len(a) :
            /\ a[i] \in d.live /\ a[i] <= p
            /\ OnBranch(d, a[i]) = {a[j] : j \in 1 .. i}
            /\ \A j \in 1 .. Len(a) : i < j => a[i] < a[j]
      BY <3>1 DEF Straight
    <3> HIDE DEF p, a, b
    <3>4. Len(b) = Len(a) + 1 /\ b[Len(a) + 1] = k /\ Len(a) \in Nat /\ \A i \in 1 .. Len(a) : b[i] = a[i]
      BY <3>1
    <3>5. ASSUME NEW i \in 1 .. Len(b)
          PROVE  /\ b[i] \in d.live /\ b[i] <= k
                 /\ OnBranch(d, b[i]) = {b[j] : j \in 1 .. i}
                 /\ \A j \in 1 .. Len(b) : i < j => b[i] < b[j]
      <4>1. CASE i \in 1 .. Len(a)
        <5>1. b[i] = a[i] /\ a[i] \in d.live /\ a[i] <= p /\ a[i] \in Nat /\ p \in Nat /\ k \in Nat
          BY <1>0, <3>1, <3>3, <3>4, <4>1, IdsAre DEF Tree
        <5>2. b[i] <= k /\ a[i] < k
          BY <3>1, <5>1
        <5>3. \A j \in 1 .. i : j \in 1 .. Len(a)
          BY <3>4, <4>1
        <5>4. OnBranch(d, b[i]) = {b[j] : j \in 1 .. i}
          BY <3>3, <3>4, <4>1, <5>1, <5>3, SMTT(30)
        <5>5. ASSUME NEW j \in 1 .. Len(b), i < j PROVE b[i] < b[j]
          <6>1. j \in 1 .. Len(a) \/ j = Len(a) + 1
            BY <3>4
          <6> QED BY <3>3, <3>4, <4>1, <5>1, <5>2, <5>5, <6>1
        <5> QED BY <5>1, <5>2, <5>4, <5>5
      <4>2. CASE i = Len(a) + 1
        <5>1. b[i] = k /\ k <= k /\ Len(b) = i
          BY <1>0, <3>4, <4>2
        <5>2. \A j \in 1 .. Len(b) : ~(i < j)
          BY <3>4, <4>2
        <5> QED BY <2>1, <3>2, <5>1, <5>2
      <4> QED BY <3>4, <4>1, <4>2
    <3> QED BY <3>5 DEF Straight, b
  <2>2. CASE k \notin d.live
    <3>1. b = <<>>
      BY <2>2, BranchRecursion
    <3>2. 1 .. Len(<<>>) = {}
      OBVIOUS
    <3> QED BY <3>1, <3>2 DEF Straight
  <2> QED BY <2>1, <2>2
<1>2. S \subseteq Good
  <2> HIDE DEF S, Good
  <2> QED BY <1>0, <1>1, InductionUp
<1> QED BY <1>2

\* What is on a branch is live and not younger than its end, and brings its own branch.
LEMMA OnBranchWithin ==
  ASSUME NEW d, Tree(d.live, d.parent), NEW k \in Ids \cup {NoMsg}
  PROVE  /\ OnBranch(d, k) \subseteq d.live
         /\ \A j \in OnBranch(d, k) : j <= k
         /\ k \in d.live => k \in OnBranch(d, k)
         /\ k \notin d.live => OnBranch(d, k) = {}
<1>1. Straight(d, k)
  BY BranchStraight
<1>2. OnBranch(d, k) = {Branch(d, k)[i] : i \in 1 .. Len(Branch(d, k))}
  BY OnBranchIs
<1>3. k \in d.live => k \in OnBranch(d, k)
  BY OnBranchIs
<1>4. k \notin d.live => OnBranch(d, k) = {}
  BY OnBranchIs
<1> QED BY <1>1, <1>2, <1>3, <1>4 DEF Straight

\* A branch ends with its message.
LEMMA LastIsEnd ==
  ASSUME NEW d, Tree(d.live, d.parent), NEW k \in d.live
  PROVE  Branch(d, k)[Len(Branch(d, k))] = k
<1> DEFINE a == Branch(d, d.parent[k])
<1>1. k \in Ids /\ d.parent[k] \in Ids \cup {NoMsg}
  BY DEF Tree
<1>2. Branch(d, k) = Append(a, k) /\ a \in Seq(Ids)
  BY <1>1, BranchRecursion
<1> HIDE DEF a
<1>3. Len(Append(a, k)) = Len(a) + 1 /\ Append(a, k)[Len(a) + 1] = k
  BY <1>1, <1>2
<1> QED BY <1>2, <1>3

\* What is on it brings all that is above.
LEMMA BranchAbove ==
  ASSUME NEW d, Tree(d.live, d.parent), NEW k \in Ids \cup {NoMsg}, NEW v \in OnBranch(d, k)
  PROVE  OnBranch(d, v) \subseteq OnBranch(d, k)
<1> DEFINE b == Branch(d, k)
<1>1. Straight(d, k) /\ b \in Seq(Ids) /\ OnBranch(d, k) = {b[i] : i \in 1 .. Len(b)}
  BY BranchStraight, BranchRecursion, OnBranchIs
<1>2. PICK i \in 1 .. Len(b) : v = b[i]
  BY <1>1
<1>3. \A l \in 1 .. Len(b) : OnBranch(d, b[l]) = {b[j] : j \in 1 .. l}
  BY <1>1 DEF Straight
<1> HIDE DEF b
<1>4. Len(b) \in Nat /\ \A j \in 1 .. i : j \in 1 .. Len(b)
  BY <1>1
<1>5. OnBranch(d, v) = {b[j] : j \in 1 .. i}
  BY <1>2, <1>3
<1>6. {b[j] : j \in 1 .. i} \subseteq {b[j] : j \in 1 .. Len(b)}
  BY <1>4
<1> QED BY <1>1, <1>5, <1>6 DEF b

\* The rows e are what is left of d: when each message of e lies, in d, below what its
\* parent in e lies below, every branch of e is what is left of the branch of d.
Prunes(d, e) ==
  \A k \in e.live :
    OnBranch(d, k) \cap e.live =
      {k} \cup (IF e.parent[k] \in e.live THEN OnBranch(d, e.parent[k]) \cap e.live ELSE {})

\* What is left of a branch when messages are deleted and others move up to their parent.
LEMMA Pruned ==
  ASSUME NEW d, NEW e, Tree(d.live, d.parent), Tree(e.live, e.parent), Prunes(d, e)
  PROVE  \A k \in e.live : OnBranch(e, k) = OnBranch(d, k) \cap e.live
<1> DEFINE S == e.live
           Good == {k \in S : OnBranch(e, k) = OnBranch(d, k) \cap e.live}
<1>0. S \in SUBSET Nat
  BY IdsAre DEF Tree
<1>1. ASSUME NEW k \in S, \A y \in S : y < k => y \in Good
      PROVE  k \in Good
  <2> DEFINE q == e.parent[k]
  <2>1. q \in Ids \cup {NoMsg} /\ q < k /\ k \in Ids
    BY DEF Tree
  <2>2. OnBranch(e, k) = OnBranch(e, q) \cup {k}
    BY <2>1, OnBranchIs
  <2>3. OnBranch(d, k) \cap e.live = {k} \cup (IF q \in e.live THEN OnBranch(d, q) \cap e.live ELSE {})
    BY DEF Prunes
  <2>4. q \in e.live => OnBranch(e, q) = OnBranch(d, q) \cap e.live
    BY <1>1, <2>1
  <2>5. q \notin e.live => OnBranch(e, q) = {}
    BY <2>1, OnBranchIs
  <2> HIDE DEF q
  <2> QED BY <2>2, <2>3, <2>4, <2>5
<1>2. S \subseteq Good
  <2> HIDE DEF S, Good
  <2> QED BY <1>0, <1>1, InductionUp
<1> QED BY <1>2

\* The same tree has the same branches.
LEMMA SameBranches ==
  ASSUME NEW d, NEW e, Tree(d.live, d.parent), e.live = d.live, e.parent = d.parent
  PROVE  \A k \in Ids \cup {NoMsg} : OnBranch(e, k) = OnBranch(d, k)
<1>1. Tree(e.live, e.parent)
  OBVIOUS
<1>2. Prunes(d, e)
  <2>1. ASSUME NEW k \in d.live
        PROVE  OnBranch(d, k) \cap d.live =
                 {k} \cup (IF d.parent[k] \in d.live THEN OnBranch(d, d.parent[k]) \cap d.live ELSE {})
    <3>1. k \in Ids /\ d.parent[k] \in Ids \cup {NoMsg}
      BY DEF Tree
    <3>2. OnBranch(d, k) = OnBranch(d, d.parent[k]) \cup {k} /\ OnBranch(d, k) \subseteq d.live
      BY <3>1, OnBranchIs, OnBranchWithin
    <3>3. d.parent[k] \notin d.live => OnBranch(d, d.parent[k]) = {}
      BY <3>1, OnBranchWithin
    <3> QED BY <3>2, <3>3
  <2> QED BY <2>1 DEF Prunes
<1>3. \A k \in e.live : OnBranch(e, k) = OnBranch(d, k) \cap e.live
  BY <1>1, <1>2, Pruned
<1>4. TAKE k \in Ids \cup {NoMsg}
<1>5. CASE k \in d.live
  BY <1>3, <1>5, OnBranchWithin
<1>6. CASE k \notin d.live
  BY <1>1, <1>6, OnBranchWithin
<1> QED BY <1>5, <1>6

\* A message that is added changes no branch but its own.
LEMMA GrownBranches ==
  ASSUME NEW d, NEW e, NEW n \in Ids, Tree(d.live, d.parent), Tree(e.live, e.parent),
         e.live = d.live \cup {n}, \A i \in d.live : i < n /\ e.parent[i] = d.parent[i]
  PROVE  /\ \A k \in Ids \cup {NoMsg} : k # n => OnBranch(e, k) = OnBranch(d, k)
         /\ OnBranch(e, n) = OnBranch(d, e.parent[n]) \cup {n}
         /\ n \notin d.live
<1>0. Ids \subseteq Nat /\ d.live \subseteq Ids /\ n \in Nat /\ e.live \subseteq Ids
  BY IdsAre DEF Tree
<1>1. Prunes(e, d)
  <2>1. ASSUME NEW k \in d.live
        PROVE  OnBranch(e, k) \cap d.live =
                 {k} \cup (IF d.parent[k] \in d.live THEN OnBranch(e, d.parent[k]) \cap d.live ELSE {})
    <3> DEFINE q == d.parent[k]
    <3>1. k \in Ids /\ q \in Ids \cup {NoMsg} /\ q < k /\ k < n /\ e.parent[k] = q /\ k \in e.live
      BY <1>0 DEF Tree
    <3>2. OnBranch(e, k) = OnBranch(e, q) \cup {k}
      BY <3>1, OnBranchIs
    <3>3. q # n /\ (q \notin d.live => q \notin e.live)
      <4>1. q \in Nat /\ k \in Nat
        BY <3>1, IdsAre
      <4>2. q < n
        BY <3>1, <4>1, <1>0
      <4> QED BY <4>1, <4>2, <1>0
    <3>4. q \notin d.live => OnBranch(e, q) = {}
      BY <3>1, <3>3, OnBranchWithin
    <3> HIDE DEF q
    <3>5. OnBranch(e, k) \cap d.live = {k} \cup (IF q \in d.live THEN OnBranch(e, q) \cap d.live ELSE {})
      BY <3>2, <3>4
    <3> QED BY <3>5 DEF q
  <2> QED BY <2>1 DEF Prunes
<1>2. \A k \in d.live : OnBranch(d, k) = OnBranch(e, k) \cap d.live
  BY <1>1, Pruned
<1>3. n \notin d.live
  BY <1>0
<1>4. ASSUME NEW k \in Ids \cup {NoMsg}, k # n PROVE OnBranch(e, k) = OnBranch(d, k)
  <2>1. CASE k \in d.live
    <3>1. n \notin OnBranch(e, k)
      <4>1. k < n
        BY <2>1
      <4>2. k \in Nat /\ n \in Nat
        BY <1>0, <2>1
      <4>3. \A j \in OnBranch(e, k) : j <= k
        BY <1>4, OnBranchWithin
      <4> QED BY <4>1, <4>2, <4>3
    <3>2. OnBranch(e, k) \subseteq e.live
      BY <1>4, OnBranchWithin
    <3> QED BY <1>2, <2>1, <3>1, <3>2
  <2>2. CASE k \notin d.live
    BY <1>4, <2>2, OnBranchWithin
  <2> QED BY <2>1, <2>2
<1>5. OnBranch(e, n) = OnBranch(d, e.parent[n]) \cup {n}
  <2>1. e.parent[n] \in Ids \cup {NoMsg} /\ e.parent[n] # n /\ n \in e.live
    BY <1>0, IdsAre DEF Tree
  <2>2. OnBranch(e, n) = OnBranch(e, e.parent[n]) \cup {n}
    BY <2>1, OnBranchIs
  <2> QED BY <1>4, <2>1, <2>2
<1> QED BY <1>3, <1>4, <1>5

\* The way down from a message stays among the live ones.
DownFrom(d, g, k) ==
  IF Cardinality(Children(d, k)) = 1 THEN g[CHOOSE c \in Children(d, k) : TRUE] ELSE k

\* An only child is a younger message that exists.
LEMMA ChildrenAre ==
  ASSUME NEW d, Tree(d.live, d.parent), NEW k \in Ids, Cardinality(Children(d, k)) = 1
  PROVE  LET c == CHOOSE c \in Children(d, k) : TRUE IN c \in d.live /\ c \in Ids /\ k < c
<1>1. Children(d, k) # {}
  BY FS_EmptySet
<1>2. \E c : c \in Children(d, k)
  BY <1>1
<1> QED BY <1>2 DEF Children, Tree

\* DeepestLeaf is what its definition says, and exists if the message it starts from does.
LEMMA LeafRecursion ==
  ASSUME NEW d, Tree(d.live, d.parent)
  PROVE  \A k \in Ids :
           /\ DeepestLeaf(d, k) = IF Cardinality(Children(d, k)) = 1
                                  THEN DeepestLeaf(d, CHOOSE c \in Children(d, k) : TRUE) ELSE k
           /\ DeepestLeaf(d, k) \in Ids
           /\ k \in d.live => DeepestLeaf(d, k) \in d.live
           /\ DeepestLeaf(d, k) \in d.live \cup {k}
<1> DEFINE F == [k \in Ids |-> [g \in [Ids -> Ids] |-> DownFrom(d, g, k)]]
           down == CHOOSE f : f = [k \in Ids |-> DownFrom(d, f, k)]
<1>0. Bound \in Nat /\ Ids \in SUBSET (0 .. Bound) /\ Ids \in SUBSET Nat
  BY IdsAre
<1>1. ASSUME NEW k \in Ids, NEW g \in [Ids -> Ids] PROVE DownFrom(d, g, k) \in Ids
  BY ChildrenAre DEF DownFrom
<1>2. F \in [Ids -> [[Ids -> Ids] -> Ids]]
  BY <1>1
<1>3. ASSUME NEW k \in Ids, NEW g \in [Ids -> Ids], NEW h \in [Ids -> Ids],
             \A y \in Ids : k < y => g[y] = h[y]
      PROVE  F[k][g] = F[k][h]
  <2>1. DownFrom(d, g, k) = DownFrom(d, h, k)
    BY <1>3, ChildrenAre DEF DownFrom
  <2> QED BY <2>1
<1>4. CASE Ids = {}
  BY <1>4
<1>5. CASE Ids # {}
  <2>1. Solvable(F, Ids, Ids)
    <3> HIDE DEF F
    <3> QED BY <1>0, <1>2, <1>3, <1>5, RecursionDown
  <2>2. PICK f \in [Ids -> Ids] : \A k \in Ids : f[k] = F[k][f]
    <3> HIDE DEF F
    <3> QED BY <2>1 DEF Solvable
  <2>3. f = [k \in Ids |-> DownFrom(d, f, k)]
    BY <2>2
  <2>4. down = [k \in Ids |-> DownFrom(d, down, k)]
    <3> HIDE DEF F
    <3> QED BY <2>3
  <2>5. \A k \in Ids : DeepestLeaf(d, k) = down[k]
    BY DEF DeepestLeaf, DownFrom
  <2> HIDE DEF down
  <2>6. \A k \in Ids : down[k] = DownFrom(d, down, k)
    BY <2>4
  <2>7. \A k \in Ids : DeepestLeaf(d, k) = IF Cardinality(Children(d, k)) = 1
                         THEN DeepestLeaf(d, CHOOSE c \in Children(d, k) : TRUE) ELSE k
    BY <2>5, <2>6, ChildrenAre DEF DownFrom
  <2> DEFINE Good == {k \in Ids : DeepestLeaf(d, k) \in Ids /\ (k \in d.live => DeepestLeaf(d, k) \in d.live)}
  <2>8. ASSUME NEW k \in Ids, \A y \in Ids : k < y => y \in Good
        PROVE  k \in Good
    BY <2>7, <2>8, ChildrenAre
  <2>9. Ids \subseteq Good
    <3> HIDE DEF Good
    <3> QED BY <1>0, <2>8, InductionDown
  <2>10. \A k \in Ids : DeepestLeaf(d, k) \in d.live \cup {k}
    BY <2>7, <2>9, ChildrenAre
  <2> QED BY <2>7, <2>9, <2>10
<1> QED BY <1>4, <1>5

\* d holds what s, read earlier, has become: nothing that was deleted comes back, a memory
\* stays out of force, and as long as no message is cut off each branch is what is left of it,
\* its memories among it.
Since(s, d) ==
  /\ s.used <= d.used /\ (s.cut => d.cut)
  /\ \A k \in d.live : k <= s.used => k \in s.live
  /\ \A i \in 1 .. s.used : d.role[i] = s.role[i] /\ d.account[i] = s.account[i]
  /\ \A i \in 1 .. s.used : s.role[i] = "memory" /\ Excluded(s, i) => Excluded(d, i)
  /\ ~d.cut => \A k \in s.live \cap d.live :
                  /\ OnBranch(d, k) = OnBranch(s, k) \cap d.live
                  /\ \A v \in OnBranch(s, k) : s.role[v] = "memory" => v \in d.live

\* The memories in force: one to a branch, and it accounts for what is above it.
Lone(d) ==
  \A k \in d.live : \A v, w \in OnBranch(d, k) : InForce(d, v) /\ InForce(d, w) => v = w
Accounts(d) ==
  \A w \in d.live :
    InForce(d, w) => OnBranch(d, w) \ {w} \subseteq d.account[w] \cup Forgotten(d, w)
Sound(d) == ~d.cut => Lone(d) /\ Accounts(d)

\* As long as nothing was deleted, what was excluded for a memory is accounted for by one in
\* force or went with an empty one, and a superseded read has a later one below it.
Gapless(d) == d.live = 1 .. d.used
Kept(d, m) ==
  \/ \E w \in d.live : InForce(d, w) /\ m \in d.account[w] /\ m \in OnBranch(d, w)
  \/ \E w \in d.live : Blank(d, w) /\ m \in OnBranch(d, w)
Outdated(d, m) ==
  d.role[m] = "read" /\ \E k \in d.live : m # k /\ m \in OnBranch(d, k) /\ d.role[k] = "read"
ForMemory == {"covered", "discarded", "superseded"}
Recalled(d) == Gapless(d) => \A m \in d.live : d.reason[m] \in ForMemory => Kept(d, m)
Replaced(d) == Gapless(d) => \A m \in d.live : d.reason[m] = "file" => Outdated(d, m)

\* A conversation with a message cut off has lost one.
Lacks(d) == d.cut => d.live # 1 .. d.used
Noted(d) == ~d.cut => \A m \in d.live : d.parent[m] \in d.live \cup {NoMsg}

\* Nothing has happened between a reading and itself.
LEMMA SinceItself == \A d : Shape(d) => Since(d, d)
<1> SUFFICES ASSUME NEW d, Shape(d) PROVE Since(d, d)
  OBVIOUS
<1>1. d.used <= d.used /\ d.live \subseteq Ids
  BY ShapeIs
<1>2. \A k \in d.live : OnBranch(d, k) \subseteq d.live
  BY <1>1, ShapeTree, OnBranchWithin
<1> QED BY <1>1, <1>2 DEF Since

\* What became of the rows in two stretches of time is what became of them in both.
LEMMA SinceChains ==
  ASSUME NEW s, NEW d, NEW e, Shape(s), Shape(d), Shape(e), Since(s, d), Since(d, e)
  PROVE  Since(s, e)
<1>1. /\ s.used \in Nat /\ d.used \in Nat /\ e.used \in Nat /\ s.used <= d.used /\ d.used <= e.used
      /\ s.live \subseteq 1 .. s.used /\ e.live \subseteq 1 .. e.used /\ s.live \subseteq Ids
  BY ShapeIs DEF Since
<1>2. \A i \in 1 .. s.used : i \in 1 .. d.used
  BY <1>1
<1>3. \A k \in e.live : k <= s.used => k \in d.live /\ k \in s.live
  <2>1. \A k \in e.live : k \in Nat /\ (k <= s.used => k <= d.used)
    BY <1>1
  <2> QED BY <2>1 DEF Since
<1>4. ASSUME ~e.cut, NEW k \in s.live \cap e.live
      PROVE  /\ OnBranch(e, k) = OnBranch(s, k) \cap e.live
             /\ \A v \in OnBranch(s, k) : s.role[v] = "memory" => v \in e.live
  <2>1. ~d.cut /\ k <= s.used
    BY <1>1, <1>4 DEF Since
  <2>2. k \in d.live
    BY <1>3, <2>1
  <2>3. OnBranch(e, k) = OnBranch(d, k) \cap e.live /\ OnBranch(d, k) = OnBranch(s, k) \cap d.live
    BY <1>4, <2>1, <2>2 DEF Since
  <2>4. OnBranch(s, k) \subseteq s.live
    BY <1>1, ShapeTree, OnBranchWithin
  <2>5. \A j \in OnBranch(s, k) \cap e.live : j \in d.live
    BY <1>1, <1>3, <2>4
  <2>6. ASSUME NEW v \in OnBranch(s, k), s.role[v] = "memory" PROVE v \in e.live
    <3>1. v \in d.live /\ v \in 1 .. s.used
      BY <1>1, <2>1, <2>2, <2>4, <2>6 DEF Since
    <3>2. v \in OnBranch(d, k) /\ d.role[v] = "memory"
      BY <2>3, <2>6, <3>1 DEF Since
    <3> QED BY <1>4, <2>2, <3>2 DEF Since
  <2> QED BY <2>3, <2>5, <2>6
<1> QED BY <1>1, <1>2, <1>3, <1>4 DEF Since

\* The same messages in the same tree, no memory back in force.
Reasoned(d, e) ==
  /\ e.used = d.used /\ e.live = d.live /\ e.parent = d.parent
  /\ e.role = d.role /\ e.account = d.account /\ (d.cut => e.cut)
  /\ \A i \in Ids : d.role[i] = "memory" /\ Excluded(d, i) => Excluded(e, i)

\* Excluding messages keeps the memories in order.
LEMMA ReasonedKeeps ==
  ASSUME NEW d, NEW e, Shape(d), Shape(e), Reasoned(d, e), Sound(d)
  PROVE  /\ Since(d, e) /\ Sound(e) /\ (Gapless(e) <=> Gapless(d))
         /\ \A k \in Ids \cup {NoMsg} : OnBranch(e, k) = OnBranch(d, k)
         /\ \A m \in d.live : Outdated(d, m) => Outdated(e, m)
         /\ (\A w \in d.live : InForce(d, w) => InForce(e, w)) => \A m \in d.live : Kept(d, m) => Kept(e, m)
<1>1. \A k \in Ids \cup {NoMsg} : OnBranch(e, k) = OnBranch(d, k)
  BY ShapeTree, SameBranches DEF Reasoned
<1>2. d.live \subseteq Ids /\ e.live = d.live /\ 1 .. d.used \subseteq Ids /\ d.used \in Nat
  BY ShapeIs, IdsAre DEF Reasoned
<1>3. \A k \in d.live : OnBranch(d, k) \subseteq d.live
  BY <1>2, ShapeTree, OnBranchWithin
<1>4. Since(d, e)
  BY <1>1, <1>2, <1>3 DEF Since, Reasoned
<1>5. \A i \in Ids : InForce(e, i) => InForce(d, i)
  BY DEF InForce, Reasoned
<1>6. Sound(e)
  <2>1. ~e.cut => ~d.cut
    BY DEF Reasoned
  <2>2. Lone(d) => Lone(e)
    BY <1>1, <1>2, <1>3, <1>5 DEF Lone
  <2>3. ASSUME NEW w \in d.live PROVE Forgotten(e, w) = Forgotten(d, w)
    <3>1. OnBranch(e, w) = OnBranch(d, w) /\ OnBranch(d, w) \subseteq Ids
      BY <1>1, <1>2, <1>3
    <3>2. \A v \in OnBranch(d, w) : OnBranch(e, v) = OnBranch(d, v)
      BY <1>1, <3>1
    <3> QED BY <3>1, <3>2 DEF Forgotten, Blank, Reasoned
  <2>4. Accounts(d) => Accounts(e)
    BY <1>1, <1>2, <1>5, <2>3 DEF Accounts, Reasoned
  <2> QED BY <2>1, <2>2, <2>4 DEF Sound
<1>7. Gapless(e) <=> Gapless(d)
  BY DEF Gapless, Reasoned
<1>8. \A m \in d.live : Outdated(d, m) => Outdated(e, m)
  BY <1>1, <1>2 DEF Outdated, Reasoned
<1>9. ASSUME \A w \in d.live : InForce(d, w) => InForce(e, w), NEW m \in d.live, Kept(d, m)
      PROVE  Kept(e, m)
  BY <1>1, <1>2, <1>9 DEF Kept, Blank, Reasoned
<1> QED BY <1>1, <1>4, <1>6, <1>7, <1>8, <1>9

\* Messages were deleted, but no memory from the branch of one that is left.
MemoriesStay(d, gone) ==
  \A k \in d.live \ gone : \A v \in OnBranch(d, k) : d.role[v] = "memory" => v \in d.live \ gone
Emptied(d, e) ==
  /\ e.used = d.used /\ e.role = d.role /\ e.account = d.account /\ e.reason = d.reason
  /\ e.live \subseteq d.live /\ e.live # 1 .. e.used /\ (d.cut => e.cut)
  /\ ~e.cut => /\ Prunes(d, e)
               /\ \A k \in e.live : \A v \in OnBranch(d, k) : d.role[v] = "memory" => v \in e.live

\* So does deleting some.
LEMMA EmptiedKeeps ==
  ASSUME NEW d, NEW e, Shape(d), Shape(e), Emptied(d, e), Sound(d)
  PROVE  Since(d, e) /\ Sound(e) /\ Lacks(e) /\ Recalled(e) /\ Replaced(e)
<1>1. ~e.cut => \A k \in e.live : OnBranch(e, k) = OnBranch(d, k) \cap e.live
  BY ShapeTree, Pruned DEF Emptied
<1>2. d.used \in Nat /\ e.live \subseteq d.live
  BY ShapeIs DEF Emptied
<1>3. Since(d, e)
  BY <1>1, <1>2 DEF Since, Emptied, Excluded
<1>4. \A i : InForce(e, i) <=> InForce(d, i)
  BY DEF InForce, Excluded, Emptied
<1>5. Sound(e)
  <2>1. ~e.cut => ~d.cut
    BY DEF Emptied
  <2>2. ASSUME ~e.cut, Lone(d) PROVE Lone(e)
    BY <1>1, <1>2, <1>4, <2>2 DEF Lone
  <2>3. ASSUME ~e.cut, NEW w \in e.live, NEW m \in e.live, m \in Forgotten(d, w)
        PROVE  m \in Forgotten(e, w)
    <3>1. PICK v \in OnBranch(d, w) : Blank(d, v) /\ m \in OnBranch(d, v)
      BY <2>3 DEF Forgotten
    <3>2. v \in e.live
      BY <2>3, <3>1 DEF Blank, Emptied
    <3>3. v \in OnBranch(e, w) /\ m \in OnBranch(e, v) /\ Blank(e, v)
      BY <1>1, <2>3, <3>1, <3>2 DEF Blank, Emptied
    <3> QED BY <3>3 DEF Forgotten
  <2>4. ASSUME ~e.cut, Accounts(d), NEW w \in e.live, InForce(e, w)
        PROVE  OnBranch(e, w) \ {w} \subseteq e.account[w] \cup Forgotten(e, w)
    <3>1. OnBranch(e, w) \ {w} \subseteq (d.account[w] \cup Forgotten(d, w)) \cap e.live
      BY <1>1, <1>2, <1>4, <2>4 DEF Accounts
    <3> QED BY <2>3, <2>4, <3>1 DEF Emptied
  <2> QED BY <2>1, <2>2, <2>4 DEF Sound, Accounts
<1> QED BY <1>3, <1>5 DEF Emptied, Lacks, Recalled, Replaced, Gapless

\* A message was added.
Grown(d, e, p, ro, acc) ==
  LET n == d.used + 1 IN
  /\ e.used = n /\ e.live = d.live \cup {n} /\ e.reason = d.reason /\ e.cut = d.cut
  /\ e.parent[n] = p /\ e.role[n] = ro /\ e.account[n] = acc
  /\ \A i \in Ids : i # n => /\ e.parent[i] = d.parent[i] /\ e.role[i] = d.role[i]
                             /\ e.account[i] = d.account[i]

\* What a new memory below p must find: none in force above it, and what was excluded for a
\* memory kept by another or above it.
Ready(d, p, acc) ==
  /\ ~d.cut => \A v \in OnBranch(d, p) :
                  ~InForce(d, v) /\ (acc = {} \/ v \in acc \cup Forgotten(d, p))
  /\ Gapless(d) => \A m \in d.live : d.reason[m] \in ForMemory =>
                      Kept(d, m) \/ (m \in OnBranch(d, p) /\ (acc = {} \/ m \in acc))

\* So does a new message, and a memory that is ready for its branch.
LEMMA GrownKeeps ==
  ASSUME NEW d, NEW e, NEW p \in 0 .. d.used, NEW ro, NEW acc, Shape(d), Shape(e),
         Grown(d, e, p, ro, acc), Sound(d), Lacks(d), Replaced(d),
         ro = "memory" => Ready(d, p, acc), ro # "memory" => Recalled(d)
  PROVE  Since(d, e) /\ Sound(e) /\ Lacks(e) /\ Recalled(e) /\ Replaced(e)
<1> DEFINE n == d.used + 1
<1>0. /\ d.used \in Nat /\ n \in Nat /\ n = d.used + 1 /\ n \in Ids /\ d.live \subseteq 1 .. d.used
      /\ d.live \subseteq Ids /\ 1 .. d.used \subseteq Ids /\ p \in Ids \cup {NoMsg}
  <2>1. d.used \in Nat /\ e.used \in 0 .. Bound /\ e.used = n /\ d.live \subseteq 1 .. d.used
        /\ d.live \subseteq Ids /\ d.used <= Bound /\ Bound \in Nat
    BY ShapeIs, IdsAre DEF Grown
  <2> QED BY <2>1, IdsAre
<1>1. /\ e.used = n /\ e.live = d.live \cup {n} /\ e.reason = d.reason /\ e.cut = d.cut
      /\ e.parent[n] = p /\ e.role[n] = ro /\ e.account[n] = acc
      /\ \A i \in Ids : i # n => /\ e.parent[i] = d.parent[i] /\ e.role[i] = d.role[i]
                                 /\ e.account[i] = d.account[i]
  BY DEF Grown
<1> HIDE DEF n
<1>2. \A i \in d.live : i < n /\ i # n /\ e.parent[i] = d.parent[i]
  <2>1. \A i \in d.live : i < n /\ i # n /\ i \in Ids
    BY <1>0
  <2> QED BY <1>1, <2>1
<1>3. /\ \A k \in Ids \cup {NoMsg} : k # n => OnBranch(e, k) = OnBranch(d, k)
      /\ OnBranch(e, n) = OnBranch(d, p) \cup {n} /\ n \notin d.live
  <2>1. Tree(d.live, d.parent) /\ Tree(e.live, e.parent)
    BY ShapeTree
  <2>2. \A i \in d.live : i < n /\ e.parent[i] = d.parent[i]
    BY <1>2
  <2>3. e.live = d.live \cup {n} /\ n \in Ids /\ e.parent[n] = p
    BY <1>0, <1>1
  <2>4. /\ \A k \in Ids \cup {NoMsg} : k # n => OnBranch(e, k) = OnBranch(d, k)
        /\ OnBranch(e, n) = OnBranch(d, e.parent[n]) \cup {n} /\ n \notin d.live
    BY <2>1, <2>2, <2>3, GrownBranches
  <2> QED BY <2>3, <2>4
<1>4. \A k \in Ids \cup {NoMsg} : OnBranch(d, k) \subseteq d.live
  BY ShapeTree, OnBranchWithin
<1>5. \A i \in d.live : InForce(e, i) <=> InForce(d, i)
  BY <1>0, <1>1, <1>2 DEF InForce, Excluded
<1>6. Since(d, e)
  <2>1. \A i \in 1 .. d.used : i \in Ids /\ i # n
    BY <1>0
  <2>2. \A k \in e.live : k <= d.used => k \in d.live
    BY <1>0, <1>1
  <2>3. d.used <= e.used
    BY <1>0, <1>1
  <2>4. \A k \in d.live \cap e.live : OnBranch(e, k) = OnBranch(d, k) \cap e.live
    BY <1>0, <1>1, <1>2, <1>3, <1>4
  <2>5. \A k \in d.live : \A v \in OnBranch(d, k) : v \in e.live
    BY <1>0, <1>1, <1>4
  <2> QED BY <1>1, <2>1, <2>2, <2>3, <2>4, <2>5 DEF Since, Excluded
<1>7. InForce(e, n) => ro = "memory"
  BY <1>1 DEF InForce
<1>15. \A v \in d.live : /\ OnBranch(e, v) = OnBranch(d, v) /\ (Blank(d, v) => Blank(e, v))
                          /\ e.role[v] = d.role[v] /\ e.account[v] = d.account[v]
  BY <1>0, <1>1, <1>2, <1>3 DEF Blank
<1>8. Sound(e)
  <2>1. SUFFICES ASSUME ~d.cut PROVE Lone(e) /\ Accounts(e)
    BY <1>1 DEF Sound
  <2>2. Lone(d) /\ Accounts(d)
    BY <2>1 DEF Sound
  <2>3. Lone(e)
    <3>1. ASSUME NEW k \in d.live, NEW v \in OnBranch(e, k), NEW w \in OnBranch(e, k),
                 InForce(e, v), InForce(e, w)
          PROVE  v = w
      <4>1. OnBranch(e, k) = OnBranch(d, k) /\ OnBranch(d, k) \subseteq d.live
        BY <1>0, <1>2, <1>3, <1>4
      <4> QED BY <1>5, <2>2, <3>1, <4>1 DEF Lone
    <3>2. ASSUME NEW v \in OnBranch(e, n), NEW w \in OnBranch(e, n), InForce(e, v), InForce(e, w)
          PROVE  v = w
      <4>1. OnBranch(d, p) \subseteq d.live
        BY <1>0, <1>4
      <4>2. CASE ro = "memory"
        <5>1. \A i \in OnBranch(d, p) : ~InForce(e, i)
          BY <1>5, <2>1, <4>1, <4>2 DEF Ready
        <5> QED BY <1>3, <3>2, <5>1
      <4>3. CASE ro # "memory"
        <5>1. v \in OnBranch(d, p) /\ w \in OnBranch(d, p)
          BY <1>3, <1>7, <3>2, <4>3
        <5>2. p \in d.live
          BY <1>0, <5>1, ShapeTree, OnBranchWithin
        <5>3. InForce(d, v) /\ InForce(d, w)
          BY <1>5, <3>2, <4>1, <5>1
        <5> QED BY <2>2, <5>1, <5>2, <5>3 DEF Lone
      <4> QED BY <4>2, <4>3
    <3> QED BY <1>1, <3>1, <3>2 DEF Lone
  <2>4. Accounts(e)
    <3>0. ASSUME NEW k \in d.live \cup {n}, NEW q \in Ids \cup {NoMsg}, OnBranch(d, q) \subseteq OnBranch(e, k)
          PROVE  Forgotten(d, q) \subseteq Forgotten(e, k)
      <4>1. \A v \in OnBranch(d, q) : v \in d.live
        BY <1>4
      <4> QED BY <1>15, <3>0, <4>1 DEF Forgotten
    <3>1. ASSUME NEW w \in d.live, InForce(e, w)
          PROVE  OnBranch(e, w) \ {w} \subseteq e.account[w] \cup Forgotten(e, w)
      <4>1. OnBranch(e, w) = OnBranch(d, w) /\ e.account[w] = d.account[w] /\ InForce(d, w)
            /\ w \in Ids \cup {NoMsg}
        BY <1>0, <1>1, <1>2, <1>3, <1>5, <3>1
      <4>2. Forgotten(d, w) \subseteq Forgotten(e, w)
        BY <3>0, <4>1
      <4> QED BY <2>2, <4>1, <4>2 DEF Accounts
    <3>2. ASSUME InForce(e, n) PROVE OnBranch(e, n) \ {n} \subseteq e.account[n] \cup Forgotten(e, n)
      <4>1. \A v \in OnBranch(d, p) : acc = {} \/ v \in acc \cup Forgotten(d, p)
        BY <1>7, <2>1, <3>2 DEF Ready
      <4>2. Forgotten(d, p) \subseteq Forgotten(e, n)
        BY <1>0, <1>3, <3>0
      <4>3. acc = {} => OnBranch(e, n) \subseteq Forgotten(e, n)
        BY <1>1, <1>3, <1>7, <3>2 DEF Forgotten, Blank
      <4> QED BY <1>1, <1>3, <4>1, <4>2, <4>3
    <3> QED BY <1>1, <3>1, <3>2 DEF Accounts
  <2> QED BY <2>3, <2>4
<1>9. (1 .. n) = (1 .. d.used) \cup {n}
  BY <1>0
<1>10. Lacks(e)
  <2>1. e.live = 1 .. n => d.live = 1 .. d.used
    <3>1. n \notin 1 .. d.used
      BY <1>0
    <3> DEFINE A == 1 .. d.used
               B == 1 .. n
    <3>2. B = A \cup {n} /\ n \notin A
      BY <1>9, <3>1
    <3> HIDE DEF A, B
    <3>3. e.live = B => d.live = A
      BY <1>1, <1>3, <3>2, SMTT(30)
    <3> QED BY <3>3 DEF A, B
  <2> QED BY <1>1, <2>1 DEF Lacks
<1>11. ASSUME Gapless(e) PROVE Gapless(d)
  <2>1. n \notin 1 .. d.used
    BY <1>0
  <2> QED BY <1>1, <1>3, <1>9, <1>11, <2>1, ZenonT(60) DEF Gapless
<1>12. d.reason[n] = "none"
  <2>1. n > d.used
    BY <1>0
  <2> QED BY <1>0, <2>1 DEF Shape
<1>13. Recalled(e)
  <2>1. SUFFICES ASSUME Gapless(e), NEW m \in e.live, e.reason[m] \in ForMemory
                 PROVE  Kept(e, m)
    BY DEF Recalled
  <2>2. m \in d.live /\ d.reason[m] \in ForMemory
    BY <1>1, <1>12, <2>1 DEF ForMemory
  <2>3. Kept(d, m) => Kept(e, m)
    BY <1>1, <1>5, <1>15 DEF Kept
  <2>4. CASE ro = "memory"
    <3>1. Kept(d, m) \/ (m \in OnBranch(d, p) /\ (acc = {} \/ m \in acc))
      BY <1>11, <2>1, <2>2, <2>4 DEF Ready
    <3>2. InForce(e, n) /\ (acc = {} => Blank(e, n)) /\ n \in e.live
      BY <1>1, <1>12, <2>4 DEF InForce, Excluded, Blank
    <3>3. m \in OnBranch(d, p) => m \in OnBranch(e, n)
      BY <1>3
    <3> QED BY <1>1, <2>3, <3>1, <3>2, <3>3 DEF Kept
  <2>5. CASE ro # "memory"
    BY <1>11, <2>1, <2>2, <2>3, <2>5 DEF Recalled
  <2> QED BY <2>4, <2>5
<1>14. Replaced(e)
  <2>1. SUFFICES ASSUME Gapless(e), NEW m \in e.live, e.reason[m] = "file"
                 PROVE  Outdated(e, m)
    BY DEF Replaced
  <2>2. m \in d.live /\ d.reason[m] = "file"
    BY <1>1, <1>12, <2>1
  <2>3. Outdated(d, m)
    BY <1>11, <2>1, <2>2 DEF Replaced
  <2> QED BY <1>1, <1>15, <2>2, <2>3 DEF Outdated
<1> QED BY <1>6, <1>8, <1>10, <1>13, <1>14

Reasons == {"none", "compressed", "covered", "discarded", "superseded", "file"}

\* Rows by their fields.
Record(used, live, parent, role, reason, summary, account, active, cut) ==
  [used |-> used, live |-> live, parent |-> parent, role |-> role, reason |-> reason,
   summary |-> summary, account |-> account, active |-> active, cut |-> cut]

\* Rows are their fields.
LEMMA RowsAre ==
  \A d \in Rows : d = Record(d.used, d.live, d.parent, d.role, d.reason, d.summary, d.account,
                             d.active, d.cut)
BY DEF Rows, Record

\* Fields of the right types are rows.
LEMMA RecordIs ==
  ASSUME NEW e, e = Record(e.used, e.live, e.parent, e.role, e.reason, e.summary, e.account,
                           e.active, e.cut),
         e.used \in 0 .. Bound, e.live \in SUBSET Ids, e.parent \in [Ids -> Ids \cup {NoMsg}],
         e.role \in [Ids -> Saved \cup {"memory"}], e.reason \in [Ids -> Reasons],
         e.summary \in SUBSET Ids, e.account \in [Ids -> SUBSET Ids], e.active \in Ids \cup {NoMsg},
         e.cut \in BOOLEAN
  PROVE  e \in Rows
<1> DEFINE used == e.used
           live == e.live
           parent == e.parent
           role == e.role
           reason == e.reason
           summary == e.summary
           account == e.account
           active == e.active
           cut == e.cut
<1>1. e = Record(used, live, parent, role, reason, summary, account, active, cut)
  OBVIOUS
<1>2. /\ used \in 0 .. Bound /\ live \in SUBSET Ids /\ parent \in [Ids -> Ids \cup {NoMsg}]
      /\ role \in [Ids -> Saved \cup {"memory"}] /\ reason \in [Ids -> Reasons]
      /\ summary \in SUBSET Ids /\ account \in [Ids -> SUBSET Ids] /\ active \in Ids \cup {NoMsg}
      /\ cut \in BOOLEAN
  OBVIOUS
<1> HIDE DEF used, live, parent, role, reason, summary, account, active, cut
<1> QED BY <1>1, <1>2 DEF Record, Rows, Bound, Reasons

\* Insert, field by field.
LEMMA InsertRecord ==
  ASSUME NEW u, NEW l, NEW p, NEW ro, NEW re, NEW su, NEW acc, NEW act, NEW c,
         NEW q, NEW r2, NEW a2
  PROVE  Insert(Record(u, l, p, ro, re, su, acc, act, c), q, r2, a2) =
           Record(u + 1, l \cup {u + 1}, [p EXCEPT ![u + 1] = q], [ro EXCEPT ![u + 1] = r2],
                  re, su, [acc EXCEPT ![u + 1] = a2], u + 1, c)
<1> DEFINE d == Record(u, l, p, ro, re, su, acc, act, c)
           n == u + 1
           l2 == l \cup {n}
           p2 == [p EXCEPT ![n] = q]
           ro2 == [ro EXCEPT ![n] = r2]
           acc2 == [acc EXCEPT ![n] = a2]
<1>1. d.used + 1 = n /\ d.live = l /\ d.parent = p /\ d.role = ro /\ d.account = acc
  BY DEF Record
<1>2. Insert(d, q, r2, a2) =
        [[[[[[d EXCEPT !.used = n] EXCEPT !.live = l2] EXCEPT !.parent = p2] EXCEPT !.role = ro2]
          EXCEPT !.account = acc2] EXCEPT !.active = n]
  <2> HIDE DEF d, n
  <2> QED BY <1>1 DEF Insert
<1> HIDE DEF l2, p2, ro2, acc2, n
<1>3. [d EXCEPT !.used = n] = Record(n, l, p, ro, re, su, acc, act, c)
  BY DEF Record
<1>4. [Record(n, l, p, ro, re, su, acc, act, c) EXCEPT !.live = l2]
        = Record(n, l2, p, ro, re, su, acc, act, c)
  BY DEF Record
<1>5. [Record(n, l2, p, ro, re, su, acc, act, c) EXCEPT !.parent = p2]
        = Record(n, l2, p2, ro, re, su, acc, act, c)
  BY DEF Record
<1>6. [Record(n, l2, p2, ro, re, su, acc, act, c) EXCEPT !.role = ro2]
        = Record(n, l2, p2, ro2, re, su, acc, act, c)
  BY DEF Record
<1>7. [Record(n, l2, p2, ro2, re, su, acc, act, c) EXCEPT !.account = acc2]
        = Record(n, l2, p2, ro2, re, su, acc2, act, c)
  BY DEF Record
<1>8. [Record(n, l2, p2, ro2, re, su, acc2, act, c) EXCEPT !.active = n]
        = Record(n, l2, p2, ro2, re, su, acc2, n, c)
  BY DEF Record
<1>9. Insert(d, q, r2, a2) = Record(n, l2, p2, ro2, re, su, acc2, n, c)
  <2> DEFINE d1 == [d EXCEPT !.used = n]
             d2 == [d1 EXCEPT !.live = l2]
             d3 == [d2 EXCEPT !.parent = p2]
             d4 == [d3 EXCEPT !.role = ro2]
             d5 == [d4 EXCEPT !.account = acc2]
  <2>1. Insert(d, q, r2, a2) = [d5 EXCEPT !.active = n]
    BY <1>2
  <2>2. d1 = Record(n, l, p, ro, re, su, acc, act, c)
    BY <1>3
  <2> HIDE DEF d, d1
  <2>3. d2 = Record(n, l2, p, ro, re, su, acc, act, c)
    BY <1>4, <2>2
  <2> HIDE DEF d2
  <2>4. d3 = Record(n, l2, p2, ro, re, su, acc, act, c)
    BY <1>5, <2>3
  <2> HIDE DEF d3
  <2>5. d4 = Record(n, l2, p2, ro2, re, su, acc, act, c)
    BY <1>6, <2>4
  <2> HIDE DEF d4
  <2>6. d5 = Record(n, l2, p2, ro2, re, su, acc2, act, c)
    BY <1>7, <2>5
  <2> HIDE DEF d5
  <2> QED BY <1>8, <2>1, <2>6
<1> QED BY <1>9 DEF n, l2, p2, ro2, acc2

\* Squeeze, field by field.
LEMMA SqueezeRecord ==
  ASSUME NEW u, NEW l, NEW p, NEW ro, NEW re, NEW su, NEW acc, NEW act, NEW c, NEW ms
  PROVE  Squeeze(Record(u, l, p, ro, re, su, acc, act, c), ms) =
           Record(u, l, p, ro, [i \in Ids |-> IF i \in ms THEN "compressed" ELSE re[i]],
                  su \cup ms, acc, act, c)
<1> DEFINE re2 == [i \in Ids |-> IF i \in ms THEN "compressed" ELSE re[i]]
<1>1. Exclude(Record(u, l, p, ro, re, su, acc, act, c), ms, "compressed")
        = Record(u, l, p, ro, re2, su, acc, act, c)
  BY DEF Exclude, Record
<1> HIDE DEF re2
<1>2. [Record(u, l, p, ro, re2, su, acc, act, c) EXCEPT !.summary = @ \cup ms]
        = Record(u, l, p, ro, re2, su \cup ms, acc, act, c)
  BY DEF Record
<1> QED BY <1>1, <1>2 DEF Squeeze, Summarize, re2

Without(d, gone, par, a) == [d EXCEPT !.live = @ \ gone, !.parent = par, !.active = a]

\* A deletion, field by field.
LEMMA WithoutRecord ==
  ASSUME NEW u, NEW l, NEW p, NEW ro, NEW re, NEW su, NEW acc, NEW act, NEW c,
         NEW gone, NEW par, NEW a
  PROVE  Without(Record(u, l, p, ro, re, su, acc, act, c), gone, par, a) =
           Record(u, l \ gone, par, ro, re, su, acc, a, c)
<1> DEFINE l2 == l \ gone
           d == Record(u, l, p, ro, re, su, acc, act, c)
<1>1. Without(d, gone, par, a)
        = [[[d EXCEPT !.live = d.live \ gone] EXCEPT !.parent = par] EXCEPT !.active = a]
  <2> HIDE DEF d
  <2> QED BY DEF Without
<1>2. d.live \ gone = l2
  BY DEF Record
<1> HIDE DEF l2
<1>3. [d EXCEPT !.live = l2] = Record(u, l2, p, ro, re, su, acc, act, c)
  BY DEF Record
<1>4. [Record(u, l2, p, ro, re, su, acc, act, c) EXCEPT !.parent = par]
        = Record(u, l2, par, ro, re, su, acc, act, c)
  BY DEF Record
<1>5. [Record(u, l2, par, ro, re, su, acc, act, c) EXCEPT !.active = a]
        = Record(u, l2, par, ro, re, su, acc, a, c)
  BY DEF Record
<1> QED BY <1>1, <1>2, <1>3, <1>4, <1>5 DEF l2

\* The fields of a record of them.
LEMMA FieldsAre ==
  ASSUME NEW u, NEW l, NEW p, NEW ro, NEW re, NEW su, NEW acc, NEW act, NEW c
  PROVE  LET e == Record(u, l, p, ro, re, su, acc, act, c) IN
         /\ e.used = u /\ e.live = l /\ e.parent = p /\ e.role = ro /\ e.reason = re
         /\ e.summary = su /\ e.account = acc /\ e.active = act /\ e.cut = c
         /\ e = Record(e.used, e.live, e.parent, e.role, e.reason, e.summary, e.account,
                       e.active, e.cut)
BY DEF Record

\* What a request leaves of the rows, field by field.
LEMMA InsertIs ==
  ASSUME NEW d, Shape(d), d.used < Bound, NEW p \in 0 .. d.used, NEW ro \in Saved \cup {"memory"},
         NEW acc \in SUBSET Ids
  PROVE  LET e == Insert(d, p, ro, acc) IN
         Shape(e) /\ Grown(d, e, p, ro, acc) /\ e.active = e.used
<1> DEFINE n == d.used + 1
           e == Insert(d, p, ro, acc)
<1>0. d \in Rows /\ d.used \in Nat /\ d.used \in 0 .. Bound /\ Bound \in Nat /\ n \in Nat /\ n = d.used + 1
      /\ n \in Ids /\ n <= Bound /\ p \in Ids \cup {NoMsg} /\ p < n
  <2>1. d.used \in Nat /\ d.used \in 0 .. Bound /\ Bound \in Nat /\ Ids = 1 .. Bound /\ Ids \cup {NoMsg} = 0 .. Bound
    BY ShapeIs, IdsAre
  <2> QED BY <2>1 DEF Shape
<1>1. /\ d.parent \in [Ids -> Ids \cup {NoMsg}] /\ d.role \in [Ids -> Saved \cup {"memory"}]
      /\ d.reason \in [Ids -> Reasons] /\ d.summary \in SUBSET Ids
      /\ d.account \in [Ids -> SUBSET Ids] /\ d.cut \in BOOLEAN /\ d.live \in SUBSET Ids
      /\ d.live \subseteq 1 .. d.used
  BY ShapeIs DEF Reasons
<1>2. /\ e.used = n /\ e.live = d.live \cup {n} /\ e.parent = [d.parent EXCEPT ![n] = p]
      /\ e.role = [d.role EXCEPT ![n] = ro] /\ e.account = [d.account EXCEPT ![n] = acc]
      /\ e.reason = d.reason /\ e.summary = d.summary /\ e.active = n /\ e.cut = d.cut
      /\ e = Record(e.used, e.live, e.parent, e.role, e.reason, e.summary, e.account,
                 e.active, e.cut)
  <2>1. d = Record(d.used, d.live, d.parent, d.role, d.reason, d.summary, d.account, d.active,
                 d.cut)
    BY <1>0, RowsAre
  <2>2. e = Record(n, d.live \cup {n}, [d.parent EXCEPT ![n] = p], [d.role EXCEPT ![n] = ro],
                   d.reason, d.summary, [d.account EXCEPT ![n] = acc], n, d.cut)
    BY <2>1, InsertRecord
  <2> HIDE DEF e, n
  <2> QED BY <2>2, FieldsAre
<1> HIDE DEF n, e
<1>3. /\ e.parent \in [Ids -> Ids \cup {NoMsg}] /\ e.role \in [Ids -> Saved \cup {"memory"}]
      /\ e.account \in [Ids -> SUBSET Ids]
      /\ e.parent[n] = p /\ e.role[n] = ro /\ e.account[n] = acc
      /\ \A i \in Ids : i # n => /\ e.parent[i] = d.parent[i] /\ e.role[i] = d.role[i]
                                 /\ e.account[i] = d.account[i]
  BY <1>0, <1>1, <1>2
<1>4. e \in Rows
  <2>1. e.used \in 0 .. Bound /\ e.live \in SUBSET Ids /\ e.active \in Ids \cup {NoMsg}
    BY <1>0, <1>1, <1>2
  <2> QED BY <1>1, <1>2, <1>3, <2>1, RecordIs
<1>5. Shape(e)
  <2>1. e.live \subseteq 1 .. e.used /\ e.active <= e.used
    BY <1>0, <1>1, <1>2
  <2>2. \A i \in Ids : e.parent[i] < i
    <3>1. \A i \in Ids : d.parent[i] < i
      BY DEF Shape
    <3> QED BY <1>0, <1>3, <3>1
  <2>3. \A i \in Ids : i > e.used => e.reason[i] = "none" /\ i \notin e.summary
    <3>1. \A i \in Ids : i > n => i > d.used
      BY <1>0, IdsAre
    <3> QED BY <1>2, <3>1 DEF Shape
  <2>4. \A i \in Ids : e.reason[i] = "compressed" => i \in e.summary
    BY <1>2 DEF Shape
  <2> QED BY <1>4, <2>1, <2>2, <2>3, <2>4 DEF Shape
<1>6. Grown(d, e, p, ro, acc)
  BY <1>2, <1>3 DEF Grown, n
<1> QED BY <1>2, <1>5, <1>6 DEF e

Marked(d, ms, why) == [i \in Ids |-> IF i \in ms THEN why ELSE d.reason[i]]

\* Exclude gives one reason to the messages, and leaves the tree as it is.
LEMMA ExcludeIs ==
  ASSUME NEW d, Shape(d), NEW ms \in SUBSET d.live, NEW why \in Reasons \ {"none", "compressed"}
  PROVE  LET e == Exclude(d, ms, why) IN
         /\ Shape(e) /\ Reasoned(d, e) /\ e.cut = d.cut /\ e.active = d.active
         /\ e.summary = d.summary /\ e.reason = Marked(d, ms, why)
<1> DEFINE e == Exclude(d, ms, why)
<1>0. d \in Rows /\ d.used \in Nat /\ d.used \in 0 .. Bound /\ d.live \subseteq 1 .. d.used /\ ms \subseteq Ids
  BY ShapeIs DEF Shape
<1>1. /\ d.parent \in [Ids -> Ids \cup {NoMsg}] /\ d.role \in [Ids -> Saved \cup {"memory"}]
      /\ d.reason \in [Ids -> Reasons] /\ d.summary \in SUBSET Ids /\ d.active \in Ids \cup {NoMsg}
      /\ d.account \in [Ids -> SUBSET Ids] /\ d.cut \in BOOLEAN /\ d.live \in SUBSET Ids
  BY ShapeIs, IdsAre DEF Reasons
<1>2. /\ e.used = d.used /\ e.live = d.live /\ e.parent = d.parent /\ e.role = d.role
      /\ e.account = d.account /\ e.reason = Marked(d, ms, why)
      /\ e.summary = d.summary /\ e.active = d.active /\ e.cut = d.cut
      /\ e = Record(e.used, e.live, e.parent, e.role, e.reason, e.summary, e.account,
                 e.active, e.cut)
  <2>1. d = Record(d.used, d.live, d.parent, d.role, d.reason, d.summary, d.account, d.active,
                 d.cut)
    BY <1>0, RowsAre
  <2>2. e = Record(d.used, d.live, d.parent, d.role, Marked(d, ms, why), d.summary, d.account,
                   d.active, d.cut)
    BY <2>1 DEF Exclude, Marked, Record
  <2> HIDE DEF e
  <2> QED BY <2>2, FieldsAre
<1> HIDE DEF e
<1>3. e.reason \in [Ids -> Reasons] /\ \A i \in Ids : e.reason[i] = IF i \in ms THEN why ELSE d.reason[i]
  BY <1>1, <1>2 DEF Marked
<1>4. e \in Rows
  BY <1>0, <1>1, <1>2, <1>3, RecordIs
<1>5. Shape(e)
  <2>1. \A i \in Ids : i > d.used => i \notin ms
    BY <1>0
  <2> QED BY <1>2, <1>3, <1>4, <2>1 DEF Shape
<1>6. Reasoned(d, e)
  BY <1>2, <1>3 DEF Reasoned, Excluded
<1> QED BY <1>2, <1>5, <1>6 DEF e

\* Squeeze does, with a summary for each.
LEMMA SqueezeIs ==
  ASSUME NEW d, Shape(d), NEW ms \in SUBSET d.live, \A m \in ms : d.role[m] # "memory"
  PROVE  LET e == Squeeze(d, ms) IN
         /\ Shape(e) /\ Reasoned(d, e) /\ e.cut = d.cut /\ e.active = d.active
         /\ e.summary = d.summary \cup ms /\ e.reason = Marked(d, ms, "compressed")
<1> DEFINE e == Squeeze(d, ms)
<1>0. d \in Rows /\ d.used \in Nat /\ d.used \in 0 .. Bound /\ d.live \subseteq 1 .. d.used /\ ms \subseteq Ids
  BY ShapeIs DEF Shape
<1>1. /\ d.parent \in [Ids -> Ids \cup {NoMsg}] /\ d.role \in [Ids -> Saved \cup {"memory"}]
      /\ d.reason \in [Ids -> Reasons] /\ d.summary \in SUBSET Ids /\ d.active \in Ids \cup {NoMsg}
      /\ d.account \in [Ids -> SUBSET Ids] /\ d.cut \in BOOLEAN /\ d.live \in SUBSET Ids
  BY ShapeIs, IdsAre DEF Reasons
<1>2. /\ e.used = d.used /\ e.live = d.live /\ e.parent = d.parent /\ e.role = d.role
      /\ e.account = d.account /\ e.reason = Marked(d, ms, "compressed")
      /\ e.summary = d.summary \cup ms /\ e.active = d.active /\ e.cut = d.cut
      /\ e = Record(e.used, e.live, e.parent, e.role, e.reason, e.summary, e.account,
                 e.active, e.cut)
  <2>1. d = Record(d.used, d.live, d.parent, d.role, d.reason, d.summary, d.account, d.active,
                 d.cut)
    BY <1>0, RowsAre
  <2>2. e = Record(d.used, d.live, d.parent, d.role, Marked(d, ms, "compressed"),
                   d.summary \cup ms, d.account, d.active, d.cut)
    BY <2>1, SqueezeRecord DEF Marked
  <2> HIDE DEF e
  <2> QED BY <2>2, FieldsAre
<1> HIDE DEF e
<1>3. e.reason \in [Ids -> Reasons]
      /\ \A i \in Ids : e.reason[i] = IF i \in ms THEN "compressed" ELSE d.reason[i]
  BY <1>1, <1>2 DEF Marked, Reasons
<1>4. e \in Rows
  BY <1>0, <1>1, <1>2, <1>3, RecordIs
<1>5. Shape(e)
  <2>1. \A i \in Ids : i > d.used => i \notin ms
    BY <1>0
  <2> QED BY <1>2, <1>3, <1>4, <2>1 DEF Shape
<1>6. Reasoned(d, e)
  BY <1>2, <1>3 DEF Reasoned, Excluded
<1> QED BY <1>2, <1>5, <1>6 DEF e

\* What any commit adds: the note that a message is cut off.
LEMMA NoteCutIs ==
  ASSUME NEW d, Shape(d)
  PROVE  LET e == NoteCut(d) IN
         /\ Shape(e) /\ e.used = d.used /\ e.live = d.live /\ e.parent = d.parent
         /\ e.role = d.role /\ e.account = d.account /\ e.reason = d.reason
         /\ e.summary = d.summary /\ e.active = d.active
         /\ e.cut = (d.cut \/ \E m \in d.live : d.parent[m] \notin d.live \cup {NoMsg})
         /\ Noted(d) => e = d
<1> DEFINE e == NoteCut(d)
           c == d.cut \/ \E m \in d.live : d.parent[m] \notin d.live \cup {NoMsg}
<1>0. d \in Rows /\ d.used \in 0 .. Bound
  BY ShapeIs DEF Shape
<1>1. /\ d.parent \in [Ids -> Ids \cup {NoMsg}] /\ d.role \in [Ids -> Saved \cup {"memory"}]
      /\ d.reason \in [Ids -> Reasons] /\ d.summary \in SUBSET Ids /\ d.active \in Ids \cup {NoMsg}
      /\ d.account \in [Ids -> SUBSET Ids] /\ d.cut \in BOOLEAN /\ d.live \in SUBSET Ids
  BY ShapeIs, IdsAre DEF Reasons
<1>2. c \in BOOLEAN /\ (Noted(d) => c = d.cut)
  BY <1>1 DEF Noted
<1>3. e = [d EXCEPT !.cut = c]
  BY DEF NoteCut
<1> HIDE DEF c, e
<1>4. /\ e.used = d.used /\ e.live = d.live /\ e.parent = d.parent /\ e.role = d.role
      /\ e.account = d.account /\ e.reason = d.reason
      /\ e.summary = d.summary /\ e.active = d.active /\ e.cut = c
      /\ e = Record(e.used, e.live, e.parent, e.role, e.reason, e.summary, e.account,
                 e.active, e.cut)
      /\ c = d.cut => e = d
  <2>1. d = Record(d.used, d.live, d.parent, d.role, d.reason, d.summary, d.account, d.active,
                 d.cut)
    BY <1>0, RowsAre
  <2>2. e = Record(d.used, d.live, d.parent, d.role, d.reason, d.summary, d.account, d.active, c)
    BY <1>3, <2>1 DEF Record
  <2>3. c = d.cut => e = d
    BY <2>1, <2>2
  <2> QED BY <2>2, <2>3, FieldsAre
<1>5. e \in Rows
  BY <1>0, <1>1, <1>2, <1>4, RecordIs
<1>6. Shape(e)
  BY <1>4, <1>5 DEF Shape
<1> QED BY <1>2, <1>4, <1>6 DEF e, c

\* The rows without the messages gone.
LEMMA WithoutIs ==
  ASSUME NEW d, Shape(d), NEW gone, NEW a \in 0 .. d.used, NEW par \in [Ids -> Ids \cup {NoMsg}],
         \A i \in Ids : par[i] < i
  PROVE  LET e == Without(d, gone, par, a) IN
         /\ Shape(e) /\ e.used = d.used /\ e.live = d.live \ gone /\ e.parent = par
         /\ e.role = d.role /\ e.account = d.account /\ e.reason = d.reason
         /\ e.summary = d.summary /\ e.active = a /\ e.cut = d.cut
<1> DEFINE e == Without(d, gone, par, a)
<1>0. d \in Rows /\ d.used \in Nat /\ d.used \in 0 .. Bound /\ d.live \subseteq 1 .. d.used
  BY ShapeIs DEF Shape
<1>1. /\ d.parent \in [Ids -> Ids \cup {NoMsg}] /\ d.role \in [Ids -> Saved \cup {"memory"}]
      /\ d.reason \in [Ids -> Reasons] /\ d.summary \in SUBSET Ids
      /\ d.account \in [Ids -> SUBSET Ids] /\ d.cut \in BOOLEAN /\ d.live \in SUBSET Ids
  BY ShapeIs, IdsAre DEF Reasons
<1>2. a \in Ids \cup {NoMsg}
  BY <1>0, IdsAre
<1>3. /\ e.used = d.used /\ e.live = d.live \ gone /\ e.parent = par /\ e.role = d.role
      /\ e.account = d.account /\ e.reason = d.reason
      /\ e.summary = d.summary /\ e.active = a /\ e.cut = d.cut
      /\ e = Record(e.used, e.live, e.parent, e.role, e.reason, e.summary, e.account,
                 e.active, e.cut)
  <2>1. d = Record(d.used, d.live, d.parent, d.role, d.reason, d.summary, d.account, d.active,
                 d.cut)
    BY <1>0, RowsAre
  <2>2. e = Record(d.used, d.live \ gone, par, d.role, d.reason, d.summary, d.account, a, d.cut)
    BY <2>1, WithoutRecord
  <2> HIDE DEF e
  <2> QED BY <2>2, FieldsAre
<1> HIDE DEF e
<1>4. e \in Rows
  <2>1. e.live \in SUBSET Ids
    BY <1>1, <1>3
  <2> QED BY <1>0, <1>1, <1>2, <1>3, <2>1, RecordIs
<1>5. Shape(e)
  <2>1. e.live \subseteq 1 .. e.used /\ e.active <= e.used
    BY <1>0, <1>3
  <2> QED BY <1>3, <1>4, <2>1 DEF Shape
<1> QED BY <1>3, <1>5 DEF e

Fit(d) == Shape(d) /\ Sound(d) /\ Recalled(d) /\ Replaced(d) /\ Lacks(d)

\* After NoteCut the history variable tells whether a message is cut off.
LEMMA NoteCutNotes ==
  ASSUME NEW d, Shape(d), Lacks(d)
  PROVE  Lacks(NoteCut(d)) /\ Noted(NoteCut(d))
<1> DEFINE e == NoteCut(d)
<1>1. /\ e.used = d.used /\ e.live = d.live /\ e.parent = d.parent
      /\ e.cut = (d.cut \/ \E m \in d.live : d.parent[m] \notin d.live \cup {NoMsg})
  BY NoteCutIs
<1> HIDE DEF e
<1>2. ASSUME NEW m \in d.live, d.parent[m] \notin d.live \cup {NoMsg}
      PROVE  d.live # 1 .. d.used
  <2>1. d.parent[m] \in 1 .. d.used
    <3>1. m \in Ids /\ m \in 1 .. d.used /\ d.used \in Nat /\ d.parent[m] \in 0 .. Bound /\ d.parent[m] < m
      BY ShapeIs
    <3>2. d.parent[m] # 0 /\ Bound \in Nat
      BY <1>2, IdsAre
    <3> QED BY <3>1, <3>2
  <2> QED BY <1>2, <2>1
<1>3. Lacks(e)
  BY <1>1, <1>2 DEF Lacks
<1>4. Noted(e)
  BY <1>1 DEF Noted
<1> QED BY <1>3, <1>4 DEF e

\* A commit.
LEMMA NoteCutFits ==
  ASSUME NEW d, Fit(d)
  PROVE  Fit(NoteCut(d)) /\ Noted(NoteCut(d)) /\ Since(d, NoteCut(d))
<1> DEFINE e == NoteCut(d)
<1>1. /\ Shape(e) /\ e.used = d.used /\ e.live = d.live /\ e.parent = d.parent
      /\ e.role = d.role /\ e.account = d.account /\ e.reason = d.reason
      /\ e.cut = (d.cut \/ \E m \in d.live : d.parent[m] \notin d.live \cup {NoMsg})
  BY NoteCutIs DEF Fit
<1>2. Lacks(e) /\ Noted(e)
  BY NoteCutNotes DEF Fit
<1> HIDE DEF e
<1>3. Reasoned(d, e)
  BY <1>1 DEF Reasoned, Excluded
<1>4. /\ Since(d, e) /\ Sound(e) /\ (Gapless(e) <=> Gapless(d))
      /\ \A m \in d.live : (Outdated(d, m) => Outdated(e, m)) /\ (Kept(d, m) => Kept(e, m))
  <2>1. \A w \in d.live : InForce(d, w) => InForce(e, w)
    BY <1>1 DEF InForce, Excluded
  <2> QED BY <1>1, <1>3, <2>1, ReasonedKeeps DEF Fit
<1>5. Recalled(e) /\ Replaced(e)
  BY <1>1, <1>4 DEF Fit, Recalled, Replaced
<1> QED BY <1>1, <1>2, <1>4, <1>5 DEF e, Fit

\* A message is saved below one that was there, deleted since or not.
LEMMA AddFits ==
  ASSUME NEW d, Fit(d), d.used < Bound, NEW p \in 0 .. d.used, NEW ro \in Saved
  PROVE  LET e == Insert(d, p, ro, {}) IN
         Fit(e) /\ Since(d, e) /\ e.used = d.used + 1 /\ e.active \in e.live
<1> DEFINE e == Insert(d, p, ro, {})
<1>1. Shape(e) /\ Grown(d, e, p, ro, {}) /\ e.active = e.used
  <2>1. {} \in SUBSET Ids /\ ro \in Saved \cup {"memory"}
    OBVIOUS
  <2> QED BY <2>1, InsertIs DEF Fit
<1>2. ro # "memory"
  BY DEF Saved
<1> HIDE DEF e
<1>3. Since(d, e) /\ Sound(e) /\ Lacks(e) /\ Recalled(e) /\ Replaced(e)
  BY <1>1, <1>2, GrownKeeps DEF Fit
<1> QED BY <1>1, <1>3 DEF e, Fit, Grown

\* Only the active message changes.
LEMMA SelectFits ==
  ASSUME NEW d, Fit(d), NEW a \in 0 .. d.used
  PROVE  LET e == [d EXCEPT !.active = a] IN
         Fit(e) /\ Since(d, e) /\ e.used = d.used /\ e.live = d.live /\ e.active = a
<1> DEFINE e == Without(d, {}, d.parent, a)
<1>1. [d EXCEPT !.active = a] = e
  <2> DEFINE l == d.live
             par == d.parent
  <2>1. d = Record(d.used, l, par, d.role, d.reason, d.summary, d.account, d.active, d.cut)
    BY RowsAre DEF Fit, Shape
  <2>2. l \ {} = l
    OBVIOUS
  <2> HIDE DEF l, par
  <2>3. Without(d, {}, par, a) = Record(d.used, l, par, d.role, d.reason, d.summary, d.account, a, d.cut)
    BY <2>1, <2>2, WithoutRecord
  <2>4. [d EXCEPT !.active = a] = Record(d.used, l, par, d.role, d.reason, d.summary, d.account, a, d.cut)
    BY <2>1 DEF Record
  <2> QED BY <2>3, <2>4 DEF par
<1>2. /\ Shape(e) /\ e.used = d.used /\ e.live = d.live \ {} /\ e.parent = d.parent
      /\ e.role = d.role /\ e.account = d.account /\ e.reason = d.reason
      /\ e.summary = d.summary /\ e.active = a /\ e.cut = d.cut
  <2>1. d.parent \in [Ids -> Ids \cup {NoMsg}] /\ \A i \in Ids : d.parent[i] < i
    BY ShapeIs DEF Fit
  <2>2. Shape(d)
    BY DEF Fit
  <2> DEFINE par == d.parent
  <2>3. par \in [Ids -> Ids \cup {NoMsg}] /\ \A i \in Ids : par[i] < i
    BY <2>1
  <2> DEFINE gone == {}
  <2> HIDE DEF par, gone
  <2>4. LET f == Without(d, gone, par, a) IN
        /\ Shape(f) /\ f.used = d.used /\ f.live = d.live \ gone /\ f.parent = par
        /\ f.role = d.role /\ f.account = d.account /\ f.reason = d.reason
        /\ f.summary = d.summary /\ f.active = a /\ f.cut = d.cut
    BY <2>2, <2>3, WithoutIs, SMTT(60)
  <2> QED BY <2>4 DEF par, gone
<1> HIDE DEF e
<1>3. e.live = d.live
  BY <1>2
<1>4. Reasoned(d, e)
  BY <1>2, <1>3 DEF Reasoned, Excluded
<1>5. /\ Since(d, e) /\ Sound(e) /\ (Gapless(e) <=> Gapless(d))
      /\ \A m \in d.live : (Outdated(d, m) => Outdated(e, m)) /\ (Kept(d, m) => Kept(e, m))
  <2>1. \A w \in d.live : InForce(d, w) => InForce(e, w)
    BY <1>2 DEF InForce, Excluded
  <2> QED BY <1>2, <1>4, <2>1, ReasonedKeeps DEF Fit
<1>6. Recalled(e) /\ Replaced(e) /\ Lacks(e)
  BY <1>2, <1>3, <1>5 DEF Fit, Recalled, Replaced, Lacks
<1> QED BY <1>1, <1>2, <1>3, <1>5, <1>6 DEF Fit

\* Any deletion, committed: one message is certainly gone.
LEMMA DeletionFits ==
  ASSUME NEW d, Fit(d), NEW gone, NEW m \in gone, m \in 1 .. d.used, NEW a \in 0 .. d.used,
         NEW par \in [Ids -> Ids \cup {NoMsg}], \A i \in Ids : par[i] < i,
         LET e == NoteCut(Without(d, gone, par, a)) IN
           ~e.cut => Prunes(d, e) /\ MemoriesStay(d, gone)
  PROVE  LET e == NoteCut(Without(d, gone, par, a)) IN
         /\ Fit(e) /\ Noted(e) /\ Since(d, e)
         /\ e.used = d.used /\ e.live = d.live \ gone /\ e.active = a
<1> DEFINE w == Without(d, gone, par, a)
           e == NoteCut(w)
<1>1. /\ Shape(w) /\ w.used = d.used /\ w.live = d.live \ gone /\ w.parent = par
      /\ w.role = d.role /\ w.account = d.account /\ w.reason = d.reason
      /\ w.active = a /\ w.cut = d.cut
  BY WithoutIs DEF Fit
<1>2. ~e.cut => Prunes(d, e) /\ MemoriesStay(d, gone)
  OBVIOUS
<1> HIDE DEF w
<1>3. /\ Shape(e) /\ e.used = w.used /\ e.live = w.live /\ e.parent = w.parent
      /\ e.role = w.role /\ e.account = w.account /\ e.reason = w.reason /\ e.active = w.active
      /\ e.cut = (w.cut \/ \E k \in w.live : w.parent[k] \notin w.live \cup {NoMsg})
  BY <1>1, NoteCutIs
<1>4. m \notin w.live /\ w.live # 1 .. w.used
  BY <1>1
<1>5. Noted(e)
  BY <1>1, <1>4, NoteCutNotes DEF Lacks
<1> HIDE DEF e
<1>6. Emptied(d, e)
  <2>1. ~e.cut => \A k \in e.live : \A v \in OnBranch(d, k) : d.role[v] = "memory" => v \in e.live
    BY <1>1, <1>2, <1>3 DEF MemoriesStay
  <2> QED BY <1>1, <1>2, <1>3, <1>4, <2>1 DEF Emptied
<1>7. Since(d, e) /\ Sound(e) /\ Lacks(e) /\ Recalled(e) /\ Replaced(e)
  BY <1>3, <1>6, EmptiedKeeps DEF Fit
<1> QED BY <1>1, <1>3, <1>5, <1>7 DEF Fit, e, w

Left(d, gone, a) == [d EXCEPT !.live = @ \ gone, !.active = a]

\* A subtree goes, or what of it is still there.
LEMMA DeleteFits ==
  ASSUME NEW d, Fit(d), NEW gone, NEW m \in gone, m \in 1 .. d.used, NEW a \in 0 .. d.used
  PROVE  LET e == NoteCut(Left(d, gone, a)) IN
         /\ Fit(e) /\ Noted(e) /\ Since(d, e)
         /\ e.used = d.used /\ e.live = d.live \ gone /\ e.active = a
<1> DEFINE w == Without(d, gone, d.parent, a)
           e == NoteCut(w)
<1>1. d.parent \in [Ids -> Ids \cup {NoMsg}] /\ \A i \in Ids : d.parent[i] < i
  BY ShapeIs DEF Fit
<1>2. Left(d, gone, a) = w
  <2> DEFINE l == d.live \ gone
             par == d.parent
             x == [d EXCEPT !.live = @ \ gone, !.active = a]
  <2>1. d = Record(d.used, d.live, par, d.role, d.reason, d.summary, d.account, d.active, d.cut)
    BY RowsAre DEF Fit, Shape
  <2>2. x = [[d EXCEPT !.live = l] EXCEPT !.active = a]
    OBVIOUS
  <2>3. w = Record(d.used, l, par, d.role, d.reason, d.summary, d.account, a, d.cut)
    <3> HIDE DEF par
    <3>1. Without(d, gone, par, a) = Record(d.used, l, par, d.role, d.reason, d.summary, d.account, a, d.cut)
      BY <2>1, WithoutRecord
    <3> QED BY <3>1 DEF par
  <2> HIDE DEF l, par, x, w
  <2>4. [d EXCEPT !.live = l] = Record(d.used, l, par, d.role, d.reason, d.summary, d.account, d.active, d.cut)
    BY <2>1 DEF Record
  <2>5. [Record(d.used, l, par, d.role, d.reason, d.summary, d.account, d.active, d.cut) EXCEPT !.active = a]
          = Record(d.used, l, par, d.role, d.reason, d.summary, d.account, a, d.cut)
    BY DEF Record
  <2>6. x = w
    <3> DEFINE y == [d EXCEPT !.live = l]
    <3>1. x = [y EXCEPT !.active = a]
      BY <2>2
    <3>2. y = Record(d.used, l, par, d.role, d.reason, d.summary, d.account, d.active, d.cut)
      BY <2>4
    <3> HIDE DEF y
    <3> QED BY <2>3, <2>5, <3>1, <3>2
  <2> QED BY <2>6 DEF x, Left
<1>3. /\ Shape(w) /\ w.live = d.live \ gone /\ w.parent = d.parent
  BY <1>1, WithoutIs DEF Fit
<1>4. ASSUME ~e.cut PROVE Prunes(d, e) /\ MemoriesStay(d, gone)
  <2> HIDE DEF w
  <2>1. /\ e.live = w.live /\ e.parent = w.parent
        /\ \A k \in w.live : w.parent[k] \in w.live \cup {NoMsg}
    BY <1>3, <1>4, NoteCutIs
  <2> HIDE DEF e
  <2>2. ASSUME NEW k \in e.live
        PROVE  OnBranch(d, k) \cap e.live =
                 {k} \cup (IF e.parent[k] \in e.live THEN OnBranch(d, e.parent[k]) \cap e.live ELSE {})
    <3> DEFINE q == d.parent[k]
    <3>1. k \in d.live /\ k \in Ids /\ q \in Ids \cup {NoMsg} /\ e.parent[k] = q /\ q \in e.live \cup {NoMsg}
      BY <1>1, <1>3, <2>1, ShapeIs DEF Fit
    <3>2. OnBranch(d, k) = OnBranch(d, q) \cup {k}
      BY <3>1, ShapeTree, OnBranchIs DEF Fit
    <3>3. NoMsg \notin d.live /\ NoMsg \notin e.live
      BY <1>3, <2>1, IdsAre, ShapeIs DEF Fit
    <3>4. OnBranch(d, NoMsg) = {}
      BY <3>3, ShapeTree, OnBranchWithin DEF Fit
    <3> HIDE DEF q
    <3> QED BY <3>1, <3>2, <3>3, <3>4
  <2> DEFINE S == e.live
             Good == {k \in S : OnBranch(d, k) \subseteq S}
  <2>3. S \in SUBSET Nat /\ S = d.live \ gone
    BY <1>3, <2>1, ShapeIs, IdsAre DEF Fit
  <2>4. ASSUME NEW k \in S, \A y \in S : y < k => y \in Good
        PROVE  k \in Good
    <3> DEFINE q == d.parent[k]
    <3>1. k \in d.live /\ k \in Ids /\ q \in Ids \cup {NoMsg} /\ q \in S \cup {NoMsg} /\ q < k
      BY <1>1, <1>3, <2>1, ShapeIs DEF Fit
    <3>2. OnBranch(d, k) = OnBranch(d, q) \cup {k}
      BY <3>1, ShapeTree, OnBranchIs DEF Fit
    <3>3. OnBranch(d, NoMsg) = {}
      <4>1. NoMsg \notin d.live
        BY IdsAre, ShapeIs DEF Fit
      <4> QED BY <4>1, ShapeTree, OnBranchWithin DEF Fit
    <3> HIDE DEF q
    <3> QED BY <2>4, <3>1, <3>2, <3>3
  <2>5. S \subseteq Good
    <3> HIDE DEF S, Good
    <3> QED BY <2>3, <2>4, InductionUp
  <2>6. MemoriesStay(d, gone)
    BY <2>3, <2>5 DEF MemoriesStay
  <2> QED BY <2>2, <2>6 DEF Prunes
<1> HIDE DEF w
<1>5. w = Without(d, gone, d.parent, a)
  BY DEF w
<1> QED BY <1>1, <1>2, <1>4, <1>5, DeletionFits

\* One message goes, and its children move up.
MovesUp(s, d, m, par) ==
  /\ par \in [Ids -> Ids \cup {NoMsg}]
  /\ \A i \in Ids : par[i] = IF i \in Children(s, m) THEN s.parent[m] ELSE d.parent[i]
Bereft(d, m, par, a) == [d EXCEPT !.live = @ \ {m}, !.parent = par, !.active = a]

\* A message is removed and its children move up, as an outdated reading has them.
LEMMA RemoveFits ==
  ASSUME NEW s, NEW d, Shape(s), Fit(d), Since(s, d), NEW m \in s.live,
         Children(s, m) \subseteq d.live, NEW a \in 0 .. d.used, NEW par, MovesUp(s, d, m, par)
  PROVE  MemoriesStay(d, {m}) =>
         LET e == NoteCut(Bereft(d, m, par, a)) IN
         /\ Fit(e) /\ Noted(e) /\ Since(d, e)
         /\ e.used = d.used /\ e.live = d.live \ {m} /\ e.active = a
<1> DEFINE w == Without(d, {m}, par, a)
           e == NoteCut(w)
           cs == Children(s, m)
<1>1. /\ s.parent \in [Ids -> Ids \cup {NoMsg}] /\ \A i \in Ids : s.parent[i] < i
      /\ d.parent \in [Ids -> Ids \cup {NoMsg}] /\ \A i \in Ids : d.parent[i] < i
      /\ s.used \in Nat /\ d.used \in Nat /\ s.used <= d.used /\ m \in Ids /\ m \in 1 .. s.used
      /\ s.live \subseteq Ids /\ s.live \subseteq 1 .. s.used /\ Ids \subseteq Nat
  BY ShapeIs, IdsAre DEF Fit, Since
<1>2. m \in 1 .. d.used
  BY <1>1
<1>3. \A c \in cs : c \in s.live /\ s.parent[c] = m /\ c \in d.live
  BY DEF Children
<1> HIDE DEF cs
<1>4. /\ par \in [Ids -> Ids \cup {NoMsg}]
      /\ \A i \in Ids : par[i] = IF i \in cs THEN s.parent[m] ELSE d.parent[i]
  BY DEF cs, MovesUp
<1>5. \A i \in Ids : par[i] < i
  <2>1. \A i \in cs : s.parent[m] < i
    <3> TAKE i \in cs
    <3>1. m < i /\ s.parent[m] < m /\ i \in Ids
      BY <1>1, <1>3
    <3>2. i \in Nat /\ m \in Nat /\ s.parent[m] \in Nat
      <4>1. s.parent[m] \in 0 .. Bound
        BY <1>1, IdsAre
      <4> QED BY <1>1, <3>1, <4>1, IdsAre
    <3> QED BY <3>1, <3>2
  <2> QED BY <1>1, <1>4, <2>1
<1>6. Shape(w) /\ w.live = d.live \ {m} /\ w.parent = par /\ w.cut = d.cut
  <2> HIDE DEF w
  <2>1. Shape(d)
    BY DEF Fit
  <2> DEFINE gone == {m}
  <2> HIDE DEF gone
  <2>2. LET e2 == Without(d, gone, par, a) IN
        Shape(e2) /\ e2.live = d.live \ gone /\ e2.parent = par /\ e2.cut = d.cut
    BY <1>4, <1>5, <2>1, WithoutIs, SMTT(30)
  <2> QED BY <2>2 DEF w, gone
<1>7. ASSUME ~e.cut PROVE Prunes(d, e)
  <2> HIDE DEF w
  <2>1. /\ e.live = w.live /\ e.parent = w.parent
        /\ \A k \in w.live : w.parent[k] \in w.live \cup {NoMsg}
        /\ ~d.cut
    BY <1>6, <1>7, NoteCutIs
  <2> HIDE DEF e
  <2>2. e.live = d.live \ {m} /\ e.parent = par /\ \A k \in e.live : par[k] \in e.live \cup {NoMsg}
    BY <1>6, <2>1
  <2>3. NoMsg \notin d.live /\ NoMsg \notin s.live /\ d.live \subseteq Ids
    BY IdsAre, ShapeIs DEF Fit
  <2>4. OnBranch(d, NoMsg) = {} /\ OnBranch(s, NoMsg) = {}
    BY <2>3, ShapeTree, OnBranchWithin DEF Fit
  <2>5. ASSUME NEW k \in e.live
        PROVE  OnBranch(d, k) \cap e.live =
                 {k} \cup (IF e.parent[k] \in e.live THEN OnBranch(d, e.parent[k]) \cap e.live ELSE {})
    <3>1. k \in d.live /\ k \in Ids /\ k # m
      BY <2>2, <2>3
    <3>2. CASE k \in cs
      <4> DEFINE q == s.parent[m]
      <4>1. q \in Ids \cup {NoMsg} /\ e.parent[k] = q /\ q \in e.live \cup {NoMsg} /\ q < m /\ k \in s.live
            /\ s.parent[k] = m
        BY <1>1, <1>3, <1>4, <2>2, <3>1, <3>2
      <4> HIDE DEF q
      <4>2. OnBranch(s, k) = OnBranch(s, m) \cup {k}
        BY <1>1, <3>1, <4>1, ShapeTree, OnBranchIs
      <4>3. OnBranch(s, m) = OnBranch(s, q) \cup {m}
        BY <1>1, ShapeTree, OnBranchIs DEF q
      <4>4. OnBranch(d, k) = OnBranch(s, k) \cap d.live
        BY <2>1, <3>1, <4>1 DEF Since
      <4>5. q \in e.live => q \in s.live /\ q \in d.live
        <5>1. q \in e.live => q \in d.live /\ q \in Nat
          BY <1>1, <2>2, <2>3
        <5>2. q \in e.live => q <= s.used
          BY <1>1, <4>1, <5>1
        <5> QED BY <5>1, <5>2 DEF Since
      <4>6. q \in e.live => OnBranch(d, q) = OnBranch(s, q) \cap d.live
        BY <2>1, <4>5 DEF Since
      <4>7. q \notin e.live => OnBranch(s, q) = {}
        BY <2>4, <4>1
      <4>8. OnBranch(d, k) \cap e.live = {k} \cup (OnBranch(s, q) \cap e.live)
        BY <2>2, <4>2, <4>3, <4>4, <3>1
      <4>9. q \in e.live => OnBranch(d, q) \cap e.live = OnBranch(s, q) \cap e.live
        BY <2>2, <4>6
      <4> QED BY <4>1, <4>7, <4>8, <4>9
    <3>3. CASE k \notin cs
      <4> DEFINE q == d.parent[k]
      <4>1. q \in Ids \cup {NoMsg} /\ e.parent[k] = q /\ q \in e.live \cup {NoMsg}
        BY <1>1, <1>4, <2>2, <3>1, <3>3
      <4>2. OnBranch(d, k) = OnBranch(d, q) \cup {k}
        BY <3>1, <4>1, ShapeTree, OnBranchIs DEF Fit
      <4> HIDE DEF q
      <4>3. NoMsg \notin e.live
        BY <2>2, <2>3
      <4> QED BY <2>4, <4>1, <4>2, <4>3
    <3> QED BY <3>2, <3>3
  <2> QED BY <2>5 DEF Prunes
<1> HIDE DEF w
<1> HAVE MemoriesStay(d, {m})
<1>8. w = Without(d, {m}, par, a)
  BY DEF w
<1>10. LET f == NoteCut(Without(d, {m}, par, a)) IN
       ~f.cut => Prunes(d, f) /\ MemoriesStay(d, {m})
  BY <1>7, <1>8
<1> DEFINE gone == {m}
<1> HIDE DEF gone
<1>11. m \in gone /\ LET f == NoteCut(Without(d, gone, par, a)) IN
                    ~f.cut => Prunes(d, f) /\ MemoriesStay(d, gone)
  BY <1>10 DEF gone
<1>12. LET f == NoteCut(Without(d, gone, par, a)) IN
       /\ Fit(f) /\ Noted(f) /\ Since(d, f)
       /\ f.used = d.used /\ f.live = d.live \ gone /\ f.active = a
  BY <1>2, <1>4, <1>5, <1>11, DeletionFits
<1> QED BY <1>4, <1>12 DEF gone, Bereft, Without

\* A message excluded for a later read of the file.
LEMMA DedupeFits ==
  ASSUME NEW s, NEW d, Shape(s), Fit(d), Since(s, d), NEW ms, ms \subseteq d.live,
         ms \subseteq SupersededReads(s, s.active)
  PROVE  LET e == Exclude(d, ms, "file") IN
         Fit(e) /\ Since(d, e) /\ e.used = d.used /\ e.live = d.live /\ e.active = d.active
<1> DEFINE e == Exclude(d, ms, "file")
           b == Branch(s, s.active)
<1>1. /\ Shape(e) /\ Reasoned(d, e) /\ e.cut = d.cut /\ e.active = d.active
      /\ e.reason = Marked(d, ms, "file")
  <2>1. Shape(d) /\ ms \in SUBSET d.live /\ "file" \in Reasons \ {"none", "compressed"}
    BY DEF Fit, Reasons
  <2> QED BY <2>1, ExcludeIs
<1> HIDE DEF e
<1>3. e.used = d.used /\ e.live = d.live /\ e.role = d.role /\ e.account = d.account
  BY <1>1 DEF Reasoned
<1>4. d.live \subseteq Ids /\ d.live \subseteq 1 .. d.used /\ s.live \subseteq 1 .. s.used
      /\ s.used \in Nat /\ d.used \in Nat /\ s.used <= d.used /\ s.active \in Ids \cup {NoMsg}
      /\ s.live \subseteq Ids
  BY ShapeIs, IdsAre DEF Fit, Since
<1>5. \A i \in Ids : e.reason[i] = IF i \in ms THEN "file" ELSE d.reason[i]
  BY <1>1 DEF Marked
<1>6. ASSUME NEW m \in ms
      PROVE  /\ m \in s.live /\ d.role[m] = "read"
             /\ \E k \in s.live : m # k /\ m \in OnBranch(s, k) /\ d.role[k] = "read"
  <2>1. b \in Seq(Ids) /\ Straight(s, s.active)
    BY <1>4, ShapeTree, BranchRecursion, BranchStraight
  <2>2. DOMAIN b = 1 .. Len(b) /\ Len(b) \in Nat
    BY <2>1
  <2>3. m \in {b[i] : i \in {j \in DOMAIN b : /\ s.role[b[j]] = "read"
                                               /\ \E k \in j + 1 .. Len(b) : s.role[b[k]] = "read"}}
    BY DEF SupersededReads
  <2> HIDE DEF b
  <2>4. PICK j \in DOMAIN b : /\ m = b[j] /\ s.role[b[j]] = "read"
                              /\ \E k \in j + 1 .. Len(b) : s.role[b[k]] = "read"
    BY <2>3
  <2>5. PICK k \in j + 1 .. Len(b) : s.role[b[k]] = "read"
    BY <2>4
  <2>6. j \in 1 .. Len(b) /\ k \in 1 .. Len(b) /\ j < k /\ j \in 1 .. k
    BY <2>2
  <2>7. b[j] \in s.live /\ b[k] \in s.live /\ b[j] < b[k] /\ b[j] \in OnBranch(s, b[k])
    BY <2>1, <2>6 DEF Straight, b
  <2>8. b[j] \in 1 .. s.used /\ b[k] \in 1 .. s.used /\ b[j] # b[k]
    BY <1>4, <2>7
  <2>9. d.role[b[j]] = "read" /\ d.role[b[k]] = "read"
    BY <2>4, <2>5, <2>8 DEF Since
  <2> QED BY <2>4, <2>7, <2>8, <2>9
<1>2. /\ Since(d, e) /\ Sound(e) /\ (Gapless(e) <=> Gapless(d))
      /\ \A m \in d.live : (Outdated(d, m) => Outdated(e, m)) /\ (Kept(d, m) => Kept(e, m))
  <2>1. ASSUME NEW w \in d.live, InForce(d, w) PROVE InForce(e, w)
    <3>1. w \notin ms
      BY <1>6, <2>1 DEF InForce
    <3> QED BY <1>3, <1>4, <1>5, <2>1, <3>1 DEF InForce, Excluded
  <2> QED BY <1>1, <2>1, ReasonedKeeps DEF Fit
<1>7. ASSUME Gapless(e), NEW m \in e.live, e.reason[m] = "file"
      PROVE  Outdated(e, m)
  <2>1. CASE m \in ms
    <3>1. PICK k \in s.live : m # k /\ m \in OnBranch(s, k) /\ d.role[k] = "read"
      BY <1>6, <2>1
    <3>2. k \in d.live /\ m \in d.live
      <4>1. k \in 1 .. d.used
        BY <1>4
      <4> QED BY <1>3, <1>7, <4>1 DEF Gapless
    <3>3. ~d.cut
      BY <1>2, <1>7 DEF Fit, Lacks, Gapless
    <3>4. m \in OnBranch(d, k)
      BY <3>1, <3>2, <3>3 DEF Since
    <3> QED BY <1>2, <1>6, <2>1, <3>1, <3>2, <3>4 DEF Outdated
  <2>2. CASE m \notin ms
    <3>1. m \in d.live /\ d.reason[m] = "file"
      BY <1>3, <1>4, <1>5, <1>7, <2>2
    <3> QED BY <1>2, <1>7, <3>1 DEF Fit, Replaced
  <2> QED BY <2>1, <2>2
<1>8. ASSUME Gapless(e), NEW m \in e.live, e.reason[m] \in ForMemory
      PROVE  Kept(e, m)
  <2>1. m \in d.live /\ d.reason[m] \in ForMemory
    BY <1>3, <1>4, <1>5, <1>8 DEF ForMemory
  <2> QED BY <1>2, <1>8, <2>1 DEF Fit, Recalled
<1>9. Lacks(e)
  BY <1>1, <1>3 DEF Fit, Lacks
<1> QED BY <1>1, <1>2, <1>3, <1>7, <1>8, <1>9 DEF Fit, Recalled, Replaced, e

\* Results compressed in their place, in the rows the session flushes to.
LEMMA SqueezeFits ==
  ASSUME NEW d, Fit(d), NEW ms, ms \subseteq d.live, \A m \in ms : d.role[m] # "memory"
  PROVE  LET e == Squeeze(d, ms) IN
         Fit(e) /\ Since(d, e) /\ e.used = d.used /\ e.live = d.live /\ e.active = d.active
<1> DEFINE e == Squeeze(d, ms)
<1>1. /\ Shape(e) /\ Reasoned(d, e) /\ e.cut = d.cut /\ e.active = d.active
      /\ e.reason = Marked(d, ms, "compressed")
  <2>1. Shape(d) /\ ms \in SUBSET d.live
    BY DEF Fit
  <2> QED BY <2>1, SqueezeIs
<1> HIDE DEF e
<1>3. e.used = d.used /\ e.live = d.live /\ e.role = d.role /\ e.account = d.account
  BY <1>1 DEF Reasoned
<1>4. d.live \subseteq Ids
  BY ShapeIs DEF Fit
<1>5. \A i \in d.live : e.reason[i] = IF i \in ms THEN "compressed" ELSE d.reason[i]
  BY <1>1, <1>4 DEF Marked
<1>6. \A w \in d.live : InForce(d, w) => InForce(e, w)
  BY <1>3, <1>5 DEF InForce, Excluded
<1>2. /\ Since(d, e) /\ Sound(e) /\ (Gapless(e) <=> Gapless(d))
      /\ \A m \in d.live : (Outdated(d, m) => Outdated(e, m)) /\ (Kept(d, m) => Kept(e, m))
  BY <1>1, <1>6, ReasonedKeeps DEF Fit
<1>7. \A m \in d.live : e.reason[m] \notin {"none", "compressed"} => e.reason[m] = d.reason[m]
  BY <1>5
<1>8. Recalled(e)
  BY <1>2, <1>3, <1>7 DEF Fit, Recalled, ForMemory
<1>9. Replaced(e)
  BY <1>2, <1>3, <1>7 DEF Fit, Replaced
<1>10. Lacks(e)
  BY <1>1, <1>3 DEF Fit, Lacks
<1> QED BY <1>1, <1>2, <1>3, <1>8, <1>9, <1>10 DEF Fit, e

\* The same in the rows the session has read, which stay behind what is committed.
LEMMA SqueezeStaysBehind ==
  ASSUME NEW s, NEW d, Shape(s), Sound(s), Shape(d), Since(s, d), NEW ms, ms \subseteq s.live,
         \A m \in ms : s.role[m] # "memory"
  PROVE  Shape(Squeeze(s, ms)) /\ Sound(Squeeze(s, ms)) /\ Since(Squeeze(s, ms), d)
<1> DEFINE e == Squeeze(s, ms)
<1>1. Shape(e) /\ Reasoned(s, e) /\ e.cut = s.cut /\ e.reason = Marked(s, ms, "compressed")
  <2>1. ms \in SUBSET s.live
    OBVIOUS
  <2> QED BY <2>1, SqueezeIs
<1> HIDE DEF e
<1>2. Sound(e)
  BY <1>1, ReasonedKeeps
<1>3. e.used = s.used /\ e.live = s.live /\ e.parent = s.parent /\ e.role = s.role /\ e.account = s.account
  BY <1>1 DEF Reasoned
<1>4. s.live \subseteq Ids /\ 1 .. s.used \subseteq Ids
  BY ShapeIs, IdsAre
<1>5. \A k \in s.live : OnBranch(e, k) = OnBranch(s, k)
  BY <1>3, <1>4, ShapeTree, SameBranches
<1>6. \A i \in 1 .. s.used : s.role[i] = "memory" => e.reason[i] = s.reason[i]
  BY <1>1, <1>4 DEF Marked
<1>7. Since(e, d)
  BY <1>1, <1>3, <1>5, <1>6 DEF Since, Excluded
<1> QED BY <1>1, <1>2, <1>7 DEF e

\* Where the active message can go.
LEMMA LeafWithin ==
  ASSUME NEW s, Shape(s), NEW ms, NEW c \in s.live \ ms
  PROVE  LET rest == [s EXCEPT !.live = @ \ ms] IN
         DeepestLeaf(rest, c) \in s.live \ ms
<1> DEFINE rest == [s EXCEPT !.live = @ \ ms]
<1>1. rest.live = s.live \ ms /\ rest.parent = s.parent
  <2> DEFINE l == s.live \ ms
  <2>1. s = Record(s.used, s.live, s.parent, s.role, s.reason, s.summary, s.account, s.active, s.cut)
    BY RowsAre DEF Shape
  <2>2. rest = [s EXCEPT !.live = l]
    OBVIOUS
  <2> HIDE DEF l, rest
  <2>3. rest = Record(s.used, l, s.parent, s.role, s.reason, s.summary, s.account, s.active, s.cut)
    BY <2>1, <2>2 DEF Record
  <2>4. rest.live = l /\ rest.parent = s.parent
    BY <2>3, FieldsAre
  <2> QED BY <2>4 DEF l
<1> HIDE DEF rest
<1>2. Tree(rest.live, rest.parent)
  BY <1>1, ShapeTree DEF Tree
<1>3. c \in Ids /\ c \in rest.live
  BY <1>1, <1>2 DEF Tree
<1>4. DeepestLeaf(rest, c) \in rest.live
  BY <1>2, <1>3, LeafRecursion
<1> QED BY <1>1, <1>4 DEF rest

\* The children among what is left.
LEMMA SiblingsAre ==
  ASSUME NEW s, Shape(s), NEW ms, NEW p
  PROVE  Children([s EXCEPT !.live = @ \ ms], p) = {c \in s.live \ ms : s.parent[c] = p}
<1> DEFINE rest == [s EXCEPT !.live = @ \ ms]
<1>1. rest.live = s.live \ ms /\ rest.parent = s.parent
  <2> DEFINE l == s.live \ ms
  <2>1. s = Record(s.used, s.live, s.parent, s.role, s.reason, s.summary, s.account, s.active, s.cut)
    BY RowsAre DEF Shape
  <2>2. rest = [s EXCEPT !.live = l]
    OBVIOUS
  <2> HIDE DEF l, rest
  <2>3. rest = Record(s.used, l, s.parent, s.role, s.reason, s.summary, s.account, s.active, s.cut)
    BY <2>1, <2>2 DEF Record
  <2>4. rest.live = l /\ rest.parent = s.parent
    BY <2>3, FieldsAre
  <2> QED BY <2>4 DEF l
<1> HIDE DEF rest
<1>2. Children(rest, p) = {c \in s.live \ ms : s.parent[c] = p}
  BY <1>1 DEF Children
<1> QED BY <1>2 DEF rest

\* After a deletion: a message that is still live or the parent, if not the one before.
LEMMA AfterDelete ==
  ASSUME NEW s, Shape(s), NEW m \in s.live, NEW a \in ActiveAfterDelete(s, m, Subtree(s, m))
  PROVE  /\ a \in 0 .. s.used
         /\ \/ a = s.active /\ s.active \notin Subtree(s, m)
            \/ a \in s.live \ Subtree(s, m)
            \/ a = s.parent[m] /\ s.parent[m] \notin Subtree(s, m)
<1> DEFINE ms == Subtree(s, m)
           rest == [s EXCEPT !.live = @ \ ms]
           siblings == Children(rest, s.parent[m])
<1>1. siblings = {c \in s.live \ ms : s.parent[c] = s.parent[m]}
  BY SiblingsAre
<1>2. \A c \in s.live \ ms : DeepestLeaf(rest, c) \in s.live \ ms
  BY LeafWithin
<1>3. a \in IF s.active \notin ms THEN {s.active}
             ELSE IF siblings # {} THEN {DeepestLeaf(rest, c) : c \in siblings} ELSE {s.parent[m]}
  BY DEF ActiveAfterDelete
<1>4. /\ m \in Ids /\ m \in 1 .. s.used /\ s.used \in Nat /\ s.active \in 0 .. s.used
      /\ s.live \subseteq 1 .. s.used /\ s.parent[m] \in 0 .. Bound /\ s.parent[m] < m /\ s.live \subseteq Ids
  BY ShapeIs
<1>5. s.parent[m] \in 0 .. s.used
  BY <1>4, IdsAre
<1>6. s.parent[m] \notin ms
  <2>1. \A k \in ms : k \in s.live /\ m \in OnBranch(s, k)
    BY DEF Subtree
  <2>2. \A k \in ms : m <= k
    BY <1>4, <2>1, ShapeTree, OnBranchWithin
  <2>3. m \in Nat /\ s.parent[m] \in Nat
    BY <1>4, <1>5, IdsAre
  <2> QED BY <1>4, <2>2, <2>3
<1>10. ms = Subtree(s, m)
  OBVIOUS
<1> HIDE DEF ms, rest, siblings
<1>7. CASE s.active \notin ms
  BY <1>3, <1>4, <1>7, <1>10
<1>8. CASE s.active \in ms /\ siblings # {}
  <2>1. PICK c \in siblings : a = DeepestLeaf(rest, c)
    BY <1>3, <1>8
  <2>2. a \in s.live \ ms
    BY <1>1, <1>2, <2>1
  <2>3. a \in 0 .. s.used
    BY <1>4, <2>2
  <2> QED BY <1>10, <2>2, <2>3
<1>9. CASE s.active \in ms /\ siblings = {}
  BY <1>3, <1>5, <1>6, <1>9, <1>10
<1> QED BY <1>7, <1>8, <1>9

\* The message that is active when one is removed is another that exists, or its parent.
LEMMA AfterRemove ==
  ASSUME NEW s, Shape(s), NEW m \in s.live, NEW a \in ActiveAfterRemove(s, m)
  PROVE  /\ a \in 0 .. s.used
         /\ (a = s.active /\ s.active # m) \/ a \in (s.live \ {m}) \cup {NoMsg} \/ a = s.parent[m]
         /\ s.parent[m] # m
<1> DEFINE ms == {m}
           rest == [s EXCEPT !.live = @ \ ms]
           roots == Children(rest, NoMsg)
<1>0. ms = {m}
  OBVIOUS
<1> HIDE DEF ms
<1>1. roots = {c \in s.live \ ms : s.parent[c] = NoMsg}
  BY SiblingsAre
<1>2. \A c \in s.live \ ms : DeepestLeaf(rest, c) \in s.live \ ms
  BY LeafWithin
<1>3. a \in IF s.active # m THEN {s.active}
             ELSE IF Children(s, m) # {} THEN {DeepestLeaf(rest, c) : c \in Children(s, m)}
             ELSE IF s.parent[m] # NoMsg THEN {s.parent[m]}
             ELSE IF roots # {} THEN roots ELSE {NoMsg}
  BY DEF ActiveAfterRemove, ms
<1>4. /\ m \in Ids /\ m \in 1 .. s.used /\ s.used \in Nat /\ s.active \in 0 .. s.used
      /\ s.live \subseteq 1 .. s.used /\ s.parent[m] \in 0 .. Bound /\ s.parent[m] < m /\ s.live \subseteq Ids
      /\ \A c \in s.live : s.parent[c] < c /\ c \in Nat
  BY ShapeIs, IdsAre
<1>5. s.parent[m] \in 0 .. s.used /\ s.parent[m] # m /\ NoMsg \in 0 .. s.used
  BY <1>4, IdsAre
<1>6. \A c \in Children(s, m) : c \in s.live \ ms
  BY <1>0, <1>4 DEF Children
<1> HIDE DEF rest, roots
<1>7. CASE s.active # m
  BY <1>3, <1>4, <1>5, <1>7
<1>8. CASE s.active = m /\ Children(s, m) # {}
  <2>1. PICK c \in Children(s, m) : a = DeepestLeaf(rest, c)
    BY <1>3, <1>8
  <2>2. a \in s.live \ ms
    BY <1>2, <1>6, <2>1
  <2>3. a \in 0 .. s.used
    BY <1>4, <2>2
  <2> QED BY <1>0, <1>5, <2>2, <2>3
<1>9. CASE s.active = m /\ Children(s, m) = {}
  <2>1. a = s.parent[m] \/ a \in roots \/ a = NoMsg
    BY <1>3, <1>9
  <2>2. \A c \in roots : c \in s.live \ ms /\ c \in 0 .. s.used
    BY <1>1, <1>4
  <2> QED BY <1>0, <1>5, <2>1, <2>2
<1> QED BY <1>7, <1>8, <1>9

\* Messages excluded for a new memory.
LEMMA SetAside ==
  ASSUME NEW d, Shape(d), Sound(d), Lacks(d), Replaced(d), NEW ms, ms \subseteq d.live,
         NEW why \in {"covered", "discarded", "superseded"}
  PROVE  LET e == Exclude(d, ms, why) IN
         /\ Shape(e) /\ Sound(e) /\ Lacks(e) /\ Replaced(e) /\ Since(d, e) /\ Reasoned(d, e)
         /\ e.active = d.active /\ e.cut = d.cut /\ e.used = d.used /\ e.live = d.live
         /\ \A m \in d.live : e.reason[m] = IF m \in ms THEN why ELSE d.reason[m]
<1> DEFINE e == Exclude(d, ms, why)
<1>1. Shape(e) /\ Reasoned(d, e) /\ e.cut = d.cut /\ e.active = d.active /\ e.reason = Marked(d, ms, why)
  <2>1. ms \in SUBSET d.live /\ why \in Reasons \ {"none", "compressed"}
    BY DEF Reasons
  <2> QED BY <2>1, ExcludeIs
<1> HIDE DEF e
<1>2. /\ Since(d, e) /\ Sound(e) /\ (Gapless(e) <=> Gapless(d))
      /\ \A m \in d.live : Outdated(d, m) => Outdated(e, m)
  BY <1>1, ReasonedKeeps
<1>3. e.used = d.used /\ e.live = d.live /\ e.role = d.role
  BY <1>1 DEF Reasoned
<1>4. \A m \in d.live : e.reason[m] = IF m \in ms THEN why ELSE d.reason[m]
  <2>1. d.live \subseteq Ids
    BY ShapeIs
  <2> QED BY <1>1, <2>1 DEF Marked
<1>5. Replaced(e)
  <2>1. \A m \in d.live : e.reason[m] = "file" => d.reason[m] = "file"
    BY <1>4
  <2> QED BY <1>2, <1>3, <2>1 DEF Replaced
<1>6. Lacks(e)
  BY <1>1, <1>3 DEF Lacks
<1> QED BY <1>1, <1>2, <1>3, <1>4, <1>5, <1>6 DEF e

\* The place of the memory in force on the branch.
LEMMA PreviousIs ==
  ASSUME NEW s, Shape(s)
  PROVE  LET b == Branch(s, s.active)  from == Previous(s) IN
         /\ from \in 0 .. Len(b)
         /\ from = 0 => \A i \in 1 .. Len(b) : ~InForce(s, b[i])
         /\ from # 0 => InForce(s, b[from])
<1> DEFINE b == Branch(s, s.active)
           ws == {i \in DOMAIN b : InForce(s, b[i])}
           least == CHOOSE i \in ws : \A j \in ws : i <= j
<1>1. DOMAIN b = 1 .. Len(b) /\ Len(b) \in Nat
  <2>1. s.active \in Ids \cup {NoMsg}
    BY ShapeIs, IdsAre
  <2>2. b \in Seq(Ids)
    BY <2>1, ShapeTree, BranchRecursion
  <2> QED BY <2>2
<1>2. Previous(s) = IF ws = {} THEN 0 ELSE least
  BY DEF Previous
<1>3. ws # {} => least \in ws
  <2>1. ws \in SUBSET Nat
    BY <1>1
  <2> HIDE DEF ws
  <2>2. ws # {} => \E i \in ws : \A j \in ws : i <= j
    BY <2>1, LeastNumber
  <2> QED BY <2>2
<1>4. \A i \in 1 .. Len(b) : InForce(s, b[i]) => i \in ws
  BY <1>1
<1>5. \A i \in ws : i \in 1 .. Len(b) /\ InForce(s, b[i])
  BY <1>1
<1>6. 0 \notin 1 .. Len(b) /\ 0 \in 0 .. Len(b) /\ \A i \in 1 .. Len(b) : i \in 0 .. Len(b)
  BY <1>1
<1> HIDE DEF b, ws, least
<1> QED BY <1>2, <1>3, <1>4, <1>5, <1>6 DEF b

\* The branch that was read is accounted for, but for what empty memories lost: below the
\* previous memory it is covered, and the previous memory accounts for what is above it.
LEMMA AccountIs ==
  ASSUME NEW s, Shape(s), Sound(s), ~s.cut, NEW i \in 1 .. Len(Branch(s, s.active))
  PROVE  LET b == Branch(s, s.active)
             from == Previous(s)
             cover == {b[j] : j \in from + 1 .. Len(b)}
             prev == IF from = 0 THEN {} ELSE {b[from]} IN
         /\ b[i] \in Account(s, prev, cover) \cup Forgotten(s, s.active)
         /\ InForce(s, b[i]) => b[i] \in prev
<1> DEFINE b == Branch(s, s.active)
           from == Previous(s)
           cover == {b[j] : j \in from + 1 .. Len(b)}
           prev == IF from = 0 THEN {} ELSE {b[from]}
<1>0. s.active \in Ids \cup {NoMsg} /\ s.live \subseteq Ids
  BY ShapeIs, IdsAre
<1>1. /\ from \in 0 .. Len(b) /\ (from = 0 => \A j \in 1 .. Len(b) : ~InForce(s, b[j]))
      /\ (from # 0 => InForce(s, b[from])) /\ Len(b) \in Nat
  <2>1. b \in Seq(Ids)
    BY <1>0, ShapeTree, BranchRecursion
  <2>2. Len(b) \in Nat
    BY <2>1
  <2> QED BY <2>2, PreviousIs
<1>2. \A j \in 1 .. Len(b) : b[j] \in s.live /\ OnBranch(s, b[j]) = {b[l] : l \in 1 .. j}
                           /\ \A l \in 1 .. Len(b) : j < l => b[j] < b[l]
  <2>1. Straight(s, s.active)
    BY <1>0, ShapeTree, BranchStraight
  <2> QED BY <2>1 DEF Straight
<1>3. Lone(s) /\ Accounts(s)
  BY DEF Sound
<1> HIDE DEF b, from
<1>4. ASSUME from # 0, InForce(s, b[i]) PROVE b[i] = b[from]
  <2>1. from \in 1 .. Len(b) /\ i \in 1 .. Len(b)
    BY <1>1, <1>4 DEF b
  <2>2. Len(b) \in 1 .. Len(b) /\ \A j \in 1 .. Len(b) : j \in 1 .. Len(b)
    BY <1>1, <2>1
  <2>3. b[i] \in OnBranch(s, b[Len(b)]) /\ b[from] \in OnBranch(s, b[Len(b)]) /\ b[Len(b)] \in s.live
    BY <1>2, <2>1, <2>2
  <2> QED BY <1>1, <1>3, <1>4, <2>3 DEF Lone
<1>5. b[i] \in Account(s, prev, cover) \cup Forgotten(s, s.active)
  <2>1. CASE from < i
    <3>1. i \in from + 1 .. Len(b)
      BY <1>1, <2>1 DEF b
    <3> QED BY <3>1 DEF Account
  <2>2. CASE ~(from < i)
    <3>1. from \in 1 .. Len(b) /\ from # 0 /\ i \in 1 .. from
      BY <1>1, <2>2 DEF b
    <3>2. b[from] \in s.live /\ InForce(s, b[from]) /\ b[i] \in OnBranch(s, b[from])
      BY <1>1, <1>2, <3>1
    <3>3. b[i] \in s.account[b[from]] \cup {b[from]} \cup Forgotten(s, b[from])
      BY <1>3, <3>2 DEF Accounts
    <3>4. b[from] \in prev
      BY <3>1
    <3>5. Forgotten(s, b[from]) \subseteq Forgotten(s, s.active)
      <4>1. b[from] \in OnBranch(s, s.active)
        BY <1>0, <3>1, ShapeTree, OnBranchIs DEF b
      <4>2. OnBranch(s, b[from]) \subseteq OnBranch(s, s.active)
        BY <1>0, <4>1, ShapeTree, BranchAbove
      <4> QED BY <4>2 DEF Forgotten
    <3> QED BY <3>3, <3>4, <3>5 DEF Account
  <2> QED BY <2>1, <2>2
<1>6. InForce(s, b[i]) => b[i] \in prev
  BY <1>1, <1>4 DEF b
<1> QED BY <1>5, <1>6 DEF b, from

\* What a memory written by the rows s covers, and the one it supersedes.
CoverOf(s) == {Branch(s, s.active)[j] : j \in Previous(s) + 1 .. Len(Branch(s, s.active))}
PreviousOf(s) == IF Previous(s) = 0 THEN {} ELSE {Branch(s, s.active)[Previous(s)]}
Remembered(s, d, prev, talk, out, acc) ==
  Insert(Supersede(Exclude(Exclude(d, out \cap talk, "discarded"), out \ talk, "covered"), prev),
         Branch(s, s.active)[Len(Branch(s, s.active))], "memory", acc)

\* A working memory, flushed to the rows d by a session that has read s.
LEMMA MemoryFits ==
  ASSUME NEW s, NEW d, Shape(s), Sound(s), Fit(d), Since(s, d), d.used < Bound,
         NEW cover, NEW prev, NEW talk, NEW out, NEW acc \in Told(s, prev, cover),
         cover = CoverOf(s), prev = PreviousOf(s), cover # {}, out \subseteq cover,
         out \cup prev \subseteq d.live
  PROVE  LET e == Remembered(s, d, prev, talk, out, acc) IN
         Fit(e) /\ Since(d, e) /\ e.used = d.used + 1 /\ d.live \subseteq e.live /\ e.active \in e.live
<1> DEFINE b == Branch(s, s.active)
           t == b[Len(b)]
           x == out \cap talk
           y == out \ talk
           u1 == Exclude(d, x, "discarded")
           u2 == Exclude(u1, y, "covered")
           u == Exclude(u2, prev, "superseded")
           e == Insert(u, t, "memory", acc)
<1> USE DEF CoverOf, PreviousOf
<1>0. s.active \in Ids \cup {NoMsg} /\ s.live \subseteq Ids /\ s.live \subseteq 1 .. s.used /\ s.used \in Nat
      /\ d.used \in Nat /\ s.used <= d.used
  BY ShapeIs, IdsAre DEF Since, Fit
<1>1. b \in Seq(Ids) /\ Len(b) \in Nat
  <2>1. b \in Seq(Ids)
    BY <1>0, ShapeTree, BranchRecursion
  <2> QED BY <2>1
<1>2. \A j \in 1 .. Len(b) : b[j] \in s.live /\ OnBranch(s, b[j]) = {b[l] : l \in 1 .. j}
  <2>1. Straight(s, s.active)
    BY <1>0, ShapeTree, BranchStraight
  <2> QED BY <2>1 DEF Straight
<1>3. Previous(s) \in 0 .. Len(b)
  BY PreviousIs
<1> HIDE DEF b
<1>4. Len(b) \in 1 .. Len(b)
  <2>1. PICK j \in Previous(s) + 1 .. Len(b) : TRUE
    BY DEF b
  <2> QED BY <1>1, <1>3, <2>1
<1>5. t \in s.live /\ t \in 1 .. s.used /\ t \in 0 .. d.used /\ t \in Ids
      /\ OnBranch(s, t) = {b[l] : l \in 1 .. Len(b)}
  <2>1. t \in s.live /\ OnBranch(s, t) = {b[l] : l \in 1 .. Len(b)}
    BY <1>2, <1>4
  <2> QED BY <1>0, <2>1
<1>6. acc \in SUBSET Ids
  <2>1. cover \subseteq Ids
    <3>1. \A j \in Previous(s) + 1 .. Len(b) : j \in 1 .. Len(b)
      BY <1>1, <1>3
    <3> QED BY <1>0, <1>2, <3>1 DEF b
  <2>2. \A p \in prev : p \in Ids /\ s.account[p] \subseteq Ids
    <3>1. \A p \in prev : p \in Ids
      <4>1. Previous(s) # 0 => Previous(s) \in 1 .. Len(b)
        BY <1>1, <1>3
      <4> QED BY <1>0, <1>2, <4>1 DEF b
    <3>2. s.account \in [Ids -> SUBSET Ids]
      BY ShapeIs
    <3> QED BY <3>1, <3>2
  <2> QED BY <2>1, <2>2 DEF Account, Told
<1>13. cover \cup prev \subseteq OnBranch(s, t) /\ s.active = t
  <2>1. \A j \in Previous(s) + 1 .. Len(b) : j \in 1 .. Len(b)
    BY <1>1, <1>3
  <2>2. Previous(s) # 0 => Previous(s) \in 1 .. Len(b)
    BY <1>1, <1>3
  <2>3. cover \cup prev \subseteq OnBranch(s, t)
    BY <1>5, <2>1, <2>2 DEF b
  <2>4. s.active \in s.live
    <3>1. OnBranch(s, s.active) = {b[l] : l \in 1 .. Len(b)}
      BY <1>0, ShapeTree, OnBranchIs DEF b
    <3> QED BY <1>0, <1>4, <3>1, ShapeTree, OnBranchWithin
  <2>5. s.active = t
    BY <1>0, <2>4, ShapeTree, BranchRecursion, LastIsEnd DEF b, t
  <2> QED BY <2>3, <2>5
<1> HIDE DEF t, u, u1, u2
<1>7. /\ Shape(u) /\ Sound(u) /\ Lacks(u) /\ Replaced(u) /\ Since(d, u) /\ Reasoned(d, u)
      /\ u.active = d.active /\ u.cut = d.cut /\ u.used = d.used /\ u.live = d.live
      /\ \A m \in prev : u.reason[m] = "superseded"
      /\ \A m \in d.live \ (out \cup prev) : u.reason[m] = d.reason[m]
  <2> HIDE DEF x, y
  <2>0. x \subseteq d.live /\ y \subseteq d.live /\ prev \subseteq d.live
    BY DEF x, y
  <2>1. /\ Shape(u1) /\ Sound(u1) /\ Lacks(u1) /\ Replaced(u1) /\ Since(d, u1) /\ Reasoned(d, u1)
        /\ u1.active = d.active /\ u1.cut = d.cut /\ u1.used = d.used /\ u1.live = d.live
        /\ \A m \in d.live : m \notin x => u1.reason[m] = d.reason[m]
    BY <2>0, SetAside DEF u1, Fit
  <2>2. /\ Shape(u2) /\ Sound(u2) /\ Lacks(u2) /\ Replaced(u2) /\ Since(u1, u2) /\ Reasoned(u1, u2)
        /\ u2.active = u1.active /\ u2.cut = u1.cut /\ u2.used = u1.used /\ u2.live = u1.live
        /\ \A m \in u1.live : m \notin y => u2.reason[m] = u1.reason[m]
    BY <2>0, <2>1, SetAside DEF u2
  <2>3. /\ Shape(u) /\ Sound(u) /\ Lacks(u) /\ Replaced(u) /\ Since(u2, u) /\ Reasoned(u2, u)
        /\ u.active = u2.active /\ u.cut = u2.cut /\ u.used = u2.used /\ u.live = u2.live
        /\ \A m \in u2.live : u.reason[m] = IF m \in prev THEN "superseded" ELSE u2.reason[m]
    BY <2>0, <2>1, <2>2, SetAside DEF u
  <2>4. Reasoned(d, u)
    BY <2>1, <2>2, <2>3 DEF Reasoned
  <2>5. Since(d, u)
    BY <2>1, <2>2, <2>3, SinceChains DEF Fit
  <2>6. \A m \in d.live \ (out \cup prev) : u.reason[m] = d.reason[m]
    <3>1. \A m \in d.live : m \notin out => m \notin x /\ m \notin y
      BY DEF x, y
    <3> QED BY <2>1, <2>2, <2>3, <3>1
  <2>7. \A m \in prev : u.reason[m] = "superseded"
    BY <2>0, <2>1, <2>2, <2>3
  <2> QED BY <2>1, <2>2, <2>3, <2>4, <2>5, <2>6, <2>7
<1>14. /\ \A k \in Ids \cup {NoMsg} : OnBranch(u, k) = OnBranch(d, k)
       /\ u.role = d.role /\ u.account = d.account
  BY <1>7, ShapeTree, SameBranches DEF Reasoned, Fit
<1>8. Shape(e) /\ Grown(u, e, t, "memory", acc) /\ e.active = e.used
  <2>1. "memory" \in Saved \cup {"memory"} /\ u.used < Bound /\ t \in 0 .. u.used
    BY <1>5, <1>7
  <2> QED BY <1>6, <1>7, <2>1, InsertIs
<1>15. ASSUME ~d.cut, t \in d.live, NEW v \in OnBranch(d, t)
       PROVE  /\ v \in OnBranch(s, t) /\ v \in 1 .. s.used /\ v \in Ids
              /\ v \in Account(s, prev, cover) \cup Forgotten(s, t)
              /\ InForce(d, v) => v \in prev
  <2>1. v \in OnBranch(s, t) /\ ~s.cut
    BY <1>5, <1>15 DEF Since
  <2>2. PICK i \in 1 .. Len(b) : v = b[i]
    BY <1>5, <2>1
  <2>3. v \in Account(s, prev, cover) \cup Forgotten(s, t) /\ (InForce(s, v) => v \in prev)
    BY <1>13, <2>1, <2>2, AccountIs DEF b
  <2>4. v \in 1 .. s.used /\ v \in Ids
    BY <1>0, <1>2, <2>2
  <2>5. InForce(d, v) => InForce(s, v)
    BY <2>4 DEF InForce, Since
  <2> QED BY <2>1, <2>3, <2>4, <2>5
<1>9. Ready(u, t, acc)
  <2>1. ASSUME ~u.cut, NEW v \in OnBranch(u, t)
        PROVE  ~InForce(u, v) /\ (acc = {} \/ v \in acc \cup Forgotten(u, t))
    <3>1. ~d.cut /\ ~s.cut /\ v \in OnBranch(d, t) /\ v \in d.live
      BY <1>5, <1>7, <1>14, <2>1, ShapeTree, OnBranchWithin DEF Since, Fit
    <3>2. t \in d.live
      BY <1>5, <3>1, ShapeTree, OnBranchWithin DEF Fit
    <3>3. v \in Account(s, prev, cover) \cup Forgotten(s, t) /\ (InForce(d, v) => v \in prev) /\ v \in Ids
      BY <1>15, <3>1, <3>2
    <3>4. ~InForce(u, v)
      BY <1>7, <3>3 DEF InForce, Excluded, Reasoned
    <3>5. ASSUME v \in Forgotten(s, t) PROVE v \in Forgotten(u, t)
      <4>1. PICK w \in OnBranch(s, t) : Blank(s, w) /\ v \in OnBranch(s, w)
        BY <3>5 DEF Forgotten
      <4>2. w \in s.live /\ w \in 1 .. s.used /\ w \in Ids
        BY <1>0, <1>5, <4>1, ShapeTree, OnBranchWithin
      <4>3. w \in d.live /\ OnBranch(d, t) = OnBranch(s, t) \cap d.live
        BY <1>5, <3>1, <3>2, <4>1 DEF Since, Blank
      <4>4. w \in OnBranch(d, t) /\ v \in OnBranch(d, w) /\ Blank(d, w)
        BY <3>1, <4>1, <4>2, <4>3 DEF Since, Blank
      <4> QED BY <1>5, <1>14, <4>2, <4>4 DEF Forgotten, Blank
    <3>6. acc = Account(s, prev, cover) \/ acc = {}
      BY DEF Told
    <3> QED BY <3>3, <3>4, <3>5, <3>6
  <2>2. ASSUME Gapless(u), NEW m \in u.live, u.reason[m] \in ForMemory
        PROVE  Kept(u, m) \/ (m \in OnBranch(u, t) /\ (acc = {} \/ m \in acc))
    <3>1. Gapless(d) /\ ~d.cut /\ ~s.cut
      BY <1>7, <2>2 DEF Gapless, Lacks, Fit, Since
    <3>2. t \in d.live
      <4>1. t \in 1 .. d.used
        BY <1>0, <1>5
      <4> QED BY <3>1, <4>1 DEF Gapless
    <3>3. OnBranch(d, t) = OnBranch(s, t)
      <4>1. OnBranch(s, t) \subseteq s.live
        BY <1>5, ShapeTree, OnBranchWithin
      <4>2. s.live \subseteq 1 .. d.used
        BY <1>0
      <4> QED BY <1>5, <3>1, <3>2, <4>1, <4>2 DEF Since, Gapless
    <3>4. acc = Account(s, prev, cover) \/ acc = {}
      BY DEF Told
    <3>5. CASE m \in out \cup prev
      <4>1. m \in OnBranch(u, t)
        BY <1>5, <1>13, <1>14, <3>3, <3>5
      <4>2. m \in Account(s, prev, cover)
        BY <3>5 DEF Account
      <4> QED BY <3>4, <4>1, <4>2
    <3>6. CASE m \notin out \cup prev
      <4>1. m \in d.live /\ Kept(d, m)
        BY <1>7, <2>2, <3>1, <3>6 DEF Fit, Recalled
      <4>2. ASSUME NEW w \in d.live, Blank(d, w), m \in OnBranch(d, w) PROVE Kept(u, m)
        <5>1. w \in Ids
          BY ShapeIs DEF Fit
        <5> QED BY <1>7, <1>14, <4>2, <5>1 DEF Kept, Blank
      <4>3. ASSUME NEW w \in d.live, InForce(d, w), m \in d.account[w], m \in OnBranch(d, w)
            PROVE  Kept(u, m) \/ (m \in OnBranch(u, t) /\ (acc = {} \/ m \in acc))
        <5>1. w \in Ids
          BY ShapeIs DEF Fit
        <5>2. CASE w \notin out \cup prev
          <6>1. InForce(u, w)
            BY <1>7, <1>14, <4>3, <5>2 DEF InForce, Excluded
          <6> QED BY <1>7, <1>14, <4>3, <5>1, <6>1 DEF Kept
        <5>3. CASE w \in out \cup prev
          <6>1. w \in OnBranch(d, t)
            BY <1>13, <3>3, <5>3
          <6>2. w \in prev /\ w \in 1 .. s.used
            BY <1>15, <3>1, <3>2, <4>3, <6>1
          <6>3. d.account[w] = s.account[w]
            BY <6>2 DEF Since
          <6>4. m \in Account(s, prev, cover)
            BY <4>3, <6>2, <6>3 DEF Account
          <6>5. m \in OnBranch(d, t)
            BY <1>5, <4>3, <6>1, ShapeTree, BranchAbove DEF Fit
          <6> QED BY <1>5, <1>14, <3>4, <6>4, <6>5
        <5> QED BY <5>2, <5>3
      <4> QED BY <4>1, <4>2, <4>3 DEF Kept
    <3> QED BY <3>5, <3>6
  <2> QED BY <2>1, <2>2 DEF Ready
<1> HIDE DEF e
<1>10. Since(u, e) /\ Sound(e) /\ Lacks(e) /\ Recalled(e) /\ Replaced(e)
  <2>1. t \in 0 .. u.used
    BY <1>5, <1>7
  <2> QED BY <1>7, <1>8, <1>9, <2>1, GrownKeeps DEF Fit
<1>11. Since(d, e)
  BY <1>7, <1>8, <1>10, SinceChains DEF Fit
<1>12. e.used = d.used + 1 /\ d.live \subseteq e.live /\ e.active \in e.live
  BY <1>7, <1>8 DEF Grown
<1> QED BY <1>8, <1>10, <1>11, <1>12 DEF Fit, e, u, u1, u2, t, b, Supersede, Remembered

Operations == {"none", "add", "compress", "dedupe", "edit", "delete", "remove", "select"}
Phases == {"idle", "write", "memory", "commit"}
Busy(p) == {r \in Requests : p[r] # "idle"}

\* What a request in phase p has read, of conversation d as it is committed by now.
Prepared(q, p, d) ==
  p \in {"write", "memory"} =>
    /\ Shape(q.rows) /\ Sound(q.rows) /\ Since(q.rows, d)
    /\ p = "write" => /\ q.op \in {"edit", "delete", "remove"} => q.on \in q.rows.live
                      /\ q.op = "edit" => q.rows.role[q.on] = "talk"
                      /\ q.op = "remove" => q.rows.role[q.on] # "memory"
                      /\ q.op = "select" => q.on \in 1 .. q.rows.used

Typed ==
  /\ lock \in Requests \cup {None} /\ pc \in [Requests -> Phases] /\ made \in 0 .. MaxRequests
  /\ req \in [Requests -> [op : Operations, on : Ids \cup {NoMsg}, rows : Rows]]
Committed == Fit(db) /\ Noted(db)
Flushed == /\ Fit(draft) /\ Since(db, draft) /\ db.live \subseteq draft.live
           /\ draft.active = db.active \/ draft.active \in draft.live
Locked == /\ lock = None => draft = db
          /\ lock # None => pc[lock] \in {"memory", "commit"}
          /\ draft.used <= db.used + 1
          /\ lock # None /\ pc[lock] = "memory" => draft.used = db.used
Budget == db.used + Cardinality(Busy(pc)) <= Len(Start) + made
Read == \A r \in Requests : Prepared(req[r], pc[r], db)
Inv == Typed /\ Committed /\ Flushed /\ Locked /\ Budget /\ Read

\* What a request has read stays good while others commit.
LEMMA PreparedStays ==
  ASSUME NEW q, NEW p, NEW d, NEW e, Prepared(q, p, d), Shape(d), Shape(e), Since(d, e)
  PROVE  Prepared(q, p, e)
BY SinceChains DEF Prepared

\* The number of requests in flight.
LEMMA BusyIs ==
  ASSUME NEW p \in [Requests -> Phases], NEW r \in Requests, NEW next \in Phases
  PROVE  LET e == [p EXCEPT ![r] = next] IN
         /\ Cardinality(Busy(p)) \in Nat /\ Cardinality(Busy(e)) \in Nat
         /\ Cardinality(Busy(e)) <= Cardinality(Busy(p)) + 1
         /\ p[r] # "idle" => Cardinality(Busy(e)) <= Cardinality(Busy(p)) /\ Cardinality(Busy(p)) >= 1
         /\ p[r] # "idle" /\ next = "idle" => Cardinality(Busy(e)) = Cardinality(Busy(p)) - 1
<1> DEFINE e == [p EXCEPT ![r] = next]
           A == Busy(p) \ {r}
<1>1. IsFiniteSet(Busy(p)) /\ IsFiniteSet(A)
  <2>1. Busy(p) \subseteq Requests /\ A \subseteq Requests
    BY DEF Busy
  <2> QED BY <2>1, RequestsAssumption, FS_Subset
<1>2. Busy(e) = A \/ Busy(e) = A \cup {r}
  BY DEF Busy
<1>3. next = "idle" => Busy(e) = A
  BY DEF Busy
<1>4. (p[r] # "idle" => Busy(p) = A \cup {r}) /\ (p[r] = "idle" => Busy(p) = A) /\ r \notin A
  BY DEF Busy
<1> HIDE DEF A, e
<1>5. Cardinality(A \cup {r}) = Cardinality(A) + 1 /\ Cardinality(A) \in Nat
  BY <1>1, <1>4, FS_AddElement, FS_CardinalityType
<1>6. /\ Cardinality(Busy(p)) \in Nat /\ Cardinality(Busy(e)) \in Nat
      /\ Cardinality(Busy(e)) <= Cardinality(Busy(p)) + 1
      /\ p[r] # "idle" => Cardinality(Busy(e)) <= Cardinality(Busy(p)) /\ Cardinality(Busy(p)) >= 1
      /\ p[r] # "idle" /\ next = "idle" => Cardinality(Busy(e)) = Cardinality(Busy(p)) - 1
  <2> DEFINE a == Cardinality(A)
             x == Cardinality(Busy(e))
             y == Cardinality(Busy(p))
  <2>1. a \in Nat /\ (x = a \/ x = a + 1) /\ (next = "idle" => x = a)
        /\ (p[r] # "idle" => y = a + 1) /\ (p[r] = "idle" => y = a)
    BY <1>2, <1>3, <1>4, <1>5
  <2> HIDE DEF a, x, y
  <2>2. /\ y \in Nat /\ x \in Nat /\ x <= y + 1
        /\ p[r] # "idle" => x <= y /\ y >= 1
        /\ p[r] # "idle" /\ next = "idle" => x = y - 1
    BY <2>1
  <2> QED BY <2>2 DEF x, y
<1> QED BY <1>6 DEF e

\* A request that ends leaves room for one message more.
LEMMA BudgetLeft ==
  ASSUME Inv, NEW r \in Requests, pc[r] # "idle"
  PROVE  db.used < Bound /\ db.used \in Nat /\ made \in Nat
         /\ db.used + 1 + Cardinality(Busy([pc EXCEPT ![r] = "idle"])) <= Len(Start) + made
<1>1. pc \in [Requests -> Phases] /\ "idle" \in Phases /\ made \in 0 .. MaxRequests
      /\ db.used + Cardinality(Busy(pc)) <= Len(Start) + made /\ db.used \in Nat
  BY ShapeIs DEF Inv, Typed, Budget, Phases, Committed, Fit
<1>2. /\ Cardinality(Busy(pc)) >= 1 /\ Cardinality(Busy(pc)) \in Nat
      /\ Cardinality(Busy([pc EXCEPT ![r] = "idle"])) = Cardinality(Busy(pc)) - 1
  BY <1>1, BusyIs
<1>3. Len(Start) \in Nat /\ MaxRequests \in Nat /\ Bound = Len(Start) + MaxRequests /\ made \in Nat
      /\ made <= MaxRequests
  BY <1>1, IdsAre DEF Bound
<1> QED BY <1>1, <1>2, <1>3

\* What the conversation holds at first.
LEMMA StartFits == Fit(StartRows) /\ Noted(StartRows) /\ StartRows.used = Len(Start)
<1> DEFINE n == Len(Start)
           d == StartRows
<1>0. n \in Nat /\ Bound \in Nat /\ n <= Bound /\ n \in 0 .. Bound /\ Ids = 1 .. Bound
      /\ Ids \cup {NoMsg} = 0 .. Bound /\ NoMsg = 0 /\ MaxRequests \in Nat
      /\ Start \in Seq(Saved) /\ 1 .. n \subseteq Ids
  BY IdsAre, StartAssumption
<1> DEFINE live == 1 .. n
           parent == [i \in Ids |-> IF i <= n THEN i - 1 ELSE NoMsg]
           role == [i \in Ids |-> IF i <= n THEN Start[i] ELSE "talk"]
           reason == [i \in Ids |-> "none"]
           account == [i \in Ids |-> {}]
           summary == {}
           cut == FALSE
<1>1. d = Record(n, live, parent, role, reason, summary, account, n, cut)
  BY DEF StartRows, Record
<1> HIDE DEF d, n, live, parent, role, reason, account, summary, cut
<1>2. /\ d.used = n /\ d.live = 1 .. n /\ d.parent = [i \in Ids |-> IF i <= n THEN i - 1 ELSE NoMsg]
      /\ d.role = [i \in Ids |-> IF i <= n THEN Start[i] ELSE "talk"]
      /\ d.reason = [i \in Ids |-> "none"] /\ d.summary = {} /\ d.account = [i \in Ids |-> {}]
      /\ d.active = n /\ d.cut = FALSE
      /\ d = Record(d.used, d.live, d.parent, d.role, d.reason, d.summary, d.account, d.active, d.cut)
  <2>1. /\ d.used = n /\ d.live = live /\ d.parent = parent /\ d.role = role /\ d.reason = reason
        /\ d.summary = summary /\ d.account = account /\ d.active = n /\ d.cut = cut
        /\ d = Record(d.used, d.live, d.parent, d.role, d.reason, d.summary, d.account, d.active, d.cut)
    BY <1>1, FieldsAre
  <2> QED BY <2>1 DEF live, parent, role, reason, account, summary, cut
<1>3. \A i \in Ids : /\ d.parent[i] = (IF i <= n THEN i - 1 ELSE NoMsg)
                     /\ d.role[i] = (IF i <= n THEN Start[i] ELSE "talk")
                     /\ d.reason[i] = "none" /\ d.account[i] = {}
  BY <1>2
<1>4. /\ d.parent \in [Ids -> Ids \cup {NoMsg}] /\ \A i \in Ids : d.parent[i] < i
  <2>1. \A i \in Ids : d.parent[i] \in 0 .. Bound /\ d.parent[i] < i
    BY <1>0, <1>3
  <2> QED BY <1>0, <1>2, <2>1
<1>5. d.role \in [Ids -> Saved \cup {"memory"}] /\ \A i \in Ids : d.role[i] # "memory"
  <2>1. "talk" \in Saved /\ "memory" \notin Saved
    BY DEF Saved
  <2>2. \A i \in Ids : i <= n => Start[i] \in Saved
    BY <1>0 DEF n
  <2> QED BY <1>2, <1>3, <2>1, <2>2
<1>6. d \in Rows
  <2>1. d.reason \in [Ids -> Reasons] /\ d.account \in [Ids -> SUBSET Ids] /\ d.summary \in SUBSET Ids
        /\ d.live \in SUBSET Ids /\ d.active \in Ids \cup {NoMsg} /\ d.cut \in BOOLEAN /\ d.used \in 0 .. Bound
    BY <1>0, <1>2 DEF Reasons
  <2> QED BY <1>2, <1>4, <1>5, <2>1, RecordIs
<1>7. Shape(d)
  BY <1>0, <1>2, <1>3, <1>4, <1>6 DEF Shape
<1>8. \A i \in d.live : ~InForce(d, i)
  BY <1>0, <1>2, <1>5 DEF InForce
<1>9. \A k \in Ids \cup {NoMsg} : OnBranch(d, k) \subseteq d.live
  BY <1>7, ShapeTree, OnBranchWithin
<1>10. Fit(d)
  <2>1. Lone(d) /\ Accounts(d)
    BY <1>0, <1>2, <1>8, <1>9 DEF Lone, Accounts
  <2>2. Recalled(d) /\ Replaced(d) /\ Lacks(d)
    BY <1>0, <1>2, <1>3 DEF Recalled, Replaced, Lacks, ForMemory
  <2> QED BY <1>7, <2>1, <2>2 DEF Fit, Sound
<1>11. Noted(d)
  BY <1>0, <1>2, <1>3 DEF Noted
<1> QED BY <1>2, <1>10, <1>11 DEF d, n

\* It holds at first.
LEMMA Begun == Init => Inv
<1> SUFFICES ASSUME Init PROVE Inv
  OBVIOUS
<1> DEFINE d == StartRows
<1> HIDE DEF d
<1>1. Fit(d) /\ Noted(d) /\ d.used = Len(Start) /\ d \in Rows /\ Since(d, d)
  BY StartFits, SinceItself DEF d, Fit, Shape
<1>2. db = d /\ draft = d /\ lock = None /\ made = 0
      /\ pc = [r \in Requests |-> "idle"] /\ req = [r \in Requests |-> NoRequest]
  BY DEF Init, d
<1>3. Typed
  <2>1. NoRequest \in [op : Operations, on : Ids \cup {NoMsg}, rows : Rows]
    BY <1>1 DEF NoRequest, Operations, d
  <2> HIDE DEF NoRequest
  <2>2. 0 \in 0 .. MaxRequests
    BY IdsAre
  <2> QED BY <1>2, <2>1, <2>2 DEF Typed, Phases
<1>4. Budget
  <2>1. Busy(pc) = {} /\ Cardinality({}) = 0 /\ Len(Start) \in Nat
    BY <1>2, FS_EmptySet, IdsAre DEF Busy
  <2>2. db.used + Cardinality(Busy(pc)) = Len(Start) + 0
    BY <1>1, <1>2, <2>1
  <2>3. Len(Start) + 0 <= Len(Start) + made
    BY <1>2, <2>1
  <2> QED BY <2>2, <2>3 DEF Budget
<1>5. Committed /\ Flushed
  BY <1>1, <1>2 DEF Committed, Flushed
<1>6. Locked
  BY <1>1, <1>2, IdsAre DEF Locked
<1>7. Read
  BY <1>2 DEF Read, Prepared
<1> QED BY <1>3, <1>4, <1>5, <1>6, <1>7 DEF Inv

\* A request that rolls back.
LEMMA RollbackKeeps ==
  ASSUME Inv, NEW r \in Requests, pc[r] \in {"write", "memory"},
         draft' = (IF lock = r THEN db ELSE draft), lock' = (IF lock = r THEN None ELSE lock),
         pc' = [pc EXCEPT ![r] = "idle"], req' = [req EXCEPT ![r] = NoRequest],
         db' = db, made' = made
  PROVE  Inv'
<1> USE DEF Inv
<1>0. pc[r] # "idle" /\ r # None /\ pc \in [Requests -> Phases] /\ db.used \in Nat
  BY NoneAssumption, ShapeIs DEF Typed, Committed, Fit
<1>1. \A q \in Requests : q # r => pc'[q] = pc[q] /\ req'[q] = req[q]
  BY DEF Typed
<1>2. pc'[r] = "idle"
  BY DEF Typed
<1>3. Typed'
  <2>1. NoRequest \in [op : Operations, on : Ids \cup {NoMsg}, rows : Rows]
    BY StartFits DEF NoRequest, Operations, Fit, Shape
  <2> HIDE DEF NoRequest
  <2> QED BY <2>1 DEF Typed, Phases
<1>4. Committed'
  BY DEF Committed
<1>5. Flushed'
  BY SinceItself DEF Flushed, Committed, Fit
<1>6. Locked'
  <2>1. lock \in Requests \cup {None}
    BY DEF Typed
  <2> QED BY <1>0, <1>1, <2>1 DEF Locked
<1>7. Budget'
  <2>1. made \in Nat /\ Len(Start) \in Nat
    BY IdsAre DEF Typed
  <2>2. Cardinality(Busy(pc')) <= Cardinality(Busy(pc)) /\ Cardinality(Busy(pc')) \in Nat
        /\ Cardinality(Busy(pc)) \in Nat
    BY <1>0, BusyIs DEF Phases
  <2> QED BY <1>0, <2>1, <2>2 DEF Budget
<1>8. Read'
  BY <1>1, <1>2 DEF Read, Prepared
<1> QED BY <1>3, <1>4, <1>5, <1>6, <1>7, <1>8

\* A request that flushes and commits in one go.
LEMMA CommitsKeeps ==
  ASSUME Inv, NEW r \in Requests, pc[r] = "write", NEW e,
         db' = e, lock = None \/ e = db, draft' = (IF lock = None THEN e ELSE draft), lock' = lock,
         pc' = [pc EXCEPT ![r] = "idle"], req' = [req EXCEPT ![r] = NoRequest], made' = made,
         Fit(e), Noted(e), Since(db, e), e.used <= db.used + 1
  PROVE  Inv'
<1> USE DEF Inv
<1>0. pc[r] # "idle" /\ r # None /\ pc \in [Requests -> Phases] /\ db.used \in Nat /\ e.used \in Nat
  BY NoneAssumption, ShapeIs DEF Typed, Committed, Fit
<1>1. \A q \in Requests : q # r => pc'[q] = pc[q] /\ req'[q] = req[q]
  BY DEF Typed
<1>2. pc'[r] = "idle"
  BY DEF Typed
<1>3. Typed'
  <2>1. NoRequest \in [op : Operations, on : Ids \cup {NoMsg}, rows : Rows]
    BY StartFits DEF NoRequest, Operations, Fit, Shape
  <2> HIDE DEF NoRequest
  <2> QED BY <2>1 DEF Typed, Phases
<1>4. Committed'
  BY DEF Committed
<1>5. Flushed'
  <2>1. CASE lock = None
    BY <2>1, SinceItself DEF Flushed, Fit
  <2>2. CASE lock # None
    BY <2>2 DEF Flushed
  <2> QED BY <2>1, <2>2
<1>6. Locked'
  <2>1. lock \in Requests \cup {None} /\ lock # r
    BY <1>0 DEF Typed, Locked
  <2>2. CASE lock = None
    BY <1>0, <2>2 DEF Locked
  <2>3. CASE lock # None
    BY <1>1, <2>1, <2>3 DEF Locked
  <2> QED BY <2>2, <2>3
<1>7. Budget'
  <2>1. db.used + 1 + Cardinality(Busy([pc EXCEPT ![r] = "idle"])) <= Len(Start) + made /\ made \in Nat
    BY <1>0, BudgetLeft
  <2>2. Cardinality(Busy(pc')) \in Nat /\ Len(Start) \in Nat
    BY <1>0, BusyIs, IdsAre DEF Phases
  <2> DEFINE c == Cardinality(Busy(pc'))
  <2>3. c \in Nat /\ db.used + 1 + c <= Len(Start) + made
    BY <2>1, <2>2
  <2> HIDE DEF c
  <2>4. e.used + c <= Len(Start) + made
    BY <1>0, <2>1, <2>2, <2>3
  <2> QED BY <2>4 DEF Budget, c
<1>8. Read'
  <2>1. \A q \in Requests : q # r => Prepared(req[q], pc[q], e)
    BY PreparedStays DEF Read, Committed, Fit
  <2>2. ASSUME NEW q \in Requests PROVE Prepared(req'[q], pc'[q], db')
    BY <1>1, <1>2, <2>1 DEF Prepared
  <2> QED BY <2>2 DEF Read
<1> QED BY <1>3, <1>4, <1>5, <1>6, <1>7, <1>8

\* A request that flushes, and may take the lock with it.
LEMMA FlushKeeps ==
  ASSUME Inv, NEW r \in Requests, pc[r] \in {"write", "memory"}, NEW e, NEW mine,
         NEW next \in {"memory", "commit"},
         draft' = e, db' = db, made' = made, req' = [req EXCEPT ![r].rows = mine],
         pc' = [pc EXCEPT ![r] = next],
         \/ lock' = lock /\ e = draft
         \/ lock \in {None, r} /\ lock' = r,
         Fit(e), Since(draft, e), draft.live \subseteq e.live, mine \in Rows,
         e.active = draft.active \/ e.active \in e.live,
         next = "memory" => e.used = draft.used /\ Shape(mine) /\ Sound(mine) /\ Since(mine, db),
         e.used <= draft.used + 1
  PROVE  Inv'
<1> USE DEF Inv
<1>0. /\ pc[r] # "idle" /\ r # None /\ pc \in [Requests -> Phases] /\ db.used \in Nat /\ e.used \in Nat
      /\ draft.used \in Nat /\ lock \in Requests \cup {None}
  BY NoneAssumption, ShapeIs DEF Typed, Committed, Flushed, Fit
<1>1. \A q \in Requests : q # r => pc'[q] = pc[q] /\ req'[q] = req[q]
  BY DEF Typed
<1>2. pc'[r] = next /\ req'[r].rows = mine /\ req'[r] = [req[r] EXCEPT !.rows = mine]
  BY DEF Typed
<1>3. Typed'
  <2>1. [req[r] EXCEPT !.rows = mine] \in [op : Operations, on : Ids \cup {NoMsg}, rows : Rows]
    BY DEF Typed
  <2>2. req' \in [Requests -> [op : Operations, on : Ids \cup {NoMsg}, rows : Rows]]
    BY <2>1 DEF Typed
  <2>3. pc' \in [Requests -> Phases] /\ lock' \in Requests \cup {None}
    BY <1>0 DEF Phases
  <2> QED BY <2>2, <2>3 DEF Typed
<1>4. Committed'
  BY DEF Committed
<1>5. Flushed'
  <2>1. Since(db, e)
    BY SinceChains DEF Committed, Flushed, Fit
  <2>2. db.live \subseteq e.live
    BY DEF Flushed
  <2>3. e.active = db.active \/ e.active \in e.live
    BY DEF Flushed
  <2> QED BY <2>1, <2>2, <2>3 DEF Flushed
<1>6. Locked'
  <2>1. CASE lock' = lock /\ e = draft
    <3>1. lock = r => draft.used = db.used
      BY <1>0, <2>1 DEF Locked
    <3>2. CASE lock = r
      BY <1>0, <1>2, <2>1, <3>1, <3>2 DEF Locked
    <3>3. CASE lock # r
      BY <1>0, <1>1, <2>1, <3>3 DEF Locked
    <3> QED BY <3>2, <3>3
  <2>2. CASE lock \in {None, r} /\ lock' = r
    <3>1. draft.used = db.used
      BY <1>0, <2>2 DEF Locked
    <3> QED BY <1>0, <1>2, <2>2, <3>1 DEF Locked
  <2> QED BY <2>1, <2>2
<1>7. Budget'
  <2>1. made \in Nat /\ Len(Start) \in Nat
    BY IdsAre DEF Typed
  <2>2. Cardinality(Busy(pc')) <= Cardinality(Busy(pc)) /\ Cardinality(Busy(pc')) \in Nat
        /\ Cardinality(Busy(pc)) \in Nat
    BY <1>0, BusyIs DEF Phases
  <2> QED BY <1>0, <2>1, <2>2 DEF Budget
<1>8. Read'
  <2>1. Prepared(req'[r], pc'[r], db)
    BY <1>2 DEF Prepared
  <2>2. ASSUME NEW q \in Requests PROVE Prepared(req'[q], pc'[q], db')
    BY <1>1, <2>1 DEF Read
  <2> QED BY <2>2 DEF Read
<1> QED BY <1>3, <1>4, <1>5, <1>6, <1>7, <1>8

\* What a request knows of the rows when it writes.
LEMMA ReadIs ==
  ASSUME Inv, NEW r \in Requests, pc[r] \in {"write", "memory"}
  PROVE  LET s == req[r].rows  m == req[r].on IN
         /\ Shape(s) /\ Sound(s) /\ Since(s, db) /\ Fit(db) /\ Noted(db) /\ db.used < Bound
         /\ s.used \in Nat /\ db.used \in Nat /\ s.used <= db.used /\ s.active \in 0 .. db.used
         /\ pc[r] = "write" => /\ req[r].op \in {"edit", "delete", "remove"} => m \in s.live
                               /\ req[r].op = "edit" => s.role[m] = "talk"
                               /\ req[r].op = "remove" => s.role[m] # "memory"
                               /\ req[r].op = "select" => m \in 1 .. s.used
<1> DEFINE s == req[r].rows
<1>1. Prepared(req[r], pc[r], db) /\ Fit(db) /\ Noted(db)
  BY DEF Inv, Read, Committed
<1>2. /\ Shape(s) /\ Sound(s) /\ Since(s, db)
      /\ pc[r] = "write" => /\ req[r].op \in {"edit", "delete", "remove"} => req[r].on \in s.live
                            /\ req[r].op = "edit" => s.role[req[r].on] = "talk"
                            /\ req[r].op = "remove" => s.role[req[r].on] # "memory"
                            /\ req[r].op = "select" => req[r].on \in 1 .. s.used
  BY <1>1 DEF Prepared
<1>3. db.used < Bound
  BY BudgetLeft
<1> HIDE DEF s
<1>4. s.used \in Nat /\ db.used \in Nat /\ s.used <= db.used /\ s.active \in 0 .. s.used
  BY <1>1, <1>2, ShapeIs DEF Fit, Since
<1>5. s.active \in 0 .. db.used
  BY <1>4
<1> QED BY <1>1, <1>2, <1>3, <1>4, <1>5 DEF s

\* The short requests, whatever they commit.
LEMMA CommitIs ==
  ASSUME NEW r \in Requests, NEW d, Inv, pc[r] = "write",
         lock = None \/ d = db, db' = NoteCut(d), draft' = (IF lock = None THEN NoteCut(d) ELSE draft),
         pc' = [pc EXCEPT ![r] = "idle"], req' = [req EXCEPT ![r] = NoRequest],
         lock' = lock, made' = made,
         LET e == NoteCut(d) IN Fit(e) /\ Noted(e) /\ Since(db, e) /\ e.used <= db.used + 1
  PROVE  Inv'
<1> DEFINE e == NoteCut(d)
<1>1. d = db => e = db
  BY NoteCutIs DEF Inv, Committed, Fit
<1>2. /\ lock = None \/ e = db
      /\ db' = e /\ draft' = (IF lock = None THEN e ELSE draft)
      /\ Fit(e) /\ Noted(e) /\ Since(db, e) /\ e.used <= db.used + 1
  BY <1>1
<1> HIDE DEF e
<1> QED BY <1>2, CommitsKeeps

\* Rows that fit can be committed as they are.
LEMMA FitCommits ==
  ASSUME NEW b, NEW d, Fit(b), Fit(d), Since(b, d)
  PROVE  LET e == NoteCut(d) IN
         /\ Fit(e) /\ Noted(e) /\ Since(b, e) /\ e.used = d.used /\ e.live = d.live /\ e.active = d.active
<1> DEFINE e == NoteCut(d)
<1>1. Fit(e) /\ Noted(e) /\ Since(d, e)
  BY NoteCutFits
<1>2. e.used = d.used /\ e.live = d.live /\ e.active = d.active
  BY NoteCutIs DEF Fit
<1> HIDE DEF e
<1>3. Since(b, e)
  BY <1>1, SinceChains DEF Fit
<1> QED BY <1>1, <1>2, <1>3 DEF e

\* Saving a message makes it the active one.
LEMMA AddKeeps ==
  ASSUME Inv, NEW r \in Requests, AddMessage(r)
  PROVE  Inv' /\ db'.active \in db'.live
<1>1. pc[r] = "write" /\ pc[r] \in {"write", "memory"}
  BY DEF AddMessage, At
<1>2. PICK ro \in Roles : Commits(r, Insert(db, req[r].rows.active, ro, {}))
  BY DEF AddMessage
<1> DEFINE d == Insert(db, req[r].rows.active, ro, {})
<1>3. Fit(d) /\ Since(db, d) /\ d.used = db.used + 1 /\ d.active \in d.live
  <2>1. Fit(db) /\ db.used < Bound /\ req[r].rows.active \in 0 .. db.used /\ ro \in Saved
    BY <1>1, ReadIs, StartAssumption
  <2> QED BY <2>1, AddFits
<1>4. /\ lock = None \/ d = db
      /\ db' = NoteCut(d) /\ draft' = (IF lock = None THEN NoteCut(d) ELSE draft)
      /\ pc' = [pc EXCEPT ![r] = "idle"] /\ req' = [req EXCEPT ![r] = NoRequest]
      /\ lock' = lock /\ made' = made
  BY <1>2 DEF Commits
<1> HIDE DEF d
<1>5. LET e == NoteCut(d) IN
      /\ Fit(e) /\ Noted(e) /\ Since(db, e) /\ e.used = d.used /\ e.live = d.live /\ e.active = d.active
  BY <1>1, <1>3, ReadIs, FitCommits
<1>6. LET e == NoteCut(d) IN Fit(e) /\ Noted(e) /\ Since(db, e) /\ e.used <= db.used + 1
  <2>1. db.used \in Nat
    BY <1>1, ReadIs
  <2> QED BY <1>3, <1>5, <2>1
<1>7. Inv'
  BY <1>1, <1>4, <1>6, CommitIs
<1> QED BY <1>3, <1>4, <1>5, <1>7

\* So does an edit.
LEMMA EditKeeps ==
  ASSUME Inv, NEW r \in Requests, BranchMessage(r)
  PROVE  Inv' /\ db'.active \in db'.live
<1>1. pc[r] = "write" /\ pc[r] \in {"write", "memory"} /\ req[r].op = "edit"
  BY DEF BranchMessage, At
<1> DEFINE s == req[r].rows
           m == req[r].on
           d == Insert(db, s.parent[m], s.role[m], {})
<1>2. Fit(db) /\ db.used < Bound /\ s.parent[m] \in 0 .. db.used /\ s.role[m] \in Saved /\ db.used \in Nat
  <2>1. /\ Shape(s) /\ m \in s.live /\ s.role[m] = "talk" /\ Fit(db) /\ db.used < Bound
        /\ s.used \in Nat /\ db.used \in Nat /\ s.used <= db.used
    BY <1>1, ReadIs
  <2> HIDE DEF s, m
  <2>2. m \in Ids /\ m \in 1 .. s.used /\ s.parent[m] \in 0 .. Bound /\ s.parent[m] < m /\ Bound \in Nat
    BY <2>1, ShapeIs, IdsAre
  <2>3. s.parent[m] \in 0 .. db.used
    BY <2>1, <2>2
  <2> QED BY <2>1, <2>3 DEF Saved
<1>3. Fit(d) /\ Since(db, d) /\ d.used = db.used + 1 /\ d.active \in d.live
  BY <1>2, AddFits
<1>4. /\ lock = None \/ d = db
      /\ db' = NoteCut(d) /\ draft' = (IF lock = None THEN NoteCut(d) ELSE draft)
      /\ pc' = [pc EXCEPT ![r] = "idle"] /\ req' = [req EXCEPT ![r] = NoRequest]
      /\ lock' = lock /\ made' = made
  BY DEF BranchMessage, Commits
<1> HIDE DEF d
<1>5. LET e == NoteCut(d) IN
      /\ Fit(e) /\ Noted(e) /\ Since(db, e) /\ e.used = d.used /\ e.live = d.live /\ e.active = d.active
  BY <1>2, <1>3, FitCommits
<1>6. LET e == NoteCut(d) IN Fit(e) /\ Noted(e) /\ Since(db, e) /\ e.used <= db.used + 1
  BY <1>2, <1>3, <1>5
<1>7. Inv'
  BY <1>1, <1>4, <1>6, CommitIs
<1> QED BY <1>3, <1>4, <1>5, <1>7

\* Navigation by rows that are still the committed ones ends at a message that exists.
LEMMA SelectKeeps ==
  ASSUME Inv, NEW r \in Requests, SelectBranch(r)
  PROVE  /\ Inv' /\ db'.live = db.live
         /\ req[r].rows = db /\ req[r].on \in db.live => db'.active \in db'.live
<1>1. pc[r] = "write" /\ pc[r] \in {"write", "memory"} /\ req[r].op = "select"
  BY DEF SelectBranch, At
<1> DEFINE s == req[r].rows
           m == req[r].on
           leaf == DeepestLeaf(s, m)
           a == IF leaf = s.active THEN db.active ELSE leaf
           d == [db EXCEPT !.active = a]
<1>2. /\ Shape(s) /\ Shape(db) /\ m \in 1 .. s.used /\ Fit(db) /\ s.used \in Nat /\ db.used \in Nat
      /\ s.used <= db.used /\ db.active \in 0 .. db.used /\ s.live \subseteq 1 .. s.used /\ m \in Ids
  <2>1. /\ Shape(s) /\ m \in 1 .. s.used /\ Fit(db) /\ s.used \in Nat /\ db.used \in Nat
        /\ s.used <= db.used /\ db.used < Bound
    BY <1>1, ReadIs
  <2>2. Shape(db) /\ db.active \in 0 .. db.used /\ s.live \subseteq 1 .. s.used
    BY <2>1, ShapeIs DEF Fit
  <2>3. m \in Ids
    BY <2>1, IdsAre
  <2> QED BY <2>1, <2>2, <2>3
<1>3. leaf \in s.live \cup {m} /\ (m \in s.live => leaf \in s.live)
  BY <1>2, ShapeTree, LeafRecursion
<1>4. /\ lock = None \/ d = db
      /\ db' = NoteCut(d) /\ draft' = (IF lock = None THEN NoteCut(d) ELSE draft)
      /\ pc' = [pc EXCEPT ![r] = "idle"] /\ req' = [req EXCEPT ![r] = NoRequest]
      /\ lock' = lock /\ made' = made
  BY DEF SelectBranch, Commits
<1>5. s = db /\ m \in db.live => a \in db.live
  BY <1>3
<1> HIDE DEF leaf
<1>6. a \in 0 .. db.used
  BY <1>2, <1>3
<1> HIDE DEF a
<1>7. Fit(d) /\ Since(db, d) /\ d.used = db.used /\ d.live = db.live /\ d.active = a
  BY <1>2, <1>6, SelectFits
<1> HIDE DEF d
<1>8. LET e == NoteCut(d) IN
      /\ Fit(e) /\ Noted(e) /\ Since(db, e) /\ e.used = d.used /\ e.live = d.live /\ e.active = d.active
  BY <1>2, <1>7, FitCommits
<1>9. LET e == NoteCut(d) IN Fit(e) /\ Noted(e) /\ Since(db, e) /\ e.used <= db.used + 1
  BY <1>2, <1>7, <1>8
<1>10. Inv'
  BY <1>1, <1>4, <1>9, CommitIs
<1> QED BY <1>4, <1>5, <1>7, <1>8, <1>10

\* Deleting a subtree by such rows leaves an active message that exists, or none.
LEMMA DeleteKeeps ==
  ASSUME Inv, NEW r \in Requests, DeleteSubtree(r)
  PROVE  /\ Inv'
         /\ LET m == req[r].on IN
            req[r].rows = db /\ m \in db.live /\ db.parent[m] \in db.live \cup {NoMsg}
              /\ db.active \in db.live \cup {NoMsg}
              => db'.active \in db'.live \cup {NoMsg}
<1>1. pc[r] = "write" /\ pc[r] \in {"write", "memory"} /\ req[r].op = "delete"
  BY DEF DeleteSubtree, At
<1> DEFINE s == req[r].rows
           m == req[r].on
           gone == Subtree(s, m)
<1>2. PICK c \in ActiveAfterDelete(s, m, gone) :
        Commits(r, [db EXCEPT !.live = @ \ gone, !.active = IF c = s.active THEN @ ELSE c])
  BY DEF DeleteSubtree
<1> DEFINE a == IF c = s.active THEN db.active ELSE c
           d == Left(db, gone, a)
<1>3. /\ lock = None \/ d = db
      /\ db' = NoteCut(d) /\ draft' = (IF lock = None THEN NoteCut(d) ELSE draft)
      /\ pc' = [pc EXCEPT ![r] = "idle"] /\ req' = [req EXCEPT ![r] = NoRequest]
      /\ lock' = lock /\ made' = made
  <2> HIDE DEF gone, s
  <2> QED BY <1>2 DEF Commits, Left
<1>4. /\ Shape(s) /\ m \in s.live /\ Fit(db) /\ s.used \in Nat /\ db.used \in Nat
      /\ s.used <= db.used /\ db.active \in 0 .. db.used /\ m \in 1 .. s.used /\ m \in Ids
  <2>1. /\ Shape(s) /\ m \in s.live /\ Fit(db) /\ s.used \in Nat /\ db.used \in Nat
        /\ s.used <= db.used
    BY <1>1, ReadIs
  <2> HIDE DEF s, m
  <2> QED BY <2>1, ShapeIs DEF Fit
<1>5. m \in gone
  BY <1>4, ShapeTree, OnBranchWithin DEF Subtree
<1>6. /\ c \in 0 .. s.used
      /\ \/ c = s.active /\ s.active \notin gone
         \/ c \in s.live \ gone
         \/ c = s.parent[m] /\ s.parent[m] \notin gone
  BY <1>2, <1>4, AfterDelete
<1> HIDE DEF gone, s, m
<1>7. a \in 0 .. db.used
  BY <1>4, <1>6
<1>8. s = db /\ db.parent[m] \in db.live \cup {NoMsg} /\ db.active \in db.live \cup {NoMsg}
        => a \in (db.live \ gone) \cup {NoMsg}
  BY <1>6
<1> HIDE DEF a
<1>9. LET e == NoteCut(d) IN
      /\ Fit(e) /\ Noted(e) /\ Since(db, e)
      /\ e.used = db.used /\ e.live = db.live \ gone /\ e.active = a
  BY <1>4, <1>5, <1>7, DeleteFits
<1> HIDE DEF d
<1>10. LET e == NoteCut(d) IN Fit(e) /\ Noted(e) /\ Since(db, e) /\ e.used <= db.used + 1
  BY <1>4, <1>9
<1>11. Inv'
  BY <1>1, <1>3, <1>10, CommitIs
<1> QED BY <1>3, <1>8, <1>9, <1>11 DEF s, m

\* So does removing one message.
LEMMA RemoveKeeps ==
  ASSUME Inv, NEW r \in Requests, RemoveMessage(r)
  PROVE  /\ Inv'
         /\ LET m == req[r].on IN
            req[r].rows = db /\ m \in db.live /\ db.parent[m] \in db.live \cup {NoMsg}
              /\ db.active \in db.live \cup {NoMsg}
              => db'.active \in db'.live \cup {NoMsg}
<1>1. pc[r] = "write" /\ pc[r] \in {"write", "memory"} /\ req[r].op = "remove"
  BY DEF RemoveMessage, At
<1> DEFINE s == req[r].rows
           m == req[r].on
           cs == Children(s, m)
<1>2. /\ Shape(s) /\ Since(s, db) /\ m \in s.live /\ Fit(db) /\ s.used \in Nat /\ db.used \in Nat
      /\ s.used <= db.used /\ db.active \in 0 .. db.used /\ m \in 1 .. s.used /\ m \in Ids
      /\ s.parent[m] \in Ids \cup {NoMsg} /\ s.role[m] # "memory"
  <2>1. /\ Shape(s) /\ Since(s, db) /\ m \in s.live /\ Fit(db) /\ s.used \in Nat /\ db.used \in Nat
        /\ s.used <= db.used /\ s.role[m] # "memory"
    BY <1>1, ReadIs
  <2> HIDE DEF s, m
  <2> QED BY <2>1, ShapeIs, IdsAre DEF Fit
<1>3. CASE ~(cs \subseteq db.live)
  <2>1. Rollback(r)
    BY <1>3 DEF RemoveMessage
  <2>2. Inv'
    BY <1>1, <2>1, RollbackKeeps DEF Rollback
  <2>3. db' = db
    BY <2>1 DEF Rollback
  <2> QED BY <2>2, <2>3
<1>4. CASE cs \subseteq db.live
  <2> DEFINE par == [i \in Ids |-> IF i \in cs THEN s.parent[m] ELSE db.parent[i]]
  <2>1. PICK c \in ActiveAfterRemove(s, m) :
          Commits(r, [db EXCEPT !.live = @ \ {m}, !.parent = par,
                                !.active = IF c = s.active THEN @ ELSE c])
    BY <1>4 DEF RemoveMessage
  <2> DEFINE a == IF c = s.active THEN db.active ELSE c
             d == Bereft(db, m, par, a)
  <2>2. /\ lock = None \/ d = db
        /\ db' = NoteCut(d) /\ draft' = (IF lock = None THEN NoteCut(d) ELSE draft)
        /\ pc' = [pc EXCEPT ![r] = "idle"] /\ req' = [req EXCEPT ![r] = NoRequest]
        /\ lock' = lock /\ made' = made
    <3> HIDE DEF par
    <3> QED BY <2>1 DEF Commits, Bereft
  <2>3. /\ c \in 0 .. s.used
        /\ (c = s.active /\ s.active # m) \/ c \in (s.live \ {m}) \cup {NoMsg} \/ c = s.parent[m]
        /\ s.parent[m] # m
    BY <1>2, <2>1, AfterRemove
  <2>4. MovesUp(s, db, m, par)
    <3>1. db.parent \in [Ids -> Ids \cup {NoMsg}]
      BY <1>2, ShapeIs DEF Fit
    <3> HIDE DEF s, m
    <3> QED BY <1>2, <3>1 DEF MovesUp
  <2>5. Children(s, m) \subseteq db.live
    BY <1>4
  <2> HIDE DEF par, s, m, cs
  <2>11. MemoriesStay(db, {m})
    <3>1. db.role[m] # "memory" /\ db.live \subseteq Ids
      BY <1>2, ShapeIs DEF Since, Fit
    <3>2. \A k \in db.live : OnBranch(db, k) \subseteq db.live
      BY <1>2, <3>1, ShapeTree, OnBranchWithin DEF Fit
    <3> QED BY <3>1, <3>2 DEF MemoriesStay
  <2>6. a \in 0 .. db.used
    BY <1>2, <2>3
  <2>7. s = db /\ db.parent[m] \in db.live \cup {NoMsg} /\ db.active \in db.live \cup {NoMsg}
          => a \in (db.live \ {m}) \cup {NoMsg}
    BY <2>3
  <2> HIDE DEF a
  <2>8. LET e == NoteCut(d) IN
        /\ Fit(e) /\ Noted(e) /\ Since(db, e)
        /\ e.used = db.used /\ e.live = db.live \ {m} /\ e.active = a
    BY <1>2, <2>4, <2>5, <2>6, <2>11, RemoveFits
  <2> HIDE DEF d
  <2>9. LET e == NoteCut(d) IN Fit(e) /\ Noted(e) /\ Since(db, e) /\ e.used <= db.used + 1
    BY <1>2, <2>8
  <2>10. Inv'
    BY <1>1, <2>2, <2>9, CommitIs
  <2> QED BY <2>2, <2>7, <2>8, <2>10 DEF s, m
<1> QED BY <1>3, <1>4

\* A request arrives and reads.
LEMMA RequestKeeps ==
  ASSUME Inv, NEW r \in Requests, Request(r)
  PROVE  Inv' /\ db' = db
<1> USE DEF Inv
<1>1. PICK op \in Operations, m \in Ids \cup {NoMsg} :
        /\ Reads(r, op, m)
        /\ op \in {"edit", "delete", "remove"} => m \in db.live
        /\ op = "edit" => db.role[m] = "talk"
        /\ op = "remove" => db.role[m] # "memory"
        /\ op = "select" => m \in 1 .. db.used
  <2>1. db.live \subseteq Ids /\ 1 .. db.used \subseteq Ids
    BY ShapeIs, IdsAre DEF Committed, Fit
  <2> QED BY <2>1 DEF Request, Operations
<1> DEFINE q == [op |-> op, on |-> m, rows |-> db]
<1>2. /\ pc[r] = "idle" /\ made < MaxRequests /\ made' = made + 1
      /\ req' = [req EXCEPT ![r] = q] /\ pc' = [pc EXCEPT ![r] = "write"]
      /\ db' = db /\ draft' = draft /\ lock' = lock
  BY <1>1 DEF Reads
<1>3. q \in [op : Operations, on : Ids \cup {NoMsg}, rows : Rows]
      /\ q.op = op /\ q.on = m /\ q.rows = db
  BY DEF Committed, Fit, Shape
<1> HIDE DEF q
<1>4. /\ r # None /\ pc \in [Requests -> Phases] /\ "write" \in Phases /\ made \in Nat /\ Len(Start) \in Nat
      /\ db.used \in Nat /\ MaxRequests \in Nat
  BY NoneAssumption, ShapeIs, IdsAre DEF Typed, Committed, Fit, Phases
<1>5. \A p \in Requests : p # r => pc'[p] = pc[p] /\ req'[p] = req[p]
  BY <1>2 DEF Typed
<1>6. pc'[r] = "write" /\ req'[r] = q
  BY <1>2 DEF Typed
<1>7. Typed'
  BY <1>2, <1>3, <1>4 DEF Typed
<1>8. Committed' /\ Flushed'
  BY <1>2 DEF Committed, Flushed
<1>9. Locked'
  <2>1. lock \in Requests \cup {None} /\ lock # r
    BY <1>2, <1>4 DEF Typed, Locked
  <2> QED BY <1>2, <1>5, <2>1 DEF Locked
<1>10. Budget'
  <2>1. /\ Cardinality(Busy(pc')) <= Cardinality(Busy(pc)) + 1 /\ Cardinality(Busy(pc')) \in Nat
        /\ Cardinality(Busy(pc)) \in Nat
    BY <1>2, <1>4, BusyIs
  <2> QED BY <1>2, <1>4, <2>1 DEF Budget
<1>11. Read'
  <2>1. Prepared(q, "write", db)
    BY <1>1, <1>3, SinceItself DEF Prepared, Committed, Fit
  <2>2. ASSUME NEW p \in Requests PROVE Prepared(req'[p], pc'[p], db')
    BY <1>2, <1>5, <1>6, <2>1 DEF Read
  <2> QED BY <2>2 DEF Read
<1> QED BY <1>2, <1>7, <1>8, <1>9, <1>10, <1>11

\* A session commits what it flushed.
LEMMA CommitKeeps ==
  ASSUME Inv, NEW r \in Requests, Commit(r)
  PROVE  /\ Inv'
         /\ db.active \in db.live \cup {NoMsg} => db'.active \in db'.live \cup {NoMsg}
<1> USE DEF Inv
<1> DEFINE e == NoteCut(draft)
<1>0. /\ pc[r] = "commit" /\ r # None /\ pc \in [Requests -> Phases] /\ "idle" \in Phases
      /\ made \in Nat /\ Len(Start) \in Nat /\ db.used \in Nat /\ draft.used \in Nat /\ draft.used <= db.used + 1
  BY NoneAssumption, ShapeIs, IdsAre DEF Typed, Committed, Flushed, Fit, Phases, Commit, Locked
<1>1. /\ db' = (IF lock = r THEN e ELSE db) /\ draft' = (IF lock = r THEN e ELSE draft)
      /\ lock' = (IF lock = r THEN None ELSE lock) /\ pc' = [pc EXCEPT ![r] = "idle"]
      /\ req' = [req EXCEPT ![r] = NoRequest] /\ made' = made
  BY DEF Commit
<1>2. /\ Fit(e) /\ Noted(e) /\ Since(db, e)
      /\ e.used = draft.used /\ e.live = draft.live /\ e.active = draft.active
  BY FitCommits DEF Committed, Flushed
<1> HIDE DEF e
<1>3. \A p \in Requests : p # r => pc'[p] = pc[p] /\ req'[p] = req[p]
  BY <1>1 DEF Typed
<1>4. pc'[r] = "idle"
  BY <1>1 DEF Typed
<1>5. Typed'
  <2>1. NoRequest \in [op : Operations, on : Ids \cup {NoMsg}, rows : Rows]
    BY StartFits DEF NoRequest, Operations, Fit, Shape
  <2> HIDE DEF NoRequest
  <2> QED BY <1>0, <1>1, <2>1 DEF Typed, Phases
<1>6. Committed'
  BY <1>1, <1>2 DEF Committed
<1>7. Flushed'
  <2>1. Since(e, e)
    BY <1>2, SinceItself DEF Fit
  <2> QED BY <1>1, <1>2, <2>1 DEF Flushed
<1>8. Locked'
  <2>1. CASE lock = r
    BY <1>0, <1>1, <1>2, <2>1 DEF Locked
  <2>2. CASE lock # r
    <3>1. lock \in Requests \cup {None}
      BY DEF Typed
    <3> QED BY <1>0, <1>1, <1>3, <2>2, <3>1 DEF Locked
  <2> QED BY <2>1, <2>2
<1>9. Budget'
  <2> DEFINE c == Cardinality(Busy(pc'))
  <2>1. db.used + 1 + c <= Len(Start) + made
    BY <1>0, <1>1, BudgetLeft
  <2>2. c \in Nat
    BY <1>0, <1>1, BusyIs
  <2> HIDE DEF c
  <2>3. db'.used \in Nat /\ db'.used <= db.used + 1
    BY <1>0, <1>1, <1>2
  <2>4. db'.used + c <= Len(Start) + made
    BY <1>0, <2>1, <2>2, <2>3
  <2> QED BY <1>1, <2>4 DEF Budget, c
<1>10. Read'
  <2>1. Since(db, db') /\ Shape(db')
    BY <1>1, <1>2, SinceItself DEF Committed, Fit
  <2>2. \A p \in Requests : p # r => Prepared(req[p], pc[p], db')
    BY <2>1, PreparedStays DEF Read, Committed, Fit
  <2>3. ASSUME NEW p \in Requests PROVE Prepared(req'[p], pc'[p], db')
    BY <1>3, <1>4, <2>2 DEF Prepared
  <2> QED BY <2>3 DEF Read
<1>11. db.active \in db.live \cup {NoMsg} => db'.active \in db'.live \cup {NoMsg}
  BY <1>1, <1>2 DEF Flushed
<1> QED BY <1>5, <1>6, <1>7, <1>8, <1>9, <1>10, <1>11

\* A compression without a memory goes on to its commit.
LEMMA SkipKeeps ==
  ASSUME Inv, NEW r \in Requests, SkipMemory(r)
  PROVE  Inv' /\ db' = db
<1> USE DEF Inv
<1>1. /\ pc[r] = "memory" /\ pc' = [pc EXCEPT ![r] = "commit"]
      /\ db' = db /\ draft' = draft /\ lock' = lock /\ req' = req /\ made' = made
  BY DEF SkipMemory
<1>2. /\ r # None /\ pc \in [Requests -> Phases] /\ "commit" \in Phases /\ made \in Nat /\ Len(Start) \in Nat
      /\ db.used \in Nat /\ lock \in Requests \cup {None}
  BY NoneAssumption, ShapeIs, IdsAre DEF Typed, Committed, Fit, Phases
<1>3. pc'[r] = "commit" /\ \A p \in Requests : p # r => pc'[p] = pc[p]
  BY <1>1, <1>2
<1>4. Typed' /\ Committed' /\ Flushed'
  BY <1>1, <1>2 DEF Typed, Committed, Flushed
<1>5. Locked'
  BY <1>1, <1>2, <1>3 DEF Locked
<1>6. Budget'
  <2>1. /\ Cardinality(Busy(pc')) <= Cardinality(Busy(pc)) /\ Cardinality(Busy(pc')) \in Nat
        /\ Cardinality(Busy(pc)) \in Nat
    BY <1>1, <1>2, BusyIs
  <2> QED BY <1>1, <1>2, <2>1 DEF Budget
<1>7. Read'
  <2>1. ASSUME NEW p \in Requests PROVE Prepared(req'[p], pc'[p], db')
    BY <1>1, <1>3 DEF Read, Prepared
  <2> QED BY <2>1 DEF Read
<1> QED BY <1>1, <1>4, <1>5, <1>6, <1>7

\* What the session sees of the conversation when it flushes.
LEMMA DraftIs ==
  ASSUME Inv, NEW r \in Requests, pc[r] \in {"write", "memory"}
  PROVE  Fit(draft) /\ Since(req[r].rows, draft) /\ draft.used \in Nat /\ draft.used < Bound
<1>1. Fit(draft) /\ Since(db, draft) /\ Fit(db) /\ Shape(req[r].rows) /\ Since(req[r].rows, db)
      /\ db.used < Bound /\ db.used \in Nat
  BY ReadIs DEF Inv, Flushed
<1>2. Since(req[r].rows, draft)
  BY <1>1, SinceChains DEF Fit
<1>3. draft.used \in Nat
  BY <1>1, ShapeIs DEF Fit
<1>4. CASE lock = None \/ lock = r
  BY <1>1, <1>2, <1>3, <1>4, NoneAssumption DEF Inv, Locked
<1>5. CASE lock # None /\ lock # r
  <2>1. lock \in Requests /\ pc[lock] # "idle" /\ pc[r] # "idle" /\ draft.used <= db.used + 1
    BY <1>5 DEF Inv, Typed, Locked
  <2>2. IsFiniteSet(Busy(pc)) /\ {lock, r} \subseteq Busy(pc)
    <3>1. Busy(pc) \subseteq Requests
      BY DEF Busy
    <3> QED BY <2>1, <3>1, RequestsAssumption, FS_Subset DEF Busy
  <2>3. Cardinality({lock, r}) = 2
    <3>1. Cardinality({r}) = 1 /\ IsFiniteSet({r}) /\ lock \notin {r}
      BY <1>5, FS_Singleton
    <3>2. Cardinality({r} \cup {lock}) = 2
      BY <3>1, FS_AddElement
    <3>3. {r} \cup {lock} = {lock, r}
      OBVIOUS
    <3> QED BY <3>2, <3>3
  <2>4. 2 <= Cardinality(Busy(pc)) /\ Cardinality(Busy(pc)) \in Nat
    BY <2>2, <2>3, FS_Subset, FS_CardinalityType
  <2>5. db.used + Cardinality(Busy(pc)) <= Len(Start) + made /\ made \in 0 .. MaxRequests
    BY DEF Inv, Budget, Typed
  <2>6. Len(Start) \in Nat /\ MaxRequests \in Nat /\ Bound = Len(Start) + MaxRequests
    BY IdsAre DEF Bound
  <2> QED BY <1>1, <1>2, <1>3, <2>1, <2>4, <2>5, <2>6
<1> QED BY <1>4, <1>5

\* Superseded reads are marked by an outdated branch: a later read is there all the same.
LEMMA DedupeKeeps ==
  ASSUME Inv, NEW r \in Requests, Dedupe(r)
  PROVE  Inv' /\ db' = db
<1>1. pc[r] = "write" /\ pc[r] \in {"write", "memory"}
  BY DEF Dedupe, At
<1> DEFINE s == req[r].rows
           ms == {m \in SupersededReads(s, s.active) : s.reason[m] # "file"}
           d == Exclude(draft, ms, "file")
           mine == Exclude(s, ms, "file")
           nothing == ms = {} /\ d = draft
<1>2. /\ nothing \/ lock \in {None, r}
      /\ IF ~(ms \subseteq draft.live) THEN Rollback(r)
         ELSE /\ draft' = d /\ lock' = (IF nothing THEN lock ELSE r)
              /\ req' = [req EXCEPT ![r].rows = mine] /\ pc' = [pc EXCEPT ![r] = "commit"]
              /\ db' = db /\ draft' = d /\ made' = made
  BY DEF Dedupe, Flushes
<1>3. /\ Shape(s) /\ Fit(draft) /\ Since(s, draft) /\ draft.used \in Nat
  BY <1>1, ReadIs, DraftIs
<1>4. CASE ~(ms \subseteq draft.live)
  BY <1>1, <1>2, <1>4, RollbackKeeps DEF Rollback
<1>5. CASE ms \subseteq draft.live
  <2>1. ms \subseteq SupersededReads(s, s.active)
    OBVIOUS
  <2>2. ms \subseteq s.live
    <3>1. s.active \in Ids \cup {NoMsg}
      BY <1>3, ShapeIs, IdsAre
    <3>2. SupersededReads(s, s.active) \subseteq OnBranch(s, s.active)
      BY DEF SupersededReads, OnBranch
    <3> QED BY <1>3, <2>1, <3>1, <3>2, ShapeTree, OnBranchWithin
  <2> HIDE DEF ms, s
  <2>3. Fit(d) /\ Since(draft, d) /\ d.used = draft.used /\ d.live = draft.live /\ d.active = draft.active
    BY <1>3, <1>5, <2>1, DedupeFits
  <2>4. mine \in Rows
    <3>1. ms \in SUBSET s.live /\ "file" \in Reasons \ {"none", "compressed"}
      BY <2>2 DEF Reasons
    <3> QED BY <1>3, <3>1, ExcludeIs DEF Shape
  <2> HIDE DEF d, mine
  <2>5. /\ (lock' = lock /\ d = draft) \/ (lock \in {None, r} /\ lock' = r)
        /\ draft' = d /\ db' = db /\ made' = made /\ req' = [req EXCEPT ![r].rows = mine]
        /\ pc' = [pc EXCEPT ![r] = "commit"]
    BY <1>2, <1>5
  <2>6. draft.live \subseteq d.live /\ d.used <= draft.used + 1 /\ "commit" \in {"memory", "commit"}
        /\ "commit" # "memory"
    BY <1>3, <2>3
  <2>7. Inv'
    BY <1>1, <2>3, <2>4, <2>5, <2>6, FlushKeeps
  <2> QED BY <2>5, <2>7
<1> QED BY <1>4, <1>5

\* Tool results are compressed by an outdated branch; no memory is among them.
LEMMA CompressKeeps ==
  ASSUME Inv, NEW r \in Requests, CompressTools(r)
  PROVE  Inv' /\ db' = db
<1>1. pc[r] = "write" /\ pc[r] \in {"write", "memory"}
  BY DEF CompressTools, At
<1> DEFINE s == req[r].rows
<1>2. PICK ms \in Squeezable(s) : Flushes(r, ms, Squeeze(draft, ms), Squeeze(s, ms), "memory")
  BY DEF CompressTools
<1> DEFINE d == Squeeze(draft, ms)
           mine == Squeeze(s, ms)
           nothing == ms = {} /\ d = draft
<1>3. /\ nothing \/ lock \in {None, r}
      /\ IF ~(ms \subseteq draft.live) THEN Rollback(r)
         ELSE /\ draft' = d /\ lock' = (IF nothing THEN lock ELSE r)
              /\ req' = [req EXCEPT ![r].rows = mine] /\ pc' = [pc EXCEPT ![r] = "memory"]
              /\ db' = db /\ draft' = d /\ made' = made
  BY <1>2 DEF Flushes
<1>4. /\ Shape(s) /\ Sound(s) /\ Since(s, db) /\ Fit(db) /\ Fit(draft) /\ Since(s, draft)
      /\ draft.used \in Nat
  BY <1>1, ReadIs, DraftIs
<1>5. CASE ~(ms \subseteq draft.live)
  BY <1>1, <1>3, <1>5, RollbackKeeps DEF Rollback
<1>6. CASE ms \subseteq draft.live
  <2>1. ms \subseteq s.live /\ \A m \in ms : s.role[m] # "memory"
    <3>1. s.active \in Ids \cup {NoMsg}
      BY <1>4, ShapeIs, IdsAre
    <3>2. ms \subseteq OnBranch(s, s.active) /\ \A m \in ms : s.role[m] # "memory"
      BY <1>2 DEF Squeezable, Candidates
    <3> QED BY <1>4, <3>1, <3>2, ShapeTree, OnBranchWithin
  <2> HIDE DEF s
  <2>2. \A m \in ms : draft.role[m] # "memory"
    <3>1. s.live \subseteq 1 .. s.used
      BY <1>4, ShapeIs
    <3> QED BY <1>4, <2>1, <3>1 DEF Since
  <2>3. Fit(d) /\ Since(draft, d) /\ d.used = draft.used /\ d.live = draft.live /\ d.active = draft.active
    BY <1>4, <1>6, <2>2, SqueezeFits
  <2>4. Shape(mine) /\ Sound(mine) /\ Since(mine, db) /\ mine \in Rows
    BY <1>4, <2>1, SqueezeStaysBehind DEF Shape, Fit
  <2> HIDE DEF d, mine
  <2>5. /\ (lock' = lock /\ d = draft) \/ (lock \in {None, r} /\ lock' = r)
        /\ draft' = d /\ db' = db /\ made' = made /\ req' = [req EXCEPT ![r].rows = mine]
        /\ pc' = [pc EXCEPT ![r] = "memory"]
    BY <1>3, <1>6 DEF s
  <2>6. draft.live \subseteq d.live /\ d.used <= draft.used + 1 /\ "memory" \in {"memory", "commit"}
    BY <1>4, <2>3
  <2>7. Inv'
    BY <1>1, <2>3, <2>4, <2>5, <2>6, FlushKeeps
  <2> QED BY <2>5, <2>7
<1> QED BY <1>5, <1>6

\* The memory goes below the branch that was read.  One that another compression wrote meanwhile
\* is younger than all that was read, and so on no branch together with it.
LEMMA MemoryKeeps ==
  ASSUME Inv, NEW r \in Requests, WriteMemory(r)
  PROVE  Inv' /\ db' = db
<1>1. pc[r] = "memory" /\ pc[r] \in {"write", "memory"}
  BY DEF WriteMemory, At
<1> DEFINE s == req[r].rows
           b == Branch(s, s.active)
           from == Previous(s)
           cover == {b[i] : i \in from + 1 .. Len(b)}
           prev == IF from = 0 THEN {} ELSE {b[from]}
           talk == {m \in cover : s.role[m] = "talk"}
           Update(x, out) == Supersede(Exclude(Exclude(x, out \cap talk, "discarded"),
                                               out \ talk, "covered"), prev)
<1>2. cover # {}
  BY DEF WriteMemory
<1>3. PICK kept \in Keepable(talk), acc \in Told(s, prev, cover) :
        LET out == Covered(s, cover, kept) IN
        Flushes(r, out \cup prev, Insert(Update(draft, out), b[Len(b)], "memory", acc),
                Update(s, out), "commit")
  BY DEF WriteMemory
<1> DEFINE out == Covered(s, cover, kept)
           ms == out \cup prev
           d == Insert(Update(draft, out), b[Len(b)], "memory", acc)
           mine == Update(s, out)
           nothing == ms = {} /\ d = draft
<1>4. /\ nothing \/ lock \in {None, r}
      /\ IF ~(ms \subseteq draft.live) THEN Rollback(r)
         ELSE /\ draft' = d /\ lock' = (IF nothing THEN lock ELSE r)
              /\ req' = [req EXCEPT ![r].rows = mine] /\ pc' = [pc EXCEPT ![r] = "commit"]
              /\ db' = db /\ draft' = d /\ made' = made
  BY <1>3 DEF Flushes
<1>5. /\ Shape(s) /\ Sound(s) /\ Fit(draft) /\ Since(s, draft) /\ draft.used \in Nat
      /\ draft.used < Bound
  BY <1>1, ReadIs, DraftIs
<1>6. CASE ~(ms \subseteq draft.live)
  BY <1>1, <1>4, <1>6, RollbackKeeps DEF Rollback
<1>7. CASE ms \subseteq draft.live
  <2>1. ms \subseteq s.live
    <3>1. s.active \in Ids \cup {NoMsg}
      BY <1>5, ShapeIs, IdsAre
    <3>2. b \in Seq(Ids) /\ from \in 0 .. Len(b) /\ \A i \in 1 .. Len(b) : b[i] \in s.live
      <4>1. Straight(s, s.active) /\ b \in Seq(Ids)
        BY <1>5, <3>1, ShapeTree, BranchStraight, BranchRecursion
      <4> QED BY <1>5, <4>1, PreviousIs DEF Straight
    <3> HIDE DEF b, from
    <3>3. Len(b) \in Nat
      BY <3>2
    <3>4. cover \subseteq s.live
      BY <3>2, <3>3
    <3>5. prev \subseteq s.live
      BY <3>2, <3>3
    <3>6. out \subseteq cover
      BY DEF Covered
    <3> QED BY <3>4, <3>5, <3>6
  <2>2. /\ Fit(d) /\ Since(draft, d) /\ d.used = draft.used + 1
        /\ draft.live \subseteq d.live /\ d.active \in d.live
    <3>1. cover = CoverOf(s) /\ prev = PreviousOf(s) /\ out \cup prev \subseteq draft.live
          /\ out \subseteq cover /\ acc \in Told(s, prev, cover)
      BY <1>7 DEF CoverOf, PreviousOf, Covered
    <3>2. d = Remembered(s, draft, prev, talk, out, acc)
      BY DEF Remembered
    <3> HIDE DEF s, out, cover, prev, talk, d
    <3> QED BY <1>2, <1>5, <3>1, <3>2, MemoryFits
  <2>3. mine \in Rows
    <3> DEFINE x == out \cap talk
               y == out \ talk
               u1 == Exclude(s, x, "discarded")
               u2 == Exclude(u1, y, "covered")
    <3>1. x \in SUBSET s.live /\ y \in SUBSET s.live /\ prev \in SUBSET s.live
      BY <2>1
    <3>2. mine = Exclude(u2, prev, "superseded")
      BY DEF Supersede
    <3>3. /\ "discarded" \in Reasons \ {"none", "compressed"} /\ "covered" \in Reasons \ {"none", "compressed"}
          /\ "superseded" \in Reasons \ {"none", "compressed"}
      BY DEF Reasons
    <3> HIDE DEF s, x, y, prev, u1, u2, mine
    <3>4. Shape(u1) /\ u1.live = s.live
      BY <1>5, <3>1, <3>3, ExcludeIs DEF u1, Reasoned
    <3>5. y \in SUBSET u1.live
      BY <3>1, <3>4
    <3>6. Shape(u2) /\ u2.live = s.live
      BY <3>3, <3>4, <3>5, ExcludeIs DEF u2, Reasoned
    <3>7. prev \in SUBSET u2.live
      BY <3>1, <3>6
    <3> QED BY <3>2, <3>3, <3>6, <3>7, ExcludeIs DEF Shape
  <2>4. ~nothing
    <3> HIDE DEF d
    <3> QED BY <1>5, <2>2
  <2> HIDE DEF d, mine, ms
  <2>5. /\ lock \in {None, r} /\ lock' = r
        /\ draft' = d /\ db' = db /\ made' = made /\ req' = [req EXCEPT ![r].rows = mine]
        /\ pc' = [pc EXCEPT ![r] = "commit"]
    BY <1>4, <1>7, <2>4
  <2>6. d.used <= draft.used + 1 /\ "commit" \in {"memory", "commit"} /\ "commit" # "memory"
    BY <1>5, <2>2, <2>5
  <2>7. Inv'
    BY <1>1, <1>5, <2>2, <2>3, <2>5, <2>6, FlushKeeps
  <2> QED BY <2>5, <2>7
<1> QED BY <1>6, <1>7

\* A request whose session is rolled back.
LEMMA FailKeeps ==
  ASSUME Inv, NEW r \in Requests, pc[r] \in {"write", "memory"}, Rollback(r)
  PROVE  Inv' /\ db' = db
<1>1. /\ draft' = (IF lock = r THEN db ELSE draft) /\ lock' = (IF lock = r THEN None ELSE lock)
      /\ pc' = [pc EXCEPT ![r] = "idle"] /\ req' = [req EXCEPT ![r] = NoRequest]
      /\ db' = db /\ made' = made
  BY DEF Rollback
<1> QED BY <1>1, RollbackKeeps

\* What each step keeps: the invariant, and which requests may take the active message away.
Astray ==
  \E r \in Requests : LET m == req[r].on IN
    /\ pc[r] = "write" /\ pc'[r] = "idle"
    /\ req[r].op \in {"select", "delete", "remove"}
    /\ req[r].rows # db \/ m \notin db.live \/ db.parent[m] \notin db.live \cup {NoMsg}

\* A request that commits or rolls back is done.
LEMMA Ends ==
  ASSUME Inv, NEW r \in Requests, NEW d, Commits(r, d) \/ Rollback(r)
  PROVE  pc'[r] = "idle"
BY DEF Commits, Rollback, Inv, Typed

\* Every step keeps the invariant, and the active message but for those exceptions.
LEMMA StepKeeps ==
  ASSUME Inv, NEW r \in Requests, Request(r) \/ Step(r)
  PROVE  Inv' /\ (ActiveExists /\ ~ActiveExists' => Astray)
<1>1. CASE Request(r)
  BY <1>1, RequestKeeps DEF ActiveExists
<1>2. CASE AddMessage(r)
  BY <1>2, AddKeeps DEF ActiveExists
<1>3. CASE BranchMessage(r)
  BY <1>3, EditKeeps DEF ActiveExists
<1>4. CASE DeleteSubtree(r)
  <2>1. pc[r] = "write" /\ req[r].op = "delete" /\ pc'[r] = "idle"
    BY <1>4, Ends DEF DeleteSubtree, At
  <2> QED BY <1>4, <2>1, DeleteKeeps DEF ActiveExists, Astray
<1>5. CASE RemoveMessage(r)
  <2>1. pc[r] = "write" /\ req[r].op = "remove" /\ pc'[r] = "idle"
    BY <1>5, Ends DEF RemoveMessage, At
  <2> QED BY <1>5, <2>1, RemoveKeeps DEF ActiveExists, Astray
<1>6. CASE SelectBranch(r)
  <2>1. pc[r] = "write" /\ req[r].op = "select" /\ pc'[r] = "idle"
    BY <1>6, Ends DEF SelectBranch, At
  <2> QED BY <1>6, <2>1, SelectKeeps DEF ActiveExists, Astray
<1>7. CASE Dedupe(r)
  BY <1>7, DedupeKeeps DEF ActiveExists
<1>8. CASE CompressTools(r)
  BY <1>8, CompressKeeps DEF ActiveExists
<1>9. CASE CompressFails(r)
  <2>1. pc[r] \in {"write", "memory"} /\ Rollback(r)
    BY <1>9 DEF CompressFails
  <2> QED BY <2>1, FailKeeps DEF ActiveExists
<1>10. CASE WriteMemory(r)
  BY <1>10, MemoryKeeps DEF ActiveExists
<1>11. CASE SkipMemory(r)
  BY <1>11, SkipKeeps DEF ActiveExists
<1>12. CASE Commit(r)
  BY <1>12, CommitKeeps DEF ActiveExists
<1>13. CASE LockTimesOut(r)
  <2>1. pc[r] \in {"write", "memory"} /\ Rollback(r)
    BY <1>13 DEF LockTimesOut
  <2> QED BY <2>1, FailKeeps DEF ActiveExists
<1> QED BY <1>1, <1>2, <1>3, <1>4, <1>5, <1>6, <1>7, <1>8, <1>9, <1>10, <1>11, <1>12, <1>13 DEF Step

\* So it holds always.
LEMMA InvHolds == Spec => []Inv
<1>1. Inv /\ [Next]_vars => Inv'
  <2> SUFFICES ASSUME Inv, [Next]_vars PROVE Inv'
    OBVIOUS
  <2>1. CASE Next
    BY <2>1, StepKeeps DEF Next
  <2>2. CASE UNCHANGED vars
    BY <2>2 DEF vars, Inv, Typed, Committed, Flushed, Locked, Budget, Read, Prepared
  <2> QED BY <2>1, <2>2
<1> QED BY <1>1, Begun, PTL DEF Spec

\* The rows, the draft and what each session read are of their types, and no more messages are
\* ever made than there are ids (conversations.py, compress.py).
THEOREM ConversationTypes == Spec => []TypeOK
<1>1. Inv => TypeOK
  <2> SUFFICES ASSUME Inv PROVE TypeOK
    OBVIOUS
  <2>1. db \in Rows /\ draft \in Rows
    BY DEF Inv, Committed, Flushed, Fit, Shape
  <2>2. lock \in Requests \cup {None} /\ pc \in [Requests -> {"idle", "write", "memory", "commit"}]
        /\ made \in 0 .. MaxRequests
        /\ \A r \in Requests : req[r].on \in Ids \cup {NoMsg} /\ req[r].rows \in Rows
    BY DEF Inv, Typed, Phases
  <2> QED BY <2>1, <2>2 DEF TypeOK
<1> QED BY <1>1, InvHolds, PTL

\* On every branch at most one working memory is in force, however compressions, saves, edits
\* and deletions overlap (compress.py:1409-1416).
THEOREM OneMemoryIsInForce == Spec => []OneMemoryInForce
<1>1. Inv => OneMemoryInForce
  <2> SUFFICES ASSUME Inv, ~db.cut, NEW m \in db.live
               PROVE  Cardinality({w \in OnBranch(db, m) : InForce(db, w)}) <= 1
    BY DEF OneMemoryInForce
  <2> DEFINE M == {w \in OnBranch(db, m) : InForce(db, w)}
  <2>1. \A v, w \in M : v = w
    BY DEF Inv, Committed, Fit, Sound, Lone
  <2> HIDE DEF M
  <2>2. CASE M = {}
    BY <2>2, FS_EmptySet DEF M
  <2>3. CASE M # {}
    <3>1. PICK w \in M : M = {w}
      BY <2>1, <2>3
    <3>2. Cardinality(M) = 1
      BY <3>1, FS_Singleton
    <3> QED BY <3>2 DEF M
  <2> QED BY <2>2, <2>3
<1> QED BY <1>1, InvHolds, PTL

\* A memory in force was given all that is above it, or the memory before, but for what an
\* empty memory lost (compress.py:1192-1199, 1409-1419, 1432-1462).
THEOREM MemoryAlwaysAccounts == Spec => []MemoryAccountsForBranch
<1>1. Inv => MemoryAccountsForBranch
  BY DEF Inv, Committed, Fit, Sound, Accounts, MemoryAccountsForBranch
<1> QED BY <1>1, InvHolds, PTL

\* A read with another one below it is a superseded one.
LEMMA LaterRead ==
  ASSUME NEW d, Shape(d), NEW k \in d.live, NEW m \in OnBranch(d, k), m # k,
         d.role[m] = "read", d.role[k] = "read"
  PROVE  m \in SupersededReads(d, k)
<1> DEFINE b == Branch(d, k)
<1>1. k \in Ids /\ d.live \subseteq Ids /\ Ids \subseteq Nat
  BY ShapeIs, IdsAre
<1>2. /\ Straight(d, k) /\ b \in Seq(Ids) /\ OnBranch(d, k) = {b[i] : i \in 1 .. Len(b)}
      /\ k \in OnBranch(d, k)
  BY <1>1, ShapeTree, BranchStraight, BranchRecursion, OnBranchIs
<1>3. PICK i \in 1 .. Len(b) : b[i] = m
  BY <1>2
<1>4. PICK j \in 1 .. Len(b) : b[j] = k
  BY <1>2
<1> HIDE DEF b
<1>5. DOMAIN b = 1 .. Len(b) /\ Len(b) \in Nat
  BY <1>2
<1>6. m <= k /\ m \in Nat /\ (j < i => k < m)
  BY <1>1, <1>2, <1>3, <1>4 DEF Straight, b
<1>7. j \in i + 1 .. Len(b)
  BY <1>1, <1>3, <1>4, <1>5, <1>6
<1> QED BY <1>3, <1>4, <1>5, <1>7 DEF SupersededReads, b

\* As long as nothing is deleted, what leaves the context is in a memory in force, is a read
\* with a later one, or went with an empty memory (compress.py:1192-1199, 1470-1500,
\* conv_helpers.py:86-91).
THEOREM ContextIsAlwaysComplete == Spec => []ContextIsComplete
<1>1. Inv => ContextIsComplete
  <2> SUFFICES ASSUME Inv, db.live = 1 .. db.used, NEW m \in db.live
               PROVE  \/ InContext(db, m)
                      \/ \E w \in db.live : InForce(db, w) /\ m \in db.account[w]
                      \/ \E k \in db.live : m \in SupersededReads(db, k)
                      \/ \E w \in db.live : Blank(db, w) /\ m \in OnBranch(db, w)
    BY DEF ContextIsComplete
  <2>1. Shape(db) /\ Gapless(db) /\ Recalled(db) /\ Replaced(db)
    BY DEF Inv, Committed, Fit, Gapless
  <2>2. m \in Ids /\ db.reason[m] \in {"none", "compressed", "covered", "discarded", "superseded", "file"}
    BY <2>1, ShapeIs
  <2>3. CASE db.reason[m] = "none"
    BY <2>3 DEF InContext, Excluded
  <2>4. CASE db.reason[m] = "compressed"
    <3>1. m \in db.summary
      BY <2>1, <2>2, <2>4 DEF Shape
    <3> QED BY <2>4, <3>1 DEF InContext
  <2>5. CASE db.reason[m] \in {"covered", "discarded", "superseded"}
    BY <2>1, <2>5 DEF Recalled, Kept, ForMemory
  <2>6. CASE db.reason[m] = "file"
    BY <2>1, <2>6, LaterRead DEF Replaced, Outdated
  <2> QED BY <2>2, <2>3, <2>4, <2>5, <2>6
<1> QED BY <1>1, InvHolds, PTL

\* Only a navigation or a deletion that decides by outdated rows takes the active message away
\* (conversations.py:135-151, 327-400).
THEOREM ActiveIsAlwaysKept == Spec => ActiveIsKept
<1>1. Inv /\ [Next]_vars =>
        [ActiveExists /\ ~ActiveExists' =>
           \E r \in Requests : LET m == req[r].on IN
             /\ pc[r] = "write" /\ pc'[r] = "idle"
             /\ req[r].op \in {"select", "delete", "remove"}
             /\ req[r].rows # db \/ m \notin db.live \/ db.parent[m] \notin db.live \cup {NoMsg}]_vars
  <2> SUFFICES ASSUME Inv, Next PROVE ActiveExists /\ ~ActiveExists' => Astray
    BY DEF Astray
  <2> QED BY StepKeeps DEF Next
<1> QED BY <1>1, InvHolds, PTL DEF Spec, ActiveIsKept
=============================================================================
