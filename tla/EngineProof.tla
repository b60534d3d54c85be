----------------------------- MODULE EngineProof -----------------------------
(***************************************************************************)
(* Proofs that the relation engine answers exactly what can be derived     *)
(* from the tuples, for any users, groups, documents and any tree.         *)
(*                                                                         *)
(* The provers have no induction over an operator.  A set of naturals has  *)
(* a least element, though, and that is enough: a recursive function is    *)
(* the least set closed under its equation, and a resolution ends because  *)
(* no set of unfinished ones is closed under a step.                       *)
(***************************************************************************)
EXTENDS DocumentsProof, FiniteSetTheorems

LEMMA Least ==
  ASSUME NEW T \in SUBSET Nat, T # {}
  PROVE  \E n \in T : \A k \in T : n <= k
<1> DEFINE R == OpToRel(<, Nat)
<1>1. IsWellFoundedOn(R, Nat)
  BY NatLessThanWellFounded DEF OpToRel
<1>2. \A k, n \in Nat : k < n => <<k, n>> \in R
  BY DEF OpToRel
<1> HIDE DEF R
<1>3. PICK n \in T : \A k \in T : <<k, n>> \notin R
  BY <1>1, WFMin
<1>4. ASSUME NEW k \in T PROVE n <= k
  <2>1. k \in Nat /\ n \in Nat /\ ~(k < n)
    BY <1>2, <1>3
  <2> QED
    BY <2>1
<1> QED
  BY <1>3, <1>4

\* Induction up to a bound, over a set: what 0 has and passes on, all have.
LEMMA Induct ==
  ASSUME NEW T \in SUBSET Nat, 0 \in T, \A k \in T : k + 1 \in T
  PROVE  T = Nat
<1>1. SUFFICES ASSUME Nat \ T # {} PROVE FALSE
  OBVIOUS
<1>2. PICK n \in Nat \ T : \A k \in Nat \ T : n <= k
  BY <1>1, Least
<1>3. n - 1 \in Nat /\ n - 1 \in T
  BY <1>2
<1> QED
  BY <1>2, <1>3

\* A function defined by iteration exists.
LEMMA Iterate ==
  ASSUME NEW S, NEW a \in S, NEW step \in [S -> S]
  PROVE  \E f \in [Nat -> S] : f = [n \in Nat |-> IF n = 0 THEN a ELSE step[f[n - 1]]]
<1> DEFINE Upto(n, g) == /\ g \in [Nat -> S] /\ g[0] = a
                         /\ \A i \in 1..n : g[i] = step[g[i - 1]]
           T == {n \in Nat : \E g : Upto(n, g)}
           Same(i) == \A m, n \in Nat : \A g, h : i <= m /\ i <= n /\ Upto(m, g) /\ Upto(n, h) => g[i] = h[i]
           U == {i \in Nat : Same(i)}
<1>1. 0 \in T
  <2>1. Upto(0, [i \in Nat |-> a])
    OBVIOUS
  <2> HIDE DEF Upto
  <2> QED
    BY <2>1
<1>2. ASSUME NEW n \in T PROVE n + 1 \in T
  <2>1. PICK g : Upto(n, g)
    OBVIOUS
  <2>2. g[n] \in S
    BY <2>1
  <2>3. Upto(n + 1, [g EXCEPT ![n + 1] = step[g[n]]])
    BY <2>1, <2>2
  <2> HIDE DEF Upto
  <2> QED
    BY <2>3
<1>3. T = Nat
  <2> HIDE DEF T
  <2> QED
    BY <1>1, <1>2, Induct DEF T
<1>4. 0 \in U
  OBVIOUS
<1>5. ASSUME NEW i \in U PROVE i + 1 \in U
  <2>1. ASSUME NEW m \in Nat, NEW n \in Nat, NEW g, NEW h,
               i + 1 <= m, i + 1 <= n, Upto(m, g), Upto(n, h)
        PROVE  g[i + 1] = h[i + 1]
    <3>1. i <= m /\ i <= n /\ i + 1 \in 1..m /\ i + 1 \in 1..n /\ (i + 1) - 1 = i
      BY <2>1
    <3>2. g[i] = h[i]
      <4>1. Same(i)
        OBVIOUS
      <4> HIDE DEF Upto
      <4> QED
        BY <2>1, <3>1, <4>1
    <3>3. g[i + 1] = step[g[i]] /\ h[i + 1] = step[h[i]]
      BY <2>1, <3>1
    <3> QED
      BY <3>2, <3>3
  <2>2. Same(i + 1)
    <3> HIDE DEF Upto
    <3> QED
      BY <2>1
  <2> HIDE DEF Same
  <2> QED
    BY <2>2
<1>6. U = Nat
  <2> HIDE DEF U
  <2> QED
    BY <1>4, <1>5, Induct DEF U
<1> DEFINE pick == [n \in Nat |-> CHOOSE g : Upto(n, g)]
           f == [n \in Nat |-> pick[n][n]]
<1>7. ASSUME NEW n \in Nat PROVE Upto(n, pick[n])
  <2>1. \E g : Upto(n, g)
    BY <1>3
  <2> HIDE DEF Upto
  <2> QED
    BY <2>1
<1> HIDE DEF pick
<1>8. f \in [Nat -> S] /\ f[0] = a
  BY <1>7
<1>9. ASSUME NEW n \in Nat, n # 0 PROVE f[n] = step[f[n - 1]]
  <2>1. Upto(n, pick[n]) /\ Upto(n - 1, pick[n - 1]) /\ n - 1 \in Nat /\ n - 1 <= n
    BY <1>7, <1>9
  <2>2. pick[n][n - 1] = pick[n - 1][n - 1]
    <3>1. Same(n - 1)
      <4> HIDE DEF Same
      <4> QED
        BY <2>1, <1>6
    <3> HIDE DEF Upto
    <3> QED
      BY <2>1, <3>1
  <2>3. pick[n][n] = step[pick[n][n - 1]]
    BY <2>1, <1>9
  <2> QED
    BY <2>1, <2>2, <2>3
<1> HIDE DEF f
<1> QED
  BY <1>8, <1>9

-----------------------------------------------------------------------------
(* The branches of a node *)

\* A graph as a resolution finds it: tuples of documents, edges to documents.
WellFormed(g) ==
  /\ g.tuples \in SUBSET Edge
  /\ \A t \in g.tuples : t.rel = "parent_item" => t.subject \in Doc
  /\ g.closed \in BOOLEAN

\* SetToSeq lists each element once.
LEMMA Listed ==
  ASSUME NEW S, IsFiniteSet(S)
  PROVE  /\ Cardinality(S) \in Nat
         /\ SetToSeq(S) \in [1..Cardinality(S) -> S]
         /\ SetToSeq(S) \in Seq(S) /\ Len(SetToSeq(S)) = Cardinality(S)
         /\ \A x \in S : \E i \in 1..Cardinality(S) : SetToSeq(S)[i] = x
<1> DEFINE N == Cardinality(S)
           q == SetToSeq(S)
<1>1. N \in Nat /\ ExistsBijection(1..N, S)
  BY FS_CardinalityType
<1>2. \E f \in [1..N -> S] : IsInjective(f)
  BY <1>1 DEF ExistsBijection, Bijection, Injection
<1>3. q \in [1..N -> S] /\ IsInjective(q)
  BY <1>2 DEF SetToSeq
<1>4. IsFiniteSet(1..N) /\ Cardinality(1..N) = N
  BY <1>1, FS_Interval
<1> HIDE DEF q, N
<1>5. q \in Injection(1..N, S)
  BY <1>3 DEF Injection
<1>6. q \in Surjection(1..N, S)
  BY <1>4, <1>5, FS_Injection DEF N
<1>7. \A x \in S : \E i \in 1..N : q[i] = x
  BY <1>6 DEF Surjection
<1>8. q \in Seq(S) /\ Len(q) = N
  BY <1>1, <1>3
<1> QED
  BY <1>1, <1>3, <1>7, <1>8 DEF q, N

LEMMA HigherType ==
  ASSUME NEW rel
  PROVE  /\ Higher(rel) \in Seq({"editor", "assignee", "owner"}) /\ Len(Higher(rel)) <= 2
         /\ rel = "viewer" => Len(Higher(rel)) = 2 /\ Higher(rel)[1] = "editor" /\ Higher(rel)[2] = "assignee"
         /\ rel \in {"editor", "assignee"} => Len(Higher(rel)) = 1 /\ Higher(rel)[1] = "owner"
         /\ rel \notin {"viewer", "editor", "assignee"} => Len(Higher(rel)) = 0
<1>1. CASE rel = "viewer"
  <2>1. Higher(rel) = <<"editor", "assignee">>
    BY <1>1 DEF Higher
  <2> DEFINE h == Higher(rel)
  <2> HIDE DEF h
  <2>2. h = <<"editor", "assignee">>
    BY <2>1 DEF h
  <2>3. Len(h) = 2 /\ h[1] = "editor" /\ h[2] = "assignee"
    BY <2>2
  <2>4. h \in Seq({"editor", "assignee", "owner"}) /\ Len(h) <= 2
    BY <2>2
  <2> QED
    BY <1>1, <2>3, <2>4 DEF h
<1>2. CASE rel \in {"editor", "assignee"}
  <2>1. Higher(rel) = <<"owner">>
    BY <1>2 DEF Higher
  <2> QED
    BY <1>2, <2>1
<1>3. CASE rel \notin {"viewer", "editor", "assignee"}
  <2>1. Higher(rel) = <<>>
    BY <1>3 DEF Higher
  <2> QED
    BY <1>3, <2>1
<1> QED
  BY <1>1, <1>2, <1>3

\* The three parts of a node's branches, in the order check follows.
Sets(g, n)    == SetToSeq({Member(x) : x \in Usersets(g, n)})
Rungs(n)      == [i \in DOMAIN Higher(n.rel) |-> Item(n.id, Higher(n.rel)[i])]
Upwards(g, n) == SetToSeq({Item(p, n.rel) : p \in Parents(g, n)})

LEMMA SetsAre ==
  ASSUME IsFiniteSet(Group), NEW g, NEW n
  PROVE  LET q == Sets(g, n)
         IN  /\ q \in Seq({Member(x) : x \in Usersets(g, n)}) /\ Len(q) <= Cardinality(Group)
             /\ Cardinality(Group) \in Nat
             /\ \A x \in Usersets(g, n) : \E i \in 1..Len(q) : q[i] = Member(x)
<1> DEFINE U == Usersets(g, n)
           V == {Member(x) : x \in U}
           f == [x \in U |-> Member(x)]
<1>1. U \in SUBSET Group
  BY DEF Usersets
<1>2. IsFiniteSet(U) /\ Cardinality(U) <= Cardinality(Group) /\ Cardinality(U) \in Nat /\ Cardinality(Group) \in Nat
  BY <1>1, FS_Subset, FS_CardinalityType
<1>3. f \in Surjection(U, V)
  BY DEF Surjection
<1> HIDE DEF U, f, V
<1>4. IsFiniteSet(V) /\ Cardinality(V) <= Cardinality(U)
  BY <1>2, <1>3, FS_Surjection
<1>5. /\ Cardinality(V) \in Nat /\ SetToSeq(V) \in Seq(V) /\ Len(SetToSeq(V)) = Cardinality(V)
      /\ \A x \in V : \E i \in 1..Cardinality(V) : SetToSeq(V)[i] = x
  BY <1>4, Listed
<1>6. Sets(g, n) = SetToSeq(V)
  BY DEF Sets, U, V
<1>7. ASSUME NEW x \in U PROVE \E i \in 1..Cardinality(V) : SetToSeq(V)[i] = Member(x)
  BY <1>5 DEF V
<1>8. Cardinality(V) <= Cardinality(Group)
  BY <1>2, <1>4, <1>5
<1> QED
  BY <1>2, <1>5, <1>6, <1>7, <1>8 DEF U, V

LEMMA UpwardsAre ==
  ASSUME IsFiniteSet(Doc), NEW g, WellFormed(g), NEW n
  PROVE  LET q == Upwards(g, n)
         IN  /\ q \in Seq({Item(p, n.rel) : p \in Parents(g, n)})
             /\ Len(q) = Cardinality({Item(p, n.rel) : p \in Parents(g, n)})
             /\ \A p \in Parents(g, n) : \E i \in 1..Len(q) : q[i] = Item(p, n.rel)
<1> DEFINE U == Parents(g, n)
           V == {Item(p, n.rel) : p \in U}
           f == [p \in U |-> Item(p, n.rel)]
<1>1. U \in SUBSET Doc
  BY DEF Parents, WellFormed, Held
<1>2. IsFiniteSet(U)
  BY <1>1, FS_Subset
<1>3. f \in Surjection(U, V)
  BY DEF Surjection
<1> HIDE DEF U, f, V
<1>4. IsFiniteSet(V)
  BY <1>2, <1>3, FS_Surjection
<1>5. /\ Cardinality(V) \in Nat /\ SetToSeq(V) \in Seq(V) /\ Len(SetToSeq(V)) = Cardinality(V)
      /\ \A x \in V : \E i \in 1..Cardinality(V) : SetToSeq(V)[i] = x
  BY <1>4, Listed
<1>6. Upwards(g, n) = SetToSeq(V)
  BY DEF Upwards, U, V
<1>7. ASSUME NEW p \in U PROVE \E i \in 1..Cardinality(V) : SetToSeq(V)[i] = Item(p, n.rel)
  BY <1>5 DEF V
<1> QED
  BY <1>5, <1>6, <1>7 DEF U, V

\* Every branch is of one of three kinds, the rungs before the parents; every group,
\* rung and parent has its branch.
KindOf(g, n, i) ==
  LET b == Branches(g, n)[i]
      h == Higher(n.rel)
  IN  \/ \E x \in Usersets(g, n) : b = Member(x)
      \/ \E j \in 1..Len(h) : b = Item(n.id, h[j])
      \/ \E p \in Parents(g, n) :
           b = Item(p, n.rel) /\ \A j \in 1..Len(h) : \E k \in 1..(i - 1) : Branches(g, n)[k] = Item(n.id, h[j])

Branched(g, n, c) == \E i \in 1..Len(Branches(g, n)) : Branches(g, n)[i] = c

LEMMA BranchesAre ==
  ASSUME IsFiniteSet(Doc), IsFiniteSet(Group), NEW g, WellFormed(g), NEW n \in Node
  PROVE  /\ Branches(g, n) \in Seq(Node) /\ Len(Branches(g, n)) \in Nat
         /\ Cardinality(Group) \in Nat
         /\ Len(Branches(g, n)) <= Cardinality(Group) + 2 + Cardinality({Item(p, n.rel) : p \in Parents(g, n)})
         /\ \A i \in 1..Len(Branches(g, n)) : KindOf(g, n, i)
         /\ \A x \in Usersets(g, n) : Branched(g, n, Member(x))
         /\ \A j \in 1..Len(Higher(n.rel)) : Branched(g, n, Item(n.id, Higher(n.rel)[j]))
         /\ \A p \in Parents(g, n) : Branched(g, n, Item(p, n.rel))
<1> DEFINE b == Branches(g, n)
           h == Higher(n.rel)
           X == {Member(x) : x \in Usersets(g, n)}
           Y == {Item(n.id, r) : r \in {"editor", "assignee", "owner"}}
           Z == {Item(p, n.rel) : p \in Parents(g, n)}
           A == Sets(g, n)
           B == Rungs(n)
           C == Upwards(g, n)
<1>1. /\ A \in Seq(X) /\ Len(A) <= Cardinality(Group) /\ Cardinality(Group) \in Nat
      /\ \A x \in Usersets(g, n) : \E i \in 1..Len(A) : A[i] = Member(x)
  BY SetsAre
<1>2. /\ C \in Seq(Z) /\ Len(C) = Cardinality(Z)
      /\ \A p \in Parents(g, n) : \E i \in 1..Len(C) : C[i] = Item(p, n.rel)
  BY UpwardsAre
<1>3. h \in Seq({"editor", "assignee", "owner"}) /\ Len(h) <= 2 /\ DOMAIN h = 1..Len(h) /\ Len(h) \in Nat
  <2>1. h \in Seq({"editor", "assignee", "owner"}) /\ Len(h) <= 2
    BY HigherType
  <2> HIDE DEF h
  <2> QED
    BY <2>1
<1>4. /\ B \in Seq(Y) /\ Len(B) = Len(h)
      /\ \A j \in 1..Len(h) : B[j] = Item(n.id, h[j])
  <2> HIDE DEF h
  <2> QED
    BY <1>3 DEF Rungs, h
<1>5. X \subseteq Node /\ Y \subseteq Node /\ Z \subseteq Node
  <2>1. Usersets(g, n) \subseteq Group /\ Parents(g, n) \subseteq Doc
    BY DEF Usersets, Parents, Held, WellFormed
  <2>2. n.id \in Doc \cup Group /\ n.rel \in {"viewer", "editor", "assignee", "owner", "parent_item", "member"}
    BY DEF Node
  <2> QED
    BY <2>1, <2>2 DEF Node, Item, Member
<1>6. b = (A \o B) \o C
  BY DEF Branches, Sets, Rungs, Upwards
<1> HIDE DEF b, h, X, Y, Z, A, B, C
<1>7. A \in Seq(Node) /\ B \in Seq(Node) /\ C \in Seq(Node)
  BY <1>1, <1>2, <1>4, <1>5
<1>8. b \in Seq(Node) /\ Len(b) = Len(A) + Len(B) + Len(C) /\ Len(A) \in Nat /\ Len(B) \in Nat /\ Len(C) \in Nat
  BY <1>6, <1>7
<1>9. /\ \A i \in 1..Len(A) : b[i] = A[i]
      /\ \A i \in 1..Len(B) : b[Len(A) + i] = B[i]
      /\ \A i \in 1..Len(C) : b[Len(A) + Len(B) + i] = C[i]
  BY <1>6, <1>7
<1>10. ASSUME NEW i \in 1..Len(b)
       PROVE  \/ \E x \in Usersets(g, n) : b[i] = Member(x)
              \/ \E j \in 1..Len(h) : b[i] = Item(n.id, h[j])
              \/ \E p \in Parents(g, n) :
                   /\ b[i] = Item(p, n.rel)
                   /\ \A j \in 1..Len(h) : \E k \in 1..(i - 1) : b[k] = Item(n.id, h[j])
  <2>1. CASE i \in 1..Len(A)
    <3>1. b[i] \in X
      BY <1>1, <1>9, <2>1
    <3> QED
      BY <3>1 DEF X
  <2>2. CASE i - Len(A) \in 1..Len(B)
    <3>1. i = Len(A) + (i - Len(A))
      BY <1>8
    <3>2. b[i] = Item(n.id, h[i - Len(A)])
      BY <1>4, <1>9, <2>2, <3>1
    <3> QED
      BY <1>4, <2>2, <3>2
  <2>3. CASE i - Len(A) - Len(B) \in 1..Len(C)
    <3>1. i = Len(A) + Len(B) + (i - Len(A) - Len(B))
      BY <1>8
    <3>2. b[i] = C[i - Len(A) - Len(B)] /\ C[i - Len(A) - Len(B)] \in Z
      BY <1>2, <1>9, <2>3, <3>1
    <3>3. PICK p \in Parents(g, n) : b[i] = Item(p, n.rel)
      BY <3>2 DEF Z
    <3>4. ASSUME NEW j \in 1..Len(h) PROVE \E k \in 1..(i - 1) : b[k] = Item(n.id, h[j])
      <4>1. Len(A) + j \in 1..(i - 1)
        BY <1>3, <1>4, <1>8, <2>3
      <4>2. b[Len(A) + j] = Item(n.id, h[j])
        BY <1>4, <1>9
      <4> QED
        BY <4>1, <4>2
    <3> QED
      BY <3>3, <3>4
  <2> QED
    BY <1>8, <2>1, <2>2, <2>3
<1>11. ASSUME NEW x \in Usersets(g, n) PROVE \E i \in 1..Len(b) : b[i] = Member(x)
  <2>1. PICK i \in 1..Len(A) : A[i] = Member(x)
    BY <1>1
  <2> QED
    BY <1>8, <1>9, <2>1
<1>12. ASSUME NEW j \in 1..Len(h) PROVE \E i \in 1..Len(b) : b[i] = Item(n.id, h[j])
  <2>1. Len(A) + j \in 1..Len(b) /\ b[Len(A) + j] = Item(n.id, h[j])
    BY <1>3, <1>4, <1>8, <1>9
  <2> QED
    BY <2>1
<1>13. ASSUME NEW p \in Parents(g, n) PROVE \E i \in 1..Len(b) : b[i] = Item(p, n.rel)
  <2>1. PICK i \in 1..Len(C) : C[i] = Item(p, n.rel)
    BY <1>2
  <2>2. Len(A) + Len(B) + i \in 1..Len(b) /\ b[Len(A) + Len(B) + i] = Item(p, n.rel)
    BY <1>8, <1>9, <2>1
  <2> QED
    BY <2>2
<1>14. Len(b) <= Cardinality(Group) + 2 + Cardinality(Z)
  <2>1. Len(B) <= 2 /\ Len(C) = Cardinality(Z) /\ Len(A) <= Cardinality(Group) /\ Cardinality(Group) \in Nat
    BY <1>1, <1>2, <1>3, <1>4
  <2>2. Len(A) \in Nat /\ Len(B) \in Nat /\ Len(C) \in Nat /\ Len(b) = Len(A) + Len(B) + Len(C)
    BY <1>8
  <2>3. Cardinality(Z) \in Nat
    BY <2>1, <2>2
  <2> QED
    BY <2>1, <2>2, <2>3
<1> QED
  BY <1>1, <1>8, <1>10, <1>11, <1>12, <1>13, <1>14 DEF b, h, Z, KindOf, Branched

-----------------------------------------------------------------------------
(* A resolution *)

LEMMA AfterType ==
  ASSUME IsFiniteSet(Doc), IsFiniteSet(Group), NEW g, WellFormed(g), NEW w \in Work, w.todo # <<>>
  PROVE  /\ After(g, w) \in Work
         /\ Skips(g, w) => After(g, w) = [w EXCEPT !.todo = Tail(w.todo)]
         /\ ~Skips(g, w) => w.left \in Nat \ {0} /\ After(g, w).left = w.left - 1
<1> USE Parameters
<1> DEFINE v == Head(w.todo)
           rest == Tail(w.todo)
           b == Branches(g, v.node)
<1>1. v \in Visit /\ rest \in Seq(Visit) /\ w.seen \in SUBSET Node /\ w.left \in 0..MaxBudget /\ w.todo \in Seq(Visit)
  BY DEF Work
<1>2. v.node \in Node /\ v.depth \in 0..(MaxDepth + 1)
  BY <1>1 DEF Visit
<1>3. CASE Skips(g, w)
  <2>1. After(g, w) = [w EXCEPT !.todo = rest]
    BY <1>3 DEF After
  <2>2. [w EXCEPT !.todo = rest] \in Work
    BY <1>1 DEF Work
  <2> QED
    BY <1>3, <2>1, <2>2
<1>4. CASE ~Skips(g, w)
  <2>1. v.depth <= MaxDepth /\ w.left # 0
    BY <1>1, <1>2, <1>4 DEF Skips
  <2>2. b \in Seq(Node)
    BY <1>2, BranchesAre
  <2>3. \A i \in DOMAIN b : [node |-> b[i], depth |-> v.depth + 1] \in Visit
    <3> HIDE DEF b
    <3>1. \A i \in DOMAIN b : b[i] \in Node
      BY <2>2
    <3>2. v.depth + 1 \in 0..(MaxDepth + 1)
      BY <1>2, <2>1
    <3> QED
      BY <3>1, <3>2 DEF Visit
  <2>4. Unfolded(g, v, rest) \in Seq(Visit)
    <3> HIDE DEF b, v, rest
    <3>1. [i \in DOMAIN b |-> [node |-> b[i], depth |-> v.depth + 1]] \in Seq(Visit)
      BY <2>2, <2>3
    <3> QED
      BY <1>1, <3>1 DEF Unfolded, b
  <2>5. After(g, w) = [todo |-> IF v.node \in w.seen THEN rest ELSE Unfolded(g, v, rest),
                       seen |-> w.seen \cup {v.node}, left |-> w.left - 1]
    BY <1>4 DEF After
  <2>6. w.left - 1 \in 0..MaxBudget /\ w.left \in Nat \ {0}
    BY <1>1, <2>1
  <2> HIDE DEF v, rest
  <2> QED
    BY <1>1, <1>2, <1>4, <2>4, <2>5, <2>6 DEF Work
<1> QED
  BY <1>3, <1>4

\* No set of resolutions goes on for ever: each step spends budget or shortens the work.
LEMMA Terminates ==
  ASSUME IsFiniteSet(Doc), IsFiniteSet(Group), NEW g, WellFormed(g),
         NEW B \in SUBSET Work, \A w \in B : w.todo # <<>> /\ After(g, w) \in B
  PROVE  B = {}
<1> USE Parameters
<1>1. SUFFICES ASSUME B # {} PROVE FALSE
  OBVIOUS
<1> DEFINE T == {w.left : w \in B}
<1>2. T \in SUBSET Nat /\ T # {}
  BY <1>1 DEF Work
<1>3. PICK m \in T : \A k \in T : m <= k
  <2> HIDE DEF T
  <2> QED
    BY <1>2, Least
<1> DEFINE C == {w \in B : w.left = m}
           U == {Len(w.todo) : w \in C}
<1>4. U \in SUBSET Nat /\ U # {}
  <2>1. \A w \in Work : Len(w.todo) \in Nat
    BY DEF Work
  <2>2. PICK w \in B : w.left = m
    OBVIOUS
  <2>3. Len(w.todo) \in U
    BY <2>2
  <2> QED
    BY <2>1, <2>3
<1>5. PICK k \in U : \A l \in U : k <= l
  <2> HIDE DEF U
  <2> QED
    BY <1>4, Least
<1>6. PICK w \in C : Len(w.todo) = k
  BY <1>5
<1>7. /\ w \in Work /\ w.todo # <<>> /\ w.left = m /\ After(g, w) \in B /\ m \in Nat /\ w.todo \in Seq(Visit)
      /\ After(g, w) \in Work
  BY <1>2, <1>6 DEF Work
<1>8. CASE Skips(g, w)
  <2>1. After(g, w) = [w EXCEPT !.todo = Tail(w.todo)]
    BY <1>7, <1>8, AfterType
  <2>2. After(g, w).left = m /\ After(g, w).todo = Tail(w.todo)
    BY <1>7, <2>1 DEF Work
  <2>3. Len(Tail(w.todo)) \in U
    BY <1>7, <2>2
  <2>4. Len(Tail(w.todo)) = k - 1 /\ k \in Nat
    BY <1>4, <1>6, <1>7
  <2>5. k <= k - 1
    BY <1>5, <2>3, <2>4
  <2> QED
    BY <2>4, <2>5
<1>9. CASE ~Skips(g, w)
  <2>1. After(g, w).left = m - 1
    BY <1>7, <1>9, AfterType
  <2>2. m - 1 \in T
    BY <1>7, <2>1
  <2>3. m <= m - 1
    BY <1>3, <2>2
  <2> QED
    BY <1>7, <2>3
<1> QED
  BY <1>8, <1>9

Answers(g, u) ==
  LET holds[w \in Work] == w.todo # <<>> /\ (Found(g, u, w) \/ holds[After(g, w)])
  IN  holds

Begin(node) == [todo |-> <<[node |-> node, depth |-> 0]>>, seen |-> {}, left |-> MaxBudget]

LEMMA CheckIs ==
  ASSUME NEW g, NEW u, NEW node
  PROVE  Check(g, u, node) = Answers(g, u)[Begin(node)]
BY DEF Check, Answers, Begin

LEMMA AnswersAre ==
  ASSUME IsFiniteSet(Doc), IsFiniteSet(Group), NEW g, WellFormed(g), NEW u
  PROVE  \A w \in Work : Answers(g, u)[w] = (w.todo # <<>> /\ (Found(g, u, w) \/ Answers(g, u)[After(g, w)]))
<1> DEFINE Rule(S, w) == w.todo # <<>> /\ (Found(g, u, w) \/ After(g, w) \in S)
           Shut(S) == \A w \in Work : Rule(S, w) => w \in S
           L == {w \in Work : \A S \in SUBSET Work : Shut(S) => w \in S}
           F == [w \in Work |-> w \in L]
           Body(f) == [w \in Work |-> w.todo # <<>> /\ (Found(g, u, w) \/ f[After(g, w)])]
<1>1. Shut(L)
  <2>1. ASSUME NEW w \in Work, Rule(L, w), NEW S \in SUBSET Work, Shut(S) PROVE w \in S
    BY <2>1
  <2> QED
    BY <2>1
<1>2. ASSUME NEW w \in L PROVE Rule(L, w)
  <2> DEFINE M == {x \in L : Rule(L, x)}
  <2>1. M \in SUBSET Work /\ Shut(M)
    BY <1>1
  <2>2. w \in M
    BY <2>1
  <2> QED
    BY <2>2
<1>3. \A w \in Work : w \in L <=> Rule(L, w)
  BY <1>1, <1>2
<1> HIDE DEF L
<1>4. ASSUME NEW w \in Work PROVE F[w] = (w.todo # <<>> /\ (Found(g, u, w) \/ F[After(g, w)]))
  <2>1. CASE w.todo # <<>>
    <3>1. After(g, w) \in Work
      BY <2>1, AfterType
    <3>2. F[w] = (w \in L) /\ F[After(g, w)] = (After(g, w) \in L)
      BY <3>1
    <3>3. (w \in L) = (w.todo # <<>> /\ (Found(g, u, w) \/ After(g, w) \in L))
      BY <1>3
    <3> HIDE DEF F
    <3>4. F[w] = (w.todo # <<>> /\ (Found(g, u, w) \/ After(g, w) \in L))
      BY <3>2, <3>3, Zenon
    <3> QED
      BY <3>2, <3>4, Zenon
  <2>2. CASE ~(w.todo # <<>>)
    BY <1>3, <2>2
  <2> QED
    BY <2>1, <2>2
<1>5. F = Body(F)
  <2> HIDE DEF F
  <2>1. F = [w \in Work |-> F[w]]
    BY DEF F
  <2> QED
    BY <1>4, <2>1
<1>6. Answers(g, u) = CHOOSE f : f = Body(f)
  BY DEF Answers
<1> HIDE DEF Body, F
<1>7. Answers(g, u) = Body(Answers(g, u))
  BY <1>5, <1>6
<1> QED
  BY <1>7 DEF Body

-----------------------------------------------------------------------------
(* The ancestors of a document, by distance *)

LEMMA AboveIs ==
  ASSUME NEW g, WellFormed(g), g.tuples = tuples, NEW d \in Doc
  PROVE  /\ Above(d) \in [Nat -> SUBSET Doc] /\ Above(d)[0] = {d}
         /\ \A n \in Nat : Above(d)[n + 1] = Over(Above(d)[n])
<1> DEFINE S == SUBSET Doc
           step == [A \in S |-> Over(A)]
           Body(f) == [k \in Nat |-> IF k = 0 THEN {d} ELSE Over(f[k - 1])]
<1>1. step \in [S -> S] /\ {d} \in S
  BY DEF Over, WellFormed
<1>2. PICK f \in [Nat -> S] : f = [n \in Nat |-> IF n = 0 THEN {d} ELSE step[f[n - 1]]]
  <2> HIDE DEF step, S
  <2> QED
    BY <1>1, Iterate
<1>3. f = Body(f)
  <2>1. ASSUME NEW n \in Nat, n # 0 PROVE step[f[n - 1]] = Over(f[n - 1])
    <3>1. f[n - 1] \in S
      BY <2>1
    <3> QED
      BY <3>1
  <2> HIDE DEF step, S
  <2> QED
    BY <1>2, <2>1
<1>4. Above(d) = CHOOSE h : h = Body(h)
  BY DEF Above
<1> HIDE DEF Body
<1>5. Above(d) = Body(Above(d))
  BY <1>3, <1>4
<1>6. \A h : h = Body(h) => h[0] = {d} /\ \A n \in Nat : h[n + 1] = Over(h[n])
  <2> SUFFICES ASSUME NEW h, h = Body(h) PROVE h[0] = {d} /\ \A n \in Nat : h[n + 1] = Over(h[n])
    OBVIOUS
  <2>1. h = [k \in Nat |-> IF k = 0 THEN {d} ELSE Over(h[k - 1])]
    BY DEF Body
  <2>2. \A k \in Nat : h[k] = IF k = 0 THEN {d} ELSE Over(h[k - 1])
    BY <2>1
  <2>3. ASSUME NEW n \in Nat PROVE h[n + 1] = Over(h[n])
    <3>1. n + 1 \in Nat /\ n + 1 # 0 /\ (n + 1) - 1 = n
      OBVIOUS
    <3> QED
      BY <2>2, <3>1
  <2> QED
    BY <2>2, <2>3
<1> DEFINE T == {n \in Nat : Above(d)[n] \in S}
<1>7. T = Nat
  <2>1. 0 \in T
    BY <1>5, <1>6
  <2>2. ASSUME NEW n \in T PROVE n + 1 \in T
    <3>1. Above(d)[n + 1] = Over(Above(d)[n])
      BY <1>5, <1>6
    <3>2. \A A \in S : Over(A) \in S
      BY DEF Over, WellFormed
    <3> QED
      BY <3>1, <3>2
  <2> HIDE DEF T
  <2> QED
    BY <2>1, <2>2, Induct DEF T
<1>8. \A n \in Nat : Above(d)[n] \in S
  BY <1>7
<1>9. Above(d) = [k \in Nat |-> Above(d)[k]]
  BY <1>5 DEF Body
<1> QED
  BY <1>5, <1>6, <1>8, <1>9

ParentsOf(g, a) == {t.subject : t \in {s \in g.tuples : s.object = a /\ s.rel = "parent_item"}}

LEMMA ParentsAre ==
  ASSUME NEW g, NEW d, NEW rel
  PROVE  Parents(g, Item(d, rel)) = IF rel \in Inherited THEN ParentsOf(g, d) ELSE {}
BY DEF Parents, ParentsOf, Held, Item

\* The documents that resolving rel on d can reach, and their distance.
Reach(g, rel, d, R, m) ==
  /\ R \in SUBSET Doc /\ d \in R /\ m \in [R -> Nat] /\ m[d] = 0
  /\ rel \in Inherited => \A a \in R : \A p \in ParentsOf(g, a) : p \in R /\ m[p] <= m[a] + 1
  /\ rel \notin Inherited => R = {d}
  /\ \A a \in R \ {d} : \E b \in R : a \in ParentsOf(g, b) /\ m[a] = m[b] + 1

Nearest(g, rel, d, R, m) ==
  /\ Reach(g, rel, d, R, m)
  /\ \A a \in R : a \in Above(d)[m[a]] /\ \A k \in Nat : a \in Above(d)[k] => m[a] <= k
  /\ rel \in Inherited => \A k \in Nat : Above(d)[k] \subseteq R

LEMMA OverIs ==
  ASSUME NEW g, g.tuples = tuples, NEW A, NEW p
  PROVE  p \in Over(A) <=> \E a \in A : p \in ParentsOf(g, a)
BY DEF Over, ParentsOf

LEMMA NearestExists ==
  ASSUME NEW g, WellFormed(g), g.tuples = tuples, NEW d \in Doc, NEW rel
  PROVE  \E R, m : Nearest(g, rel, d, R, m)
<1>1. /\ Above(d) \in [Nat -> SUBSET Doc] /\ Above(d)[0] = {d}
      /\ \A n \in Nat : Above(d)[n + 1] = Over(Above(d)[n])
  BY AboveIs
<1>2. CASE rel \notin Inherited
  <2> DEFINE m == [a \in {d} |-> 0]
  <2>1. Nearest(g, rel, d, {d}, m)
    BY <1>1, <1>2 DEF Nearest, Reach
  <2> QED
    BY <2>1
<1>3. CASE rel \in Inherited
  <2> DEFINE R == {a \in Doc : \E k \in Nat : a \in Above(d)[k]}
             At(a) == {k \in Nat : a \in Above(d)[k]}
             m == [a \in R |-> CHOOSE k \in At(a) : \A l \in At(a) : k <= l]
  <2>1. ASSUME NEW a \in R PROVE m[a] \in Nat /\ a \in Above(d)[m[a]] /\ \A k \in Nat : a \in Above(d)[k] => m[a] <= k
    <3>1. At(a) \in SUBSET Nat /\ At(a) # {}
      OBVIOUS
    <3>2. \E k \in At(a) : \A l \in At(a) : k <= l
      <4> HIDE DEF At
      <4> QED
        BY <3>1, Least
    <3>3. m[a] \in At(a) /\ \A l \in At(a) : m[a] <= l
      <4> HIDE DEF At
      <4> QED
        BY <3>2
    <3> QED
      BY <3>3
  <2>2. R \in SUBSET Doc /\ d \in R /\ m \in [R -> Nat]
    <3>1. d \in R
      BY <1>1
    <3>2. m \in [R -> Nat]
      <4>1. \A a \in R : m[a] \in Nat
        BY <2>1
      <4>2. m = [a \in R |-> m[a]]
        OBVIOUS
      <4> HIDE DEF m
      <4> QED
        BY <4>1, <4>2
    <3> QED
      BY <3>1, <3>2
  <2>3. \A k \in Nat : Above(d)[k] \subseteq R
    BY <1>1
  <2> HIDE DEF R, m
  <2>4. m[d] = 0
    <3>1. m[d] <= 0 /\ m[d] \in Nat
      BY <1>1, <2>1, <2>2
    <3> QED
      BY <3>1
  <2>5. ASSUME NEW a \in R, NEW p \in ParentsOf(g, a) PROVE p \in R /\ m[p] <= m[a] + 1
    <3>1. p \in Above(d)[m[a] + 1] /\ m[a] + 1 \in Nat
      BY <1>1, <2>1, OverIs
    <3> QED
      BY <2>1, <2>3, <3>1
  <2>6. ASSUME NEW a \in R \ {d} PROVE \E b \in R : a \in ParentsOf(g, b) /\ m[a] = m[b] + 1
    <3>1. m[a] \in Nat /\ m[a] # 0
      BY <1>1, <2>1
    <3>2. m[a] - 1 \in Nat /\ Above(d)[m[a]] = Over(Above(d)[m[a] - 1])
      <4>1. m[a] - 1 \in Nat /\ (m[a] - 1) + 1 = m[a]
        BY <3>1
      <4> QED
        BY <1>1, <4>1
    <3>3. PICK b \in Above(d)[m[a] - 1] : a \in ParentsOf(g, b)
      BY <2>1, <3>2, OverIs
    <3>4. b \in R /\ m[b] \in Nat /\ m[b] <= m[a] - 1
      BY <2>1, <2>3, <3>2
    <3>5. m[a] <= m[b] + 1
      BY <2>5, <3>3, <3>4
    <3> QED
      BY <3>1, <3>3, <3>4, <3>5
  <2>7. Nearest(g, rel, d, R, m)
    BY <1>3, <2>1, <2>2, <2>3, <2>4, <2>5, <2>6 DEF Nearest, Reach
  <2> QED
    BY <2>7
<1> QED
  BY <1>2, <1>3

\* Every distance up to that of a document is that of another.
LEMMA EveryDistance ==
  ASSUME NEW g, NEW rel, NEW d, NEW R, NEW m, Reach(g, rel, d, R, m), NEW a \in R, NEW k \in 0..m[a]
  PROVE  \E b \in R : m[b] = k
<1> DEFINE T == {j \in Nat : j <= m[a] => \E b \in R : m[b] = m[a] - j}
<1>1. m \in [R -> Nat] /\ d \in R /\ m[d] = 0 /\ \A b \in R \ {d} : \E c \in R : m[b] = m[c] + 1
  BY DEF Reach
<1>2. 0 \in T
  BY <1>1
<1>3. ASSUME NEW j \in T PROVE j + 1 \in T
  <2>1. SUFFICES ASSUME j + 1 <= m[a] PROVE \E b \in R : m[b] = m[a] - (j + 1)
    OBVIOUS
  <2>2. PICK b \in R : m[b] = m[a] - j
    BY <1>1, <2>1
  <2>3. b # d
    BY <1>1, <2>1, <2>2
  <2>4. PICK c \in R : m[b] = m[c] + 1
    BY <1>1, <2>3
  <2>5. m[c] = m[a] - (j + 1)
    BY <1>1, <2>2, <2>4
  <2> QED
    BY <2>5
<1>4. T = Nat
  <2> HIDE DEF T
  <2> QED
    BY <1>2, <1>3, Induct DEF T
<1>5. m[a] - k \in T /\ m[a] - k <= m[a] /\ m[a] - (m[a] - k) = k
  BY <1>1, <1>4
<1> QED
  BY <1>5

\* So no distance exceeds the number of documents, whatever cycles there are.
LEMMA DistanceBound ==
  ASSUME IsFiniteSet(Doc), NEW g, NEW rel, NEW d, NEW R, NEW m, Reach(g, rel, d, R, m), NEW a \in R
  PROVE  m[a] < Cardinality(Doc) /\ Cardinality(Doc) \in Nat
<1> DEFINE N == m[a]
           f == [k \in 0..N |-> CHOOSE b \in R : m[b] = k]
<1>1. N \in Nat /\ R \in SUBSET Doc
  BY DEF Reach
<1>2. \A k \in 0..N : f[k] \in R /\ m[f[k]] = k
  BY EveryDistance
<1>3. f \in [0..N -> Doc]
  BY <1>1, <1>2
<1> HIDE DEF f
<1>4. f \in Injection(0..N, Doc)
  BY <1>2, <1>3 DEF Injection, IsInjective
<1>5. Cardinality(0..N) <= Cardinality(Doc)
  BY <1>4, FS_Injection
<1>6. Cardinality(0..N) = N + 1 /\ Cardinality(Doc) \in Nat
  <2> HIDE DEF N
  <2>1. Cardinality(0..N) = N + 1
    BY <1>1, FS_Interval
  <2> QED
    BY <2>1, FS_CardinalityType
<1> QED
  BY <1>1, <1>5, <1>6

\* A document has at most one edge to a parent.
OneParent == \A a \in Doc : \A s, t \in tuples :
               s.object = a /\ t.object = a /\ s.rel = "parent_item" /\ t.rel = "parent_item" => s.subject = t.subject

\* Then a distance is that of one document.
LEMMA OneDistance ==
  ASSUME NEW g, g.tuples = tuples, OneParent, NEW rel, NEW d, NEW R, NEW m, Reach(g, rel, d, R, m),
         NEW a \in R, NEW b \in R, m[a] = m[b]
  PROVE  a = b
<1> DEFINE T == {n \in Nat : \A x, y \in R : m[x] = n /\ m[y] = n => x = y}
<1>1. m \in [R -> Nat] /\ R \in SUBSET Doc /\ \A x \in R \ {d} : \E c \in R : x \in ParentsOf(g, c) /\ m[x] = m[c] + 1
  BY DEF Reach
<1>2. \A c \in Doc : \A x, y \in ParentsOf(g, c) : x = y
  BY DEF OneParent, ParentsOf
<1>3. 0 \in T
  <2>1. \A x \in R : m[x] = 0 => x = d
    BY <1>1
  <2> QED
    BY <2>1
<1>4. ASSUME NEW n \in T PROVE n + 1 \in T
  <2>1. SUFFICES ASSUME NEW x \in R, NEW y \in R, m[x] = n + 1, m[y] = n + 1 PROVE x = y
    OBVIOUS
  <2>2. m[d] = 0
    BY DEF Reach
  <2>3. x # d /\ y # d
    BY <2>1, <2>2
  <2>4. PICK c \in R : x \in ParentsOf(g, c) /\ m[x] = m[c] + 1
    BY <1>1, <2>3
  <2>5. PICK e \in R : y \in ParentsOf(g, e) /\ m[y] = m[e] + 1
    BY <1>1, <2>3
  <2>6. m[c] = n /\ m[e] = n
    BY <1>1, <2>1, <2>4, <2>5
  <2>7. c = e
    BY <2>6
  <2> QED
    BY <1>1, <1>2, <2>4, <2>5, <2>7
<1>5. T = Nat
  <2> HIDE DEF T
  <2> QED
    BY <1>3, <1>4, Induct DEF T
<1>6. m[a] \in T
  BY <1>1, <1>5
<1> QED
  BY <1>6

\* What can be derived, in terms of reach and distance.
Role == {"viewer", "editor", "owner"}

Holds(u, rel, R, m, cost, limit) ==
  \E a \in R, r \in Role :
    \/ Tuple(a, r, u) \in tuples /\ m[a] + Rung(rel, r) <= limit
    \/ \E x \in Group : /\ <<x, u>> \in members /\ Tuple(a, r, x) \in tuples
                        /\ m[a] + Rung(rel, r) + cost <= limit

LEMMA RungIs ==
  ASSUME IsFiniteSet(Doc), NEW rel, NEW r
  PROVE  /\ Rung(rel, r) \in Nat
         /\ rel \in Role /\ r \in Role => Rung(rel, r) <= 2 \/ Rung(rel, r) = MaxDepth + Cardinality(Doc) + 9
<1>1. Cardinality(Doc) \in Nat /\ MaxDepth \in Nat
  BY FS_CardinalityType, Parameters
<1> QED
  BY <1>1 DEF Rung, Role

LEMMA DerivableIs ==
  ASSUME IsFiniteSet(Doc), NEW g, WellFormed(g), g.tuples = tuples, NEW d \in Doc, NEW rel \in Role, NEW u,
         NEW R, NEW m, Nearest(g, rel, d, R, m), NEW closed \in BOOLEAN, NEW limit \in Nat
  PROVE  Derivable(u, rel, d, closed, limit) <=> Holds(u, rel, R, m, IF closed THEN 0 ELSE 1, limit)
<1> DEFINE cost == IF closed THEN 0 ELSE 1
           top == IF rel = "owner" THEN 0 ELSE Cardinality(Doc)
           Has(a, r, k) == \/ Tuple(a, r, u) \in tuples /\ k + Rung(rel, r) <= limit
                           \/ \E x \in Group : /\ <<x, u>> \in members /\ Tuple(a, r, x) \in tuples
                                               /\ k + Rung(rel, r) + cost <= limit
<1>1. cost \in Nat /\ \A r : Rung(rel, r) \in Nat
  BY RungIs
<1>2. Cardinality(Doc) \in Nat /\ top \in Nat
  BY FS_CardinalityType
<1>3. m \in [R -> Nat] /\ Reach(g, rel, d, R, m)
  BY DEF Nearest, Reach
<1> HIDE DEF cost
<1>4. ASSUME NEW k \in 0..top, NEW r \in Role, NEW a \in Above(d)[k], Has(a, r, k)
      PROVE  a \in R /\ Has(a, r, m[a])
  <2>1. a \in R
    <3>1. CASE rel = "owner"
      BY <1>3, <3>1, AboveIs DEF Reach, Nearest
    <3>2. CASE rel # "owner"
      BY <3>2, <1>2 DEF Nearest, Inherited, Role
    <3> QED
      BY <3>1, <3>2
  <2>2. m[a] <= k /\ m[a] \in Nat /\ k \in Nat
    BY <1>2, <1>3, <2>1 DEF Nearest
  <2>3. \A r1 : k + Rung(rel, r1) <= limit => m[a] + Rung(rel, r1) <= limit
    BY <1>1, <2>2
  <2>4. \A r1 : k + Rung(rel, r1) + cost <= limit => m[a] + Rung(rel, r1) + cost <= limit
    BY <1>1, <2>2
  <2> QED
    BY <1>4, <2>1, <2>3, <2>4
<1>5. ASSUME NEW a \in R PROVE m[a] \in 0..top /\ a \in Above(d)[m[a]]
  <2>1. m[a] \in Nat /\ m[a] < Cardinality(Doc) /\ a \in Above(d)[m[a]]
    BY <1>3, DistanceBound DEF Nearest
  <2>2. rel = "owner" => m[a] = 0
    BY <1>3 DEF Reach, Inherited
  <2> QED
    BY <1>2, <2>1, <2>2
<1>6. Derivable(u, rel, d, closed, limit) <=> \E k \in 0..top, r \in Role : \E a \in Above(d)[k] : Has(a, r, k)
  BY DEF Derivable, Role, cost
<1>7. Holds(u, rel, R, m, cost, limit) <=> \E a \in R, r \in Role : Has(a, r, m[a])
  BY DEF Holds
<1> HIDE DEF Has, top
<1>8. Derivable(u, rel, d, closed, limit) <=> Holds(u, rel, R, m, cost, limit)
  BY <1>4, <1>5, <1>6, <1>7
<1> QED
  BY <1>8 DEF cost

-----------------------------------------------------------------------------
(* One step of a resolution *)

\* The head is dropped, or it is visited and its branches take its place.
Passes(g, w) == Skips(g, w) \/ w.todo[1].node \in w.seen

Dropped(w, z) ==
  /\ Len(z.todo) = Len(w.todo) - 1 /\ z.seen = w.seen
  /\ \A i \in 1..Len(z.todo) : z.todo[i] = w.todo[i + 1]

Visited(w, z, b) ==
  /\ Len(z.todo) = Len(b) + Len(w.todo) - 1
  /\ z.seen = w.seen \cup {w.todo[1].node} /\ z.left = w.left - 1
  /\ \A i \in 1..Len(b) : z.todo[i] = [node |-> b[i], depth |-> w.todo[1].depth + 1]
  /\ \A i \in 2..Len(w.todo) : z.todo[Len(b) + i - 1] = w.todo[i]

LEMMA StepIs ==
  ASSUME IsFiniteSet(Doc), IsFiniteSet(Group), NEW g, WellFormed(g), NEW w \in Work, w.todo # <<>>
  PROVE  LET v == w.todo[1]
             b == Branches(g, v.node)
             z == After(g, w)
         IN  /\ Head(w.todo) = v /\ v \in Visit /\ v.node \in Node /\ v.depth \in Nat /\ v.depth <= MaxDepth + 1
             /\ Len(w.todo) \in Nat \ {0} /\ z \in Work /\ Len(z.todo) \in Nat
             /\ b \in Seq(Node) /\ Len(b) \in Nat
             /\ Passes(g, w) => Dropped(w, z)
             /\ ~Passes(g, w) => Visited(w, z, b)
<1> USE Parameters
<1> DEFINE v == w.todo[1]
           rest == Tail(w.todo)
           b == Branches(g, v.node)
           z == After(g, w)
<1>1. w.todo \in Seq(Visit) /\ w.seen \in SUBSET Node
  BY DEF Work
<1>2. /\ Head(w.todo) = v /\ v \in Visit /\ Len(w.todo) \in Nat \ {0}
      /\ rest \in Seq(Visit) /\ Len(rest) = Len(w.todo) - 1 /\ \A i \in 1..Len(rest) : rest[i] = w.todo[i + 1]
  BY <1>1
<1>3. v.node \in Node /\ v.depth \in Nat /\ v.depth <= MaxDepth + 1
  BY <1>2 DEF Visit
<1>4. z \in Work /\ Len(z.todo) \in Nat
  <2>1. z \in Work
    BY AfterType
  <2> HIDE DEF z
  <2> QED
    BY <2>1 DEF Work
<1>5. b \in Seq(Node) /\ Len(b) \in Nat
  <2>1. b \in Seq(Node)
    BY <1>3, BranchesAre
  <2> HIDE DEF b
  <2> QED
    BY <2>1
<1>6. ASSUME Passes(g, w) PROVE z.todo = rest /\ z.seen = w.seen
  <2>1. CASE Skips(g, w)
    <3>1. z = [w EXCEPT !.todo = rest]
      BY <2>1, AfterType
    <3> QED
      BY <3>1 DEF Work
  <2>2. CASE ~Skips(g, w)
    <3>1. v.node \in w.seen
      BY <1>6, <2>2 DEF Passes
    <3>2. z = [todo |-> rest, seen |-> w.seen \cup {v.node}, left |-> w.left - 1]
      BY <1>2, <2>2, <3>1 DEF After
    <3> QED
      BY <3>1, <3>2
  <2> QED
    BY <2>1, <2>2
<1>7. ASSUME ~Passes(g, w)
      PROVE  /\ z.todo = [i \in DOMAIN b |-> [node |-> b[i], depth |-> v.depth + 1]] \o rest
             /\ z.seen = w.seen \cup {v.node} /\ z.left = w.left - 1
  <2>1. ~Skips(g, w) /\ v.node \notin w.seen
    BY <1>7 DEF Passes
  <2>2. z = [todo |-> Unfolded(g, v, rest), seen |-> w.seen \cup {v.node}, left |-> w.left - 1]
    BY <1>2, <2>1 DEF After
  <2>3. Unfolded(g, v, rest) = [i \in DOMAIN b |-> [node |-> b[i], depth |-> v.depth + 1]] \o rest
    BY DEF Unfolded
  <2> HIDE DEF z
  <2>4. z.todo = Unfolded(g, v, rest) /\ z.seen = w.seen \cup {v.node} /\ z.left = w.left - 1
    BY ONLY <2>2
  <2> QED
    BY ONLY <2>3, <2>4, Zenon
<1> HIDE DEF b, z, rest, v
<1>8. ASSUME Passes(g, w)
      PROVE  /\ Len(z.todo) = Len(w.todo) - 1 /\ z.seen = w.seen
             /\ \A i \in 1..Len(z.todo) : z.todo[i] = w.todo[i + 1]
  BY <1>2, <1>6, <1>8
<1>9. ASSUME ~Passes(g, w)
      PROVE  /\ Len(z.todo) = Len(b) + Len(w.todo) - 1
             /\ z.seen = w.seen \cup {v.node} /\ z.left = w.left - 1
             /\ \A i \in 1..Len(b) : z.todo[i] = [node |-> b[i], depth |-> v.depth + 1]
             /\ \A i \in 2..Len(w.todo) : z.todo[Len(b) + i - 1] = w.todo[i]
  <2> DEFINE c == [i \in DOMAIN b |-> [node |-> b[i], depth |-> v.depth + 1]]
  <2>1. z.todo = c \o rest
    BY <1>7, <1>9
  <2>2. c \in Seq(Visit) /\ Len(c) = Len(b)
        /\ \A i \in 1..Len(b) : c[i] = [node |-> b[i], depth |-> v.depth + 1]
    <3>1. v.depth + 1 \in 0..(MaxDepth + 1)
      BY <1>2, <1>3, <1>9 DEF Passes, Skips
    <3>2. DOMAIN b = 1..Len(b) /\ \A i \in 1..Len(b) : b[i] \in Node
      BY <1>5
    <3>3. \A i \in 1..Len(b) : [node |-> b[i], depth |-> v.depth + 1] \in Visit
      BY <3>1, <3>2 DEF Visit
    <3>4. c = [i \in 1..Len(b) |-> [node |-> b[i], depth |-> v.depth + 1]]
      BY <3>2
    <3> HIDE DEF c
    <3>5. c \in [1..Len(b) -> Visit]
      BY <3>3, <3>4
    <3>6. c \in Seq(Visit) /\ Len(c) = Len(b)
      BY <1>5, <3>5
    <3> QED
      BY <3>4, <3>6
  <2> HIDE DEF c
  <2>4. /\ Len(z.todo) = Len(c) + Len(rest)
        /\ \A i \in 1..Len(c) : z.todo[i] = c[i]
        /\ \A i \in 1..Len(rest) : z.todo[Len(c) + i] = rest[i]
    <3>1. c \in Seq(Visit) /\ rest \in Seq(Visit)
      BY <1>2, <2>2
    <3>2. /\ Len(c \o rest) = Len(c) + Len(rest)
          /\ \A i \in 1..Len(c) : (c \o rest)[i] = c[i]
          /\ \A i \in 1..Len(rest) : (c \o rest)[Len(c) + i] = rest[i]
      BY ONLY <3>1
    <3> QED
      BY <2>1, <3>2, Zenon
  <2>5. ASSUME NEW i \in 2..Len(w.todo) PROVE z.todo[Len(b) + i - 1] = w.todo[i]
    <3>1. i - 1 \in 1..Len(rest) /\ (i - 1) + 1 = i /\ Len(b) + (i - 1) = Len(b) + i - 1
      BY <1>2, <1>5
    <3>2. z.todo[Len(b) + (i - 1)] = rest[i - 1]
      BY <2>2, <2>4, <3>1
    <3> QED
      BY <1>2, <3>1, <3>2
  <2> QED
    BY <1>2, <1>5, <1>7, <1>9, <2>2, <2>4, <2>5
<1> QED
  BY <1>2, <1>3, <1>4, <1>5, <1>8, <1>9 DEF v, b, z, Dropped, Visited

-----------------------------------------------------------------------------
(* What a resolution may come to *)

Ladder == {"viewer", "editor", "assignee", "owner"}

Rank(r) == IF r = "viewer" THEN 0 ELSE IF r = "owner" THEN 2 ELSE 1

\* The items a resolution of rel can reach, and their distance from its start.
Places(rel, R)   == {Item(a, r) : a \in R, r \in {s \in Ladder : Rank(rel) <= Rank(s)}}
Dist(rel, m, n)  == m[n.id] + Rank(n.rel) - Rank(rel)

\* What is left to visit lies no nearer than its depth says; a group comes from a
\* place one step before.
Near(g, rel, R, m, n, k) ==
  \/ n \in Places(rel, R) /\ Dist(rel, m, n) <= k
  \/ \E x \in Group, p \in Places(rel, R) :
       n = Member(x) /\ x \in Usersets(g, p) /\ Dist(rel, m, p) + 1 <= k

InReach(g, rel, R, m, w) ==
  \A i \in 1..Len(w.todo) : Near(g, rel, R, m, w.todo[i].node, w.todo[i].depth)

Resolves(g, u) ==
  /\ WellFormed(g) /\ g.tuples = tuples /\ g.members = members
  /\ g.closed => g.closure = {x \in Group : <<x, u>> \in members}

LEMMA RankIs ==
  ASSUME NEW r
  PROVE  Rank(r) \in 0..2
BY DEF Rank

LEMMA PlaceIs ==
  ASSUME NEW rel, NEW R \in SUBSET Doc, NEW n \in Places(rel, R)
  PROVE  /\ n.ns = "item" /\ n.id \in R /\ n.rel \in Ladder /\ n = Item(n.id, n.rel) /\ n \in Node
         /\ Rank(rel) <= Rank(n.rel)
<1>1. PICK a \in R, r \in Ladder : n = Item(a, r) /\ Rank(rel) <= Rank(r)
  BY DEF Places
<1>2. n.ns = "item" /\ n.id = a /\ n.rel = r
  BY <1>1 DEF Item
<1>3. n \in Node
  BY <1>1 DEF Item, Node, Ladder
<1> QED
  BY <1>1, <1>2, <1>3

LEMMA DistIs ==
  ASSUME NEW rel, NEW R \in SUBSET Doc, NEW m \in [R -> Nat], NEW n \in Places(rel, R)
  PROVE  m[n.id] \in Nat /\ Dist(rel, m, n) \in Nat /\ Dist(rel, m, n) >= m[n.id]
<1>1. m[n.id] \in Nat /\ Rank(rel) <= Rank(n.rel) /\ Rank(rel) \in Nat /\ Rank(n.rel) \in Nat
  BY PlaceIs, RankIs
<1> QED
  BY <1>1 DEF Dist

LEMMA GroupHasNoBranches ==
  ASSUME IsFiniteSet(Doc), IsFiniteSet(Group), NEW g, WellFormed(g), NEW x \in Group
  PROVE  Member(x) \in Node /\ Len(Branches(g, Member(x))) = 0
<1> DEFINE n == Member(x)
           b == Branches(g, n)
<1>1. n \in Node /\ n.ns = "group" /\ n.rel = "member"
  BY DEF Member, Node
<1>2. Usersets(g, n) = {} /\ Parents(g, n) = {} /\ Len(Higher(n.rel)) = 0
  BY <1>1, HigherType DEF Usersets, Held, Parents
<1>3. b \in Seq(Node) /\ \A i \in 1..Len(b) : KindOf(g, n, i)
  BY <1>1, BranchesAre
<1>4. \A i \in 1..Len(b) : ~KindOf(g, n, i)
  BY <1>2 DEF KindOf
<1> HIDE DEF b, n
<1>5. Len(b) \in Nat /\ ~(1 \in 1..Len(b))
  BY <1>3, <1>4
<1> QED
  BY <1>1, <1>5 DEF b, n

\* The branches of a place: groups, places one rung up, the same rung of a parent.
LEMMA BranchNear ==
  ASSUME IsFiniteSet(Doc), IsFiniteSet(Group), NEW g, WellFormed(g),
         NEW rel \in Role, NEW d, NEW R, NEW m, Reach(g, rel, d, R, m),
         NEW n \in Places(rel, R), NEW i \in 1..Len(Branches(g, n))
  PROVE  LET b == Branches(g, n)[i]
         IN  \/ \E x \in Group : b = Member(x) /\ x \in Usersets(g, n)
             \/ /\ b \in Places(rel, R) /\ b.id = n.id /\ Rank(b.rel) = Rank(n.rel) + 1
                /\ n.rel = "viewer" => b.rel \in {"editor", "assignee"}
                /\ n.rel # "viewer" => b.rel = "owner"
             \/ /\ b \in Places(rel, R) /\ b.rel = n.rel /\ b.id \in ParentsOf(g, n.id)
                /\ n.rel \in Inherited /\ rel \in Inherited /\ m[b.id] <= m[n.id] + 1
                /\ n.rel = "viewer" => \E k \in 1..(i - 1) : Branches(g, n)[k] = Item(n.id, "editor")
<1> DEFINE q == Branches(g, n)
           h == Higher(n.rel)
<1>1. /\ n.ns = "item" /\ n.id \in R /\ n.rel \in Ladder /\ n = Item(n.id, n.rel) /\ n \in Node
      /\ Rank(rel) <= Rank(n.rel)
  <2>1. R \in SUBSET Doc
    BY DEF Reach
  <2> QED
    BY <2>1, PlaceIs
<1>2. KindOf(g, n, i)
  BY <1>1, BranchesAre
<1>h. /\ n.rel = "viewer" => Len(h) = 2 /\ h[1] = "editor" /\ h[2] = "assignee"
      /\ n.rel \in {"editor", "assignee"} => Len(h) = 1 /\ h[1] = "owner"
      /\ n.rel \notin {"viewer", "editor", "assignee"} => Len(h) = 0
  BY HigherType
<1> HIDE DEF q, h
<1>3. CASE \E x \in Usersets(g, n) : q[i] = Member(x)
  BY <1>3 DEF Usersets, q
<1>4. CASE \E j \in 1..Len(h) : q[i] = Item(n.id, h[j])
  <2>1. PICK j \in 1..Len(h) : q[i] = Item(n.id, h[j])
    BY <1>4
  <2>2. /\ h[j] \in Ladder /\ Rank(h[j]) = Rank(n.rel) + 1
        /\ n.rel = "viewer" => h[j] \in {"editor", "assignee"}
        /\ n.rel # "viewer" => h[j] = "owner"
    <3>1. CASE n.rel = "viewer"
      <4>1. Len(h) = 2 /\ h[1] = "editor" /\ h[2] = "assignee"
        BY <1>h, <3>1
      <4>2. j = 1 \/ j = 2
        BY <4>1
      <4>3. h[j] \in {"editor", "assignee"}
        BY <4>1, <4>2
      <4> QED
        BY <3>1, <4>3 DEF Rank, Ladder
    <3>2. CASE n.rel \in {"editor", "assignee"}
      <4>1. h[j] = "owner"
        BY <1>h, <3>2
      <4> QED
        BY <3>2, <4>1 DEF Rank, Ladder
    <3>3. CASE n.rel = "owner"
      BY <1>h, <3>3
    <3> QED
      BY <1>1, <3>1, <3>2, <3>3 DEF Ladder
  <2>3. q[i].id = n.id /\ q[i].rel = h[j]
    BY <2>1 DEF Item
  <2>4. Rank(rel) <= Rank(h[j])
    BY <1>1, <2>2, RankIs
  <2>5. q[i] \in Places(rel, R)
    BY <1>1, <2>1, <2>2, <2>4 DEF Places
  <2> QED
    BY <2>2, <2>3, <2>5 DEF q
<1>5. CASE \E p \in Parents(g, n) : /\ q[i] = Item(p, n.rel)
                                    /\ \A j \in 1..Len(h) : \E k \in 1..(i - 1) : q[k] = Item(n.id, h[j])
  <2>1. PICK p \in Parents(g, n) : /\ q[i] = Item(p, n.rel)
                                   /\ \A j \in 1..Len(h) : \E k \in 1..(i - 1) : q[k] = Item(n.id, h[j])
    BY <1>5
  <2>2. n.rel \in Inherited /\ p \in ParentsOf(g, n.id)
    BY <1>1, <2>1, ParentsAre
  <2>3. rel \in Inherited
    BY <1>1, <2>2 DEF Inherited, Rank, Role
  <2>4. p \in R /\ m[p] <= m[n.id] + 1
    BY <1>1, <2>2, <2>3 DEF Reach
  <2>5. q[i] \in Places(rel, R) /\ q[i].id = p /\ q[i].rel = n.rel
    BY <1>1, <2>1, <2>4 DEF Places, Item
  <2>6. ASSUME n.rel = "viewer" PROVE \E k \in 1..(i - 1) : q[k] = Item(n.id, "editor")
    <3>1. Len(h) = 2 /\ h[1] = "editor"
      BY <1>h, <2>6
    <3>2. 1 \in 1..Len(h)
      BY <3>1
    <3> QED
      BY <2>1, <3>1, <3>2
  <2> QED
    BY <2>2, <2>3, <2>4, <2>5, <2>6 DEF q
<1> QED
  BY <1>2, <1>3, <1>4, <1>5 DEF KindOf, q, h

LEMMA NearKept ==
  ASSUME IsFiniteSet(Doc), IsFiniteSet(Group), NEW g, WellFormed(g),
         NEW rel \in Role, NEW d, NEW R, NEW m, Reach(g, rel, d, R, m),
         NEW n, NEW k \in Nat, Near(g, rel, R, m, n, k), NEW i \in 1..Len(Branches(g, n))
  PROVE  Near(g, rel, R, m, Branches(g, n)[i], k + 1)
<1> DEFINE b == Branches(g, n)[i]
           D(p) == Dist(rel, m, p)
<1>1. R \in SUBSET Doc /\ m \in [R -> Nat]
  BY DEF Reach
<1>2. CASE n \in Places(rel, R) /\ D(n) <= k
  <2>1. \/ \E e \in Group : b = Member(e) /\ e \in Usersets(g, n)
        \/ /\ b \in Places(rel, R) /\ b.id = n.id /\ Rank(b.rel) = Rank(n.rel) + 1
        \/ /\ b \in Places(rel, R) /\ b.rel = n.rel /\ m[b.id] <= m[n.id] + 1
    BY <1>2, BranchNear
  <2> HIDE DEF b
  <2>2. PICK x \in Nat, y \in Nat, z \in Nat :
            x = m[n.id] /\ y = Rank(n.rel) /\ z = Rank(rel) /\ D(n) = x + y - z /\ D(n) \in Nat
    BY <1>1, <1>2, DistIs, RankIs DEF Dist
  <2>3. CASE \E e \in Group : b = Member(e) /\ e \in Usersets(g, n)
    <3>1. D(n) + 1 <= k + 1
      BY <1>2, <2>2
    <3> QED
      BY <1>2, <2>3, <3>1 DEF Near, b
  <2>4. CASE b \in Places(rel, R) /\ b.id = n.id /\ Rank(b.rel) = Rank(n.rel) + 1
    <3>1. D(b) = x + (y + 1) - z
      BY <2>2, <2>4 DEF Dist
    <3>2. D(b) <= k + 1
      <4>1. x + y - z <= k
        BY <1>2, <2>2
      <4>2. x + (y + 1) - z <= k + 1
        BY ONLY <4>1, x \in Nat, y \in Nat, z \in Nat, k \in Nat
      <4> QED
        BY <3>1, <4>2
    <3> QED
      BY <2>4, <3>2 DEF Near, b
  <2>5. CASE b \in Places(rel, R) /\ b.rel = n.rel /\ m[b.id] <= m[n.id] + 1
    <3>1. m[b.id] \in Nat
      BY <1>1, <2>5, DistIs
    <3>2. PICK s \in Nat : s = m[b.id]
      BY <3>1
    <3>3. D(b) = s + y - z /\ s <= x + 1
      BY <2>2, <2>5, <3>2 DEF Dist
    <3>4. D(b) <= k + 1
      <4>1. x + y - z <= k
        BY <1>2, <2>2
      <4>2. s + y - z <= k + 1
        BY ONLY <3>3, <4>1, x \in Nat, y \in Nat, z \in Nat, k \in Nat, s \in Nat
      <4> QED
        BY <3>3, <4>2
    <3> QED
      BY <2>5, <3>4 DEF Near, b
  <2> QED
    BY <2>1, <2>3, <2>4, <2>5
<1>3. CASE \E x \in Group : n = Member(x)
  <2>1. Len(Branches(g, n)) = 0
    BY <1>3, GroupHasNoBranches
  <2> QED
    BY <2>1
<1> QED
  BY <1>2, <1>3 DEF Near

LEMMA InReachKept ==
  ASSUME IsFiniteSet(Doc), IsFiniteSet(Group), NEW g, WellFormed(g),
         NEW rel \in Role, NEW d, NEW R, NEW m, Reach(g, rel, d, R, m),
         NEW w \in Work, w.todo # <<>>, InReach(g, rel, R, m, w)
  PROVE  InReach(g, rel, R, m, After(g, w))
<1> DEFINE n == w.todo[1].node
           k == w.todo[1].depth
           b == Branches(g, n)
           z == After(g, w)
           Fine(v) == Near(g, rel, R, m, v.node, v.depth)
<1>1. /\ k \in Nat /\ Len(w.todo) \in Nat \ {0} /\ Len(z.todo) \in Nat /\ Len(b) \in Nat
      /\ Passes(g, w) => Dropped(w, z)
      /\ ~Passes(g, w) => Visited(w, z, b)
  BY StepIs
<1>2. \A i \in 1..Len(w.todo) : Fine(w.todo[i])
  BY DEF InReach
<1>3. Near(g, rel, R, m, n, k)
  BY <1>1, <1>2
<1>4. \A i \in 1..Len(b) : Near(g, rel, R, m, b[i], k + 1)
  BY <1>1, <1>3, NearKept
<1> HIDE DEF b, z
<1>5. CASE Passes(g, w)
  <2>1. ASSUME NEW i \in 1..Len(z.todo) PROVE Fine(z.todo[i])
    <3>1. i + 1 \in 1..Len(w.todo) /\ z.todo[i] = w.todo[i + 1]
      BY <1>1, <1>5 DEF Dropped
    <3> QED
      BY <1>2, <3>1
  <2> QED
    BY <2>1 DEF InReach, z
<1>6. CASE ~Passes(g, w)
  <2>1. ASSUME NEW i \in 1..Len(z.todo) PROVE Fine(z.todo[i])
    <3>1. CASE i <= Len(b)
      <4>1. i \in 1..Len(b)
        BY <1>1, <3>1
      <4>2. z.todo[i] = [node |-> b[i], depth |-> k + 1]
        BY <1>1, <1>6, <4>1 DEF Visited
      <4>3. z.todo[i].node = b[i] /\ z.todo[i].depth = k + 1
        BY <4>2
      <4> QED
        BY <1>4, <4>1, <4>3
    <3>2. CASE ~(i <= Len(b))
      <4> DEFINE j == i - Len(b) + 1
      <4>1. Len(z.todo) = Len(b) + Len(w.todo) - 1 /\ \A l \in 2..Len(w.todo) : z.todo[Len(b) + l - 1] = w.todo[l]
        BY <1>1, <1>6 DEF Visited
      <4>2. j \in 2..Len(w.todo) /\ j \in 1..Len(w.todo) /\ Len(b) + j - 1 = i
        BY <1>1, <3>2, <4>1
      <4> HIDE DEF j
      <4>3. z.todo[i] = w.todo[j]
        BY <4>1, <4>2
      <4> QED
        BY <1>2, <4>2, <4>3
    <3> QED
      BY <3>1, <3>2
  <2> QED
    BY <2>1 DEF InReach, z
<1> QED
  BY <1>5, <1>6

Cost(g) == IF g.closed THEN 0 ELSE 1

LEMMA RungOf ==
  ASSUME NEW rel \in Role, NEW r \in Role, Rank(rel) <= Rank(r)
  PROVE  Rung(rel, r) = Rank(r) - Rank(rel)
BY DEF Rung, Rank, Role

LEMMA TupleIs ==
  ASSUME NEW g, WellFormed(g), NEW t \in g.tuples
  PROVE  t = Tuple(t.object, t.rel, t.subject) /\ t.rel # "assignee"
BY DEF WellFormed, Edge, Tuple

\* The place a yes comes from has the role at its distance.
LEMMA FoundHolds ==
  ASSUME IsFiniteSet(Doc), IsFiniteSet(Group), NEW g, NEW u, Resolves(g, u),
         NEW rel \in Role, NEW d, NEW R, NEW m, Reach(g, rel, d, R, m),
         NEW w \in Work, w.todo # <<>>, InReach(g, rel, R, m, w), Found(g, u, w)
  PROVE  Holds(u, rel, R, m, Cost(g), MaxDepth)
<1> USE Parameters
<1> DEFINE v == w.todo[1]
           n == v.node
<1>1. WellFormed(g) /\ g.tuples = tuples /\ g.members = members
      /\ R \in SUBSET Doc /\ m \in [R -> Nat]
  BY DEF Resolves, Reach
<1>2. /\ Head(w.todo) = v /\ v \in Visit /\ n \in Node /\ v.depth \in Nat /\ v.depth <= MaxDepth + 1
      /\ Len(w.todo) \in Nat \ {0}
  BY <1>1, StepIs
<1>3. Near(g, rel, R, m, n, v.depth)
  BY <1>2 DEF InReach
<1>4. CASE n \in Places(rel, R) /\ Dist(rel, m, n) <= v.depth
  <2>1. /\ n.ns = "item" /\ n.id \in R /\ n.rel \in Ladder /\ Rank(rel) <= Rank(n.rel)
        /\ m[n.id] \in Nat /\ Rank(rel) \in Nat /\ Rank(n.rel) \in Nat
    BY <1>1, <1>4, PlaceIs, DistIs, RankIs
  <2>2. ~Closed(g, n) /\ ~Skips(g, w) /\ Direct(g, u, n)
    BY <1>2, <2>1 DEF Found, Closed
  <2>3. Tuple(n.id, n.rel, u) \in tuples /\ v.depth <= MaxDepth
    BY <1>1, <1>2, <2>1, <2>2 DEF Direct, Skips
  <2>4. n.rel \in Role
    <3>1. Tuple(n.id, n.rel, u).rel # "assignee"
      BY <1>1, <2>3, TupleIs
    <3> QED
      BY <2>1, <3>1 DEF Tuple, Ladder, Role
  <2>5. m[n.id] + Rung(rel, n.rel) <= MaxDepth
    <3>1. Rung(rel, n.rel) = Rank(n.rel) - Rank(rel)
      BY <2>1, <2>4, RungOf
    <3> QED
      BY <1>2, <1>4, <2>1, <2>3, <3>1 DEF Dist
  <2> QED
    BY <2>1, <2>3, <2>4, <2>5 DEF Holds
<1>5. CASE \E x \in Group, k \in Places(rel, R) :
             n = Member(x) /\ x \in Usersets(g, k) /\ Dist(rel, m, k) + 1 <= v.depth
  <2>1. PICK x \in Group, k \in Places(rel, R) :
             n = Member(x) /\ x \in Usersets(g, k) /\ Dist(rel, m, k) + 1 <= v.depth
    BY <1>5
  <2>2. /\ k.ns = "item" /\ k.id \in R /\ k.rel \in Ladder /\ Rank(rel) <= Rank(k.rel)
        /\ m[k.id] \in Nat /\ Rank(rel) \in Nat /\ Rank(k.rel) \in Nat
    BY <1>1, PlaceIs, DistIs, RankIs
  <2>3. PICK t \in tuples : t.object = k.id /\ t.rel = k.rel /\ t.subject = x
    BY <1>1, <2>1 DEF Usersets, Held
  <2>4. Tuple(k.id, k.rel, x) \in tuples /\ k.rel \in Role
    <3>1. t = Tuple(t.object, t.rel, t.subject) /\ t.rel # "assignee"
      BY <1>1, TupleIs
    <3> QED
      BY <2>2, <2>3, <3>1 DEF Ladder, Role
  <2>5. Dist(rel, m, k) = m[k.id] + Rung(rel, k.rel)
    BY <2>2, <2>4, RungOf DEF Dist
  <2>6. n.ns = "group" /\ n.id = x
    BY <2>1 DEF Member
  <2>7. CASE g.closed
    <3>1. <<x, u>> \in members
      BY <1>2, <2>6, <2>7 DEF Found, Closed, Resolves
    <3>2. m[k.id] + Rung(rel, k.rel) + Cost(g) <= MaxDepth
      <4>1. Dist(rel, m, k) \in Nat /\ Cost(g) = 0
        BY <1>1, <2>7, DistIs DEF Cost
      <4> QED
        BY <1>2, <2>1, <2>5, <4>1
    <3> QED
      BY <2>2, <2>4, <3>1, <3>2 DEF Holds
  <2>8. CASE ~g.closed
    <3>1. ~Skips(g, w) /\ Direct(g, u, n)
      BY <1>2, <2>8 DEF Found, Closed
    <3>2. <<x, u>> \in members /\ v.depth <= MaxDepth
      BY <1>1, <1>2, <2>6, <3>1 DEF Direct, Skips
    <3>3. m[k.id] + Rung(rel, k.rel) + Cost(g) <= MaxDepth
      <4>1. Dist(rel, m, k) \in Nat /\ Cost(g) = 1
        BY <1>1, <2>8, DistIs DEF Cost
      <4> QED
        BY <1>2, <2>1, <2>5, <3>2, <4>1
    <3> QED
      BY <2>2, <2>4, <3>2, <3>3 DEF Holds
  <2> QED
    BY <2>7, <2>8
<1> QED
  BY <1>3, <1>4, <1>5 DEF Near

\* A yes is derivable, whatever the budget and the shape of the tree.
LEMMA YesHolds ==
  ASSUME IsFiniteSet(Doc), IsFiniteSet(Group), NEW g, NEW u, Resolves(g, u),
         NEW rel \in Role, NEW d, NEW R, NEW m, Reach(g, rel, d, R, m),
         NEW w \in Work, InReach(g, rel, R, m, w), Answers(g, u)[w]
  PROVE  Holds(u, rel, R, m, Cost(g), MaxDepth)
<1>1. WellFormed(g)
  BY DEF Resolves
<1> DEFINE B == {x \in Work : InReach(g, rel, R, m, x) /\ Answers(g, u)[x]}
<1>2. SUFFICES ASSUME ~Holds(u, rel, R, m, Cost(g), MaxDepth) PROVE FALSE
  OBVIOUS
<1>3. ASSUME NEW x \in B PROVE x.todo # <<>> /\ After(g, x) \in B
  <2>1. x.todo # <<>> /\ (Found(g, u, x) \/ Answers(g, u)[After(g, x)])
    <3>1. Answers(g, u)[x] = (x.todo # <<>> /\ (Found(g, u, x) \/ Answers(g, u)[After(g, x)]))
      BY <1>1, AnswersAre
    <3> QED
      BY <3>1, Zenon
  <2>2. ~Found(g, u, x)
    BY <1>2, <2>1, FoundHolds
  <2>3. InReach(g, rel, R, m, After(g, x)) /\ After(g, x) \in Work
    BY <1>1, <2>1, InReachKept, AfterType
  <2> QED
    BY <2>1, <2>2, <2>3
<1>4. B = {}
  <2> HIDE DEF B
  <2>1. B \in SUBSET Work
    BY DEF B
  <2> QED
    BY <1>1, <1>3, <2>1, Terminates
<1> QED
  BY <1>4

LEMMA BeginIs ==
  ASSUME NEW d \in Doc, NEW rel \in Role
  PROVE  LET w == Begin(Item(d, rel))
         IN  /\ Item(d, rel) \in Node /\ w \in Work /\ Len(w.todo) = 1 /\ w.todo # <<>>
             /\ w.todo[1].node = Item(d, rel) /\ w.todo[1].depth = 0 /\ w.seen = {} /\ w.left = MaxBudget
<1> USE Parameters
<1> DEFINE n == Item(d, rel)
           v == [node |-> n, depth |-> 0]
<1>1. n \in Node
  BY DEF Item, Node, Role
<1>2. v \in Visit
  BY <1>1 DEF Visit
<1>3. v.node = n /\ v.depth = 0
  OBVIOUS
<1> HIDE DEF v, n
<1>4. <<v>> \in Seq(Visit) /\ Len(<<v>>) = 1 /\ <<v>>[1] = v /\ <<v>> # <<>>
  BY <1>2
<1>5. Begin(n) = [todo |-> <<v>>, seen |-> {}, left |-> MaxBudget]
  BY DEF Begin, v
<1>6. Begin(n) \in Work
  BY <1>4, <1>5 DEF Work
<1> QED
  BY <1>1, <1>3, <1>4, <1>5, <1>6 DEF n

LEMMA BeginInReach ==
  ASSUME NEW g, NEW rel \in Role, NEW d \in Doc, NEW R, NEW m, Reach(g, rel, d, R, m)
  PROVE  LET n == Item(d, rel)
         IN  n \in Places(rel, R) /\ Dist(rel, m, n) = 0 /\ InReach(g, rel, R, m, Begin(n))
<1> DEFINE n == Item(d, rel)
           w == Begin(n)
<1>1. d \in R /\ m[d] = 0 /\ Rank(rel) \in Nat
  BY RankIs DEF Reach
<1>2. n \in Places(rel, R) /\ n.id = d /\ n.rel = rel
  BY <1>1 DEF Item, Places, Role, Ladder
<1>3. Dist(rel, m, n) = 0
  BY <1>1, <1>2 DEF Dist
<1>4. Len(w.todo) = 1 /\ w.todo[1].node = n /\ w.todo[1].depth = 0
  BY BeginIs
<1> HIDE DEF n, w
<1>5. Near(g, rel, R, m, w.todo[1].node, w.todo[1].depth)
  BY <1>2, <1>3, <1>4 DEF Near
<1>6. InReach(g, rel, R, m, w)
  BY <1>4, <1>5 DEF InReach
<1> QED
  BY <1>2, <1>3, <1>6 DEF n, w

LEMMA CostIs ==
  ASSUME NEW g, WellFormed(g)
  PROVE  Cost(g) = (IF g.closed THEN 0 ELSE 1) /\ Cost(g) \in {0, 1} /\ g.closed \in BOOLEAN
BY DEF Cost, WellFormed

\* check never answers yes without a reason within MAX_DEPTH: whatever the budget, the
\* shape of the tree, shared ends and cycles included, and the order of the branches
\* (zanzibar.engine.ts, check and its walk).
THEOREM CheckSound ==
  ASSUME IsFiniteSet(Doc), IsFiniteSet(Group), NEW g, NEW u, Resolves(g, u),
         NEW d \in Doc, NEW rel \in Role, Check(g, u, Item(d, rel))
  PROVE  Derivable(u, rel, d, g.closed, MaxDepth)
<1>1. WellFormed(g) /\ g.tuples = tuples /\ MaxDepth \in Nat
  BY Parameters DEF Resolves
<1>2. PICK R, m : Nearest(g, rel, d, R, m)
  BY <1>1, NearestExists
<1>3. Reach(g, rel, d, R, m)
  BY <1>2 DEF Nearest
<1>4. Begin(Item(d, rel)) \in Work /\ InReach(g, rel, R, m, Begin(Item(d, rel)))
  BY <1>3, BeginIs, BeginInReach
<1>5. Answers(g, u)[Begin(Item(d, rel))]
  BY CheckIs, Zenon
<1>6. Holds(u, rel, R, m, Cost(g), MaxDepth)
  BY <1>3, <1>4, <1>5, YesHolds
<1>7. Holds(u, rel, R, m, IF g.closed THEN 0 ELSE 1, MaxDepth)
  BY <1>1, <1>6, CostIs
<1>8. g.closed \in BOOLEAN
  BY <1>1, CostIs
<1> QED
  BY <1>1, <1>2, <1>7, <1>8, DerivableIs

-----------------------------------------------------------------------------
(* A resolution misses nothing *)

\* The places within the depth allowed.
Close(rel, R, m) == {n \in Places(rel, R) : Dist(rel, m, n) <= MaxDepth}

\* What was visited, or is to be visited before entry i.
Before(w, i) == w.seen \cup {w.todo[j].node : j \in 1..(i - 1)}
Known(w)     == Before(w, Len(w.todo) + 1)

\* An entry deeper than its place is a repetition.
InTime(rel, R, m, w) ==
  \A i \in 1..Len(w.todo) :
    w.todo[i].node \in Close(rel, R, m) /\ Dist(rel, m, w.todo[i].node) < w.todo[i].depth =>
      w.todo[i].node \in Before(w, i)

Kept(rel, R, m, w, i, z, k) == \A x \in Close(rel, R, m) : x \in Before(w, i) => x \in Before(z, k)

LEMMA DroppedKept ==
  ASSUME NEW g, NEW rel, NEW R, NEW m \in [R -> Nat], NEW w \in Work, NEW z, Dropped(w, z), Passes(g, w),
         R \in SUBSET Doc, InTime(rel, R, m, w), w.left # 0, w.todo # <<>>, Head(w.todo) = w.todo[1],
         Len(w.todo) \in Nat \ {0}, w.todo[1].depth \in Nat,
         NEW i \in 1..Len(w.todo)
  PROVE  Kept(rel, R, m, w, i + 1, z, i)
<1> USE Parameters
<1> SUFFICES ASSUME NEW x \in Close(rel, R, m), x \in Before(w, i + 1) PROVE x \in Before(z, i)
  BY DEF Kept
<1>1. x \in Places(rel, R) /\ Dist(rel, m, x) <= MaxDepth /\ Dist(rel, m, x) \in Nat /\ x.ns = "item"
  BY PlaceIs, DistIs DEF Close
<1>2. z.seen = w.seen /\ Len(z.todo) = Len(w.todo) - 1 /\ \A j \in 1..Len(z.todo) : z.todo[j] = w.todo[j + 1]
  BY DEF Dropped
<1>3. CASE x \in w.seen
  BY <1>2, <1>3 DEF Before
<1>4. CASE \E j \in 1..i : x = w.todo[j].node
  <2>1. PICK j \in 1..i : x = w.todo[j].node
    BY <1>4
  <2>2. CASE j = 1
    <3>1. CASE x \in w.seen
      BY <1>3, <3>1
    <3>2. CASE x \notin w.seen
      <4>1. Skips(g, w)
        BY <2>1, <2>2, <3>2 DEF Passes
      <4>2. w.todo[1].depth > MaxDepth
        BY <1>1, <2>1, <2>2, <4>1 DEF Skips, Closed
      <4>3. Dist(rel, m, x) < w.todo[1].depth /\ 1 \in 1..Len(w.todo)
        BY <1>1, <4>2
      <4>4. x \in Before(w, 1)
        BY <2>1, <2>2, <4>3 DEF InTime
      <4>5. Before(w, 1) = w.seen
        BY DEF Before
      <4> QED
        BY <3>2, <4>4, <4>5
    <3> QED
      BY <3>1, <3>2
  <2>3. CASE j # 1
    <3>1. j - 1 \in 1..Len(z.todo) /\ j - 1 \in 1..(i - 1) /\ (j - 1) + 1 = j
      BY <1>2, <2>3
    <3>2. z.todo[j - 1] = w.todo[j]
      BY <1>2, <3>1
    <3> QED
      BY <2>1, <3>1, <3>2 DEF Before
  <2> QED
    BY <2>2, <2>3
<1> QED
  BY <1>3, <1>4 DEF Before

LEMMA VisitedKept ==
  ASSUME NEW w, NEW z, NEW b, Visited(w, z, b), Len(b) \in Nat, Len(w.todo) \in Nat \ {0},
         NEW i \in 2..(Len(w.todo) + 1)
  PROVE  Before(w, i) \subseteq Before(z, Len(b) + i - 1)
<1> SUFFICES ASSUME NEW x \in Before(w, i) PROVE x \in Before(z, Len(b) + i - 1)
  OBVIOUS
<1>1. z.seen = w.seen \cup {w.todo[1].node} /\ \A j \in 2..Len(w.todo) : z.todo[Len(b) + j - 1] = w.todo[j]
  BY DEF Visited
<1>2. CASE x \in w.seen
  BY <1>1, <1>2 DEF Before
<1>3. CASE \E j \in 1..(i - 1) : x = w.todo[j].node
  <2>1. PICK j \in 1..(i - 1) : x = w.todo[j].node
    BY <1>3
  <2>2. CASE j = 1
    BY <1>1, <2>1, <2>2 DEF Before
  <2>3. CASE j # 1
    <3> DEFINE l == Len(b) + j - 1
    <3>1. j \in 2..Len(w.todo) /\ l \in 1..(Len(b) + i - 1 - 1)
      BY <2>3
    <3>2. z.todo[l] = w.todo[j]
      BY <1>1, <3>1
    <3> HIDE DEF l
    <3> QED
      BY <2>1, <3>1, <3>2 DEF Before
  <2> QED
    BY <2>2, <2>3
<1> QED
  BY <1>2, <1>3 DEF Before

\* What is left to visit after a step was there before it, or is a branch of the node
\* visited; what was known stays known, as far as it can be reached.
Stays(rel, R, m, w, z, i) == \E j \in 2..Len(w.todo) : z.todo[i] = w.todo[j] /\ Kept(rel, R, m, w, j, z, i)

Added(g, w, z, i) ==
  LET v == w.todo[1]
      b == Branches(g, v.node)
  IN  /\ ~Passes(g, w) /\ i \in 1..Len(b) /\ z.todo[i].node = b[i] /\ z.todo[i].depth = v.depth + 1
      /\ w.seen \subseteq Before(z, i) /\ v.node \in Before(z, i)
      /\ \A k \in 1..(i - 1) : b[k] \in Before(z, i)

LEMMA EntryIs ==
  ASSUME IsFiniteSet(Doc), IsFiniteSet(Group), NEW g, WellFormed(g),
         NEW rel, NEW R \in SUBSET Doc, NEW m \in [R -> Nat],
         NEW w \in Work, w.todo # <<>>, InTime(rel, R, m, w), w.left # 0
  PROVE  LET z == After(g, w)
         IN  /\ \A i \in 1..Len(z.todo) : Stays(rel, R, m, w, z, i) \/ Added(g, w, z, i)
             /\ \A x \in Close(rel, R, m) : x \in Known(w) => x \in Known(z)
             /\ ~Passes(g, w) => \A k \in 1..Len(Branches(g, w.todo[1].node)) : Branches(g, w.todo[1].node)[k] \in Known(z)
<1> DEFINE v == w.todo[1]
           b == Branches(g, v.node)
           z == After(g, w)
           N == Len(w.todo)
<1>1. /\ Head(w.todo) = w.todo[1] /\ v.depth \in Nat /\ N \in Nat \ {0} /\ Len(z.todo) \in Nat /\ Len(b) \in Nat
      /\ Passes(g, w) => Dropped(w, z)
      /\ ~Passes(g, w) => Visited(w, z, b)
  BY StepIs
<1> HIDE DEF b, z, N, v
<1>2. CASE Passes(g, w)
  <2>1. Dropped(w, z)
    BY <1>1, <1>2
  <2>2. \A i \in 1..N : Kept(rel, R, m, w, i + 1, z, i)
    <3>1. Len(w.todo) \in Nat \ {0} /\ w.todo[1].depth \in Nat
      BY <1>1 DEF N, v
    <3> QED
      BY <1>1, <1>2, <2>1, <3>1, DroppedKept DEF N
  <2>3. Len(z.todo) = N - 1 /\ \A i \in 1..Len(z.todo) : z.todo[i] = w.todo[i + 1]
    BY <2>1 DEF Dropped, N
  <2>4. ASSUME NEW i \in 1..Len(z.todo) PROVE Stays(rel, R, m, w, z, i)
    <3>1. i + 1 \in 2..N /\ i \in 1..N
      BY <1>1, <2>3
    <3>2. z.todo[i] = w.todo[i + 1] /\ Kept(rel, R, m, w, i + 1, z, i)
      BY <2>2, <2>3, <3>1
    <3> QED
      BY <3>1, <3>2 DEF Stays, N
  <2>5. ASSUME NEW x \in Close(rel, R, m), x \in Known(w) PROVE x \in Known(z)
    <3>1. N \in 1..N /\ Len(z.todo) + 1 = N
      BY <1>1, <2>3
    <3>2. x \in Before(z, N)
      BY <2>2, <2>5, <3>1 DEF Kept, Known, N
    <3> QED
      BY <3>1, <3>2 DEF Known
  <2> QED
    BY <1>2, <2>4, <2>5 DEF z
<1>3. CASE ~Passes(g, w)
  <2>1. Visited(w, z, b)
    BY <1>1, <1>3
  <2>2. /\ Len(z.todo) = Len(b) + N - 1
        /\ z.seen = w.seen \cup {v.node}
        /\ \A i \in 1..Len(b) : z.todo[i] = [node |-> b[i], depth |-> v.depth + 1]
        /\ \A i \in 2..N : z.todo[Len(b) + i - 1] = w.todo[i]
    BY <2>1 DEF Visited, N, v
  <2>3. \A i \in 2..(N + 1) : Before(w, i) \subseteq Before(z, Len(b) + i - 1)
    BY <1>1, <2>1, VisitedKept DEF N
  <2>4. ASSUME NEW i \in 1..Len(z.todo), ~(i <= Len(b)) PROVE Stays(rel, R, m, w, z, i)
    <3> DEFINE j == i - Len(b) + 1
    <3>1. j \in 2..N /\ Len(b) + j - 1 = i /\ j \in 2..(N + 1)
      BY <1>1, <2>2, <2>4
    <3> HIDE DEF j
    <3>2. z.todo[i] = w.todo[j] /\ Before(w, j) \subseteq Before(z, i)
      BY <2>2, <2>3, <3>1
    <3> QED
      BY <3>1, <3>2 DEF Stays, Kept, N
  <2>5. ASSUME NEW k \in 1..Len(b) PROVE z.todo[k].node = b[k] /\ z.todo[k].depth = v.depth + 1
    <3>1. z.todo[k] = [node |-> b[k], depth |-> v.depth + 1]
      BY <2>2
    <3> QED
      BY ONLY <3>1
  <2>6. ASSUME NEW i \in 1..Len(z.todo), i <= Len(b) PROVE Added(g, w, z, i)
    <3>1. i \in 1..Len(b)
      BY <1>1, <2>6
    <3>2. ASSUME NEW k \in 1..(i - 1) PROVE b[k] \in Before(z, i)
      <4>1. k \in 1..Len(b)
        BY <1>1, <3>1
      <4> QED
        BY <2>5, <4>1 DEF Before
    <3>3. w.seen \subseteq Before(z, i) /\ v.node \in Before(z, i)
      BY <2>2 DEF Before
    <3> QED
      BY <1>3, <2>5, <3>1, <3>2, <3>3 DEF Added, v, b
  <2>7. ASSUME NEW x \in Known(w) PROVE x \in Known(z)
    <3>1. N + 1 \in 2..(N + 1) /\ Len(b) + (N + 1) - 1 = Len(z.todo) + 1
      BY <1>1, <2>2
    <3>2. Before(w, N + 1) \subseteq Before(z, Len(z.todo) + 1)
      BY <2>3, <3>1
    <3> QED
      BY <3>2 DEF Known, N
  <2>8. ASSUME NEW k \in 1..Len(b) PROVE b[k] \in Known(z)
    <3>1. k \in 1..((Len(z.todo) + 1) - 1)
      BY <1>1, <2>2
    <3> QED
      BY <2>5, <3>1 DEF Known, Before
  <2> QED
    BY <2>4, <2>6, <2>7, <2>8 DEF z, b, v
<1> QED
  BY <1>2, <1>3

\* A place comes after those of nearer documents on its rung, and on the rung of editors.
Ahead(R, m, w, i, n) ==
  \A c \in R : m[c] < m[n.id] => /\ Item(c, n.rel) \in Before(w, i)
                                 /\ n.rel = "viewer" => Item(c, "editor") \in Before(w, i)

InOrder(rel, R, m, w) ==
  \A i \in 1..Len(w.todo) :
    w.todo[i].node \in Close(rel, R, m) /\ w.todo[i].node.rel \in Inherited => Ahead(R, m, w, i, w.todo[i].node)

LEMMA CloseIs ==
  ASSUME NEW rel, NEW R \in SUBSET Doc, NEW m \in [R -> Nat], NEW n \in Close(rel, R, m)
  PROVE  /\ n \in Places(rel, R) /\ Dist(rel, m, n) <= MaxDepth /\ Dist(rel, m, n) \in Nat
         /\ n.ns = "item" /\ n.id \in R /\ n.rel \in Ladder /\ n = Item(n.id, n.rel) /\ n \in Node
         /\ m[n.id] \in Nat /\ m[n.id] <= MaxDepth
<1>1. n \in Places(rel, R) /\ Dist(rel, m, n) <= MaxDepth
  BY DEF Close
<1>2. Dist(rel, m, n) \in Nat /\ m[n.id] \in Nat /\ Dist(rel, m, n) >= m[n.id]
  BY <1>1, DistIs
<1>3. n.ns = "item" /\ n.id \in R /\ n.rel \in Ladder /\ n = Item(n.id, n.rel) /\ n \in Node
  BY <1>1, PlaceIs
<1> QED
  BY <1>1, <1>2, <1>3, Parameters

LEMMA LowerClose ==
  ASSUME NEW rel, NEW R \in SUBSET Doc, NEW m \in [R -> Nat], NEW n \in Close(rel, R, m),
         NEW c \in R, m[c] < m[n.id]
  PROVE  /\ Item(c, n.rel) \in Close(rel, R, m)
         /\ n.rel = "viewer" => Item(c, "editor") \in Close(rel, R, m)
<1> USE Parameters
<1>1. PICK x \in Nat, y \in Nat, z \in Nat, s \in Nat :
        x = m[n.id] /\ y = Rank(n.rel) /\ z = Rank(rel) /\ s = m[c] /\ Dist(rel, m, n) = x + y - z
  <2>1. m[n.id] \in Nat /\ m[c] \in Nat
    BY CloseIs
  <2>2. Rank(n.rel) \in Nat /\ Rank(rel) \in Nat
    BY RankIs
  <2> QED
    BY <2>1, <2>2 DEF Dist
<1>2. n \in Places(rel, R) /\ Dist(rel, m, n) <= MaxDepth /\ n.rel \in Ladder /\ z <= y
  BY <1>1, CloseIs, PlaceIs
<1>3. x + y - z <= MaxDepth /\ s < x
  BY <1>1, <1>2
<1>4. Item(c, n.rel) \in Close(rel, R, m)
  <2>1. Item(c, n.rel) \in Places(rel, R) /\ Item(c, n.rel).id = c /\ Item(c, n.rel).rel = n.rel
    BY <1>1, <1>2 DEF Places, Item
  <2>2. Dist(rel, m, Item(c, n.rel)) = s + y - z
    BY <1>1, <2>1 DEF Dist
  <2>3. s + y - z <= MaxDepth
    BY <1>3
  <2> QED
    BY <2>1, <2>2, <2>3 DEF Close
<1>5. ASSUME n.rel = "viewer" PROVE Item(c, "editor") \in Close(rel, R, m)
  <2>1. y = 0 /\ Rank("editor") = 1
    BY <1>1, <1>5 DEF Rank
  <2>2. Item(c, "editor") \in Places(rel, R) /\ Item(c, "editor").id = c /\ Item(c, "editor").rel = "editor"
    BY <1>1, <1>2, <2>1 DEF Places, Item, Ladder
  <2>3. Dist(rel, m, Item(c, "editor")) = s + 1 - z
    BY <1>1, <2>1, <2>2 DEF Dist
  <2>4. s + 1 - z <= MaxDepth
    BY <1>3, <2>1
  <2> QED
    BY <2>2, <2>3, <2>4 DEF Close
<1> QED
  BY <1>4, <1>5

\* What is visited is a place at its distance, or a group.
LEMMA HeadIs ==
  ASSUME IsFiniteSet(Doc), IsFiniteSet(Group), NEW g, WellFormed(g),
         NEW rel, NEW R \in SUBSET Doc, NEW m \in [R -> Nat],
         NEW w \in Work, w.todo # <<>>, InReach(g, rel, R, m, w), InTime(rel, R, m, w), ~Passes(g, w)
  PROVE  LET n == w.todo[1].node
         IN  /\ n \notin w.seen
             /\ \/ n \in Close(rel, R, m) /\ Dist(rel, m, n) = w.todo[1].depth
                \/ \E x \in Group : n = Member(x) /\ Len(Branches(g, n)) = 0
<1> USE Parameters
<1> DEFINE v == w.todo[1]
           n == v.node
<1>1. Head(w.todo) = v /\ v.depth \in Nat /\ Len(w.todo) \in Nat \ {0}
  BY StepIs
<1>2. n \notin w.seen /\ v.depth <= MaxDepth
  BY <1>1 DEF Passes, Skips
<1>3. Near(g, rel, R, m, n, v.depth)
  BY <1>1 DEF InReach
<1>4. CASE n \in Places(rel, R) /\ Dist(rel, m, n) <= v.depth
  <2>1. Dist(rel, m, n) \in Nat
    BY <1>4, DistIs
  <2>2. n \in Close(rel, R, m)
    BY <1>1, <1>2, <1>4, <2>1 DEF Close
  <2>3. Before(w, 1) = w.seen /\ 1 \in 1..Len(w.todo)
    BY <1>1 DEF Before
  <2>4. ~(Dist(rel, m, n) < v.depth)
    BY <1>2, <2>2, <2>3 DEF InTime
  <2> QED
    BY <1>1, <1>2, <1>4, <2>1, <2>2, <2>4
<1>5. CASE \E x \in Group : n = Member(x)
  BY <1>2, <1>5, GroupHasNoBranches
<1> QED
  BY <1>3, <1>4, <1>5 DEF Near

\* The branches of a place that are places: one rung up, or one document on.
RungUp(rel, m, n, b) ==
  /\ b.id = n.id /\ Dist(rel, m, b) = Dist(rel, m, n) + 1
  /\ n.rel = "viewer" => b.rel \in {"editor", "assignee"}
  /\ n.rel # "viewer" => b.rel = "owner"

ParentOn(g, rel, m, n, b, i) ==
  /\ b.rel = n.rel /\ b = Item(b.id, n.rel) /\ n.rel \in Inherited
  /\ \/ m[b.id] < m[n.id]
     \/ m[b.id] = m[n.id] /\ b = n
     \/ m[b.id] = m[n.id] + 1 /\ Dist(rel, m, b) = Dist(rel, m, n) + 1
  /\ n.rel = "viewer" => \E k \in 1..(i - 1) : Branches(g, n)[k] = Item(n.id, "editor")

LEMMA BranchIs ==
  ASSUME IsFiniteSet(Doc), IsFiniteSet(Group), NEW g, WellFormed(g), g.tuples = tuples, OneParent,
         NEW rel \in Role, NEW d, NEW R, NEW m, Reach(g, rel, d, R, m),
         NEW n \in Places(rel, R), NEW i \in 1..Len(Branches(g, n)), Branches(g, n)[i] \in Places(rel, R)
  PROVE  RungUp(rel, m, n, Branches(g, n)[i]) \/ ParentOn(g, rel, m, n, Branches(g, n)[i], i)
<1> DEFINE b == Branches(g, n)[i]
<1>1. R \in SUBSET Doc /\ m \in [R -> Nat]
  BY DEF Reach
<1>2. \/ \E x \in Group : b = Member(x) /\ x \in Usersets(g, n)
      \/ /\ b \in Places(rel, R) /\ b.id = n.id /\ Rank(b.rel) = Rank(n.rel) + 1
         /\ n.rel = "viewer" => b.rel \in {"editor", "assignee"}
         /\ n.rel # "viewer" => b.rel = "owner"
      \/ /\ b \in Places(rel, R) /\ b.rel = n.rel
         /\ n.rel \in Inherited /\ m[b.id] <= m[n.id] + 1
         /\ n.rel = "viewer" => \E k \in 1..(i - 1) : Branches(g, n)[k] = Item(n.id, "editor")
  BY BranchNear
<1> HIDE DEF b
<1>3. b \in Places(rel, R)
  BY DEF b
<1>4. /\ b.ns = "item" /\ b.id \in R /\ n.id \in R /\ b = Item(b.id, b.rel) /\ n = Item(n.id, n.rel)
  BY <1>1, <1>3, PlaceIs
<1>5. PICK x \in Nat, y \in Nat, z \in Nat, s \in Nat :
        x = m[n.id] /\ y = Rank(n.rel) /\ z = Rank(rel) /\ s = m[b.id]
  <2>1. m[n.id] \in Nat /\ m[b.id] \in Nat
    BY <1>1, <1>4
  <2>2. Rank(n.rel) \in Nat /\ Rank(rel) \in Nat
    BY RankIs
  <2> QED
    BY <2>1, <2>2
<1>6. Dist(rel, m, n) = x + y - z
  BY <1>5 DEF Dist
<1>7. CASE \E e \in Group : b = Member(e)
  BY <1>4, <1>7 DEF Member
<1>8. CASE /\ b.id = n.id /\ Rank(b.rel) = Rank(n.rel) + 1
           /\ n.rel = "viewer" => b.rel \in {"editor", "assignee"}
           /\ n.rel # "viewer" => b.rel = "owner"
  <2>1. Dist(rel, m, b) = x + (y + 1) - z
    BY <1>5, <1>8 DEF Dist
  <2>2. x + (y + 1) - z = (x + y - z) + 1
    BY ONLY x \in Nat, y \in Nat, z \in Nat
  <2>3. Dist(rel, m, b) = Dist(rel, m, n) + 1
    BY <1>6, <2>1, <2>2
  <2> QED
    BY <1>8, <2>3 DEF RungUp, b
<1>9. CASE /\ b.rel = n.rel /\ n.rel \in Inherited /\ m[b.id] <= m[n.id] + 1
           /\ n.rel = "viewer" => \E k \in 1..(i - 1) : Branches(g, n)[k] = Item(n.id, "editor")
  <2>1. s < x \/ s = x \/ s = x + 1
    <3>1. s <= x + 1
      BY <1>5, <1>9
    <3> QED
      BY ONLY <3>1, x \in Nat, s \in Nat
  <2>2. CASE s < x
    BY <1>4, <1>5, <1>9, <2>2 DEF ParentOn, b
  <2>3. CASE s = x
    <3>1. b.id = n.id
      <4>1. \A a, c \in R : m[a] = m[c] => a = c
        BY OneDistance
      <4> QED
        BY <1>4, <1>5, <2>3, <4>1
    <3>2. b = n
      BY <1>4, <1>9, <3>1
    <3> QED
      BY <1>4, <1>5, <1>9, <2>3, <3>2 DEF ParentOn, b
  <2>4. CASE s = x + 1
    <3>1. Dist(rel, m, b) = s + y - z
      BY <1>5, <1>9 DEF Dist
    <3>2. s + y - z = (x + y - z) + 1
      BY ONLY <2>4, x \in Nat, y \in Nat, z \in Nat
    <3>3. Dist(rel, m, b) = Dist(rel, m, n) + 1 /\ m[b.id] = m[n.id] + 1
      BY <1>5, <1>6, <2>4, <3>1, <3>2
    <3> QED
      BY <1>4, <1>9, <3>3 DEF ParentOn, b
  <2> QED
    BY <2>1, <2>2, <2>3, <2>4
<1> QED
  BY <1>2, <1>7, <1>8, <1>9

LEMMA InTimeKept ==
  ASSUME IsFiniteSet(Doc), IsFiniteSet(Group), NEW g, WellFormed(g), g.tuples = tuples, OneParent,
         NEW rel \in Role, NEW d, NEW R, NEW m, Reach(g, rel, d, R, m), NEW w \in Work, w.todo # <<>>, w.left # 0,
         InReach(g, rel, R, m, w), InTime(rel, R, m, w), InOrder(rel, R, m, w)
  PROVE  InTime(rel, R, m, After(g, w))
<1> DEFINE v == w.todo[1]
           n == v.node
           q == Branches(g, n)
           z == After(g, w)
<1>1. R \in SUBSET Doc /\ m \in [R -> Nat]
  BY DEF Reach
<1>2. \A i \in 1..Len(z.todo) : Stays(rel, R, m, w, z, i) \/ Added(g, w, z, i)
  BY <1>1, EntryIs
<1>3. v.depth \in Nat /\ 1 \in 1..Len(w.todo)
  BY StepIs
<1> HIDE DEF z
<1> SUFFICES ASSUME NEW i \in 1..Len(z.todo), z.todo[i].node \in Close(rel, R, m),
                    Dist(rel, m, z.todo[i].node) < z.todo[i].depth
             PROVE  z.todo[i].node \in Before(z, i)
  BY DEF InTime, z
<1>4. CASE Stays(rel, R, m, w, z, i)
  <2>1. PICK j \in 2..Len(w.todo) : z.todo[i] = w.todo[j] /\ Kept(rel, R, m, w, j, z, i)
    BY <1>4 DEF Stays
  <2>2. w.todo[j].node \in Before(w, j)
    BY <2>1 DEF InTime
  <2> QED
    BY <2>1, <2>2 DEF Kept
<1>5. CASE Added(g, w, z, i)
  <2> DEFINE b == q[i]
  <2>1. /\ ~Passes(g, w) /\ i \in 1..Len(q) /\ z.todo[i].node = b /\ z.todo[i].depth = v.depth + 1
        /\ w.seen \subseteq Before(z, i) /\ n \in Before(z, i)
    BY <1>5 DEF Added
  <2>2. \/ n \in Close(rel, R, m) /\ Dist(rel, m, n) = v.depth
        \/ \E x \in Group : n = Member(x) /\ Len(q) = 0
    BY <1>1, <2>1, HeadIs
  <2>3. n \in Close(rel, R, m) /\ Dist(rel, m, n) = v.depth
    BY <2>1, <2>2
  <2>4. n \in Places(rel, R) /\ b \in Places(rel, R)
    BY <2>1, <2>3 DEF Close
  <2>5. RungUp(rel, m, n, b) \/ ParentOn(g, rel, m, n, b, i)
    BY <2>1, <2>4, BranchIs
  <2> HIDE DEF b, q, n, v
  <2>6. Dist(rel, m, b) < v.depth + 1
    BY <2>1
  <2>7. Dist(rel, m, b) # Dist(rel, m, n) + 1
    BY <2>3, <2>6, <1>3
  <2>8. /\ b.rel = n.rel /\ b = Item(b.id, n.rel) /\ n.rel \in Inherited
        /\ m[b.id] < m[n.id] \/ b = n
    BY <2>5, <2>7 DEF RungUp, ParentOn
  <2>9. CASE m[b.id] < m[n.id]
    <3>1. Ahead(R, m, w, 1, n)
      BY <1>3, <2>3, <2>8 DEF InOrder, n, v
    <3>2. b.id \in R
      BY <1>1, <2>4, PlaceIs
    <3>3. b \in Before(w, 1)
      BY <2>8, <2>9, <3>1, <3>2 DEF Ahead
    <3>4. Before(w, 1) = w.seen
      BY DEF Before
    <3> QED
      BY <2>1, <3>3, <3>4
  <2>10. CASE b = n
    BY <2>1, <2>10
  <2> QED
    BY <2>8, <2>9, <2>10
<1> QED
  BY <1>2, <1>4, <1>5

LEMMA InOrderKept ==
  ASSUME IsFiniteSet(Doc), IsFiniteSet(Group), NEW g, WellFormed(g), g.tuples = tuples, OneParent,
         NEW rel \in Role, NEW d, NEW R, NEW m, Reach(g, rel, d, R, m), NEW w \in Work, w.todo # <<>>, w.left # 0,
         InReach(g, rel, R, m, w), InTime(rel, R, m, w), InOrder(rel, R, m, w)
  PROVE  InOrder(rel, R, m, After(g, w))
<1> DEFINE v == w.todo[1]
           n == v.node
           q == Branches(g, n)
           z == After(g, w)
<1>1. R \in SUBSET Doc /\ m \in [R -> Nat]
  BY DEF Reach
<1>2. \A i \in 1..Len(z.todo) : Stays(rel, R, m, w, z, i) \/ Added(g, w, z, i)
  BY <1>1, EntryIs
<1>3. v.depth \in Nat /\ 1 \in 1..Len(w.todo)
  BY StepIs
<1> HIDE DEF z
<1> SUFFICES ASSUME NEW i \in 1..Len(z.todo), z.todo[i].node \in Close(rel, R, m), z.todo[i].node.rel \in Inherited,
                    NEW c \in R, m[c] < m[z.todo[i].node.id]
             PROVE  /\ Item(c, z.todo[i].node.rel) \in Before(z, i)
                    /\ z.todo[i].node.rel = "viewer" => Item(c, "editor") \in Before(z, i)
  BY DEF InOrder, Ahead, z
<1>4. CASE Stays(rel, R, m, w, z, i)
  <2>1. PICK j \in 2..Len(w.todo) : z.todo[i] = w.todo[j] /\ Kept(rel, R, m, w, j, z, i)
    BY <1>4 DEF Stays
  <2> DEFINE y == z.todo[i].node
  <2>2. y = w.todo[j].node /\ j \in 1..Len(w.todo)
    BY <2>1
  <2>3. Ahead(R, m, w, j, y)
    BY <2>2 DEF InOrder
  <2>4. Item(c, y.rel) \in Before(w, j) /\ (y.rel = "viewer" => Item(c, "editor") \in Before(w, j))
    BY <2>3 DEF Ahead
  <2>5. Item(c, y.rel) \in Close(rel, R, m) /\ (y.rel = "viewer" => Item(c, "editor") \in Close(rel, R, m))
    BY <1>1, LowerClose
  <2> QED
    BY <2>1, <2>4, <2>5 DEF Kept
<1>5. CASE Added(g, w, z, i)
  <2> DEFINE b == q[i]
  <2>1. /\ ~Passes(g, w) /\ i \in 1..Len(q) /\ z.todo[i].node = b
        /\ w.seen \subseteq Before(z, i) /\ n \in Before(z, i)
        /\ \A k \in 1..(i - 1) : q[k] \in Before(z, i)
    BY <1>5 DEF Added
  <2>2. \/ n \in Close(rel, R, m) /\ Dist(rel, m, n) = v.depth
        \/ \E x \in Group : n = Member(x) /\ Len(q) = 0
    BY <1>1, <2>1, HeadIs
  <2>3. n \in Close(rel, R, m)
    BY <2>1, <2>2
  <2>4. n \in Places(rel, R) /\ b \in Places(rel, R)
    BY <2>1, <2>3 DEF Close
  <2>5. RungUp(rel, m, n, b) \/ ParentOn(g, rel, m, n, b, i)
    BY <2>1, <2>4, BranchIs
  <2> HIDE DEF b, n, v
  <2>p. n.rel \in Ladder /\ n.id \in R /\ n = Item(n.id, n.rel) /\ m[n.id] \in Nat
    BY <1>1, <2>3, CloseIs
  <2>6. n.rel \in Ladder /\ n.id \in R /\ n = Item(n.id, n.rel) /\ m[n.id] \in Nat /\ m[c] \in Nat
    BY <1>1, <2>p
  <2>7. ASSUME n.rel \in Inherited, m[c] < m[n.id]
        PROVE  Item(c, n.rel) \in Before(z, i) /\ (n.rel = "viewer" => Item(c, "editor") \in Before(z, i))
    <3>1. Ahead(R, m, w, 1, n)
      BY <1>3, <2>3, <2>7 DEF InOrder, n, v
    <3>2. Before(w, 1) = w.seen
      BY DEF Before
    <3> QED
      BY <2>1, <2>7, <3>1, <3>2 DEF Ahead
  <2>8. CASE RungUp(rel, m, n, b)
    <3>1. b.id = n.id /\ n.rel = "viewer" /\ b.rel = "editor"
      BY <2>1, <2>6, <2>8 DEF RungUp, Ladder, Inherited
    <3>2. n.rel \in Inherited /\ m[c] < m[n.id]
      BY <2>1, <3>1 DEF Inherited
    <3> QED
      BY <2>1, <2>7, <3>1, <3>2
  <2>9. CASE ParentOn(g, rel, m, n, b, i)
    <3>1. /\ b.rel = n.rel /\ n.rel \in Inherited
          /\ n.rel = "viewer" => \E k \in 1..(i - 1) : q[k] = Item(n.id, "editor")
          /\ m[b.id] < m[n.id] \/ m[b.id] = m[n.id] \/ m[b.id] = m[n.id] + 1
      BY <2>9 DEF ParentOn, q
    <3>2. m[c] < m[b.id]
      BY <2>1
    <3>3. m[c] < m[n.id] \/ m[c] = m[n.id]
      <4>1. m[b.id] \in Nat
        BY <1>1, <2>4, DistIs
      <4> QED
        BY <2>6, <3>1, <3>2, <4>1
    <3>4. CASE m[c] < m[n.id]
      BY <2>1, <2>7, <3>1, <3>4
    <3>5. CASE m[c] = m[n.id]
      <4>1. \A a, e \in R : m[a] = m[e] => a = e
        BY OneDistance
      <4>2. c = n.id
        BY <2>6, <3>5, <4>1
      <4>3. Item(c, n.rel) \in Before(z, i)
        BY <2>1, <2>6, <4>2
      <4>4. n.rel = "viewer" => Item(c, "editor") \in Before(z, i)
        BY <2>1, <3>1, <4>2
      <4> QED
        BY <2>1, <3>1, <4>3, <4>4
    <3> QED
      BY <3>3, <3>4, <3>5
  <2> QED
    BY <2>5, <2>8, <2>9
<1> QED
  BY <1>2, <1>4, <1>5

\* The places a visited one leads to are known, and none visited has the subject.
Explored(g, rel, R, m, w) ==
  \A n \in w.seen \cap Places(rel, R) : \A i \in 1..Len(Branches(g, n)) :
    Branches(g, n)[i] \in Close(rel, R, m) => Branches(g, n)[i] \in Known(w)

Refused(g, u, w) == \A n \in w.seen : ~Direct(g, u, n)

\* A group of a visited place was refused, is too deep, or is still to be asked.
GroupWaits(g, rel, m, w, n, x) ==
  \/ g.closed /\ x \notin g.closure
  \/ ~g.closed /\ Dist(rel, m, n) + 1 > MaxDepth
  \/ ~g.closed /\ Member(x) \in w.seen
  \/ \E i \in 1..Len(w.todo) : w.todo[i].node = Member(x) /\ w.todo[i].depth <= Dist(rel, m, n) + 1

GroupsWait(g, rel, R, m, w) ==
  \A n \in w.seen \cap Places(rel, R) : \A x \in Usersets(g, n) : GroupWaits(g, rel, m, w, n, x)

LEMMA SeenIs ==
  ASSUME IsFiniteSet(Doc), IsFiniteSet(Group), NEW g, WellFormed(g), NEW w \in Work, w.todo # <<>>
  PROVE  /\ w.seen \subseteq After(g, w).seen
         /\ Passes(g, w) => After(g, w).seen = w.seen
         /\ ~Passes(g, w) => After(g, w).seen = w.seen \cup {w.todo[1].node}
<1> DEFINE z == After(g, w)
           q == Branches(g, w.todo[1].node)
<1>1. (Passes(g, w) => Dropped(w, z)) /\ (~Passes(g, w) => Visited(w, z, q))
  BY StepIs
<1> HIDE DEF z, q
<1>2. (Passes(g, w) => z.seen = w.seen) /\ (~Passes(g, w) => z.seen = w.seen \cup {w.todo[1].node})
  BY <1>1 DEF Dropped, Visited
<1> QED
  BY <1>2 DEF z

LEMMA ExploredKept ==
  ASSUME IsFiniteSet(Doc), IsFiniteSet(Group), NEW g, WellFormed(g),
         NEW rel, NEW R \in SUBSET Doc, NEW m \in [R -> Nat],
         NEW w \in Work, w.todo # <<>>, InTime(rel, R, m, w), w.left # 0, Explored(g, rel, R, m, w)
  PROVE  Explored(g, rel, R, m, After(g, w))
<1> DEFINE z == After(g, w)
           n == w.todo[1].node
<1>1. /\ \A x \in Close(rel, R, m) : x \in Known(w) => x \in Known(z)
      /\ ~Passes(g, w) => \A k \in 1..Len(Branches(g, n)) : Branches(g, n)[k] \in Known(z)
  BY EntryIs
<1>2. (Passes(g, w) => z.seen = w.seen) /\ (~Passes(g, w) => z.seen = w.seen \cup {n})
  BY SeenIs
<1> HIDE DEF z, n
<1>3. SUFFICES ASSUME NEW p \in z.seen \cap Places(rel, R), NEW i \in 1..Len(Branches(g, p)),
                      Branches(g, p)[i] \in Close(rel, R, m)
               PROVE  Branches(g, p)[i] \in Known(z)
  BY DEF Explored, z
<1>4. CASE p \in w.seen
  <2>1. Branches(g, p)[i] \in Known(w)
    BY <1>3, <1>4 DEF Explored
  <2> QED
    BY <1>1, <1>3, <2>1
<1>5. CASE p \notin w.seen
  <2>1. ~Passes(g, w) /\ p = n
    BY <1>2, <1>5
  <2> QED
    BY <1>1, <2>1
<1> QED
  BY <1>4, <1>5

LEMMA RefusedKept ==
  ASSUME IsFiniteSet(Doc), IsFiniteSet(Group), NEW g, WellFormed(g), NEW u,
         NEW w \in Work, w.todo # <<>>, ~Found(g, u, w), Refused(g, u, w)
  PROVE  Refused(g, u, After(g, w))
<1> DEFINE n == w.todo[1].node
<1>1. (Passes(g, w) => After(g, w).seen = w.seen) /\ (~Passes(g, w) => After(g, w).seen = w.seen \cup {n})
  BY SeenIs
<1>2. Head(w.todo) = w.todo[1]
  BY StepIs
<1>3. ASSUME ~Passes(g, w) PROVE ~Direct(g, u, n)
  BY <1>2, <1>3 DEF Passes, Skips, Found
<1> QED
  BY <1>1, <1>3 DEF Refused

LEMMA GroupsWaitKept ==
  ASSUME IsFiniteSet(Doc), IsFiniteSet(Group), NEW g, WellFormed(g), NEW u,
         NEW rel, NEW R \in SUBSET Doc, NEW m \in [R -> Nat],
         NEW w \in Work, w.todo # <<>>, ~Found(g, u, w), w.left # 0,
         InReach(g, rel, R, m, w), InTime(rel, R, m, w), GroupsWait(g, rel, R, m, w)
  PROVE  GroupsWait(g, rel, R, m, After(g, w))
<1> USE Parameters
<1> DEFINE z == After(g, w)
           v == w.todo[1]
           q == Branches(g, v.node)
<1>1. /\ Head(w.todo) = v /\ v.node \in Node /\ v.depth \in Nat /\ Len(w.todo) \in Nat \ {0}
      /\ Len(z.todo) \in Nat /\ Len(q) \in Nat
      /\ Passes(g, w) => Dropped(w, z)
      /\ ~Passes(g, w) => Visited(w, z, q)
  BY StepIs
<1>2. /\ w.seen \subseteq z.seen
      /\ (Passes(g, w) => z.seen = w.seen) /\ (~Passes(g, w) => z.seen = w.seen \cup {v.node})
  BY SeenIs
<1> HIDE DEF z, q, v
<1>3. ASSUME NEW i \in 2..Len(w.todo) PROVE \E j \in 1..Len(z.todo) : z.todo[j] = w.todo[i]
  <2>1. CASE Passes(g, w)
    <3>1. i - 1 \in 1..Len(z.todo) /\ z.todo[i - 1] = w.todo[(i - 1) + 1] /\ (i - 1) + 1 = i
      BY <1>1, <2>1 DEF Dropped
    <3> QED
      BY <3>1
  <2>2. CASE ~Passes(g, w)
    <3>1. Len(q) + i - 1 \in 1..Len(z.todo) /\ z.todo[Len(q) + i - 1] = w.todo[i]
      BY <1>1, <2>2 DEF Visited
    <3> QED
      BY <3>1
  <2> QED
    BY <2>1, <2>2
<1> SUFFICES ASSUME NEW n \in z.seen \cap Places(rel, R), NEW x \in Usersets(g, n)
             PROVE  GroupWaits(g, rel, m, z, n, x)
  BY DEF GroupsWait, z
<1>4. Dist(rel, m, n) \in Nat
  BY DistIs
<1>5. CASE n \in w.seen
  <2>1. GroupWaits(g, rel, m, w, n, x)
    BY <1>5 DEF GroupsWait
  <2>2. CASE \E i \in 1..Len(w.todo) : w.todo[i].node = Member(x) /\ w.todo[i].depth <= Dist(rel, m, n) + 1
    <3>1. PICK i \in 1..Len(w.todo) : w.todo[i].node = Member(x) /\ w.todo[i].depth <= Dist(rel, m, n) + 1
      BY <2>2
    <3>2. CASE i = 1
      <4>1. v.node = Member(x) /\ v.depth <= Dist(rel, m, n) + 1
        BY <3>1, <3>2 DEF v
      <4>2. v.node.ns = "group" /\ v.node.id = x
        BY <4>1 DEF Member
      <4>3. CASE g.closed
        <5>1. x \notin g.closure
          BY <1>1, <4>2, <4>3 DEF Found, Closed
        <5> QED
          BY <4>3, <5>1 DEF GroupWaits
      <4>4. CASE ~g.closed /\ ~Passes(g, w)
        BY <1>2, <4>1, <4>4 DEF GroupWaits
      <4>5. CASE ~g.closed /\ Passes(g, w)
        <5>1. v.node \in w.seen \/ v.depth > MaxDepth
          BY <1>1, <4>5 DEF Passes, Skips, Closed, v
        <5>2. v.node \in z.seen \/ Dist(rel, m, n) + 1 > MaxDepth
          BY <1>1, <1>2, <1>4, <4>1, <5>1
        <5> QED
          BY <4>1, <4>5, <5>2 DEF GroupWaits
      <4> QED
        BY <4>3, <4>4, <4>5
    <3>3. CASE i # 1
      <4>1. i \in 2..Len(w.todo)
        BY <1>1, <3>3
      <4> QED
        BY <1>3, <3>1, <4>1 DEF GroupWaits
    <3> QED
      BY <3>2, <3>3
  <2> QED
    BY <1>2, <2>1, <2>2 DEF GroupWaits
<1>6. CASE n \notin w.seen
  <2>1. ~Passes(g, w) /\ n = v.node
    BY <1>2, <1>6
  <2>2. n.ns = "item"
    BY PlaceIs
  <2>3. Dist(rel, m, n) = v.depth
    <3>1. \/ n \in Close(rel, R, m) /\ Dist(rel, m, n) = v.depth
          \/ \E y \in Group : n = Member(y)
      BY <2>1, HeadIs DEF v
    <3> QED
      BY <2>2, <3>1 DEF Member
  <2>4. PICK k \in 1..Len(q) : q[k] = Member(x)
    <3>1. Branched(g, n, Member(x))
      BY <1>1, <2>1, BranchesAre
    <3> QED
      BY <2>1, <3>1 DEF Branched, q
  <2>5. k \in 1..Len(z.todo) /\ z.todo[k] = [node |-> q[k], depth |-> v.depth + 1]
    BY <1>1, <2>1 DEF Visited, v
  <2>6. z.todo[k].node = Member(x) /\ z.todo[k].depth = v.depth + 1
    BY <2>4, <2>5
  <2>7. z.todo[k].depth <= Dist(rel, m, n) + 1
    BY <1>1, <2>3, <2>6
  <2> QED
    BY <2>5, <2>6, <2>7 DEF GroupWaits
<1> QED
  BY <1>5, <1>6

-----------------------------------------------------------------------------
(* The budget *)

\* Every rung at every distance is visited once, and with at most one parent it leaves
\* its groups, two rungs and the parent to visit.
Roomy == MaxBudget >= 1 + (Cardinality(Group) + 3) * (4 * (MaxDepth + 1))

Slots(R, m, seen) == {s \in (0..MaxDepth) \X Ladder : \A a \in R : m[a] = s[1] => Item(a, s[2]) \notin seen}

Affords(R, m, w) == w.left >= Len(w.todo) + (Cardinality(Group) + 3) * Cardinality(Slots(R, m, w.seen))

LEMMA Times ==
  ASSUME NEW c \in Nat, NEW a \in Nat, NEW b \in Nat
  PROVE  /\ c * a \in Nat
         /\ a <= b => c * a <= c * b
         /\ a + 1 <= b => c * a + c <= c * b
<1>1. c * a \in Nat /\ c * b \in Nat
  OBVIOUS
<1>2. ASSUME NEW e \in Nat, b = a + e PROVE c * b = c * a + c * e /\ c * e \in Nat
  BY <1>2
<1>3. ASSUME a <= b PROVE c * a <= c * b
  <2>1. b - a \in Nat /\ b = a + (b - a)
    BY <1>3
  <2>2. c * b = c * a + c * (b - a) /\ c * (b - a) \in Nat
    BY <1>2, <2>1
  <2> QED
    BY <1>1, <2>2
<1>4. ASSUME a + 1 <= b PROVE c * a + c <= c * b
  <2>1. b - (a + 1) \in Nat /\ b = (a + 1) + (b - (a + 1))
    BY <1>4
  <2>2. c * b = c * (a + 1) + c * (b - (a + 1)) /\ c * (b - (a + 1)) \in Nat
    BY <2>1
  <2>3. c * (a + 1) = c * a + c
    OBVIOUS
  <2> QED
    BY <1>1, <2>2, <2>3
<1> QED
  BY <1>1, <1>3, <1>4

LEMMA LadderIs ==
  /\ IsFiniteSet((0..MaxDepth) \X Ladder) /\ Cardinality((0..MaxDepth) \X Ladder) = 4 * (MaxDepth + 1)
  /\ \A R, m, seen : /\ IsFiniteSet(Slots(R, m, seen)) /\ Cardinality(Slots(R, m, seen)) \in Nat
                     /\ Cardinality(Slots(R, m, seen)) <= 4 * (MaxDepth + 1)
<1> USE Parameters
<1>1. IsFiniteSet({"viewer"}) /\ Cardinality({"viewer"}) = 1
  BY FS_Singleton
<1>2. IsFiniteSet({"viewer", "editor"}) /\ Cardinality({"viewer", "editor"}) = 2
  <2> DEFINE S == {"viewer"}
  <2>1. S \cup {"editor"} = {"viewer", "editor"} /\ "editor" \notin S
    OBVIOUS
  <2>2. IsFiniteSet(S) /\ Cardinality(S) = 1
    BY <1>1
  <2> HIDE DEF S
  <2>3. IsFiniteSet(S \cup {"editor"}) /\ Cardinality(S \cup {"editor"}) = 2
    BY <2>1, <2>2, FS_AddElement
  <2> QED
    BY <2>1, <2>3, Zenon
<1>3. IsFiniteSet({"viewer", "editor", "assignee"}) /\ Cardinality({"viewer", "editor", "assignee"}) = 3
  <2> DEFINE S == {"viewer", "editor"}
  <2>1. S \cup {"assignee"} = {"viewer", "editor", "assignee"} /\ "assignee" \notin S
    OBVIOUS
  <2>2. IsFiniteSet(S) /\ Cardinality(S) = 2
    BY <1>2
  <2> HIDE DEF S
  <2>3. IsFiniteSet(S \cup {"assignee"}) /\ Cardinality(S \cup {"assignee"}) = 3
    BY <2>1, <2>2, FS_AddElement
  <2> QED
    BY <2>1, <2>3, Zenon
<1>4. IsFiniteSet(Ladder) /\ Cardinality(Ladder) = 4
  <2> DEFINE S == {"viewer", "editor", "assignee"}
  <2>1. S \cup {"owner"} = Ladder /\ "owner" \notin S
    BY DEF Ladder
  <2>2. IsFiniteSet(S) /\ Cardinality(S) = 3
    BY <1>3
  <2> HIDE DEF S
  <2> QED
    BY <2>1, <2>2, FS_AddElement
<1>5. IsFiniteSet(0..MaxDepth) /\ Cardinality(0..MaxDepth) = MaxDepth + 1
  BY FS_Interval
<1>6. IsFiniteSet((0..MaxDepth) \X Ladder) /\ Cardinality((0..MaxDepth) \X Ladder) = (MaxDepth + 1) * 4
  <2> DEFINE S == 0..MaxDepth
             T == Ladder
  <2>1. IsFiniteSet(S) /\ IsFiniteSet(T) /\ Cardinality(S) = MaxDepth + 1 /\ Cardinality(T) = 4
    BY <1>4, <1>5
  <2> HIDE DEF S, T
  <2>2. IsFiniteSet(S \X T) /\ Cardinality(S \X T) = Cardinality(S) * Cardinality(T)
    BY <2>1, FS_Product
  <2>3. IsFiniteSet(S \X T) /\ Cardinality(S \X T) = (MaxDepth + 1) * 4
    BY <2>1, <2>2
  <2> QED
    BY <2>3 DEF S, T
<1>7. (MaxDepth + 1) * 4 = 4 * (MaxDepth + 1)
  OBVIOUS
<1>8. ASSUME NEW R, NEW m, NEW seen
      PROVE  /\ IsFiniteSet(Slots(R, m, seen)) /\ Cardinality(Slots(R, m, seen)) \in Nat
             /\ Cardinality(Slots(R, m, seen)) <= 4 * (MaxDepth + 1)
  <2>1. Slots(R, m, seen) \in SUBSET ((0..MaxDepth) \X Ladder)
    BY DEF Slots
  <2> QED
    BY <1>6, <1>7, <2>1, FS_Subset, FS_CardinalityType
<1> QED
  BY <1>6, <1>7, <1>8

\* A place leaves at most its groups, two rungs and one parent to visit.
LEMMA FewBranches ==
  ASSUME IsFiniteSet(Doc), IsFiniteSet(Group), NEW g, WellFormed(g), g.tuples = tuples, OneParent,
         NEW n \in Node, n.id \in Doc
  PROVE  Len(Branches(g, n)) <= Cardinality(Group) + 3
<1> DEFINE C == {Item(p, n.rel) : p \in Parents(g, n)}
<1>1. \A p, q \in Parents(g, n) : p = q
  <2>1. \A s, t \in g.tuples : s.object = n.id /\ t.object = n.id /\ s.rel = "parent_item" /\ t.rel = "parent_item" =>
                                 s.subject = t.subject
    BY DEF OneParent
  <2>2. ASSUME NEW p \in Parents(g, n) PROVE \E t \in g.tuples : t.object = n.id /\ t.rel = "parent_item" /\ p = t.subject
    <3>1. Parents(g, n) \subseteq ParentsOf(g, n.id)
      <4>1. ASSUME n.ns = "item" PROVE n = Item(n.id, n.rel)
        BY <4>1 DEF Node, Item
      <4>2. CASE n.ns = "item"
        BY <4>1, <4>2, ParentsAre
      <4>3. CASE n.ns # "item"
        BY <4>3 DEF Parents
      <4> QED
        BY <4>2, <4>3
    <3> QED
      BY <3>1 DEF ParentsOf
  <2> QED
    BY <2>1, <2>2
<1>2. IsFiniteSet(C) /\ Cardinality(C) \in Nat /\ Cardinality(C) <= 1
  <2>1. CASE Parents(g, n) = {}
    <3>1. C = {}
      BY <2>1
    <3> HIDE DEF C
    <3> QED
      BY <3>1, FS_EmptySet
  <2>2. CASE Parents(g, n) # {}
    <3>1. PICK p \in Parents(g, n) : TRUE
      BY <2>2
    <3>2. C = {Item(p, n.rel)}
      BY <1>1, <3>1
    <3> HIDE DEF C
    <3>3. IsFiniteSet({Item(p, n.rel)}) /\ Cardinality({Item(p, n.rel)}) = 1
      BY FS_Singleton
    <3> QED
      BY <3>2, <3>3
  <2> QED
    BY <2>1, <2>2
<1>3. /\ Len(Branches(g, n)) \in Nat /\ Cardinality(Group) \in Nat
      /\ Len(Branches(g, n)) <= Cardinality(Group) + 2 + Cardinality(C)
  BY BranchesAre
<1> HIDE DEF C
<1> QED
  BY <1>2, <1>3

\* A visit uses up a slot, and no slot comes back.
LEMMA SlotsShrink ==
  ASSUME NEW g, g.tuples = tuples, OneParent, NEW rel \in Role, NEW d, NEW R, NEW m, Reach(g, rel, d, R, m), NEW seen
  PROVE  /\ \A n : Cardinality(Slots(R, m, seen \cup {n})) <= Cardinality(Slots(R, m, seen))
         /\ \A n \in Close(rel, R, m) \ seen :
              Cardinality(Slots(R, m, seen \cup {n})) + 1 <= Cardinality(Slots(R, m, seen))
<1> DEFINE A == Slots(R, m, seen)
<1>1. R \in SUBSET Doc /\ m \in [R -> Nat]
  BY DEF Reach
<1>2. IsFiniteSet(A) /\ Cardinality(A) \in Nat
  BY LadderIs
<1>3. ASSUME NEW n PROVE Slots(R, m, seen \cup {n}) \in SUBSET A
  BY DEF Slots
<1>4. ASSUME NEW n \in Close(rel, R, m) \ seen
      PROVE  Cardinality(Slots(R, m, seen \cup {n})) + 1 <= Cardinality(A)
  <2> DEFINE s == <<m[n.id], n.rel>>
             B == Slots(R, m, seen \cup {n})
  <2>1. n = Item(n.id, n.rel) /\ n.id \in R /\ n.rel \in Ladder /\ m[n.id] \in Nat /\ m[n.id] <= MaxDepth
    BY <1>1, CloseIs
  <2>2. \A a, c \in R : m[a] = m[c] => a = c
    BY OneDistance
  <2>3. s \in (0..MaxDepth) \X Ladder /\ s[1] = m[n.id] /\ s[2] = n.rel
    BY <2>1, Parameters
  <2> HIDE DEF s
  <2>4. s \in A
    <3>1. \A a \in R : m[a] = s[1] => Item(a, s[2]) = n
      BY <2>1, <2>2, <2>3
    <3> QED
      BY <2>3, <3>1 DEF Slots
  <2>5. s \notin B
    <3>1. m[n.id] = s[1] /\ Item(n.id, s[2]) \in seen \cup {n}
      BY <2>1, <2>3
    <3> QED
      BY <2>1, <3>1 DEF Slots
  <2>6. B \in SUBSET A
    BY <1>3
  <2> HIDE DEF A, B
  <2>7. B \in SUBSET (A \ {s})
    BY <2>5, <2>6
  <2>8. IsFiniteSet(A \ {s}) /\ Cardinality(A \ {s}) = Cardinality(A) - 1
    BY <1>2, <2>4, FS_RemoveElement
  <2>9. Cardinality(B) <= Cardinality(A \ {s}) /\ Cardinality(B) \in Nat
    BY <2>7, <2>8, FS_Subset, FS_CardinalityType
  <2>10. Cardinality(B) + 1 <= Cardinality(A)
    BY <1>2, <2>8, <2>9
  <2> QED
    BY <2>10 DEF A, B
<1> HIDE DEF A
<1>5. \A n : Cardinality(Slots(R, m, seen \cup {n})) <= Cardinality(A)
  BY <1>2, <1>3, FS_Subset
<1> QED
  BY <1>4, <1>5 DEF A

LEMMA AffordsKept ==
  ASSUME IsFiniteSet(Doc), IsFiniteSet(Group), NEW g, WellFormed(g), g.tuples = tuples, OneParent,
         NEW rel \in Role, NEW d, NEW R, NEW m, Reach(g, rel, d, R, m), NEW w \in Work, w.todo # <<>>,
         InReach(g, rel, R, m, w), InTime(rel, R, m, w), Affords(R, m, w)
  PROVE  w.left # 0 /\ Affords(R, m, After(g, w))
<1> USE Parameters
<1> DEFINE z == After(g, w)
           n == w.todo[1].node
           q == Branches(g, n)
           c == Cardinality(Group) + 3
           a == Cardinality(Slots(R, m, w.seen))
           e == Cardinality(Slots(R, m, z.seen))
<1>1. /\ Len(w.todo) \in Nat \ {0} /\ Len(z.todo) \in Nat /\ Len(q) \in Nat /\ n \in Node
      /\ Passes(g, w) => Dropped(w, z)
      /\ ~Passes(g, w) => Visited(w, z, q)
  BY StepIs
<1>2. R \in SUBSET Doc /\ m \in [R -> Nat] /\ w.left \in Nat
  BY DEF Reach, Work
<1>3. c \in Nat /\ a \in Nat /\ e \in Nat
  BY LadderIs, FS_CardinalityType
<1>4. c * a \in Nat /\ c * e \in Nat /\ (e <= a => c * e <= c * a) /\ (e + 1 <= a => c * e + c <= c * a)
  <2> HIDE DEF a, c, e
  <2> QED
    BY <1>3, Times
<1>5. w.left >= Len(w.todo) + c * a
  BY DEF Affords
<1>6. w.left # 0
  <2> HIDE DEF a, c
  <2> QED
    BY <1>1, <1>2, <1>4, <1>5
<1>7. CASE Passes(g, w)
  <2>1. Len(z.todo) = Len(w.todo) - 1 /\ z.seen = w.seen
    BY <1>1, <1>7 DEF Dropped
  <2>2. z.left = w.left \/ z.left = w.left - 1
    <3>1. CASE Skips(g, w)
      <4>1. z = [w EXCEPT !.todo = Tail(w.todo)]
        BY <3>1, AfterType
      <4> QED
        BY <4>1 DEF Work
    <3>2. CASE ~Skips(g, w)
      BY <3>2, AfterType
    <3> QED
      BY <3>1, <3>2
  <2>3. e = a
    BY <2>1
  <2>4. z.left >= Len(z.todo) + c * e
    <3> HIDE DEF a, c, e, z
    <3> QED
      BY <1>1, <1>2, <1>4, <1>5, <2>1, <2>2, <2>3
  <2> QED
    BY <1>6, <2>4 DEF Affords
<1>8. CASE ~Passes(g, w)
  <2>1. Len(z.todo) = Len(q) + Len(w.todo) - 1 /\ z.seen = w.seen \cup {n} /\ z.left = w.left - 1
    BY <1>1, <1>8 DEF Visited
  <2>2. /\ n \notin w.seen
        /\ \/ n \in Close(rel, R, m)
           \/ Len(q) = 0
    BY <1>2, <1>8, HeadIs
  <2>3. e <= a /\ (n \in Close(rel, R, m) => e + 1 <= a)
    BY <2>1, <2>2, SlotsShrink
  <2>4. z.left >= Len(z.todo) + c * e
    <3>1. CASE n \in Close(rel, R, m)
      <4>1. n.id \in Doc
        <5> HIDE DEF n
        <5>1. n.id \in R
          BY <1>2, <3>1, CloseIs
        <5> QED
          BY <1>2, <5>1
      <4>2. Len(q) <= c
        BY <1>1, <4>1, FewBranches
      <4>3. c * e + c <= c * a
        BY <1>4, <2>3, <3>1
      <4> HIDE DEF a, c, e, z, q, n
      <4>4. PICK x \in Nat, y \in Nat : x = c * a /\ y = c * e
        BY <1>4
      <4>5. w.left >= Len(w.todo) + x /\ Len(z.todo) = Len(q) + Len(w.todo) - 1 /\ z.left = w.left - 1 /\ y + c <= x
        BY <1>5, <2>1, <4>3, <4>4
      <4>6. z.left >= Len(z.todo) + y
        BY <1>1, <1>2, <1>3, <4>2, <4>5
      <4> QED
        BY <4>4, <4>6
    <3>2. CASE Len(q) = 0
      <4> HIDE DEF a, c, e, z, q
      <4> QED
        BY <1>1, <1>2, <1>4, <1>5, <2>1, <2>3, <3>2
    <3> QED
      BY <2>2, <3>1, <3>2
  <2> QED
    BY <1>6, <2>4 DEF Affords
<1> QED
  BY <1>7, <1>8

-----------------------------------------------------------------------------
(* What a no means *)

Thorough(g, u, rel, R, m, w, root) ==
  /\ InReach(g, rel, R, m, w) /\ InTime(rel, R, m, w) /\ InOrder(rel, R, m, w) /\ Affords(R, m, w)
  /\ Explored(g, rel, R, m, w) /\ Refused(g, u, w) /\ GroupsWait(g, rel, R, m, w) /\ root \in Known(w)

LEMMA ThoroughKept ==
  ASSUME IsFiniteSet(Doc), IsFiniteSet(Group), NEW g, NEW u, Resolves(g, u), OneParent,
         NEW rel \in Role, NEW d, NEW R, NEW m, Reach(g, rel, d, R, m),
         NEW root \in Close(rel, R, m), NEW w \in Work, w.todo # <<>>,
         Thorough(g, u, rel, R, m, w, root), ~Found(g, u, w)
  PROVE  Thorough(g, u, rel, R, m, After(g, w), root)
<1>1. WellFormed(g) /\ g.tuples = tuples /\ R \in SUBSET Doc /\ m \in [R -> Nat]
  BY DEF Resolves, Reach
<1>2. /\ InReach(g, rel, R, m, w) /\ InTime(rel, R, m, w) /\ InOrder(rel, R, m, w) /\ Affords(R, m, w)
      /\ Explored(g, rel, R, m, w) /\ Refused(g, u, w) /\ GroupsWait(g, rel, R, m, w) /\ root \in Known(w)
  BY DEF Thorough
<1>3. w.left # 0 /\ Affords(R, m, After(g, w))
  BY <1>1, <1>2, AffordsKept
<1>4. InReach(g, rel, R, m, After(g, w)) /\ InTime(rel, R, m, After(g, w)) /\ InOrder(rel, R, m, After(g, w))
  BY <1>1, <1>2, <1>3, InReachKept, InTimeKept, InOrderKept
<1>5. Explored(g, rel, R, m, After(g, w)) /\ Refused(g, u, After(g, w)) /\ GroupsWait(g, rel, R, m, After(g, w))
  BY <1>1, <1>2, <1>3, ExploredKept, RefusedKept, GroupsWaitKept
<1>6. root \in Known(After(g, w))
  BY <1>1, <1>2, <1>3, EntryIs
<1> QED
  BY <1>3, <1>4, <1>5, <1>6 DEF Thorough

LEMMA ThoroughBegins ==
  ASSUME IsFiniteSet(Doc), IsFiniteSet(Group), Roomy, NEW g, NEW u, Resolves(g, u),
         NEW rel \in Role, NEW d \in Doc, NEW R, NEW m, Reach(g, rel, d, R, m)
  PROVE  LET root == Item(d, rel)
         IN  root \in Close(rel, R, m) /\ Thorough(g, u, rel, R, m, Begin(root), root)
<1> USE Parameters
<1> DEFINE n == Item(d, rel)
           w == Begin(n)
<1>1. n \in Places(rel, R) /\ Dist(rel, m, n) = 0 /\ InReach(g, rel, R, m, w)
  BY BeginInReach
<1>2. /\ Len(w.todo) = 1 /\ w.todo[1].node = n /\ w.todo[1].depth = 0 /\ w.seen = {} /\ w.left = MaxBudget
  BY BeginIs
<1>3. n.id = d /\ m[d] = 0 /\ m \in [R -> Nat]
  BY DEF Item, Reach
<1>4. n \in Close(rel, R, m)
  BY <1>1 DEF Close
<1> HIDE DEF n, w
<1>5. InTime(rel, R, m, w)
  BY <1>1, <1>2 DEF InTime
<1>6. InOrder(rel, R, m, w)
  <2>1. \A c \in R : ~(m[c] < m[n.id])
    BY <1>3
  <2> QED
    BY <1>2, <2>1 DEF InOrder, Ahead
<1>7. Explored(g, rel, R, m, w) /\ Refused(g, u, w) /\ GroupsWait(g, rel, R, m, w)
  BY <1>2 DEF Explored, Refused, GroupsWait
<1>8. n \in Known(w)
  <2>1. 1 \in 1..((Len(w.todo) + 1) - 1)
    BY <1>2
  <2> QED
    BY <1>2, <2>1 DEF Known, Before
<1>9. Affords(R, m, w)
  <2> DEFINE c == Cardinality(Group) + 3
             a == Cardinality(Slots(R, m, w.seen))
             b == 4 * (MaxDepth + 1)
  <2>1. c \in Nat /\ a \in Nat /\ b \in Nat /\ a <= b
    BY LadderIs, FS_CardinalityType
  <2>2. MaxBudget >= 1 + c * b
    BY DEF Roomy
  <2> HIDE DEF a, b, c
  <2>3. c * a <= c * b /\ c * a \in Nat /\ c * b \in Nat
    BY <2>1, Times
  <2>4. w.left >= Len(w.todo) + c * a
    BY <1>2, <2>2, <2>3
  <2> QED
    BY <2>4 DEF Affords, a, c
<1>10. Thorough(g, u, rel, R, m, w, n)
  BY <1>1, <1>5, <1>6, <1>7, <1>8, <1>9 DEF Thorough
<1> QED
  BY <1>4, <1>10 DEF n, w

\* When nothing is left to visit, every place of a role within the depth was visited.
LEMMA AllSeen ==
  ASSUME IsFiniteSet(Doc), IsFiniteSet(Group), NEW g, NEW u, Resolves(g, u),
         NEW rel \in Role, NEW d, NEW R, NEW m, Reach(g, rel, d, R, m),
         NEW w \in Work, w.todo = <<>>, Explored(g, rel, R, m, w), Item(d, rel) \in Known(w),
         NEW n \in Close(rel, R, m), n.rel \in Role
  PROVE  n \in w.seen
<1> USE Parameters
<1>1. WellFormed(g) /\ R \in SUBSET Doc /\ m \in [R -> Nat]
  BY DEF Resolves, Reach
<1>2. Known(w) = w.seen
  BY DEF Known, Before
<1>3. ASSUME NEW p \in w.seen \cap Places(rel, R), NEW b \in Close(rel, R, m), Branched(g, p, b)
      PROVE  b \in w.seen
  <2>1. PICK i \in 1..Len(Branches(g, p)) : Branches(g, p)[i] = b
    BY <1>3 DEF Branched
  <2> QED
    BY <1>2, <1>3, <2>1 DEF Explored
<1> DEFINE T == {k \in Nat : \A a \in R : m[a] = k /\ k <= MaxDepth => Item(a, rel) \in w.seen}
<1>4. ASSUME NEW a \in R PROVE Item(a, rel) \in Places(rel, R) /\ Dist(rel, m, Item(a, rel)) = m[a] /\ Item(a, rel) \in Node
  <2>1. Item(a, rel) \in Places(rel, R) /\ Item(a, rel).id = a /\ Item(a, rel).rel = rel
    BY RankIs DEF Item, Places, Role, Ladder
  <2>2. m[a] \in Nat /\ Rank(rel) \in Nat
    BY <1>1, RankIs
  <2>3. Dist(rel, m, Item(a, rel)) = m[a]
    BY <2>1, <2>2 DEF Dist
  <2> QED
    BY <1>1, <2>1, <2>3, PlaceIs
<1>5. 0 \in T
  <2>1. ASSUME NEW a \in R, m[a] = 0 PROVE a = d
    <3>1. \A x \in R \ {d} : \E b \in R : m[x] = m[b] + 1
      BY DEF Reach
    <3> QED
      BY <1>1, <2>1, <3>1
  <2> QED
    BY <1>2, <2>1
<1>6. ASSUME NEW k \in T PROVE k + 1 \in T
  <2>1. SUFFICES ASSUME NEW a \in R, m[a] = k + 1, k + 1 <= MaxDepth PROVE Item(a, rel) \in w.seen
    OBVIOUS
  <2>2. a # d
    BY <2>1 DEF Reach
  <2>3. PICK b \in R : a \in ParentsOf(g, b) /\ m[a] = m[b] + 1
    BY <2>2 DEF Reach
  <2>4. m[b] = k /\ k <= MaxDepth
    BY <1>1, <2>1, <2>3
  <2>5. Item(b, rel) \in w.seen
    BY <2>4
  <2>6. rel \in Inherited
    BY <2>2 DEF Reach
  <2>7. a \in Parents(g, Item(b, rel))
    BY <2>3, <2>6, ParentsAre
  <2>8. Branched(g, Item(b, rel), Item(a, rel))
    <3>1. Item(b, rel).rel = rel
      BY DEF Item
    <3> QED
      BY <1>1, <1>4, <2>7, <3>1, BranchesAre
  <2>9. Item(a, rel) \in Close(rel, R, m)
    BY <1>4, <2>1 DEF Close
  <2> QED
    BY <1>3, <1>4, <2>5, <2>8, <2>9
<1>7. T = Nat
  <2> HIDE DEF T
  <2> QED
    BY <1>5, <1>6, Induct DEF T
<1>8. ASSUME NEW a \in R, m[a] <= MaxDepth PROVE Item(a, rel) \in w.seen
  <2>1. m[a] \in T
    BY <1>1, <1>7
  <2> QED
    BY <1>8, <2>1
<1> HIDE DEF T
<1>9. /\ n.id \in R /\ n.rel \in Ladder /\ n = Item(n.id, n.rel) /\ m[n.id] \in Nat /\ m[n.id] <= MaxDepth
      /\ Rank(rel) <= Rank(n.rel) /\ Item(n.id, rel) \in w.seen
  <2>1. /\ n.id \in R /\ n.rel \in Ladder /\ n = Item(n.id, n.rel) /\ m[n.id] \in Nat /\ m[n.id] <= MaxDepth
        /\ n \in Places(rel, R)
    BY ONLY <1>1, n \in Close(rel, R, m), CloseIs
  <2>2. Rank(rel) <= Rank(n.rel)
    BY <1>1, <2>1, PlaceIs
  <2> QED
    BY <1>8, <2>1, <2>2
\* One rung up from a rung that was visited.
<1>10. ASSUME NEW r \in Ladder, NEW s \in Ladder, Item(n.id, r) \in w.seen, Rank(rel) <= Rank(r),
              NEW j \in 1..Len(Higher(r)), Higher(r)[j] = s, Rank(r) < Rank(s), Rank(s) <= Rank(n.rel)
       PROVE  Item(n.id, s) \in w.seen
  <2>1. Item(n.id, r) \in Places(rel, R) /\ Item(n.id, r).rel = r /\ Item(n.id, r).id = n.id
    BY <1>9, <1>10 DEF Item, Places
  <2>2. Item(n.id, r) \in Node
    BY <1>1, <2>1, PlaceIs
  <2>3. Branched(g, Item(n.id, r), Item(n.id, s))
    BY <1>1, <1>10, <2>1, <2>2, BranchesAre
  <2>4. Item(n.id, s) \in Close(rel, R, m)
    <3>1. Rank(r) \in Nat /\ Rank(s) \in Nat /\ Rank(n.rel) \in Nat /\ Rank(rel) \in Nat
      BY RankIs
    <3>2. PICK x \in Nat, y \in Nat, z \in Nat, t \in Nat :
            x = m[n.id] /\ y = Rank(n.rel) /\ z = Rank(rel) /\ t = Rank(s)
      BY <1>9, <3>1
    <3>3. Item(n.id, s) \in Places(rel, R) /\ Item(n.id, s).id = n.id /\ Item(n.id, s).rel = s
      <4>1. Rank(rel) <= Rank(s)
        BY <1>10, <3>1
      <4>2. Item(n.id, s) \in Places(rel, R)
        <5>1. n.id \in R /\ s \in {k \in Ladder : Rank(rel) <= Rank(k)}
          BY <1>9, <4>1
        <5> QED
          BY ONLY <5>1 DEF Places
      <4> QED
        BY <4>2 DEF Item
    <3>4. Dist(rel, m, n) = x + y - z /\ Dist(rel, m, Item(n.id, s)) = x + t - z
      BY <3>2, <3>3 DEF Dist
    <3>5. x + y - z <= MaxDepth /\ t <= y
      BY <1>10, <3>2, <3>4 DEF Close
    <3>6. x + t - z <= MaxDepth
      BY ONLY <3>5, x \in Nat, y \in Nat, z \in Nat, t \in Nat, MaxDepth \in Nat
    <3> QED
      BY <3>3, <3>4, <3>6 DEF Close
  <2> QED
    BY <1>3, <1>10, <2>1, <2>3, <2>4
<1>h. /\ 1 \in 1..Len(Higher("viewer")) /\ Higher("viewer")[1] = "editor"
      /\ 2 \in 1..Len(Higher("viewer")) /\ Higher("viewer")[2] = "assignee"
      /\ 1 \in 1..Len(Higher("editor")) /\ Higher("editor")[1] = "owner"
  BY HigherType
<1>11. CASE n.rel = rel
  BY <1>9, <1>11
<1>12. CASE n.rel # rel /\ rel = "viewer"
  <2>1. n.rel \in {"editor", "owner"}
    BY <1>12 DEF Role
  <2>2. Item(n.id, "editor") \in w.seen
    BY <1>9, <1>10, <1>12, <1>h, <2>1 DEF Rank, Ladder
  <2>3. n.rel = "owner" => Item(n.id, "owner") \in w.seen
    BY <1>9, <1>10, <1>12, <1>h, <2>2 DEF Rank, Ladder
  <2> QED
    BY <1>9, <2>1, <2>2, <2>3
<1>13. CASE n.rel = "owner" /\ rel = "editor"
  <2>1. Item(n.id, "owner") \in w.seen
    BY <1>9, <1>10, <1>13, <1>h DEF Rank, Ladder
  <2> QED
    BY <1>9, <1>13, <2>1
<1>14. rel = "viewer" \/ n.rel = rel \/ (n.rel = "owner" /\ rel = "editor")
  BY <1>9 DEF Rank, Role
<1> QED
  BY <1>11, <1>12, <1>13, <1>14

LEMMA ThoroughEnds ==
  ASSUME IsFiniteSet(Doc), IsFiniteSet(Group), NEW g, NEW u, Resolves(g, u),
         NEW rel \in Role, NEW d, NEW R, NEW m, Reach(g, rel, d, R, m),
         NEW w \in Work, w.todo = <<>>, Thorough(g, u, rel, R, m, w, Item(d, rel))
  PROVE  ~Holds(u, rel, R, m, Cost(g), MaxDepth)
<1> USE Parameters
<1>1. /\ WellFormed(g) /\ g.tuples = tuples /\ g.members = members /\ R \in SUBSET Doc /\ m \in [R -> Nat]
      /\ g.closed => g.closure = {x \in Group : <<x, u>> \in members}
  BY DEF Resolves, Reach
<1>2. Explored(g, rel, R, m, w) /\ Refused(g, u, w) /\ GroupsWait(g, rel, R, m, w) /\ Item(d, rel) \in Known(w)
  BY DEF Thorough
<1>3. \A n \in Close(rel, R, m) : n.rel \in Role => n \in w.seen
  BY <1>2, AllSeen
\* A role within the limit is that of a place that was visited.
<1>4. ASSUME NEW a \in R, NEW r \in Role, NEW cost \in Nat, m[a] + Rung(rel, r) + cost <= MaxDepth
      PROVE  LET n == Item(a, r)
             IN  /\ n \in w.seen /\ n \in Places(rel, R) /\ Dist(rel, m, n) + cost <= MaxDepth
                 /\ n.ns = "item" /\ n.id = a /\ n.rel = r
  <2> DEFINE n == Item(a, r)
  <2>1. n.ns = "item" /\ n.id = a /\ n.rel = r
    BY DEF Item
  <2>2. m[a] \in Nat /\ Rung(rel, r) \in Nat /\ Cardinality(Doc) \in Nat
    BY <1>1, RungIs, FS_CardinalityType
  <2>3. Rung(rel, r) # MaxDepth + Cardinality(Doc) + 9
    BY <1>4, <2>2
  <2>4. Rank(rel) <= Rank(r)
    BY <2>3 DEF Rung, Rank, Role
  <2>5. Rung(rel, r) = Rank(r) - Rank(rel)
    BY <2>4, RungOf
  <2>6. n \in Places(rel, R)
    <3>1. r \in {k \in Ladder : Rank(rel) <= Rank(k)}
      BY <2>4 DEF Role, Ladder
    <3> QED
      BY ONLY <3>1, a \in R DEF Places
  <2> HIDE DEF n
  <2>7. PICK x \in Nat, y \in Nat, z \in Nat : x = m[a] /\ y = Rank(r) /\ z = Rank(rel)
    <3>1. Rank(r) \in Nat /\ Rank(rel) \in Nat
      BY RankIs
    <3> QED
      BY <2>2, <3>1
  <2>8. Dist(rel, m, n) = x + y - z
    BY <2>1, <2>7 DEF Dist
  <2>9. x + (y - z) + cost <= MaxDepth /\ z <= y
    BY <1>4, <2>4, <2>5, <2>7
  <2>10. x + y - z <= MaxDepth /\ (x + y - z) + cost <= MaxDepth
    BY ONLY <2>9, x \in Nat, y \in Nat, z \in Nat, cost \in Nat, MaxDepth \in Nat
  <2>11. n \in Close(rel, R, m) /\ Dist(rel, m, n) + cost <= MaxDepth
    BY <2>6, <2>8, <2>10 DEF Close
  <2> QED
    BY <1>3, <2>1, <2>6, <2>11 DEF n
<1>5. ASSUME NEW a \in R, NEW r \in Role, Tuple(a, r, u) \in tuples, m[a] + Rung(rel, r) <= MaxDepth PROVE FALSE
  <2> DEFINE n == Item(a, r)
  <2>1. m[a] + Rung(rel, r) + 0 <= MaxDepth
    <3>1. m[a] \in Nat /\ Rung(rel, r) \in Nat
      BY <1>1, RungIs
    <3> QED
      BY <1>5, <3>1
  <2>2. n \in w.seen /\ n.ns = "item" /\ n.id = a /\ n.rel = r
    BY <1>4, <2>1
  <2> QED
    BY <1>1, <1>2, <1>5, <2>2 DEF Refused, Direct
<1>6. ASSUME NEW a \in R, NEW r \in Role, NEW x \in Group, <<x, u>> \in members, Tuple(a, r, x) \in tuples,
             m[a] + Rung(rel, r) + Cost(g) <= MaxDepth
      PROVE  FALSE
  <2> DEFINE n == Item(a, r)
  <2>1. Cost(g) \in Nat /\ Cost(g) = (IF g.closed THEN 0 ELSE 1)
    BY <1>1, CostIs
  <2>2. /\ n \in w.seen /\ n \in Places(rel, R) /\ Dist(rel, m, n) + Cost(g) <= MaxDepth
        /\ n.ns = "item" /\ n.id = a /\ n.rel = r
    BY <1>4, <1>6, <2>1
  <2>3. x \in Usersets(g, n)
    <3>1. Tuple(a, r, x).object = a /\ Tuple(a, r, x).rel = r /\ Tuple(a, r, x).subject = x
      BY DEF Tuple
    <3>2. Tuple(a, r, x) \in Held(g, n)
      BY <1>1, <1>6, <2>2, <3>1 DEF Held
    <3> QED
      BY <3>1, <3>2 DEF Usersets
  <2>4. GroupWaits(g, rel, m, w, n, x)
    BY <1>2, <2>2, <2>3 DEF GroupsWait
  <2>5. Dist(rel, m, n) \in Nat
    BY <1>1, <2>2, DistIs
  <2> HIDE DEF n
  <2>6. \/ g.closed /\ x \notin g.closure
        \/ ~g.closed /\ Dist(rel, m, n) + 1 > MaxDepth
        \/ ~g.closed /\ Member(x) \in w.seen
    BY <2>4 DEF GroupWaits
  <2>7. CASE g.closed
    BY <1>1, <1>6, <2>6, <2>7
  <2>8. CASE ~g.closed
    <3>1. Cost(g) = 1
      BY <2>1, <2>8
    <3>2. Member(x) \in w.seen
      BY <2>2, <2>5, <2>6, <2>8, <3>1
    <3>3. ~Direct(g, u, Member(x))
      BY <1>2, <3>2 DEF Refused
    <3>4. Member(x).ns = "group" /\ Member(x).id = x
      BY DEF Member
    <3> QED
      BY <1>1, <1>6, <3>3, <3>4 DEF Direct
  <2> QED
    BY <2>7, <2>8
<1> QED
  BY <1>5, <1>6 DEF Holds

\* A no is the truth, if the budget affords the whole walk.
LEMMA NoHoldsNot ==
  ASSUME IsFiniteSet(Doc), IsFiniteSet(Group), NEW g, NEW u, Resolves(g, u), OneParent,
         NEW rel \in Role, NEW d, NEW R, NEW m, Reach(g, rel, d, R, m), Item(d, rel) \in Close(rel, R, m),
         NEW w \in Work, Thorough(g, u, rel, R, m, w, Item(d, rel)), ~Answers(g, u)[w]
  PROVE  ~Holds(u, rel, R, m, Cost(g), MaxDepth)
<1>1. WellFormed(g)
  BY DEF Resolves
<1> DEFINE root == Item(d, rel)
           B == {x \in Work : Thorough(g, u, rel, R, m, x, root) /\ ~Answers(g, u)[x]}
<1>2. SUFFICES ASSUME Holds(u, rel, R, m, Cost(g), MaxDepth) PROVE FALSE
  OBVIOUS
<1>3. ASSUME NEW x \in B PROVE x.todo # <<>> /\ After(g, x) \in B
  <2>1. x \in Work /\ Thorough(g, u, rel, R, m, x, root)
    OBVIOUS
  <2>2. x.todo # <<>>
    BY <1>2, <2>1, ThoroughEnds
  <2>3. ~Found(g, u, x) /\ ~Answers(g, u)[After(g, x)]
    <3>1. Answers(g, u)[x] = (x.todo # <<>> /\ (Found(g, u, x) \/ Answers(g, u)[After(g, x)]))
      BY <1>1, AnswersAre
    <3>2. ~Answers(g, u)[x]
      OBVIOUS
    <3> QED
      BY <2>2, <3>1, <3>2, Zenon
  <2>4. Thorough(g, u, rel, R, m, After(g, x), root)
    BY <2>1, <2>2, <2>3, ThoroughKept
  <2>5. After(g, x) \in Work
    BY <1>1, <2>2, AfterType
  <2> QED
    BY <2>2, <2>3, <2>4, <2>5
<1>4. B = {}
  <2> HIDE DEF B
  <2>1. B \in SUBSET Work
    BY DEF B
  <2> QED
    BY <1>1, <1>3, <2>1, Terminates
<1> QED
  BY <1>4

\* check is exact while no document has two edges to a parent and the budget affords
\* the whole walk: a cycle, a shared set of visited keys and the order of the branches
\* cost no answer (zanzibar.engine.ts, check and its walk).
THEOREM CheckExact ==
  ASSUME IsFiniteSet(Doc), IsFiniteSet(Group), Roomy, OneParent, NEW g, NEW u, Resolves(g, u),
         NEW d \in Doc, NEW rel \in Role
  PROVE  Check(g, u, Item(d, rel)) = Derivable(u, rel, d, g.closed, MaxDepth)
<1> DEFINE w == Begin(Item(d, rel))
<1>1. WellFormed(g) /\ g.tuples = tuples /\ MaxDepth \in Nat
  BY Parameters DEF Resolves
<1>2. PICK R, m : Nearest(g, rel, d, R, m)
  BY <1>1, NearestExists
<1>3. Reach(g, rel, d, R, m)
  BY <1>2 DEF Nearest
<1>4. w \in Work /\ Item(d, rel) \in Close(rel, R, m) /\ Thorough(g, u, rel, R, m, w, Item(d, rel))
  BY <1>3, BeginIs, ThoroughBegins
<1>5. Derivable(u, rel, d, g.closed, MaxDepth) => Holds(u, rel, R, m, Cost(g), MaxDepth)
  <2>1. g.closed \in BOOLEAN /\ Cost(g) = (IF g.closed THEN 0 ELSE 1)
    BY <1>1, CostIs
  <2> QED
    BY <1>1, <1>2, <2>1, DerivableIs
<1>6. Derivable(u, rel, d, g.closed, MaxDepth) => Answers(g, u)[w]
  BY <1>3, <1>4, <1>5, NoHoldsNot
<1>7. Check(g, u, Item(d, rel)) = Answers(g, u)[w]
  BY CheckIs
<1>8. Answers(g, u)[w] \in BOOLEAN
  <2>1. Answers(g, u)[w] = (w.todo # <<>> /\ (Found(g, u, w) \/ Answers(g, u)[After(g, w)]))
    BY <1>1, <1>4, AnswersAre
  <2>2. (w.todo # <<>> /\ (Found(g, u, w) \/ Answers(g, u)[After(g, w)])) \in BOOLEAN
    OBVIOUS
  <2> QED
    BY <2>1, <2>2, Zenon
<1>9. Check(g, u, Item(d, rel)) => Derivable(u, rel, d, g.closed, MaxDepth)
  BY CheckSound
<1>10. Check(g, u, Item(d, rel)) <=> Derivable(u, rel, d, g.closed, MaxDepth)
  BY <1>6, <1>7, <1>9, Zenon
<1>11. Check(g, u, Item(d, rel)) \in BOOLEAN
  BY <1>7, <1>8, Zenon
<1>12. Derivable(u, rel, d, g.closed, MaxDepth) \in BOOLEAN
  BY DEF Derivable
<1> QED
  BY <1>10, <1>11, <1>12

-----------------------------------------------------------------------------
(* The listing *)

LEMMA EffectiveIs ==
  ASSUME NEW rel \in Role
  PROVE  /\ Effective(rel) \subseteq Ladder
         /\ \A r \in Role : r \in Effective(rel) <=> Rank(rel) <= Rank(r)
         /\ Effective(rel) \cap Inherited = {} <=> rel = "owner"
<1> DEFINE Wider(S) == S \cup UNION {ToSet(Higher(r)) : r \in S}
<1>1. /\ ToSet(Higher("viewer")) = {"editor", "assignee"} /\ ToSet(Higher("editor")) = {"owner"}
      /\ ToSet(Higher("assignee")) = {"owner"} /\ ToSet(Higher("owner")) = {}
  BY DEF ToSet, Higher
<1>2. Effective(rel) = Wider(Wider({rel}))
  BY DEF Effective
<1>3. CASE rel = "viewer"
  <2>1. Wider({"viewer"}) = {"viewer", "editor", "assignee"}
    BY <1>1
  <2>2. Wider({"viewer", "editor", "assignee"}) = {"viewer", "editor", "assignee", "owner"}
    BY <1>1
  <2>3. Effective(rel) = {"viewer", "editor", "assignee", "owner"}
    BY <1>2, <1>3, <2>1, <2>2
  <2> QED
    BY <1>3, <2>3 DEF Ladder, Role, Rank, Inherited
<1>4. CASE rel = "editor"
  <2>1. Wider({"editor"}) = {"editor", "owner"}
    BY <1>1
  <2>2. Wider({"editor", "owner"}) = {"editor", "owner"}
    BY <1>1
  <2>3. Effective(rel) = {"editor", "owner"}
    BY <1>2, <1>4, <2>1, <2>2
  <2> QED
    BY <1>4, <2>3 DEF Ladder, Role, Rank, Inherited
<1>5. CASE rel = "owner"
  <2>1. Wider({"owner"}) = {"owner"}
    BY <1>1
  <2>2. Effective(rel) = {"owner"}
    BY <1>2, <1>5, <2>1
  <2> QED
    BY <1>5, <2>2 DEF Ladder, Role, Rank, Inherited
<1> QED
  BY <1>3, <1>4, <1>5 DEF Role

Walked(g, roots) ==
  LET found[n \in Nat] == IF n = 0 THEN roots ELSE found[n - 1] \cup Under(g, found[n - 1])
  IN  found

LEMMA WalkedIs ==
  ASSUME NEW g, WellFormed(g), NEW roots \in SUBSET Doc
  PROVE  LET found == Walked(g, roots)
         IN  /\ found[0] = roots /\ \A n \in Nat : found[n + 1] = found[n] \cup Under(g, found[n])
             /\ WalkDown(g, roots) = found[Cardinality(Doc)]
<1> DEFINE S == SUBSET Doc
           step == [A \in S |-> A \cup Under(g, A)]
           Body(f) == [n \in Nat |-> IF n = 0 THEN roots ELSE f[n - 1] \cup Under(g, f[n - 1])]
<1>1. step \in [S -> S] /\ roots \in S
  BY DEF Under, WellFormed, Edge
<1>2. PICK f \in [Nat -> S] : f = [n \in Nat |-> IF n = 0 THEN roots ELSE step[f[n - 1]]]
  <2> HIDE DEF step, S
  <2>1. \E f \in [Nat -> S] : f = [n \in Nat |-> IF n = 0 THEN roots ELSE step[f[n - 1]]]
    BY ONLY <1>1, Iterate
  <2> QED
    BY <2>1
<1>3. f = Body(f)
  <2>1. ASSUME NEW n \in Nat, n # 0 PROVE step[f[n - 1]] = f[n - 1] \cup Under(g, f[n - 1])
    <3>1. f[n - 1] \in S
      BY <2>1
    <3> QED
      BY <3>1
  <2> HIDE DEF step, S
  <2> QED
    BY <1>2, <2>1
<1>4. Walked(g, roots) = CHOOSE h : h = Body(h)
  BY DEF Walked
<1> HIDE DEF Body
<1>5. Walked(g, roots) = Body(Walked(g, roots))
  BY <1>3, <1>4
<1>6. \A h : h = Body(h) => h[0] = roots /\ \A n \in Nat : h[n + 1] = h[n] \cup Under(g, h[n])
  <2> SUFFICES ASSUME NEW h, h = Body(h) PROVE h[0] = roots /\ \A n \in Nat : h[n + 1] = h[n] \cup Under(g, h[n])
    OBVIOUS
  <2>1. h = [n \in Nat |-> IF n = 0 THEN roots ELSE h[n - 1] \cup Under(g, h[n - 1])]
    BY DEF Body
  <2>2. \A n \in Nat : h[n] = IF n = 0 THEN roots ELSE h[n - 1] \cup Under(g, h[n - 1])
    BY <2>1
  <2>3. ASSUME NEW n \in Nat PROVE h[n + 1] = h[n] \cup Under(g, h[n])
    <3>1. n + 1 \in Nat /\ n + 1 # 0 /\ (n + 1) - 1 = n
      OBVIOUS
    <3> QED
      BY <2>2, <3>1
  <2> QED
    BY <2>2, <2>3
<1>7. WalkDown(g, roots) = Walked(g, roots)[Cardinality(Doc)]
  BY DEF WalkDown, Walked
<1> QED
  BY <1>5, <1>6, <1>7

\* The walk down finds the documents that reach a root.
LEMMA WalkDownIs ==
  ASSUME IsFiniteSet(Doc), NEW g, WellFormed(g), NEW roots \in SUBSET Doc,
         NEW rel \in Inherited, NEW d, NEW R, NEW m, Reach(g, rel, d, R, m)
  PROVE  d \in WalkDown(g, roots) <=> \E a \in R : a \in roots
<1> DEFINE found == Walked(g, roots)
           N == Cardinality(Doc)
<1>1. /\ found[0] = roots /\ \A n \in Nat : found[n + 1] = found[n] \cup Under(g, found[n])
      /\ WalkDown(g, roots) = found[N] /\ N \in Nat
  <2>1. N \in Nat
    BY FS_CardinalityType
  <2>2. /\ found[0] = roots /\ \A n \in Nat : found[n + 1] = found[n] \cup Under(g, found[n])
        /\ WalkDown(g, roots) = found[N]
    BY WalkedIs
  <2> QED
    BY <2>1, <2>2
<1>2. /\ R \in SUBSET Doc /\ d \in R /\ m \in [R -> Nat]
      /\ \A a \in R : \A p \in ParentsOf(g, a) : p \in R
      /\ \A a \in R \ {d} : \E b \in R : a \in ParentsOf(g, b) /\ m[a] = m[b] + 1
  BY DEF Reach
<1>3. \A A, e : e \in Under(g, A) <=> \E p \in A : p \in ParentsOf(g, e)
  BY DEF Under, ParentsOf
<1> HIDE DEF found, N
<1>4. ASSUME d \in found[N] PROVE \E a \in R : a \in roots
  <2> DEFINE T == {n \in Nat : \A e \in R : e \in found[n] => \E a \in R : a \in roots}
  <2>1. 0 \in T
    BY <1>1
  <2>2. ASSUME NEW n \in T PROVE n + 1 \in T
    BY <1>1, <1>2, <1>3
  <2>3. T = Nat
    <3> HIDE DEF T
    <3> QED
      BY <2>1, <2>2, Induct DEF T
  <2>4. N \in T
    BY <1>1, <2>3
  <2> QED
    BY <1>2, <1>4, <2>4
<1>5. ASSUME NEW a \in R, a \in roots PROVE d \in found[N]
  <2> DEFINE T == {j \in Nat : j <= m[a] => \E c \in R : m[c] = m[a] - j /\ c \in found[j]}
             U == {j \in Nat : \A e \in found[m[a]] : e \in found[m[a] + j]}
  <2>1. m[a] \in Nat /\ m[a] < N
    BY <1>2, DistanceBound DEF N
  <2>2. 0 \in T
    BY <1>1, <1>5, <2>1
  <2>3. ASSUME NEW j \in T PROVE j + 1 \in T
    <3>1. SUFFICES ASSUME j + 1 <= m[a] PROVE \E c \in R : m[c] = m[a] - (j + 1) /\ c \in found[j + 1]
      OBVIOUS
    <3>2. PICK c \in R : m[c] = m[a] - j /\ c \in found[j]
      BY <2>1, <3>1
    <3>3. c # d
      <4>1. m[d] = 0
        BY DEF Reach
      <4> QED
        BY <2>1, <3>1, <3>2, <4>1
    <3>4. PICK b \in R : c \in ParentsOf(g, b) /\ m[c] = m[b] + 1
      BY <1>2, <3>3
    <3>5. m[b] = m[a] - (j + 1)
      BY <1>2, <2>1, <3>2, <3>4
    <3>6. b \in found[j + 1]
      BY <1>1, <1>3, <3>2, <3>4
    <3> QED
      BY <3>5, <3>6
  <2>4. T = Nat
    <3> HIDE DEF T
    <3> QED
      BY <2>2, <2>3, Induct DEF T
  <2>5. m[a] \in T
    BY <2>1, <2>4
  <2>6. PICK c \in R : m[c] = 0 /\ c \in found[m[a]]
    BY <2>1, <2>5
  <2>7. c = d
    BY <1>2, <2>6
  <2>8. 0 \in U
    BY <2>1
  <2>9. ASSUME NEW j \in U PROVE j + 1 \in U
    <3>1. m[a] + j \in Nat /\ m[a] + (j + 1) = (m[a] + j) + 1
      BY <2>1
    <3>2. found[m[a] + (j + 1)] = found[m[a] + j] \cup Under(g, found[m[a] + j])
      BY <1>1, <3>1
    <3> QED
      BY <3>2
  <2>10. U = Nat
    <3> HIDE DEF U
    <3> QED
      BY <2>8, <2>9, Induct DEF U
  <2>11. N - m[a] \in U /\ m[a] + (N - m[a]) = N
    <3> HIDE DEF U
    <3> PICK k \in Nat : k = m[a]
      BY <2>1
    <3>1. N - k \in Nat /\ k + (N - k) = N
      BY <1>1, <2>1
    <3> QED
      BY <2>10, <3>1
  <2> QED
    BY <2>6, <2>7, <2>11
<1> QED
  BY <1>1, <1>4, <1>5

\* The listing of a relation has exactly the documents it can be derived of, at any
\* distance: whatever shared ends and cycles there are, and however far the limit of
\* check (zanzibar.engine.ts, listUserResources).
THEOREM ListExact ==
  ASSUME IsFiniteSet(Doc), NEW g, WellFormed(g), g.tuples = tuples, g.members = members, NEW u,
         NEW d \in Doc, NEW rel \in Role
  PROVE  d \in ListObjects(g, u, rel) <=> Derivable(u, rel, d, TRUE, MaxDepth + Cardinality(Doc) + 3)
<1> USE Parameters
<1> DEFINE N == Cardinality(Doc)
           limit == MaxDepth + N + 3
           roots == {t.object : t \in {s \in g.tuples : s.rel \in Effective(rel) /\ s.subject \in {u} \cup GroupsOf(g, u)}}
<1>1. PICK R, m : Nearest(g, rel, d, R, m)
  BY NearestExists
<1>2. Reach(g, rel, d, R, m) /\ R \in SUBSET Doc /\ m \in [R -> Nat] /\ d \in R
  BY <1>1 DEF Nearest, Reach
<1>3. N \in Nat /\ limit \in Nat
  BY FS_CardinalityType
<1>4. Derivable(u, rel, d, TRUE, limit) <=> Holds(u, rel, R, m, 0, limit)
  <2>1. Derivable(u, rel, d, TRUE, limit) <=> Holds(u, rel, R, m, IF TRUE THEN 0 ELSE 1, limit)
    <3> HIDE DEF limit
    <3> QED
      BY <1>1, <1>3, DerivableIs
  <2> QED
    BY <2>1
<1>5. roots \in SUBSET Doc
  BY DEF WellFormed, Edge
<1>6. \A a : a \in roots <=> \E r \in Effective(rel) : \/ Tuple(a, r, u) \in tuples
                                                       \/ \E x \in Group : <<x, u>> \in members /\ Tuple(a, r, x) \in tuples
  <2>1. \A t \in g.tuples : t = Tuple(t.object, t.rel, t.subject)
    BY TupleIs
  <2>2. \A a, r, s : Tuple(a, r, s).object = a /\ Tuple(a, r, s).rel = r /\ Tuple(a, r, s).subject = s
    BY DEF Tuple
  <2>3. \A a : a \in roots <=> \E r \in Effective(rel), s \in {u} \cup GroupsOf(g, u) : Tuple(a, r, s) \in tuples
    BY <2>1, <2>2
  <2> HIDE DEF roots
  <2> QED
    BY <2>3 DEF GroupsOf
<1>7. /\ Effective(rel) \subseteq Ladder
      /\ \A r \in Role : r \in Effective(rel) <=> Rank(rel) <= Rank(r)
      /\ Effective(rel) \cap Inherited = {} <=> rel = "owner"
  BY EffectiveIs
<1> HIDE DEF roots
<1>8. ASSUME NEW a \in R, NEW r \in Role
      PROVE  /\ r \in Effective(rel) <=> m[a] + Rung(rel, r) <= limit
             /\ r \in Effective(rel) <=> m[a] + Rung(rel, r) + 0 <= limit
  <2>1. m[a] \in Nat /\ m[a] < N /\ Rung(rel, r) \in Nat
    BY <1>2, DistanceBound, RungIs
  <2>2. CASE Rank(rel) <= Rank(r)
    <3>1. Rung(rel, r) <= 2
      BY <2>2, RungOf, RankIs DEF Rank, Role
    <3>2. m[a] + Rung(rel, r) <= limit /\ m[a] + Rung(rel, r) + 0 <= limit
      BY <1>3, <2>1, <3>1
    <3> QED
      BY <1>7, <2>2, <3>2
  <2>3. CASE ~(Rank(rel) <= Rank(r))
    <3>1. Rung(rel, r) = MaxDepth + N + 9
      BY <2>3 DEF Rung, Rank, Role
    <3>2. ~(m[a] + Rung(rel, r) <= limit) /\ ~(m[a] + Rung(rel, r) + 0 <= limit)
      BY <1>3, <2>1, <3>1
    <3> QED
      BY <1>7, <2>3, <3>2
  <2> QED
    BY <2>2, <2>3
<1>9. Holds(u, rel, R, m, 0, limit) <=> \E a \in R : a \in roots
  <2>1. \A a, s : Tuple(a, "assignee", s) \notin tuples
    <3>1. \A t \in g.tuples : t.rel # "assignee"
      BY TupleIs
    <3> QED
      BY <3>1 DEF Tuple
  <2>2. \A r \in Effective(rel) : r \in Role \/ r = "assignee"
    BY <1>7 DEF Role, Ladder
  <2>3. Holds(u, rel, R, m, 0, limit) <=>
          \E a \in R, r \in Role : r \in Effective(rel) /\
            (Tuple(a, r, u) \in tuples \/ \E x \in Group : <<x, u>> \in members /\ Tuple(a, r, x) \in tuples)
    <3> HIDE DEF limit
    <3> QED
      BY <1>8 DEF Holds
  <2> QED
    BY <1>6, <2>1, <2>2, <2>3
<1>10. CASE rel = "owner"
  <2>1. ListObjects(g, u, rel) = roots
    BY <1>7, <1>10 DEF ListObjects, roots
  <2>2. R = {d}
    BY <1>2, <1>10 DEF Reach, Inherited
  <2> QED
    BY <1>4, <1>9, <2>1, <2>2
<1>11. CASE rel # "owner"
  <2>1. ListObjects(g, u, rel) = WalkDown(g, roots)
    BY <1>7, <1>11 DEF ListObjects, roots
  <2>2. rel \in Inherited
    BY <1>11 DEF Role, Inherited
  <2>3. d \in WalkDown(g, roots) <=> \E a \in R : a \in roots
    BY <1>2, <1>5, <2>2, WalkDownIs
  <2> QED
    BY <1>4, <1>9, <2>1, <2>3
<1> QED
  BY <1>10, <1>11

-----------------------------------------------------------------------------
(* The graphs the program asks on *)

\* A move rewrites the edge, a create writes the first one.
LEMMA OneParentKept ==
  ASSUME TypeInv, RowInv, OneParent, [Next]_vars
  PROVE  OneParent'
<1> DEFINE Edges(d) == {t \in tuples : t.object = d /\ t.rel = "parent_item"}
<1>1. ASSUME tuples' \subseteq tuples PROVE OneParent'
  BY <1>1 DEF OneParent
<1>2. CASE UNCHANGED vars \/ Aside
  <2>1. tuples' \subseteq tuples
    BY <1>2, AsideKeeps DEF vars, data, DataKept
  <2> QED
    BY <1>1, <2>1
<1>3. ASSUME NEW q \in Request, Asks(q) \/ \E x \in Group : AskDissolve(q, x) PROVE OneParent'
  <2>1. tuples' = tuples
    BY <1>3 DEF Asks, AskCreate, AskMove, AskDelete, AskShare, AskDissolve, Start, data
  <2> QED
    BY <1>1, <2>1
<1>4. ASSUME NEW q \in Request, Steps(q) PROVE OneParent'
  <2>1. CASE DataKept
    BY <1>1, <2>1 DEF DataKept
  <2>2. CASE CommitCreate(q)
    <3> DEFINE d == req[q].doc
    <3>1. /\ req[q].doc \in Doc
          /\ tuples' = tuples \cup {OwnerTuple(d, req[q].user)}
                         \cup (IF req[q].parent = None THEN {} ELSE {Tuple(d, "parent_item", req[q].parent)})
      BY <2>2, CreateWrites
    <3>2. \A t \in tuples : t.object # d
      BY <2>2, <3>1 DEF RowInv, CommitCreate, Edits
    <3> HIDE DEF d
    <3>3. \A t \in tuples' : t.rel = "parent_item" =>
            t \in tuples \/ (t.object = d /\ t.subject = req[q].parent)
      BY <3>1 DEF OwnerTuple, Tuple
    <3> QED
      BY <3>2, <3>3 DEF OneParent
  <2>3. CASE CommitUpdate(q)
    <3> DEFINE d == req[q].doc
    <3>1. tuples' = {t \in tuples : ~(t.object = d /\ t.rel = "parent_item")}
                      \cup (IF req[q].parent = None THEN {} ELSE {Tuple(d, "parent_item", req[q].parent)})
      BY <2>3, UpdateWrites DEF Reparented
    <3> HIDE DEF d
    <3>2. \A t \in tuples' : t.rel = "parent_item" =>
            (t \in tuples /\ t.object # d) \/ (t.object = d /\ t.subject = req[q].parent)
      BY <3>1 DEF Tuple
    <3> QED
      BY <3>2 DEF OneParent
  <2>4. CASE CommitDelete(q)
    <3>1. tuples' \subseteq tuples
      BY <2>4, DeleteWrites DEF DataKept
    <3> QED
      BY <1>1, <3>1
  <2>5. CASE InsertShare(q)
    <3>1. req[q].perm \in {"viewer", "editor"} /\ tuples' = tuples \cup {Tuple(req[q].doc, req[q].perm, req[q].grantee)}
      BY <2>5, InsertWrites
    <3>2. \A t \in tuples' : t.rel = "parent_item" => t \in tuples
      BY <3>1 DEF Tuple
    <3> QED
      BY <3>2 DEF OneParent
  <2> QED
    BY <1>4, <2>1, <2>2, <2>3, <2>4, <2>5, DataStep
<1> QED
  BY <1>2, <1>3, <1>4 DEF Next, Aside

LEMMA OneParentBegins == Init => OneParent
<1> SUFFICES ASSUME Init PROVE OneParent
  OBVIOUS
<1>1. PICK absent \in SUBSET Doc, u \in Creator :
        tuples = UNION {{OwnerTuple(d, u)} \cup ParentTuple(d) : d \in Doc \ absent}
  BY DEF Init
<1>2. \A t \in tuples : \E d \in Doc : t = OwnerTuple(d, u) \/ t \in ParentTuple(d)
  BY <1>1
<1>3. \A t \in tuples : t.rel = "parent_item" => t.subject = doc[t.object].parent
  BY <1>2 DEF OwnerTuple, ParentTuple, Tuple
<1> QED
  BY <1>3 DEF OneParent

LEMMA AlwaysOneParent == Spec => [](DocumentsInv /\ OneParent)
<1>1. Init => OneParent
  BY OneParentBegins
<1>2. DocumentsInv /\ OneParent /\ [Next]_vars => OneParent'
  BY OneParentKept DEF DocumentsInv
<1> QED
  BY <1>1, <1>2, AlwaysDocumentsInv, PTL DEF Spec

LEMMA GraphsResolve ==
  ASSUME TypeInv, SubjectInv, NEW u
  PROVE  /\ Resolves(Graph(FALSE, {}), u) /\ Graph(FALSE, {}).closed = FALSE
         /\ Resolves(Now(u), u) /\ Now(u).closed = TRUE
<1>1. \A c \in BOOLEAN : \A s : /\ WellFormed(Graph(c, s)) /\ Graph(c, s).tuples = tuples /\ Graph(c, s).members = members
                            /\ Graph(c, s).closed = c /\ Graph(c, s).closure = s
  BY DEF Graph, WellFormed, TypeInv, SubjectInv
<1>2. GroupsOf(Graph(FALSE, {}), u) = {x \in Group : <<x, u>> \in members}
  BY <1>1 DEF GroupsOf
<1> QED
  BY <1>1, <1>2 DEF Now, Resolves

\* The creator of a live document owns it, unless the share route has revoked that.
LEMMA CreatorDerives ==
  ASSUME IsFiniteSet(Doc), TypeInv, SubjectInv, TupleInv, NEW d \in Doc, Live(d), <<d, "owner">> \notin revoked
  PROVE  Derivable(doc[d].creator, "viewer", d, TRUE, MaxDepth + Cardinality(Doc) + 3)
<1> USE Parameters
<1> DEFINE u == doc[d].creator
           limit == MaxDepth + Cardinality(Doc) + 3
<1>1. Tuple(d, "owner", u) \in tuples
  <2>1. RowTuples(d)
    BY TupleInvSplit
  <2> QED
    BY <2>1 DEF RowTuples, OwnerTuple
<1>2. WellFormed(Graph(FALSE, {})) /\ Graph(FALSE, {}).tuples = tuples
  BY GraphsResolve DEF Resolves
<1>3. d \in Above(d)[0]
  BY <1>2, AboveIs
<1>4. Cardinality(Doc) \in Nat
  BY FS_CardinalityType
<1>5. Rung("viewer", "owner") = 2
  BY DEF Rung
<1>6. 0 \in 0..Cardinality(Doc) /\ 0 + Rung("viewer", "owner") <= limit
  BY <1>4, <1>5
<1> QED
  BY <1>1, <1>3, <1>6 DEF Derivable

\* The engine is exact in every state, for any number of users and of requests in flight:
\* for a depth and a budget that leave room for the walk, as those of the program
\* do for up to 110 groups (zanzibar.engine.ts, MAX_DEPTH and MAX_NODE_BUDGET).
THEOREM EngineIsExact ==
  ASSUME IsFiniteSet(Doc), IsFiniteSet(Group), Roomy
  PROVE  Spec => []EngineExact
<1>1. ASSUME DocumentsInv, OneParent PROVE EngineExact
  <2> DEFINE limit == MaxDepth + Cardinality(Doc) + 3
  <2>1. TypeInv /\ SubjectInv /\ TupleInv
    BY <1>1 DEF DocumentsInv
  <2>2. ASSUME NEW u \in User, NEW d \in Doc, NEW rel \in Role
        PROVE  /\ Check(Now(u), u, Item(d, rel)) = Derivable(u, rel, d, TRUE, MaxDepth)
               /\ Check(Graph(FALSE, {}), u, Item(d, rel)) = Derivable(u, rel, d, FALSE, MaxDepth)
               /\ d \in ListObjects(Graph(FALSE, {}), u, rel) <=> Derivable(u, rel, d, TRUE, limit)
    <3>1. /\ Resolves(Graph(FALSE, {}), u) /\ Graph(FALSE, {}).closed = FALSE
          /\ Resolves(Now(u), u) /\ Now(u).closed = TRUE
      BY <2>1, GraphsResolve
    <3>2. Check(Now(u), u, Item(d, rel)) = Derivable(u, rel, d, Now(u).closed, MaxDepth)
      BY <1>1, <3>1, CheckExact
    <3>3. Check(Graph(FALSE, {}), u, Item(d, rel)) = Derivable(u, rel, d, Graph(FALSE, {}).closed, MaxDepth)
      BY <1>1, <3>1, CheckExact
    <3>4. d \in ListObjects(Graph(FALSE, {}), u, rel) <=> Derivable(u, rel, d, TRUE, limit)
      <4>1. WellFormed(Graph(FALSE, {})) /\ Graph(FALSE, {}).tuples = tuples /\ Graph(FALSE, {}).members = members
        BY <3>1 DEF Resolves
      <4> QED
        BY <4>1, ListExact
    <3> QED
      BY <3>1, <3>2, <3>3, <3>4
  <2>3. ASSUME NEW u \in User, NEW d \in Doc, Live(d), u \notin Admin
        PROVE  d \in Visible(u) <=>
                 Derivable(u, "viewer", d, TRUE, limit) \/ (doc[d].creator = u /\ <<d, "owner">> \in revoked)
    <3>1. d \in ListObjects(Graph(FALSE, {}), u, "viewer") <=> Derivable(u, "viewer", d, TRUE, limit)
      BY <2>2 DEF Role
    <3>2. doc[d].creator = u /\ <<d, "owner">> \notin revoked => Derivable(u, "viewer", d, TRUE, limit)
      BY <2>1, <2>3, CreatorDerives
    <3> QED
      BY <2>3, <3>1, <3>2 DEF Visible
  <2> QED
    <3>1. limit = MaxDepth + Cardinality(Doc) + 3 /\ Role = {"viewer", "editor", "owner"}
      BY DEF Role
    <3> HIDE DEF limit
    <3>2. ASSUME NEW u \in User, NEW d \in Doc, NEW rel \in Role, rel = "viewer" /\ Live(d) /\ u \notin Admin
          PROVE  d \in Visible(u) <=>
                   Derivable(u, rel, d, TRUE, limit) \/ (doc[d].creator = u /\ <<d, "owner">> \in revoked)
      BY ONLY <2>3, <3>2
    <3> QED
      BY ONLY <2>2, <3>1, <3>2, ZenonT(60) DEF EngineExact
<1> QED
  BY <1>1, AlwaysOneParent, PTL
=============================================================================
