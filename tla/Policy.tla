-------------------------------- MODULE Policy --------------------------------
(***************************************************************************)
(* The relation engine on the `item` and `group` namespaces: `check`,      *)
(* which walks from an object to the subject, and `listUserResources`,     *)
(* which walks back from the subject.                                      *)
(*                                                                         *)
(* A graph is a record of the relation tuples, the memberships, and the    *)
(* group closure that a request may have resolved before.  A tuple is      *)
(* [object, rel, subject]; a group as subject stands for its members, an   *)
(* item as subject of `parent_item` for that item.                         *)
(*                                                                         *)
(* Left out: the resource_group namespace, the relations no document has a *)
(* tuple of, nested groups (no route makes one), `expand`, the explanation *)
(* in resolvedThrough, the row cache within one resolution, and the budget *)
(* of a listing, which is spent by the group and by the level of the tree: *)
(* MAX_NODE_BUDGET is 5000.                                                *)
(***************************************************************************)
EXTENDS Naturals, Sequences, FiniteSets, SequencesExt

CONSTANTS
  User, Group, Doc,
  MaxDepth,  \* MAX_DEPTH
  MaxBudget  \* MAX_NODE_BUDGET

Tuple(d, rel, s) == [object |-> d, rel |-> rel, subject |-> s]

\* What is checked: a relation on an item, or membership of a group.
Item(d, rel) == [ns |-> "item", id |-> d, rel |-> rel]
Member(x)    == [ns |-> "group", id |-> x, rel |-> "member"]

\* defaultNamespaces: the relations that imply a relation, and those inherited
\* along parent_item.
Higher(rel) ==
  CASE rel = "viewer" -> <<"editor", "assignee">>
    [] rel \in {"editor", "assignee"} -> <<"owner">>
    [] OTHER -> <<>>

Inherited == {"viewer", "editor"}

Held(g, n) == {t \in g.tuples : n.ns = "item" /\ t.object = n.id /\ t.rel = n.rel}

Direct(g, u, n) ==
  IF n.ns = "group" THEN <<n.id, u>> \in g.members ELSE Tuple(n.id, n.rel, u) \in g.tuples

\* Mutant: a group that holds any relation.
UsersetsOfAnyRelation(g, n) == {t.subject : t \in {s \in g.tuples : s.object = n.id}} \cap Group

Usersets(g, n) == {t.subject : t \in Held(g, n)} \cap Group

Parents(g, n) ==
  IF n.ns = "item" /\ n.rel \in Inherited THEN {t.subject : t \in Held(g, [n EXCEPT !.rel = "parent_item"])} ELSE {}

\* The order check follows: usersets, computed usersets, tuple to userset.
Branches(g, n) ==
  SetToSeq({Member(x) : x \in Usersets(g, n)})
    \o [i \in DOMAIN Higher(n.rel) |-> Item(n.id, Higher(n.rel)[i])]
    \o SetToSeq({Item(p, n.rel) : p \in Parents(g, n)})

Node == [ns : {"item", "group"}, id : Doc \cup Group,
         rel : {"viewer", "editor", "assignee", "owner", "parent_item", "member"}]
Visit == [node : Node, depth : 0..(MaxDepth + 1)]

\* What is left to visit, and what all branches of a resolution share: the nodes
\* they visited and the budget.
Work == [todo : Seq(Visit), seen : SUBSET Node, left : 0..MaxBudget]

\* A group is looked up in the closure, if there is one; other nodes cost one of the
\* budget, up to the depth allowed.
Closed(g, n) == g.closed /\ n.ns = "group"
Skips(g, w)  == Closed(g, Head(w.todo).node) \/ Head(w.todo).depth > MaxDepth \/ w.left = 0

Found(g, u, w) ==
  LET n == Head(w.todo).node
  IN  IF Closed(g, n) THEN n.id \in g.closure
      ELSE ~Skips(g, w) /\ n \notin w.seen /\ Direct(g, u, n)

\* Depth first: the branches of a node go before what is left to do.
Unfolded(g, v, rest) ==
  LET next == Branches(g, v.node)
  IN  [i \in DOMAIN next |-> [node |-> next[i], depth |-> v.depth + 1]] \o rest

After(g, w) ==
  LET v    == Head(w.todo)
      rest == Tail(w.todo)
  IN  IF Skips(g, w) THEN [w EXCEPT !.todo = rest]
      ELSE [todo |-> IF v.node \in w.seen THEN rest ELSE Unfolded(g, v, rest),
            seen |-> w.seen \cup {v.node},
            left |-> w.left - 1]

\* The first yes ends the resolution.
Check(g, u, node) ==
  LET holds[w \in Work] == w.todo # <<>> /\ (Found(g, u, w) \/ holds[After(g, w)])
  IN  holds[[todo |-> <<[node |-> node, depth |-> 0]>>, seen |-> {}, left |-> MaxBudget]]

-----------------------------------------------------------------------------
(* listUserResources *)

\* collectEffectiveRelations; two rounds reach the top of the ladder.
Effective(rel) ==
  LET Wider(S) == S \cup UNION {ToSet(Higher(r)) : r \in S}
  IN  Wider(Wider({rel}))

GroupsOf(g, u) == {x \in Group : <<x, u>> \in g.members}

\* The walk down parent_item to a fixpoint.
Under(g, S) == {t.object : t \in {s \in g.tuples : s.rel = "parent_item" /\ s.subject \in S}}

WalkDown(g, roots) ==
  LET found[n \in Nat] == IF n = 0 THEN roots ELSE found[n - 1] \cup Under(g, found[n - 1])
  IN  found[Cardinality(Doc)]

ListObjects(g, u, rel) ==
  LET roots == {t.object : t \in {s \in g.tuples :
                  s.rel \in Effective(rel) /\ s.subject \in {u} \cup GroupsOf(g, u)}}
  IN  IF Effective(rel) \cap Inherited = {} THEN roots ELSE WalkDown(g, roots)
=============================================================================
