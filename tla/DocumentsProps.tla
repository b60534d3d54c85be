---------------------------- MODULE DocumentsProps ----------------------------
(* What the document tree, its tuples and the relation engine promise. *)
EXTENDS Documents

\* The tree stays a forest of live documents under live ones.  A cycle takes two
\* moves that overlap, the end of the process in a query that does not end takes a
\* cycle, and a live document under a deleted one takes a parent that was deleted
\* between its lookup and the transaction (document.service.ts, document.routes.ts).
TreeSound ==
  /\ ~crossed => \A d \in Doc : d \notin Descendants(d)
  /\ hung => crossed
  /\ \A d \in Doc : Live(d) /\ doc[d].parent # None => Live(doc[d].parent) \/ d \in orphaned

\* The tuples follow the rows: a live document has its creator for owner and exactly the
\* edge of its parent column, or, once the share route has revoked the one or the other
\* (document.service.ts:654), none, and the edge comes back with the next move; a deleted
\* one has none but what a request in flight wrote, and never an owner; a grantee holds
\* one role, and a group that is gone none and no members, unless shares overlapped with
\* each other or with the end of the group (groups.service.ts).
TuplesFollow ==
  /\ members \subseteq groups \X User
  /\ \A d \in Doc :
      LET on    == {t \in tuples : t.object = d}
          edge  == {t \in on : t.rel = "parent_item"}
          owner == {t \in on : t.rel = "owner"}
      IN  /\ Live(d) => /\ edge = IF <<d, "parent_item">> \in revoked THEN {} ELSE ParentTuple(d)
                        /\ owner = IF <<d, "owner">> \in revoked THEN {} ELSE {OwnerTuple(d, doc[d].creator)}
          /\ ~Live(d) => owner = {} /\ (on # {} => d \in late)
          /\ \A s \in User \cup Group :
               /\ Shares(d, s) \subseteq on => <<d, s>> \in doubled
               /\ s \in Group \ groups => on \cap Shares(d, s) \subseteq stray

\* A delete releases the attachments of exactly the documents it deletes, although it
\* lists the subtree before and recomputes it in the transaction: a document that is
\* gone keeps none and one that stays loses none, unless the delete failed between
\* the two or the tree changed (document.routes.ts, document.service.ts).  Uploads in
\* between are not modelled.
AttachmentsFollow ==
  \A d \in Doc \ parted :
    /\ doc[d].status = "deleted" => d \notin attached
    /\ Live(d) /\ d \notin attached =>
         \E q \in Request : req[q].pc = "commit" /\ req[q].kind = "delete" /\ d \in req[q].listed

\* The reference for the engine: a role on the document or an ancestor, at its
\* distance.  An ancestor, a rung of the ladder and a group each count one step.
Rung(rel, r) ==
  CASE rel = r -> 0
    [] rel = "viewer" /\ r = "editor" -> 1
    [] rel = "viewer" /\ r = "owner" -> 2
    [] rel = "editor" /\ r = "owner" -> 1
    [] OTHER -> MaxDepth + Cardinality(Doc) + 9

\* The ancestors of d by distance: edges may share an end, or form a cycle.
Over(S) == {t.subject : t \in {s \in tuples : s.rel = "parent_item" /\ s.object \in S}}

Above(d) ==
  LET above[k \in Nat] == IF k = 0 THEN {d} ELSE Over(above[k - 1])
  IN  above

Derivable(u, rel, d, closed, limit) ==
  \E k \in 0..(IF rel = "owner" THEN 0 ELSE Cardinality(Doc)), r \in {"viewer", "editor", "owner"} :
    \E a \in Above(d)[k] :
      \/ Tuple(a, r, u) \in tuples /\ k + Rung(rel, r) <= limit
      \/ \E x \in Group : /\ <<x, u>> \in members /\ Tuple(a, r, x) \in tuples
                          /\ k + Rung(rel, r) + (IF closed THEN 0 ELSE 1) <= limit

\* check answers yes exactly for what can be derived within MAX_DEPTH, with or
\* without a closure, whatever the shared set of visited keys cuts off; the listing
\* has exactly what can be derived at any depth (zanzibar.engine.ts), and so the tree
\* shows a document exactly to its readers; its creator is one, or still sees it although
\* the owner tuple was revoked (document.service.ts).
\* Every graph also occurs with no request in flight.
EngineExact ==
  (\A q \in Request : ~Running(q)) =>
    \A u \in User, d \in Doc, rel \in {"viewer", "editor", "owner"} :
      /\ Check(Now(u), u, Item(d, rel)) = Derivable(u, rel, d, TRUE, MaxDepth)
      /\ Check(Graph(FALSE, {}), u, Item(d, rel)) = Derivable(u, rel, d, FALSE, MaxDepth)
      /\ LET held == Derivable(u, rel, d, TRUE, MaxDepth + Cardinality(Doc) + 3)
         IN  /\ d \in ListObjects(Graph(FALSE, {}), u, rel) <=> held
             /\ rel = "viewer" /\ Live(d) /\ u \notin Admin =>
                  (d \in Visible(u) <=> held \/ (doc[d].creator = u /\ <<d, "owner">> \in revoked))
=============================================================================
