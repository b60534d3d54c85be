------------------------------- MODULE Documents -------------------------------
(***************************************************************************)
(* Documents, their tree and their shares, as the requests that change     *)
(* them interleave: create, patch, move, delete, share, unshare, and the   *)
(* changes of groups that shares refer to.                                 *)
(*                                                                         *)
(* A step is what runs between two awaits; a transaction is one step,      *)
(* under the write lock.  The checks that only refuse a request run        *)
(* together in the step that admits it.                                    *)
(*                                                                         *)
(* Left out: titles, contents and tags, audit events, how attachments are  *)
(* uploaded and released (FileStore), the admin API that writes tuples by  *)
(* hand.                                                                   *)
(***************************************************************************)
EXTENDS Policy

CONSTANTS
  Admin,       \* users with role admin
  Creator,     \* users whose documents a data directory may hold at first
  Grantee,     \* users and groups that documents are shared with
  Request,     \* requests in flight
  None,        \* no parent
  MaxRequests  \* bound on requests

ASSUME Parameters ==
  /\ Admin \subseteq User /\ Creator \subseteq User
  /\ Grantee \subseteq User \cup Group
  /\ None \notin Doc
  /\ Group \cap (User \cup Doc) = {}
  /\ MaxDepth \in Nat /\ MaxBudget \in Nat /\ MaxRequests \in Nat

VARIABLES
  doc,     \* status, parent and creator of each document
  tuples,  \* relation_tuples of the item namespace
  groups,  \* groups that exist
  members, \* group_members, as <<group, user>>
  attached,\* documents whose attachments have not been released
  req,     \* the requests
  asked,   \* requests so far
  hung,    \* a recursive query that does not end holds the process
  crossed, \* history: a move committed on a subtree check another move made stale
  orphaned,\* history: documents that got a parent which was deleted meanwhile
  late,    \* history: deleted documents a request in flight wrote to
  doubled, \* history: <<document, grantee>> of shares that overlapped
  parted,  \* history: documents that lost their attachments without being deleted, or
           \* the reverse, as a delete failed or its subtree changed meanwhile
  stray,   \* history: grants to a group that is, or is being, deleted
  revoked  \* history: documents whose owner or edge the share route revoked

ghost == <<crossed, orphaned, late, doubled, parted, stray, revoked>>
data  == <<doc, tuples, groups, members, attached>>
vars  == <<data, req, asked, hung, ghost>>

Idle == [pc |-> "idle"]

Live(d)   == doc[d].status = "live"
Running(q) == req[q].pc # "idle"

\* Walking document_details.parent_id down, deleted rows included.
Children(S) == {d \in Doc : doc[d].parent \in S}

\* Mutant: only the children.
ChildrenOnly(d) == Children({d})

\* The least set with the children of d and of its own members.
Descendants(d) ==
  LET closed == {S \in SUBSET Doc : Children({d} \cup S) \subseteq S}
  IN  {x \in Doc : \A S \in closed : x \in S}

\* UNION ALL never runs out of rows on a cycle.
Endless(d) == d \in Descendants(d)

\* A request resolves its group closure once, with its first check.
Graph(closed, closure) == [tuples |-> tuples, members |-> members, closed |-> closed, closure |-> closure]
Now(u) == Graph(TRUE, GroupsOf(Graph(FALSE, {}), u))

Can(u, rel, d) == u \in Admin \/ Check(Now(u), u, Item(d, rel))

\* getDocumentTreeForUser: what the document tree of a user shows.
Visible(u) ==
  {d \in Doc : Live(d) /\ (u \in Admin \/ doc[d].creator = u \/ d \in ListObjects(Graph(FALSE, {}), u, "viewer"))}

\* canGrant and canRevoke ask without a closure.
IsAdminOrOwner(u, d) == u \in Admin \/ Check(Graph(FALSE, {}), u, Item(d, "owner"))

\* A data directory with any forest of live documents: going up ends.
Forest ==
  {f \in [Doc -> Doc \cup {None}] : \A S \in SUBSET Doc : (\A d \in S : f[d] \in S) => S = {}}

OwnerTuple(d, u) == Tuple(d, "owner", u)
ParentTuple(d)   == IF doc[d].parent = None THEN {} ELSE {Tuple(d, "parent_item", doc[d].parent)}

Init ==
  \E f \in Forest, absent \in SUBSET Doc, u \in Creator :
    /\ \A d \in absent : f[d] = None /\ \A c \in Doc : f[c] # d
    /\ doc = [d \in Doc |-> [status |-> IF d \in absent THEN "absent" ELSE "live", parent |-> f[d], creator |-> u]]
    /\ tuples = UNION {{OwnerTuple(d, u)} \cup ParentTuple(d) : d \in Doc \ absent}
    /\ groups = Group
    /\ members = {}
    /\ attached = Doc \ absent
    /\ req = [q \in Request |-> Idle]
    /\ asked = 0
    /\ hung = FALSE
    /\ crossed = FALSE
    /\ orphaned = {} /\ late = {} /\ doubled = {} /\ parted = {} /\ stray = {}
    /\ revoked = {}

-----------------------------------------------------------------------------

Free(q) == ~hung /\ asked < MaxRequests /\ ~Running(q)

Start(q, r) ==
  /\ asked' = asked + 1
  /\ req' = [req EXCEPT ![q] = r]
  /\ UNCHANGED <<data, hung, ghost>>

Goto(q, pc) == req' = [req EXCEPT ![q].pc = pc]
Done(q)     == req' = [req EXCEPT ![q] = Idle]

\* An error ends a request: DB_BUSY, a refusal, a client that is gone, a crash.
Abandon(q) ==
  /\ ~hung
  /\ Running(q)
  /\ Done(q)
  /\ parted' = parted \cup (IF req[q].kind = "delete" /\ req[q].pc = "commit" THEN req[q].listed ELSE {})
  /\ UNCHANGED <<data, asked, hung, crossed, orphaned, late, doubled, stray, revoked>>

\* Requests past a check that a commit makes stale.
Flagged(flag, Q) == [q \in Request |-> IF q \in Q THEN [req[q] EXCEPT ![flag] = TRUE] ELSE req[q]]

-----------------------------------------------------------------------------
(* Create, patch and move *)

Edit(kind, u, d, p, pc) ==
  [pc |-> pc, kind |-> kind, user |-> u, doc |-> d, parent |-> p,
   listed |-> {}, moved |-> FALSE, reshaped |-> FALSE, deleted |-> FALSE, changed |-> FALSE]

\* POST /documents: a parent must be live and editable.
AskCreate(q, u, d, p) ==
  /\ Free(q)
  /\ doc[d].status = "absent"
  /\ \A o \in Request : Running(o) => req[o].doc # d
  /\ p # None => Live(p) /\ Can(u, "editor", p)
  /\ Start(q, Edit("create", u, d, p, IF p = None THEN "commit" ELSE "resolve"))

\* assertMoveTargetAllowed
TargetAllowed(u, d, p) ==
  p # None => p # d /\ Live(p) /\ Can(u, "editor", p) /\ ~Endless(d) /\ p \notin Descendants(d)

\* PATCH /documents/:id/move, and a PATCH with a version; one that keeps the parent
\* it found asks nothing of it.
AskMove(q, u, d) ==
  /\ Free(q)
  /\ Live(d) /\ Can(u, "editor", d)
  /\ \E p \in Doc \cup {None} :
       \/ /\ TargetAllowed(u, d, p)
          /\ \E kind \in {"move", "patch"} : Start(q, Edit(kind, u, d, p, "resolve"))
       \/ /\ p = doc[d].parent
          /\ Start(q, Edit("patch", u, d, p, "resolve"))

\* The subtree query of a document on a cycle, or the query for the ancestors of one
\* on or below it: the process does not come back.
Hang(d) ==
  /\ ~hung
  /\ asked < MaxRequests
  /\ Live(d)
  /\ \E c \in Doc : Endless(c) /\ d \in Descendants(c)
  /\ hung' = TRUE
  /\ UNCHANGED <<data, req, asked, ghost>>

Editing == {q \in Request : req[q].pc \in {"resolve", "commit"}}

\* createDocument and updateDocument resolve short ids before their transaction.
Resolve(q) ==
  LET r == req[q]
  IN  /\ ~hung
      /\ r.pc = "resolve" /\ r.kind # "delete"
      /\ r.kind # "create" => Live(r.doc)
      /\ r.parent # None => Live(r.parent)
      /\ Goto(q, "commit")
      /\ UNCHANGED <<data, asked, hung, ghost>>

\* The parent was deleted after it was resolved.
Undercut(r) == r.deleted /\ r.parent # None /\ ~Live(r.parent)

CommitCreate(q) ==
  LET r == req[q]
  IN  /\ ~hung
      /\ r.pc = "commit" /\ r.kind = "create"
      /\ doc' = [doc EXCEPT ![r.doc] = [status |-> "live", parent |-> r.parent, creator |-> r.user]]
      /\ tuples' = tuples \cup {OwnerTuple(r.doc, r.user)}
                     \cup (IF r.parent = None THEN {} ELSE {Tuple(r.doc, "parent_item", r.parent)})
      /\ attached' = attached \cup {r.doc}
      /\ orphaned' = IF Undercut(r) THEN orphaned \cup {r.doc} ELSE orphaned
      /\ req' = [Flagged("reshaped", Editing) EXCEPT ![q] = Idle]
      /\ UNCHANGED <<groups, members, asked, hung, crossed, late, doubled, parted, stray, revoked>>

\* Mutant: the old edge stays.
AlsoParented(d, p) == tuples \cup (IF p = None THEN {} ELSE {Tuple(d, "parent_item", p)})

\* The parent_item tuple is rewritten with the column.
Reparented(d, p) ==
  {t \in tuples : ~(t.object = d /\ t.rel = "parent_item")}
    \cup (IF p = None THEN {} ELSE {Tuple(d, "parent_item", p)})

\* A request whose checks came before the tree changed at d.
Overtaken(r, d) == [r EXCEPT !.moved = TRUE, !.reshaped = TRUE, !.changed = @ \/ r.doc = d]

\* A patch carries the version its client read and ends in a conflict if the item
\* changed or went meanwhile.  A move carries none and goes on even if no item row
\* matched.  Other moves' subtree checks may be stale from here.
CommitUpdate(q) ==
  LET r == req[q]
  IN  /\ ~hung
      /\ r.pc = "commit" /\ r.kind \in {"move", "patch"}
      /\ r.kind = "patch" => Live(r.doc) /\ ~r.changed
      /\ doc' = [doc EXCEPT ![r.doc].parent = r.parent]
      /\ tuples' = Reparented(r.doc, r.parent)
      /\ crossed' = (crossed \/ r.moved)
      /\ orphaned' = IF Undercut(r) THEN orphaned \cup {r.doc} ELSE orphaned \ {r.doc}
      /\ late' = IF Live(r.doc) THEN late ELSE late \cup {r.doc}
      /\ revoked' = revoked \ {<<r.doc, "parent_item">>}
      /\ req' = [o \in Request |-> IF o = q THEN Idle
                                  ELSE IF o \in Editing THEN Overtaken(req[o], r.doc) ELSE req[o]]
      /\ UNCHANGED <<groups, members, attached, asked, hung, doubled, parted, stray>>

-----------------------------------------------------------------------------
(* Delete *)

AskDelete(q, u, d) ==
  /\ Free(q)
  /\ Live(d) /\ Can(u, "owner", d)
  /\ ~Endless(d)
  /\ Start(q, [Edit("delete", u, d, None, "resolve") EXCEPT !.listed = {d} \cup Descendants(d)])

\* Mutant: those of the document alone.
ReleasedAlone(r) == {r.doc}

\* The attachments of the subtree that was listed go first, then the item is
\* resolved again.  The code releases document by document: one step here, in
\* which no other request runs, and no upload comes between it and the delete.
Released(r) == {d \in r.listed : Live(d)}

Release(q) ==
  LET r == req[q]
  IN  /\ ~hung
      /\ r.pc = "resolve" /\ r.kind = "delete"
      /\ attached' = attached \ Released(r)
      /\ IF Live(r.doc)
           THEN req' = [req EXCEPT ![q].pc = "commit", ![q].listed = Released(r)] /\ UNCHANGED parted
           ELSE Done(q) /\ parted' = parted \cup Released(r)
      /\ UNCHANGED <<doc, tuples, groups, members, asked, hung, crossed, orphaned, late, doubled, stray, revoked>>

Differ(S, T) == (S \ T) \cup (T \ S)

\* softDeleteDocument recomputes the subtree in its transaction.
CommitDelete(q) ==
  LET r    == req[q]
      gone == {r.doc} \cup Descendants(r.doc)
      live == {d \in gone : Live(d)}
  IN  /\ ~hung
      /\ r.pc = "commit" /\ r.kind = "delete"
      /\ IF Endless(r.doc)
           THEN hung' = TRUE /\ UNCHANGED <<doc, tuples, req, parted>>
           ELSE /\ doc' = [d \in Doc |-> IF d \in live THEN [doc[d] EXCEPT !.status = "deleted"] ELSE doc[d]]
                /\ tuples' = {t \in tuples : t.object \notin gone}
                /\ req' = [Flagged("deleted", {o \in Editing : req[o].pc = "commit"}) EXCEPT ![q] = Idle]
                /\ parted' = IF r.reshaped THEN parted \cup Differ(r.listed, live) ELSE parted
                /\ UNCHANGED hung
      /\ UNCHANGED <<groups, members, attached, asked, crossed, orphaned, late, doubled, stray, revoked>>

-----------------------------------------------------------------------------
(* Shares *)

Sharing(u, d, s, perm) ==
  [pc |-> "clear", kind |-> "share", user |-> u, doc |-> d, grantee |-> s, perm |-> perm, twice |-> FALSE]

AskShare(q, u, d) ==
  /\ Free(q)
  /\ Live(d) /\ Can(u, "owner", d)
  /\ \E s \in Grantee, perm \in {"viewer", "editor"} : Start(q, Sharing(u, d, s, perm))

Shares(d, s) == {Tuple(d, perm, s) : perm \in {"viewer", "editor"}}

\* addDocumentShare deletes the grantee's old share, asks canGrant, then inserts:
\* three statements.
ClearShare(q) ==
  LET r == req[q]
  IN  /\ ~hung
      /\ r.pc = "clear"
      /\ tuples' = tuples \ Shares(r.doc, r.grantee)
      /\ doubled' = doubled \ {<<r.doc, r.grantee>>}
      /\ Goto(q, "allow")
      /\ UNCHANGED <<doc, groups, members, attached, asked, hung, crossed, orphaned, late, parted, stray, revoked>>

AllowShare(q) ==
  /\ ~hung
  /\ req[q].pc = "allow"
  /\ IsAdminOrOwner(req[q].user, req[q].doc)
  /\ Goto(q, "insert")
  /\ UNCHANGED <<data, asked, hung, ghost>>

\* A group whose tuples are gone and whose row is about to go.
Dissolving(s) == \E o \in Request : req[o].pc = "row" /\ req[o].group = s

\* Whoever cleared the same share and has not inserted yet will double it.
InsertShare(q) ==
  LET r == req[q]
      t == Tuple(r.doc, r.perm, r.grantee)
      overlapping == {o \in Request \ {q} : /\ req[o].pc \in {"allow", "insert"}
                                            /\ req[o].doc = r.doc /\ req[o].grantee = r.grantee}
  IN  /\ ~hung
      /\ r.pc = "insert"
      /\ t \notin tuples
      /\ tuples' = tuples \cup {t}
      /\ doubled' = IF r.twice THEN doubled \cup {<<r.doc, r.grantee>>} ELSE doubled
      /\ late' = IF Live(r.doc) THEN late ELSE late \cup {r.doc}
      /\ stray' = IF r.grantee \in Group \ groups \/ Dissolving(r.grantee) THEN stray \cup {t} ELSE stray
      /\ req' = [Flagged("twice", overlapping) EXCEPT ![q] = Idle]
      /\ UNCHANGED <<doc, groups, members, attached, asked, hung, crossed, orphaned, parted, revoked>>

\* removeDocumentShare: canRevoke and the delete by key.  The id may name any tuple of
\* the document, not only a share's.
Unshare(u, t) ==
  /\ ~hung
  /\ asked < MaxRequests
  /\ t \in tuples
  /\ IsAdminOrOwner(u, t.object)
  /\ tuples' = tuples \ {t}
  /\ revoked' = IF t.rel \in {"owner", "parent_item"} THEN revoked \cup {<<t.object, t.rel>>} ELSE revoked
  /\ asked' = asked + 1
  /\ UNCHANGED <<doc, groups, members, attached, req, hung, crossed, orphaned, late, doubled, parted, stray>>

-----------------------------------------------------------------------------
(* Groups *)

\* The foreign key refuses members of a group that is gone.
Join(x, u) ==
  /\ ~hung
  /\ asked < MaxRequests
  /\ x \in groups
  /\ <<x, u>> \notin members
  /\ members' = members \cup {<<x, u>>}
  /\ asked' = asked + 1
  /\ UNCHANGED <<doc, tuples, groups, attached, req, hung, ghost>>

Leave(x, u) ==
  /\ ~hung
  /\ asked < MaxRequests
  /\ <<x, u>> \in members
  /\ members' = members \ {<<x, u>>}
  /\ asked' = asked + 1
  /\ UNCHANGED <<doc, tuples, groups, attached, req, hung, ghost>>

AskDissolve(q, x) ==
  /\ Free(q)
  /\ x \in groups
  /\ Start(q, [pc |-> "members", kind |-> "dissolve", group |-> x, doc |-> None])

\* deleteGroup: members, tuples and the row, each on its own.
DropMembers(q) ==
  /\ ~hung
  /\ req[q].pc = "members"
  /\ members' = {m \in members : m[1] # req[q].group}
  /\ Goto(q, "tuples")
  /\ UNCHANGED <<doc, tuples, groups, attached, asked, hung, ghost>>

DropTuples(q) ==
  /\ ~hung
  /\ req[q].pc = "tuples"
  /\ tuples' = {t \in tuples : t.subject # req[q].group}
  /\ Goto(q, "row")
  /\ UNCHANGED <<doc, groups, members, attached, asked, hung, ghost>>

\* The members that joined meanwhile go with the row, by cascade.
WithoutMembers(x) == {m \in members : m[1] # x}

DropRow(q) ==
  /\ ~hung
  /\ req[q].pc = "row"
  /\ groups' = groups \ {req[q].group}
  /\ members' = WithoutMembers(req[q].group)
  /\ Done(q)
  /\ UNCHANGED <<doc, tuples, attached, asked, hung, ghost>>

-----------------------------------------------------------------------------

Asks(q) ==
  \E u \in User, d \in Doc :
    \/ \E p \in Doc \cup {None} : AskCreate(q, u, d, p)
    \/ AskMove(q, u, d) \/ AskDelete(q, u, d) \/ AskShare(q, u, d)

Steps(q) ==
  \/ Resolve(q) \/ CommitCreate(q) \/ CommitUpdate(q) \/ Release(q) \/ CommitDelete(q)
  \/ ClearShare(q) \/ AllowShare(q) \/ InsertShare(q)
  \/ DropMembers(q) \/ DropTuples(q) \/ DropRow(q) \/ Abandon(q)

Next ==
  \/ \E q \in Request : Asks(q) \/ Steps(q) \/ \E x \in Group : AskDissolve(q, x)
  \/ \E d \in Doc : Hang(d)
  \/ \E u \in User, t \in tuples : Unshare(u, t)
  \/ \E x \in Group, u \in User : Join(x, u) \/ Leave(x, u)

Spec == Init /\ [][Next]_vars
=============================================================================
