---------------------------- MODULE DocumentsProof ----------------------------
(***************************************************************************)
(* Proofs that the tree stays a forest, that the tuples follow the rows    *)
(* and that a delete releases what it deletes, for any users, groups,      *)
(* documents and requests.  What the engine answers is left open here: it  *)
(* only decides which requests are admitted.                               *)
(***************************************************************************)
EXTENDS DocumentsProps, TLAPS

EditReq ==
  [pc : {"resolve", "commit"}, kind : {"create", "move", "patch", "delete"},
   user : User, doc : Doc, parent : Doc \cup {None}, listed : SUBSET Doc,
   moved : BOOLEAN, reshaped : BOOLEAN, deleted : BOOLEAN, changed : BOOLEAN]

ShareReq ==
  [pc : {"clear", "allow", "insert"}, kind : {"share"}, user : User, doc : Doc,
   grantee : Grantee, perm : {"viewer", "editor"}, twice : BOOLEAN]

DissolveReq ==
  [pc : {"members", "tuples", "row"}, kind : {"dissolve"}, group : Group, doc : {None}]

Reqs == {Idle} \cup EditReq \cup ShareReq \cup DissolveReq

Edge == [object : Doc, rel : {"owner", "parent_item", "viewer", "editor"},
         subject : User \cup Group \cup Doc]

\* What a document has of its own: the other relations are shares.
Basic == {"owner", "parent_item"}

TypeInv ==
  /\ doc \in [Doc -> [status : {"absent", "live", "deleted"},
                      parent : Doc \cup {None}, creator : User]]
  /\ tuples \in SUBSET Edge
  /\ groups \in SUBSET Group
  /\ members \in SUBSET (groups \X User)
  /\ attached \in SUBSET Doc
  /\ req \in [Request -> Reqs]
  /\ asked \in Nat
  /\ hung \in BOOLEAN /\ crossed \in BOOLEAN
  /\ orphaned \in SUBSET Doc /\ late \in SUBSET Doc /\ parted \in SUBSET Doc
  /\ doubled \in SUBSET (Doc \X Grantee)
  /\ stray \in SUBSET Edge
  /\ revoked \in SUBSET (Doc \X Basic)

Edits(q)  == req[q].pc \in {"resolve", "commit"}
Granting(q) == req[q].pc \in {"clear", "allow", "insert"}
Absent(d) == doc[d].status = "absent"

\* A document that was not created yet is nowhere but in the one request that
\* creates it, and nobody refers to it.
RowInv ==
  /\ \A d \in Doc : Absent(d) => /\ doc[d].parent = None
                                 /\ \A t \in tuples : t.object # d
  /\ \A d \in Doc : doc[d].parent # None => ~Absent(doc[d].parent)
  /\ \A q \in Request : Edits(q) =>
       /\ req[q].kind = "create" <=> Absent(req[q].doc)
       /\ req[q].parent # None => ~Absent(req[q].parent)
       /\ \A d \in req[q].listed : ~Absent(d)
  /\ \A q \in Request : Granting(q) => ~Absent(req[q].doc)
  /\ \A q, o \in Request :
       Edits(q) /\ Edits(o) /\ req[q].kind = "create" /\ req[q].doc = req[o].doc => q = o

\* Going up from any document ends.
Up == [d \in Doc |-> doc[d].parent]
Acyclic(f) == \A S \in SUBSET Doc : (\A d \in S : f[d] \in S) => S = {}

\* What admitted a move still holds when it commits, unless another move came first.
TreeInv ==
  /\ hung => crossed
  /\ ~crossed =>
       /\ Acyclic(Up)
       /\ \A q \in Request : Edits(q) /\ req[q].kind \in {"move", "patch"} /\ ~req[q].moved =>
            \/ req[q].parent \in {None, doc[req[q].doc].parent}
            \/ req[q].parent # req[q].doc /\ req[q].parent \notin Descendants(req[q].doc)
  /\ \A d \in Doc : Live(d) /\ doc[d].parent # None => Live(doc[d].parent) \/ d \in orphaned
  /\ \A q \in Request :
       req[q].pc = "commit" /\ req[q].kind # "delete" /\ ~req[q].deleted /\ req[q].parent # None
         => Live(req[q].parent)

\* A share that nothing overlapped has cleared its place, and a group whose tuples
\* were dropped has only stray ones.
TupleInv ==
  /\ TuplesFollow
  /\ \A q \in Request : req[q].pc \in {"allow", "insert"} /\ ~req[q].twice =>
       tuples \cap Shares(req[q].doc, req[q].grantee) = {}
  /\ \A q \in Request : req[q].pc = "row" =>
       \A t \in tuples : t.subject = req[q].group => t \in stray

\* What a delete has listed and released is its subtree, unless that was reshaped.
AttachInv ==
  /\ AttachmentsFollow
  /\ \A q \in Request : Edits(q) /\ req[q].kind = "delete" =>
       LET r == req[q]
           subtree == {r.doc} \cup Descendants(r.doc)
       IN  /\ ~r.reshaped => /\ r.listed \subseteq subtree
                             /\ \A d \in subtree : Live(d) => d \in r.listed
           /\ r.pc = "commit" => r.listed \cap attached = {}

-----------------------------------------------------------------------------
(* Going up and down a tree *)

Below(f, d) == {x \in Doc : \A S \in SUBSET Doc :
                              {y \in Doc : f[y] \in {d} \cup S} \subseteq S => x \in S}

LEMMA DescendantsBelow ==
  ASSUME NEW d \in Doc
  PROVE  Descendants(d) = Below(Up, d)
BY DEF Descendants, Children, Below, Up

LEMMA DescendantsBelowNext ==
  ASSUME NEW d \in Doc
  PROVE  Descendants(d)' = Below(Up', d)
BY DEF Descendants, Children, Below, Up

LEMMA BelowClosed ==
  ASSUME NEW f, NEW d, NEW x \in Doc, f[x] \in {d} \cup Below(f, d)
  PROVE  x \in Below(f, d)
<1> SUFFICES ASSUME NEW S \in SUBSET Doc, {y \in Doc : f[y] \in {d} \cup S} \subseteq S
             PROVE  x \in S
  BY DEF Below
<1>1. Below(f, d) \subseteq S
  BY DEF Below
<1> QED BY <1>1

LEMMA BelowLeast ==
  ASSUME NEW f, NEW d, NEW S \in SUBSET Doc,
         \A x \in Doc : f[x] \in {d} \cup S => x \in S
  PROVE  Below(f, d) \subseteq S
<1>1. {y \in Doc : f[y] \in {d} \cup S} \subseteq S
  OBVIOUS
<1> QED BY <1>1 DEF Below

LEMMA BelowInside == \A f, d : Below(f, d) \in SUBSET Doc
BY DEF Below

\* Whoever is below d has its parent there, or d itself.
LEMMA BelowParents ==
  ASSUME NEW f, NEW d, NEW x \in Below(f, d)
  PROVE  f[x] \in {d} \cup Below(f, d)
<1> SUFFICES ASSUME f[x] \notin {d} \cup Below(f, d) PROVE FALSE
  OBVIOUS
<1> DEFINE S == Below(f, d) \ {x}
<1>1. S \in SUBSET Doc
  BY BelowInside
<1>2. ASSUME NEW y \in Doc, f[y] \in {d} \cup S PROVE y \in S
  <2>1. f[y] \in {d} \cup Below(f, d)
    BY <1>2
  <2>2. y \in Below(f, d)
    BY <2>1, BelowClosed
  <2> QED BY <2>1, <2>2
<1> HIDE DEF S
<1>3. Below(f, d) \subseteq S
  BY <1>1, <1>2, BelowLeast
<1> QED BY <1>3 DEF S

LEMMA NobodyBelowItself ==
  ASSUME NEW f, NEW d \in Doc, Acyclic(f)
  PROVE  d \notin Below(f, d)
<1> SUFFICES ASSUME d \in Below(f, d) PROVE FALSE
  OBVIOUS
<1>1. \A x \in Below(f, d) : f[x] \in Below(f, d)
  BY BelowParents
<1> QED BY <1>1, BelowInside DEF Acyclic

\* A document may go under one that is not below it.
LEMMA MoveKeepsForest ==
  ASSUME NEW f \in [Doc -> Doc \cup {None}], Acyclic(f), NEW d \in Doc, NEW p \in Doc \cup {None},
         p \in {None, f[d]} \/ (p # d /\ p \notin Below(f, d))
  PROVE  Acyclic([f EXCEPT ![d] = p])
<1> DEFINE g == [f EXCEPT ![d] = p]
<1> SUFFICES ASSUME NEW S \in SUBSET Doc, \A x \in S : g[x] \in S, S # {}
             PROVE  FALSE
  BY DEF Acyclic
<1>1. \A x \in Doc \ {d} : g[x] = f[x]
  OBVIOUS
<1>2. g[d] = p
  OBVIOUS
<1>3. d \in S /\ p # f[d]
  <2>1. CASE d \notin S
    BY <1>1, <2>1 DEF Acyclic
  <2>2. CASE p = f[d]
    BY <1>1, <1>2, <2>2 DEF Acyclic
  <2> QED BY <2>1, <2>2
<1>4. p \in S /\ p # d /\ p \notin Below(f, d)
  BY <1>2, <1>3, Parameters DEF Parameters
<1> DEFINE T == S \ ({d} \cup Below(f, d))
<1>5. ASSUME NEW x \in T PROVE f[x] \in T
  <2>1. f[x] \in S
    BY <1>1, <1>5
  <2>2. f[x] \notin {d} \cup Below(f, d)
    BY <1>5, BelowClosed
  <2> QED BY <2>1, <2>2
<1>6. T \in SUBSET Doc /\ T # {}
  BY <1>4
<1> HIDE DEF T
<1> QED BY <1>5, <1>6 DEF Acyclic

LEMMA NothingBelowALeaf ==
  ASSUME NEW f, NEW d \in Doc, \A x \in Doc : f[x] # d
  PROVE  Below(f, d) = {}
<1>1. {} \in SUBSET Doc /\ \A x \in Doc : f[x] \in {d} \cup {} => x \in {}
  OBVIOUS
<1>2. Below(f, d) \subseteq {}
  BY <1>1, BelowLeast
<1> QED BY <1>2

\* Under another parent, a leaf is the only document that comes below anything.
LEMMA LeafComesBelow ==
  ASSUME NEW f \in [Doc -> Doc \cup {None}], NEW l \in Doc, NEW p \in Doc \cup {None},
         \A x \in Doc : f[x] # l, NEW d \in Doc, d # l
  PROVE  Below([f EXCEPT ![l] = p], d) \subseteq Below(f, d) \cup {l}
<1> DEFINE g == [f EXCEPT ![l] = p]
           S == Below(f, d) \cup {l}
<1>1. ASSUME NEW x \in Doc, g[x] \in {d} \cup S PROVE x \in S
  <2>1. CASE x = l
    BY <2>1
  <2>2. CASE x # l
    <3>1. f[x] \in {d} \cup Below(f, d)
      BY <1>1, <2>2
    <3> QED BY <3>1, BelowClosed
  <2> QED BY <2>1, <2>2
<1>2. S \in SUBSET Doc
  BY BelowInside
<1> HIDE DEF g, S
<1>3. Below(g, d) \subseteq S
  BY <1>1, <1>2, BelowLeast
<1> QED BY <1>3 DEF g, S

-----------------------------------------------------------------------------
(* Types *)

LEMMA InitTypes == Init => TypeInv
<1> SUFFICES ASSUME Init PROVE TypeInv
  OBVIOUS
<1>1. PICK f \in Forest, absent \in SUBSET Doc, u \in Creator :
        /\ doc = [d \in Doc |-> [status |-> IF d \in absent THEN "absent" ELSE "live",
                                 parent |-> f[d], creator |-> u]]
        /\ tuples = UNION {{OwnerTuple(d, u)} \cup ParentTuple(d) : d \in Doc \ absent}
        /\ attached = Doc \ absent
  BY DEF Init
<1>2. f \in [Doc -> Doc \cup {None}] /\ u \in User
  BY Parameters DEF Parameters, Forest
<1>3. doc \in [Doc -> [status : {"absent", "live", "deleted"}, parent : Doc \cup {None}, creator : User]]
  BY <1>1, <1>2
<1>4. ASSUME NEW t \in tuples PROVE t \in Edge
  <2>1. PICK d \in Doc \ absent : t \in {OwnerTuple(d, u)} \cup ParentTuple(d)
    BY <1>1, <1>4
  <2>2. doc[d].parent \in Doc \cup {None}
    BY <1>3
  <2> QED BY <1>2, <2>1, <2>2 DEF OwnerTuple, ParentTuple, Tuple, Edge
<1>5. req \in [Request -> Reqs]
  BY DEF Init, Reqs
<1>6. /\ groups = Group /\ members = {} /\ asked = 0 /\ hung = FALSE /\ crossed = FALSE
      /\ orphaned = {} /\ late = {} /\ doubled = {} /\ parted = {} /\ stray = {}
      /\ revoked = {}
  BY DEF Init
<1> QED BY <1>1, <1>3, <1>4, <1>5, <1>6 DEF TypeInv

\* A request of each kind, by what it is about to do.
LEMMA Kinds ==
  ASSUME TypeInv, NEW q \in Request
  PROVE  /\ req[q] \in Reqs
         /\ Edits(q) => req[q] \in EditReq
         /\ Granting(q) => req[q] \in ShareReq
         /\ req[q].pc \in {"members", "tuples", "row"} => req[q] \in DissolveReq
         /\ req[q].pc = "idle" => req[q] = Idle
BY DEF TypeInv, Reqs, Edits, Granting, EditReq, ShareReq, DissolveReq, Idle

\* A flag can be raised on the requests that have it.
LEMMA FlagTypes ==
  ASSUME TypeInv, NEW Q \in SUBSET Request,
         NEW flag \in {"moved", "reshaped", "deleted", "changed", "twice"},
         \A q \in Q : IF flag = "twice" THEN Granting(q) ELSE Edits(q)
  PROVE  Flagged(flag, Q) \in [Request -> Reqs]
<1> SUFFICES ASSUME NEW q \in Request
             PROVE  (IF q \in Q THEN [req[q] EXCEPT ![flag] = TRUE] ELSE req[q]) \in Reqs
  BY DEF Flagged
<1>1. CASE q \notin Q
  BY <1>1, Kinds
<1>2. CASE q \in Q /\ flag = "twice"
  <2>1. req[q] \in ShareReq
    BY <1>2, Kinds
  <2>2. [req[q] EXCEPT !["twice"] = TRUE] \in ShareReq
    BY <2>1 DEF ShareReq
  <2> QED BY <1>2, <2>2 DEF Reqs
<1>3. CASE q \in Q /\ flag # "twice"
  <2>1. req[q] \in EditReq
    BY <1>3, Kinds
  <2>2. \A r \in EditReq : /\ [r EXCEPT !["moved"] = TRUE] \in EditReq
                           /\ [r EXCEPT !["reshaped"] = TRUE] \in EditReq
                           /\ [r EXCEPT !["deleted"] = TRUE] \in EditReq
                           /\ [r EXCEPT !["changed"] = TRUE] \in EditReq
    BY DEF EditReq
  <2>3. [req[q] EXCEPT ![flag] = TRUE] \in EditReq
    BY <1>3, <2>1, <2>2
  <2> QED BY <1>3, <2>3 DEF Reqs
<1> QED BY <1>1, <1>2, <1>3

LEMMA IdleReq == Idle \in Reqs /\ ~(Idle.pc \in {"resolve", "commit", "clear", "allow", "insert", "row"})
BY DEF Reqs, Idle

\* Everything but the requests.
Others == <<doc, tuples, groups, members, attached, hung, ghost>>

LEMMA TypesOfOthers ==
  ASSUME TypeInv, UNCHANGED Others, asked' \in Nat, req' \in [Request -> Reqs]
  PROVE  TypeInv'
BY DEF TypeInv, Others, ghost

LEMMA NewReqs ==
  ASSUME NEW u \in User, NEW d \in Doc, NEW p \in Doc \cup {None}
  PROVE  /\ \A kind \in {"create", "move", "patch", "delete"}, pc \in {"resolve", "commit"} :
              Edit(kind, u, d, p, pc) \in EditReq
         /\ \A kind \in {"create", "move", "patch", "delete"}, pc \in {"resolve", "commit"}, S \in SUBSET Doc :
              [Edit(kind, u, d, p, pc) EXCEPT !.listed = S] \in EditReq
         /\ \A s \in Grantee, perm \in {"viewer", "editor"} : Sharing(u, d, s, perm) \in ShareReq
BY DEF Edit, Sharing, EditReq, ShareReq

\* What asks for something starts with a new request of its kind.
Starting(q, r) ==
  /\ ~Running(q) /\ ~hung /\ r \in Reqs
  /\ asked' = asked + 1
  /\ req' = [req EXCEPT ![q] = r]
  /\ UNCHANGED Others

CreateAsked(q, r) ==
  /\ Starting(q, r)
  /\ \E u \in User, d \in Doc, p \in Doc \cup {None} :
       /\ Absent(d)
       /\ \A o \in Request : Running(o) => req[o].doc # d
       /\ p # None => Live(p)
       /\ r = Edit("create", u, d, p, IF p = None THEN "commit" ELSE "resolve")

MoveAsked(q, r) ==
  /\ Starting(q, r)
  /\ \E u \in User, d \in Doc, p \in Doc \cup {None}, kind \in {"move", "patch"} :
       /\ Live(d)
       /\ TargetAllowed(u, d, p) \/ p = doc[d].parent
       /\ r = Edit(kind, u, d, p, "resolve")

DeleteAsked(q, r) ==
  /\ Starting(q, r)
  /\ \E u \in User, d \in Doc :
       /\ Live(d)
       /\ r = [Edit("delete", u, d, None, "resolve") EXCEPT !.listed = {d} \cup Descendants(d)]

ShareAsked(q, r) ==
  /\ Starting(q, r)
  /\ \E u \in User, d \in Doc, s \in Grantee, perm \in {"viewer", "editor"} :
       /\ Live(d)
       /\ r = Sharing(u, d, s, perm)

DissolveAsked(q, r) ==
  /\ Starting(q, r)
  /\ \E x \in Group : r = [pc |-> "members", kind |-> "dissolve", group |-> x, doc |-> None]

Asked(q, r) ==
  CreateAsked(q, r) \/ MoveAsked(q, r) \/ DeleteAsked(q, r) \/ ShareAsked(q, r) \/ DissolveAsked(q, r)

LEMMA Asking ==
  ASSUME TypeInv, NEW q \in Request, Asks(q) \/ \E x \in Group : AskDissolve(q, x)
  PROVE  \E r \in Reqs : Asked(q, r)
<1>1. CASE \E x \in Group : AskDissolve(q, x)
  <2>1. PICK x \in Group : AskDissolve(q, x)
    BY <1>1
  <2> DEFINE r == [pc |-> "members", kind |-> "dissolve", group |-> x, doc |-> None]
  <2>2. r \in Reqs
    BY DEF Reqs, DissolveReq
  <2>3. DissolveAsked(q, r)
    BY <2>1, <2>2 DEF AskDissolve, Free, Start, DissolveAsked, Starting, Others, data
  <2> QED BY <2>2, <2>3 DEF Asked
<1>2. CASE Asks(q)
  <2>1. PICK u \in User, d \in Doc :
          \/ \E p \in Doc \cup {None} : AskCreate(q, u, d, p)
          \/ AskMove(q, u, d) \/ AskDelete(q, u, d) \/ AskShare(q, u, d)
    BY <1>2 DEF Asks
  <2>2. CASE \E p \in Doc \cup {None} : AskCreate(q, u, d, p)
    <3>1. PICK p \in Doc \cup {None} : AskCreate(q, u, d, p)
      BY <2>2
    <3> DEFINE r == Edit("create", u, d, p, IF p = None THEN "commit" ELSE "resolve")
    <3>2. r \in Reqs
      BY NewReqs DEF Reqs
    <3> HIDE DEF r
    <3>3. Starting(q, r)
      BY <3>1, <3>2 DEF r, AskCreate, Free, Start, Starting, Others, data
    <3>4. CreateAsked(q, r)
      BY <3>1, <3>3 DEF r, AskCreate, CreateAsked, Absent
    <3> QED BY <3>2, <3>4 DEF Asked
  <2>3. CASE AskMove(q, u, d)
    <3>1. PICK p \in Doc \cup {None}, kind \in {"move", "patch"} :
            /\ TargetAllowed(u, d, p) \/ p = doc[d].parent
            /\ Start(q, Edit(kind, u, d, p, "resolve"))
      BY <2>3 DEF AskMove
    <3> DEFINE r == Edit(kind, u, d, p, "resolve")
    <3>2. r \in Reqs
      BY NewReqs DEF Reqs
    <3> HIDE DEF r
    <3>3. Starting(q, r)
      BY <2>3, <3>1, <3>2 DEF r, AskMove, Free, Start, Starting, Others, data
    <3>4. MoveAsked(q, r)
      BY <2>3, <3>1, <3>3 DEF r, AskMove, MoveAsked
    <3> QED BY <3>2, <3>4 DEF Asked
  <2>4. CASE AskDelete(q, u, d)
    <3> DEFINE r == [Edit("delete", u, d, None, "resolve") EXCEPT !.listed = {d} \cup Descendants(d)]
    <3>1. {d} \cup Descendants(d) \in SUBSET Doc
      BY DEF Descendants
    <3>2. r \in Reqs
      BY <3>1, NewReqs DEF Reqs
    <3> HIDE DEF r
    <3>3. Starting(q, r)
      BY <2>4, <3>2 DEF r, AskDelete, Free, Start, Starting, Others, data
    <3>4. DeleteAsked(q, r)
      BY <2>4, <3>3 DEF r, AskDelete, DeleteAsked
    <3> QED BY <3>2, <3>4 DEF Asked
  <2>5. CASE AskShare(q, u, d)
    <3>1. PICK s \in Grantee, perm \in {"viewer", "editor"} : Start(q, Sharing(u, d, s, perm))
      BY <2>5 DEF AskShare
    <3> DEFINE r == Sharing(u, d, s, perm)
    <3>2. r \in Reqs
      BY NewReqs DEF Reqs
    <3> HIDE DEF r
    <3>3. Starting(q, r)
      BY <2>5, <3>1, <3>2 DEF r, AskShare, Free, Start, Starting, Others, data
    <3>4. ShareAsked(q, r)
      BY <2>5, <3>1, <3>3 DEF r, AskShare, ShareAsked
    <3> QED BY <3>2, <3>4 DEF Asked
  <2> QED BY <2>1, <2>2, <2>3, <2>4, <2>5
<1> QED BY <1>1, <1>2

\* A request goes on to the next step of its kind.
LEMMA Onward ==
  ASSUME TypeInv, NEW q \in Request
  PROVE  /\ Edits(q) => [req[q] EXCEPT !.pc = "commit"] \in EditReq
         /\ Granting(q) => /\ [req[q] EXCEPT !.pc = "allow"] \in ShareReq
                           /\ [req[q] EXCEPT !.pc = "insert"] \in ShareReq
         /\ req[q].pc \in {"members", "tuples"} =>
              /\ [req[q] EXCEPT !.pc = "tuples"] \in DissolveReq
              /\ [req[q] EXCEPT !.pc = "row"] \in DissolveReq
BY Kinds DEF EditReq, ShareReq, DissolveReq

LEMMA SetReq ==
  ASSUME NEW f \in [Request -> Reqs], NEW q \in Request, NEW r \in Reqs
  PROVE  /\ [f EXCEPT ![q] = r] \in [Request -> Reqs]
         /\ [f EXCEPT ![q] = r][q] = r
         /\ \A o \in Request \ {q} : [f EXCEPT ![q] = r][o] = f[o]
OBVIOUS

LEMMA GoesTo ==
  ASSUME NEW q \in Request, NEW pc, TypeInv, Goto(q, pc)
  PROVE  /\ req'[q] = [req[q] EXCEPT !.pc = pc]
         /\ \A o \in Request \ {q} : req'[o] = req[o]
         /\ [req[q] EXCEPT !.pc = pc] \in Reqs => req' \in [Request -> Reqs]
BY DEF TypeInv, Goto

LEMMA DoneTypes ==
  ASSUME NEW q \in Request, TypeInv, Done(q)
  PROVE  /\ req'[q] = Idle
         /\ \A o \in Request \ {q} : req'[o] = req[o]
         /\ req' \in [Request -> Reqs]
BY DEF TypeInv, Done, Reqs

LEMMA TypesResolve ==
  ASSUME TypeInv, NEW q \in Request, Resolve(q)
  PROVE  TypeInv'
<1>1. req[q].pc = "resolve" /\ Goto(q, "commit") /\ UNCHANGED <<data, asked, hung, ghost>>
  BY DEF Resolve
<1>2. req' \in [Request -> Reqs]
  BY <1>1, GoesTo, Onward DEF Edits, Reqs
<1> QED BY <1>1, <1>2 DEF TypeInv, data, ghost

LEMMA TypesCreate ==
  ASSUME TypeInv, NEW q \in Request, CommitCreate(q)
  PROVE  TypeInv'
<1>1. req[q] \in EditReq
  BY Kinds DEF CommitCreate, Edits
<1>2. req[q].doc \in Doc /\ req[q].parent \in Doc \cup {None} /\ req[q].user \in User
  BY <1>1 DEF EditReq
<1>3. doc' \in [Doc -> [status : {"absent", "live", "deleted"}, parent : Doc \cup {None}, creator : User]]
  BY <1>2 DEF TypeInv, CommitCreate
<1>4. OwnerTuple(req[q].doc, req[q].user) \in Edge
  BY <1>2 DEF OwnerTuple, Tuple, Edge
<1>5. req[q].parent # None => Tuple(req[q].doc, "parent_item", req[q].parent) \in Edge
  BY <1>2 DEF Tuple, Edge
<1>6. tuples' \in SUBSET Edge
  BY <1>4, <1>5 DEF TypeInv, CommitCreate
<1>7. Flagged("reshaped", Editing) \in [Request -> Reqs]
  BY FlagTypes DEF Editing, Edits
<1>8. req' \in [Request -> Reqs]
  BY <1>7, SetReq, IdleReq DEF CommitCreate
<1>9. orphaned' \in SUBSET Doc /\ attached' \in SUBSET Doc
  BY <1>2 DEF TypeInv, CommitCreate
<1> QED BY <1>3, <1>6, <1>8, <1>9 DEF TypeInv, CommitCreate

LEMMA OvertakenTypes ==
  ASSUME NEW r \in EditReq, NEW d
  PROVE  /\ Overtaken(r, d) \in EditReq
         /\ Overtaken(r, d).pc = r.pc /\ Overtaken(r, d).kind = r.kind
         /\ Overtaken(r, d).doc = r.doc /\ Overtaken(r, d).parent = r.parent
         /\ Overtaken(r, d).listed = r.listed /\ Overtaken(r, d).deleted = r.deleted
         /\ Overtaken(r, d).moved /\ Overtaken(r, d).reshaped
<1>1. (r.changed \/ r.doc = d) \in BOOLEAN
  OBVIOUS
<1> QED BY <1>1 DEF Overtaken, EditReq

LEMMA TypesUpdate ==
  ASSUME TypeInv, NEW q \in Request, CommitUpdate(q)
  PROVE  TypeInv'
<1>1. req[q] \in EditReq
  BY Kinds DEF CommitUpdate, Edits
<1>2. req[q].doc \in Doc /\ req[q].parent \in Doc \cup {None} /\ req[q].moved \in BOOLEAN
  BY <1>1 DEF EditReq
<1>3. doc' \in [Doc -> [status : {"absent", "live", "deleted"}, parent : Doc \cup {None}, creator : User]]
  BY <1>2 DEF TypeInv, CommitUpdate
<1>4. req[q].parent # None => Tuple(req[q].doc, "parent_item", req[q].parent) \in Edge
  BY <1>2 DEF Tuple, Edge
<1>5. tuples' \in SUBSET Edge
  BY <1>4 DEF TypeInv, CommitUpdate, Reparented
<1>6. req' \in [Request -> Reqs]
  <2>1. ASSUME NEW o \in Request
        PROVE  (IF o = q THEN Idle ELSE IF o \in Editing THEN Overtaken(req[o], req[q].doc) ELSE req[o]) \in Reqs
    BY Kinds, OvertakenTypes, IdleReq DEF Editing, Edits, Reqs
  <2> QED BY <2>1 DEF CommitUpdate
<1>7. /\ orphaned' \in SUBSET Doc /\ late' \in SUBSET Doc /\ crossed' \in BOOLEAN
      /\ revoked' \in SUBSET (Doc \X Basic)
  BY <1>2 DEF TypeInv, CommitUpdate
<1> QED BY <1>3, <1>5, <1>6, <1>7 DEF TypeInv, CommitUpdate

LEMMA TypesRelease ==
  ASSUME TypeInv, NEW q \in Request, Release(q)
  PROVE  TypeInv'
<1>1. req[q] \in EditReq /\ Edits(q)
  BY Kinds DEF Release, Edits
<1>2. Released(req[q]) \in SUBSET Doc
  BY <1>1 DEF Released, EditReq
<1>3. attached' \in SUBSET Doc /\ parted' \in SUBSET Doc
  BY <1>2 DEF TypeInv, Release
<1>4. req' \in [Request -> Reqs]
  <2>1. CASE Live(req[q].doc)
    <3>1. req' = [req EXCEPT ![q].pc = "commit", ![q].listed = Released(req[q])]
      BY <2>1 DEF Release
    <3>2. [req[q] EXCEPT !.pc = "commit", !.listed = Released(req[q])] \in EditReq
      BY <1>1, <1>2 DEF EditReq
    <3> QED BY <3>1, <3>2 DEF TypeInv, Reqs
  <2>2. CASE ~Live(req[q].doc)
    BY <2>2, DoneTypes DEF Release
  <2> QED BY <2>1, <2>2
<1> QED BY <1>3, <1>4 DEF TypeInv, Release

LEMMA TypesDelete ==
  ASSUME TypeInv, NEW q \in Request, CommitDelete(q)
  PROVE  TypeInv'
<1> DEFINE d    == req[q].doc
           gone == {d} \cup Descendants(d)
           live == {x \in gone : Live(x)}
<1>1. req[q] \in EditReq
  BY Kinds DEF CommitDelete, Edits
<1>2. d \in Doc /\ req[q].listed \in SUBSET Doc
  BY <1>1 DEF EditReq
<1>3. live \in SUBSET Doc
  BY <1>2 DEF Descendants
<1>4. CASE Endless(d)
  BY <1>4 DEF TypeInv, CommitDelete
<1>5. CASE ~Endless(d)
  <2>1. /\ doc' = [x \in Doc |-> IF x \in live THEN [doc[x] EXCEPT !.status = "deleted"] ELSE doc[x]]
        /\ tuples' = {t \in tuples : t.object \notin gone}
        /\ req' = [Flagged("deleted", {o \in Editing : req[o].pc = "commit"}) EXCEPT ![q] = Idle]
        /\ parted' = IF req[q].reshaped THEN parted \cup Differ(req[q].listed, live) ELSE parted
        /\ hung' = hung
    BY <1>5 DEF CommitDelete
  <2>2. doc' \in [Doc -> [status : {"absent", "live", "deleted"}, parent : Doc \cup {None}, creator : User]]
    BY <2>1 DEF TypeInv
  <2>3. Flagged("deleted", {o \in Editing : req[o].pc = "commit"}) \in [Request -> Reqs]
    BY FlagTypes DEF Editing, Edits
  <2>4. req' \in [Request -> Reqs]
    BY <2>1, <2>3, SetReq, IdleReq
  <2>5. parted' \in SUBSET Doc
    BY <1>2, <1>3, <2>1 DEF TypeInv, Differ
  <2>6. tuples' \in SUBSET Edge
    BY <2>1 DEF TypeInv
  <2> QED BY <2>1, <2>2, <2>4, <2>5, <2>6 DEF TypeInv, CommitDelete
<1> QED BY <1>4, <1>5

LEMMA TypesGrant ==
  ASSUME TypeInv, NEW q \in Request, ClearShare(q) \/ AllowShare(q) \/ InsertShare(q)
  PROVE  TypeInv'
<1>1. req[q] \in ShareReq /\ Granting(q)
  BY Kinds DEF ClearShare, AllowShare, InsertShare, Granting
<1>2. /\ req[q].doc \in Doc /\ req[q].grantee \in Grantee /\ req[q].grantee \in User \cup Group
      /\ Tuple(req[q].doc, req[q].perm, req[q].grantee) \in Edge
  BY <1>1, Parameters DEF Parameters, ShareReq, Tuple, Edge
<1>3. CASE ClearShare(q) \/ AllowShare(q)
  <2>1. req' \in [Request -> Reqs]
    BY <1>1, <1>3, GoesTo, Onward DEF ClearShare, AllowShare, Reqs
  <2> QED BY <1>3, <2>1 DEF TypeInv, ClearShare, AllowShare, data, ghost
<1>4. CASE InsertShare(q)
  <2> DEFINE over == {o \in Request \ {q} : /\ req[o].pc \in {"allow", "insert"}
                                            /\ req[o].doc = req[q].doc /\ req[o].grantee = req[q].grantee}
  <2>1. Flagged("twice", over) \in [Request -> Reqs]
    BY FlagTypes DEF Granting
  <2>2. req' \in [Request -> Reqs]
    BY <1>4, <2>1, SetReq, IdleReq DEF InsertShare
  <2>3. /\ tuples' \in SUBSET Edge /\ stray' \in SUBSET Edge /\ late' \in SUBSET Doc
        /\ doubled' \in SUBSET (Doc \X Grantee)
    BY <1>2, <1>4 DEF TypeInv, InsertShare
  <2> QED BY <1>4, <2>2, <2>3 DEF TypeInv, InsertShare
<1> QED BY <1>3, <1>4

LEMMA TypesDissolve ==
  ASSUME TypeInv, NEW q \in Request, DropMembers(q) \/ DropTuples(q) \/ DropRow(q)
  PROVE  TypeInv'
<1>1. CASE DropMembers(q)
  <2>1. req' \in [Request -> Reqs]
    BY <1>1, GoesTo, Onward DEF DropMembers, Reqs
  <2>2. members' \subseteq members /\ UNCHANGED groups
    BY <1>1 DEF DropMembers
  <2> QED BY <1>1, <2>1, <2>2 DEF TypeInv, DropMembers, ghost
<1>2. CASE DropTuples(q)
  <2>1. req' \in [Request -> Reqs]
    BY <1>2, GoesTo, Onward DEF DropTuples, Reqs
  <2>2. tuples' \subseteq tuples
    BY <1>2 DEF DropTuples
  <2> QED BY <1>2, <2>1, <2>2 DEF TypeInv, DropTuples, ghost
<1>3. CASE DropRow(q)
  <2>1. req' \in [Request -> Reqs]
    BY <1>3, DoneTypes DEF DropRow
  <2>2. groups' = groups \ {req[q].group} /\ members' = {m \in members : m[1] # req[q].group}
    BY <1>3 DEF DropRow, WithoutMembers
  <2>3. groups' \in SUBSET Group /\ members' \in SUBSET (groups' \X User)
    BY <2>2 DEF TypeInv
  <2> QED BY <1>3, <2>1, <2>3 DEF TypeInv, DropRow, ghost
<1> QED BY <1>1, <1>2, <1>3

LEMMA TypesAbandon ==
  ASSUME TypeInv, NEW q \in Request, Abandon(q)
  PROVE  TypeInv'
<1>1. req' \in [Request -> Reqs]
  BY DoneTypes DEF Abandon
<1>2. req[q].kind = "delete" /\ req[q].pc = "commit" => req[q].listed \in SUBSET Doc
  BY Kinds DEF Edits, EditReq
<1>3. parted' \in SUBSET Doc
  BY <1>2 DEF TypeInv, Abandon
<1> QED BY <1>1, <1>3 DEF TypeInv, Abandon, data

\* What a step does that is no request's.
Aside ==
  \/ \E d \in Doc : Hang(d)
  \/ \E u \in User, t \in tuples : Unshare(u, t)
  \/ \E x \in Group, u \in User : Join(x, u) \/ Leave(x, u)

LEMMA TypesAside ==
  ASSUME TypeInv, Aside
  PROVE  TypeInv'
<1>1. ASSUME NEW d \in Doc, Hang(d) PROVE TypeInv'
  BY <1>1 DEF TypeInv, Hang, data, ghost
<1>2. ASSUME NEW u \in User, NEW t \in tuples, Unshare(u, t) PROVE TypeInv'
  <2>1. t.object \in Doc /\ (t.rel \in Basic => <<t.object, t.rel>> \in Doc \X Basic)
    BY DEF TypeInv, Edge
  <2>2. revoked' \in SUBSET (Doc \X Basic)
    BY <1>2, <2>1 DEF TypeInv, Unshare, Basic
  <2>3. tuples' \in SUBSET Edge /\ asked' \in Nat
    BY <1>2 DEF TypeInv, Unshare
  <2> QED BY <1>2, <2>2, <2>3 DEF TypeInv, Unshare
<1>3. ASSUME NEW x \in Group, NEW u \in User, Join(x, u) PROVE TypeInv'
  BY <1>3 DEF TypeInv, Join, ghost
<1>4. ASSUME NEW x \in Group, NEW u \in User, Leave(x, u) PROVE TypeInv'
  BY <1>4 DEF TypeInv, Leave, ghost
<1> QED BY <1>1, <1>2, <1>3, <1>4 DEF Aside

LEMMA NextTypes ==
  ASSUME TypeInv, [Next]_vars
  PROVE  TypeInv'
<1>1. CASE UNCHANGED vars
  BY <1>1 DEF TypeInv, vars, data, ghost
<1>2. ASSUME NEW q \in Request, Asks(q) \/ \E x \in Group : AskDissolve(q, x) PROVE TypeInv'
  <2>1. PICK r \in Reqs : Asked(q, r)
    BY <1>2, Asking
  <2>2. Starting(q, r)
    BY <2>1 DEF Asked, CreateAsked, MoveAsked, DeleteAsked, ShareAsked, DissolveAsked
  <2>3. req' \in [Request -> Reqs] /\ asked' \in Nat /\ UNCHANGED Others
    BY <2>2 DEF Starting, TypeInv
  <2> QED BY <2>3, TypesOfOthers
<1>3. ASSUME NEW q \in Request, Steps(q) PROVE TypeInv'
  BY <1>3, TypesResolve, TypesCreate, TypesUpdate, TypesRelease, TypesDelete, TypesGrant,
     TypesDissolve, TypesAbandon DEF Steps
<1>4. CASE Aside
  BY <1>4, TypesAside
<1> QED BY <1>1, <1>2, <1>3, <1>4 DEF Next, Aside

-----------------------------------------------------------------------------
(* What a step does to the requests *)

\* The request is where it was, with what it knows; flags are only raised.
KeptAs(r, s) ==
  /\ s.pc = r.pc
  /\ r.pc \in {"resolve", "commit"} =>
       /\ s.kind = r.kind /\ s.doc = r.doc /\ s.parent = r.parent /\ s.listed = r.listed
       /\ r.moved => s.moved
       /\ r.reshaped => s.reshaped
       /\ r.deleted => s.deleted
  /\ r.pc \in {"clear", "allow", "insert"} =>
       /\ s.doc = r.doc /\ s.grantee = r.grantee
       /\ r.twice => s.twice
  /\ r.pc \in {"members", "tuples", "row"} => s.group = r.group

LEMMA KeptSame == \A r : KeptAs(r, r)
BY DEF KeptAs

LEMMA FlagKeeps ==
  ASSUME TypeInv, NEW Q \in SUBSET Request,
         NEW flag \in {"moved", "reshaped", "deleted", "changed", "twice"},
         \A q \in Q : IF flag = "twice" THEN Granting(q) ELSE Edits(q),
         NEW o \in Request
  PROVE  /\ KeptAs(req[o], Flagged(flag, Q)[o])
         /\ o \in Q => Flagged(flag, Q)[o][flag] = TRUE
<1>1. Flagged(flag, Q)[o] = IF o \in Q THEN [req[o] EXCEPT ![flag] = TRUE] ELSE req[o]
  BY DEF Flagged
<1>2. CASE o \notin Q
  BY <1>1, <1>2, KeptSame
<1>3. CASE o \in Q /\ flag = "twice"
  <2>1. req[o] \in ShareReq
    BY <1>3, Kinds
  <2>2. \A r \in ShareReq : KeptAs(r, [r EXCEPT !["twice"] = TRUE]) /\ [r EXCEPT !["twice"] = TRUE]["twice"] = TRUE
    BY DEF ShareReq, KeptAs
  <2> QED BY <1>1, <1>3, <2>1, <2>2
<1>4. CASE o \in Q /\ flag # "twice"
  <2>1. req[o] \in EditReq
    BY <1>4, Kinds
  <2>2. \A r \in EditReq :
          /\ KeptAs(r, [r EXCEPT !["moved"] = TRUE]) /\ [r EXCEPT !["moved"] = TRUE]["moved"] = TRUE
          /\ KeptAs(r, [r EXCEPT !["reshaped"] = TRUE]) /\ [r EXCEPT !["reshaped"] = TRUE]["reshaped"] = TRUE
          /\ KeptAs(r, [r EXCEPT !["deleted"] = TRUE]) /\ [r EXCEPT !["deleted"] = TRUE]["deleted"] = TRUE
          /\ KeptAs(r, [r EXCEPT !["changed"] = TRUE]) /\ [r EXCEPT !["changed"] = TRUE]["changed"] = TRUE
    BY DEF EditReq, KeptAs
  <2>3. KeptAs(req[o], [req[o] EXCEPT ![flag] = TRUE]) /\ [req[o] EXCEPT ![flag] = TRUE][flag] = TRUE
    BY <1>4, <2>1, <2>2
  <2> QED BY <1>1, <1>4, <2>3
<1> QED BY <1>2, <1>3, <1>4

\* A step of one request keeps the others.
LEMMA OthersKept ==
  ASSUME TypeInv, NEW q \in Request, Steps(q), NEW o \in Request \ {q}
  PROVE  KeptAs(req[o], req'[o])
<1>1. CASE Resolve(q) \/ ClearShare(q) \/ AllowShare(q) \/ DropMembers(q) \/ DropTuples(q)
  <2>1. \E pc \in {"commit", "allow", "insert", "tuples", "row"} : Goto(q, pc)
    BY <1>1 DEF Resolve, ClearShare, AllowShare, DropMembers, DropTuples
  <2>2. req'[o] = req[o]
    BY <2>1, GoesTo
  <2> QED BY <2>2, KeptSame
<1>2. CASE DropRow(q) \/ Abandon(q)
  BY <1>2, DoneTypes, KeptSame DEF DropRow, Abandon
<1>3. CASE CommitCreate(q)
  <2>1. req'[o] = Flagged("reshaped", Editing)[o]
    BY <1>3 DEF CommitCreate, Flagged
  <2> QED BY <2>1, FlagKeeps DEF Editing, Edits
<1>4. CASE CommitUpdate(q)
  <2>1. req'[o] = IF o \in Editing THEN Overtaken(req[o], req[q].doc) ELSE req[o]
    BY <1>4 DEF CommitUpdate
  <2>2. o \in Editing => KeptAs(req[o], Overtaken(req[o], req[q].doc))
    <3>1. ASSUME o \in Editing PROVE req[o] \in EditReq /\ Edits(o)
      BY <3>1, Kinds DEF Editing, Edits
    <3> QED BY <3>1, OvertakenTypes DEF KeptAs, Edits
  <2> QED BY <2>1, <2>2, KeptSame
<1>5. CASE Release(q)
  <2>1. req'[o] = req[o]
    BY <1>5, DoneTypes DEF Release, TypeInv
  <2> QED BY <2>1, KeptSame
<1>6. CASE CommitDelete(q)
  <2>1. req'[o] \in {req[o], Flagged("deleted", {p \in Editing : req[p].pc = "commit"})[o]}
    BY <1>6 DEF CommitDelete, Flagged
  <2>2. KeptAs(req[o], Flagged("deleted", {p \in Editing : req[p].pc = "commit"})[o])
    BY FlagKeeps DEF Editing, Edits
  <2> QED BY <2>1, <2>2, KeptSame
<1>7. CASE InsertShare(q)
  <2> DEFINE over == {p \in Request \ {q} : /\ req[p].pc \in {"allow", "insert"}
                                            /\ req[p].doc = req[q].doc /\ req[p].grantee = req[q].grantee}
  <2>1. req'[o] = Flagged("twice", over)[o]
    BY <1>7 DEF InsertShare, Flagged
  <2>2. KeptAs(req[o], Flagged("twice", over)[o])
    BY FlagKeeps DEF Granting
  <2> QED BY <2>1, <2>2
<1> QED BY <1>1, <1>2, <1>3, <1>4, <1>5, <1>6, <1>7 DEF Steps

\* The request of the step ends, or goes on to the next one.
LEMMA OwnStep ==
  ASSUME TypeInv, NEW q \in Request, Steps(q)
  PROVE  \/ req'[q] = Idle
         \/ Resolve(q) /\ req'[q] = [req[q] EXCEPT !.pc = "commit"]
         \/ /\ Release(q) /\ Live(req[q].doc)
            /\ req'[q] = [req[q] EXCEPT !.pc = "commit", !.listed = Released(req[q])]
         \/ /\ CommitDelete(q) /\ Endless(req[q].doc)
            /\ UNCHANGED <<doc, tuples, req, attached, crossed>> /\ hung'
         \/ ClearShare(q) /\ req'[q] = [req[q] EXCEPT !.pc = "allow"]
         \/ AllowShare(q) /\ req'[q] = [req[q] EXCEPT !.pc = "insert"]
         \/ DropMembers(q) /\ req'[q] = [req[q] EXCEPT !.pc = "tuples"]
         \/ DropTuples(q) /\ req'[q] = [req[q] EXCEPT !.pc = "row"]
<1>1. CASE Resolve(q)
  BY <1>1, GoesTo DEF Resolve
<1>2. CASE ClearShare(q)
  BY <1>2, GoesTo DEF ClearShare
<1>3. CASE AllowShare(q)
  BY <1>3, GoesTo DEF AllowShare
<1>4. CASE DropMembers(q)
  BY <1>4, GoesTo DEF DropMembers
<1>5. CASE DropTuples(q)
  BY <1>5, GoesTo DEF DropTuples
<1>6. CASE DropRow(q) \/ Abandon(q)
  BY <1>6, DoneTypes DEF DropRow, Abandon
<1>7. CASE CommitCreate(q)
  <2>1. req'[q] = Idle
    BY <1>7 DEF CommitCreate, Flagged
  <2> QED BY <2>1
<1>8. CASE CommitUpdate(q)
  <2>1. req'[q] = Idle
    BY <1>8 DEF CommitUpdate
  <2> QED BY <2>1
<1>9. CASE InsertShare(q)
  <2>1. req'[q] = Idle
    BY <1>9 DEF InsertShare, Flagged
  <2> QED BY <2>1
<1>10. CASE Release(q)
  <2>1. CASE Live(req[q].doc)
    BY <1>10, <2>1 DEF Release, TypeInv
  <2>2. CASE ~Live(req[q].doc)
    BY <1>10, <2>2, DoneTypes DEF Release
  <2> QED BY <2>1, <2>2
<1>11. CASE CommitDelete(q)
  <2>1. CASE Endless(req[q].doc)
    BY <1>11, <2>1 DEF CommitDelete
  <2>2. CASE ~Endless(req[q].doc)
    <3>1. req'[q] = Idle
      BY <1>11, <2>2 DEF CommitDelete, Flagged
    <3> QED BY <3>1
  <2> QED BY <2>1, <2>2
<1> QED BY <1>1, <1>2, <1>3, <1>4, <1>5, <1>6, <1>7, <1>8, <1>9, <1>10, <1>11 DEF Steps

-----------------------------------------------------------------------------
(* Documents that were not created yet *)

LEMMA InitRows == Init => RowInv
<1> SUFFICES ASSUME Init PROVE RowInv
  OBVIOUS
<1>1. PICK f \in Forest, absent \in SUBSET Doc, u \in Creator :
        /\ \A d \in absent : f[d] = None /\ \A c \in Doc : f[c] # d
        /\ doc = [d \in Doc |-> [status |-> IF d \in absent THEN "absent" ELSE "live",
                                 parent |-> f[d], creator |-> u]]
        /\ tuples = UNION {{OwnerTuple(d, u)} \cup ParentTuple(d) : d \in Doc \ absent}
        /\ req = [q \in Request |-> Idle]
  BY DEF Init
<1>2. \A d \in Doc : /\ doc[d].status = IF d \in absent THEN "absent" ELSE "live"
                     /\ doc[d].parent = f[d]
  BY <1>1
<1>3. f \in [Doc -> Doc \cup {None}]
  BY DEF Forest
<1>4. \A t \in tuples : t.object \in Doc \ absent
  BY <1>1 DEF OwnerTuple, ParentTuple, Tuple
<1>5. ASSUME NEW d \in Doc, doc[d].parent # None PROVE ~Absent(doc[d].parent)
  BY <1>1, <1>2, <1>3, <1>5 DEF Absent
<1>6. \A q \in Request : ~Edits(q) /\ ~Granting(q)
  BY <1>1 DEF Edits, Granting, Idle
<1> QED BY <1>1, <1>2, <1>4, <1>5, <1>6 DEF RowInv, Absent

\* The documents and their tuples change in four kinds of steps; in the others
\* tuples only go.
DataKept == doc' = doc /\ tuples' \subseteq tuples

LEMMA DataStep ==
  ASSUME NEW q \in Request, Steps(q)
  PROVE  CommitCreate(q) \/ CommitUpdate(q) \/ CommitDelete(q) \/ InsertShare(q) \/ DataKept
BY DEF Steps, DataKept, Resolve, Release, ClearShare, AllowShare, DropMembers, DropTuples, DropRow,
       Abandon, data

\* What the two commits write, and what a delete does unless it hangs.
LEMMA CreateWrites ==
  ASSUME TypeInv, NEW q \in Request, CommitCreate(q)
  PROVE  /\ req[q] \in EditReq /\ req[q].doc \in Doc /\ req[q].parent \in Doc \cup {None}
         /\ doc'[req[q].doc].status = "live" /\ doc'[req[q].doc].parent = req[q].parent
         /\ doc'[req[q].doc].creator = req[q].user
         /\ \A d \in Doc : d # req[q].doc => doc'[d] = doc[d]
         /\ tuples' = tuples \cup {OwnerTuple(req[q].doc, req[q].user)}
                        \cup (IF req[q].parent = None THEN {}
                              ELSE {Tuple(req[q].doc, "parent_item", req[q].parent)})
         /\ Up' = [Up EXCEPT ![req[q].doc] = req[q].parent]
<1>1. req[q] \in EditReq
  BY Kinds DEF CommitCreate, Edits
<1>2. req[q].doc \in Doc /\ req[q].parent \in Doc \cup {None}
  BY <1>1 DEF EditReq
<1>3. /\ doc' = [doc EXCEPT ![req[q].doc] = [status |-> "live", parent |-> req[q].parent, creator |-> req[q].user]]
      /\ tuples' = tuples \cup {OwnerTuple(req[q].doc, req[q].user)}
                     \cup (IF req[q].parent = None THEN {}
                           ELSE {Tuple(req[q].doc, "parent_item", req[q].parent)})
  BY DEF CommitCreate
<1>4. DOMAIN doc = Doc
  BY DEF TypeInv
<1>5. /\ doc'[req[q].doc].status = "live" /\ doc'[req[q].doc].parent = req[q].parent
      /\ doc'[req[q].doc].creator = req[q].user
      /\ \A d \in Doc : d # req[q].doc => doc'[d] = doc[d]
  BY <1>2, <1>3, <1>4
<1>6. \A d \in Doc : doc'[d].parent = IF d = req[q].doc THEN req[q].parent ELSE doc[d].parent
  BY <1>2, <1>5
<1>7. Up' = [Up EXCEPT ![req[q].doc] = req[q].parent]
  BY <1>2, <1>6 DEF Up
<1> QED BY <1>1, <1>2, <1>3, <1>5, <1>7

LEMMA UpdateWrites ==
  ASSUME TypeInv, NEW q \in Request, CommitUpdate(q)
  PROVE  /\ req[q] \in EditReq /\ req[q].doc \in Doc /\ req[q].parent \in Doc \cup {None}
         /\ doc'[req[q].doc] = [doc[req[q].doc] EXCEPT !.parent = req[q].parent]
         /\ \A d \in Doc : /\ d # req[q].doc => doc'[d] = doc[d]
                           /\ doc'[d].status = doc[d].status /\ doc'[d].creator = doc[d].creator
         /\ tuples' = Reparented(req[q].doc, req[q].parent)
         /\ Up' = [Up EXCEPT ![req[q].doc] = req[q].parent]
<1>1. req[q] \in EditReq
  BY Kinds DEF CommitUpdate, Edits
<1>2. req[q].doc \in Doc /\ req[q].parent \in Doc \cup {None}
  BY <1>1 DEF EditReq
<1>3. doc' = [doc EXCEPT ![req[q].doc].parent = req[q].parent] /\ tuples' = Reparented(req[q].doc, req[q].parent)
  BY DEF CommitUpdate
<1>4. doc \in [Doc -> [status : {"absent", "live", "deleted"}, parent : Doc \cup {None}, creator : User]]
  BY DEF TypeInv
<1>5. /\ doc'[req[q].doc] = [doc[req[q].doc] EXCEPT !.parent = req[q].parent]
      /\ \A d \in Doc : d # req[q].doc => doc'[d] = doc[d]
  BY <1>2, <1>3, <1>4
<1>6. \A d \in Doc : /\ doc'[d].status = doc[d].status /\ doc'[d].creator = doc[d].creator
                     /\ doc'[d].parent = IF d = req[q].doc THEN req[q].parent ELSE doc[d].parent
  BY <1>2, <1>4, <1>5
<1>7. Up' = [Up EXCEPT ![req[q].doc] = req[q].parent]
  BY <1>2, <1>6 DEF Up
<1> QED BY <1>1, <1>2, <1>3, <1>5, <1>6, <1>7

Gone(q) == {req[q].doc} \cup Descendants(req[q].doc)

LEMMA DeleteWrites ==
  ASSUME TypeInv, NEW q \in Request, CommitDelete(q)
  PROVE  /\ req[q] \in EditReq /\ req[q].doc \in Doc
         /\ Endless(req[q].doc) => DataKept
         /\ ~Endless(req[q].doc) =>
              /\ \A d \in Doc : /\ doc'[d].status = IF d \in Gone(q) /\ Live(d) THEN "deleted" ELSE doc[d].status
                                /\ doc'[d].parent = doc[d].parent /\ doc'[d].creator = doc[d].creator
              /\ tuples' = {t \in tuples : t.object \notin Gone(q)}
         /\ Up' = Up
<1>1. req[q] \in EditReq
  BY Kinds DEF CommitDelete, Edits
<1>2. req[q].doc \in Doc
  BY <1>1 DEF EditReq
<1>3. CASE Endless(req[q].doc)
  <2>1. doc' = doc /\ tuples' = tuples
    BY <1>3 DEF CommitDelete
  <2> QED BY <1>1, <1>2, <1>3, <2>1 DEF DataKept, Up
<1>4. CASE ~Endless(req[q].doc)
  <2>1. /\ doc' = [d \in Doc |-> IF d \in {x \in Gone(q) : Live(x)}
                                   THEN [doc[d] EXCEPT !.status = "deleted"] ELSE doc[d]]
        /\ tuples' = {t \in tuples : t.object \notin Gone(q)}
    BY <1>4 DEF CommitDelete, Gone
  <2>2. doc \in [Doc -> [status : {"absent", "live", "deleted"}, parent : Doc \cup {None}, creator : User]]
    BY DEF TypeInv
  <2>3. \A d \in Doc : /\ doc'[d].status = IF d \in Gone(q) /\ Live(d) THEN "deleted" ELSE doc[d].status
                       /\ doc'[d].parent = doc[d].parent /\ doc'[d].creator = doc[d].creator
    BY <2>1, <2>2
  <2>4. Up' = Up
    BY <2>3 DEF Up
  <2> QED BY <1>1, <1>2, <1>4, <2>1, <2>3, <2>4
<1> QED BY <1>3, <1>4

LEMMA InsertWrites ==
  ASSUME TypeInv, NEW q \in Request, InsertShare(q)
  PROVE  /\ req[q] \in ShareReq /\ Granting(q)
         /\ req[q].doc \in Doc /\ req[q].grantee \in Grantee /\ req[q].perm \in {"viewer", "editor"}
         /\ doc' = doc
         /\ tuples' = tuples \cup {Tuple(req[q].doc, req[q].perm, req[q].grantee)}
<1>1. req[q] \in ShareReq /\ Granting(q)
  BY Kinds DEF InsertShare, Granting
<1> QED BY <1>1 DEF InsertShare, ShareReq

\* A document is created by its one request, and then stays.
LEMMA Created ==
  ASSUME TypeInv, NEW q \in Request, Steps(q), NEW d \in Doc
  PROVE  /\ Absent(d)' => Absent(d)
         /\ Absent(d) => Absent(d)' \/ (CommitCreate(q) /\ d = req[q].doc)
<1>1. CASE CommitCreate(q)
  <2>1. doc'[req[q].doc].status = "live"
    BY <1>1, CreateWrites
  <2>2. d # req[q].doc => doc'[d] = doc[d]
    BY <1>1, CreateWrites
  <2> QED BY <1>1, <2>1, <2>2 DEF Absent
<1>2. CASE CommitUpdate(q)
  <2>1. doc'[d].status = doc[d].status
    BY <1>2, UpdateWrites
  <2> QED BY <2>1 DEF Absent
<1>3. CASE CommitDelete(q)
  <2>1. doc'[d].status \in {doc[d].status, "deleted"} /\ (doc'[d].status # doc[d].status => Live(d))
    BY <1>3, DeleteWrites DEF DataKept
  <2> QED BY <2>1 DEF Absent, Live
<1>4. CASE InsertShare(q) \/ DataKept
  <2>1. doc' = doc
    BY <1>4, InsertWrites DEF DataKept
  <2> QED BY <2>1 DEF Absent
<1> QED BY <1>1, <1>2, <1>3, <1>4, DataStep

LEMMA RowsKept ==
  ASSUME TypeInv, RowInv, UNCHANGED doc, tuples' \subseteq tuples, UNCHANGED req
  PROVE  RowInv'
<1>1. \A d \in Doc \cup {None} : Absent(d)' <=> Absent(d)
  BY DEF Absent
<1>2. \A q \in Request : (Edits(q)' <=> Edits(q)) /\ (Granting(q)' <=> Granting(q))
  BY DEF Edits, Granting
<1>3. \A q \in Request : /\ Edits(q) => req[q] \in EditReq
                         /\ Granting(q) => req[q] \in ShareReq
  BY Kinds
<1> QED BY <1>1, <1>2, <1>3 DEF RowInv, TypeInv, Absent, Edits, Granting

\* A step of a request keeps what RowInv says of the documents.
LEMMA RowsOfDocs ==
  ASSUME TypeInv, RowInv, NEW q \in Request, Steps(q), NEW d \in Doc
  PROVE  /\ Absent(d)' => doc'[d].parent = None /\ \A t \in tuples' : t.object # d
         /\ doc'[d].parent # None => doc'[doc'[d].parent].status # "absent"
<1>1. /\ Absent(d) => doc[d].parent = None /\ \A t \in tuples : t.object # d
      /\ doc[d].parent # None => ~Absent(doc[d].parent)
  BY DEF RowInv
<1>2. \A x \in Doc : (Absent(x)' => Absent(x)) /\ (Absent(x) => Absent(x)' \/ (CommitCreate(q) /\ x = req[q].doc))
  BY Created
<1>3. doc[d].parent \in Doc \cup {None}
  BY DEF TypeInv
<1>4. CASE CommitCreate(q)
  <2>1. /\ req[q].doc \in Doc /\ req[q].parent \in Doc \cup {None}
        /\ doc'[req[q].doc].status = "live" /\ doc'[req[q].doc].parent = req[q].parent
        /\ \A x \in Doc : x # req[q].doc => doc'[x] = doc[x]
        /\ \A t \in tuples' : t \in tuples \/ t.object = req[q].doc
    BY <1>4, CreateWrites DEF OwnerTuple, Tuple
  <2>2. req[q].parent # None => ~Absent(req[q].parent)
    BY <1>4 DEF RowInv, CommitCreate, Edits
  <2>3. CASE d = req[q].doc
    <3>1. ~Absent(d)'
      BY <2>1, <2>3 DEF Absent
    <3>2. doc'[d].parent # None => doc'[doc'[d].parent].status # "absent"
      BY <1>2, <2>1, <2>2, <2>3 DEF Absent
    <3> QED BY <3>1, <3>2
  <2>4. CASE d # req[q].doc
    <3>1. doc'[d] = doc[d]
      BY <2>1, <2>4
    <3>2. doc'[d].parent # None => doc'[doc'[d].parent].status # "absent"
      BY <1>1, <1>2, <1>3, <3>1 DEF Absent
    <3>3. Absent(d)' => doc'[d].parent = None /\ \A t \in tuples' : t.object # d
      BY <1>1, <1>2, <2>1, <2>4, <3>1
    <3> QED BY <3>2, <3>3
  <2> QED BY <2>3, <2>4
<1>5. CASE CommitUpdate(q)
  <2>1. /\ req[q].doc \in Doc /\ req[q].parent \in Doc \cup {None}
        /\ doc'[d].parent = IF d = req[q].doc THEN req[q].parent ELSE doc[d].parent
    <3>1. doc'[req[q].doc] = [doc[req[q].doc] EXCEPT !.parent = req[q].parent]
      BY <1>5, UpdateWrites
    <3>2. doc'[req[q].doc].parent = req[q].parent
      BY <1>5, <3>1, UpdateWrites DEF TypeInv
    <3> QED BY <1>5, <3>2, UpdateWrites
  <2>2. /\ req[q].parent # None => ~Absent(req[q].parent)
        /\ ~Absent(req[q].doc)
    BY <1>5 DEF RowInv, CommitUpdate, Edits
  <2>3. \A t \in tuples' : t \in tuples \/ t.object = req[q].doc
    <3>1. tuples' = Reparented(req[q].doc, req[q].parent)
      BY <1>5, UpdateWrites
    <3> QED BY <3>1 DEF Reparented, Tuple
  <2>4. ~CommitCreate(q)
    BY <1>5 DEF CommitUpdate, CommitCreate
  <2>5. doc'[d].parent # None => doc'[doc'[d].parent].status # "absent"
    BY <1>1, <1>2, <1>3, <2>1, <2>2, <2>4 DEF Absent
  <2>6. Absent(d)' => doc'[d].parent = None /\ \A t \in tuples' : t.object # d
    BY <1>1, <1>2, <2>1, <2>2, <2>3
  <2> QED BY <2>5, <2>6
<1>6. CASE CommitDelete(q) \/ InsertShare(q) \/ DataKept
  <2>1. doc'[d].parent = doc[d].parent
    BY <1>6, DeleteWrites, InsertWrites DEF DataKept
  <2>2. \A t \in tuples' : t \in tuples \/ ~Absent(t.object)
    <3>1. CASE InsertShare(q)
      <4>1. Granting(q) /\ tuples' = tuples \cup {Tuple(req[q].doc, req[q].perm, req[q].grantee)}
        BY <3>1, InsertWrites
      <4>2. ~Absent(req[q].doc)
        BY <4>1 DEF RowInv
      <4> QED BY <4>1, <4>2 DEF Tuple
    <3>2. CASE CommitDelete(q) \/ DataKept
      BY <3>2, DeleteWrites DEF DataKept
    <3> QED BY <1>6, <3>1, <3>2
  <2>3. CommitCreate(q) => FALSE \/ DataKept
    BY <1>6 DEF CommitCreate, CommitDelete, InsertShare
  <2>4. doc'[d].parent # None => doc'[doc'[d].parent].status # "absent"
    <3>1. CASE DataKept
      BY <1>1, <3>1 DEF DataKept, Absent
    <3>2. CASE ~CommitCreate(q)
      BY <1>1, <1>2, <1>3, <2>1, <3>2 DEF Absent
    <3> QED BY <2>3, <3>1, <3>2
  <2>5. Absent(d)' => doc'[d].parent = None /\ \A t \in tuples' : t.object # d
    BY <1>1, <1>2, <2>1, <2>2
  <2> QED BY <2>4, <2>5
<1> QED BY <1>4, <1>5, <1>6, DataStep

\* What RowInv says of a request, as a request.
RowReq(r) ==
  /\ r.pc \in {"resolve", "commit"} =>
       /\ r.kind = "create" <=> Absent(r.doc)
       /\ r.parent # None => ~Absent(r.parent)
       /\ \A d \in r.listed : ~Absent(d)
  /\ r.pc \in {"clear", "allow", "insert"} => ~Absent(r.doc)

LEMMA RowInvSplit ==
  RowInv <=> /\ \A d \in Doc : Absent(d) => doc[d].parent = None /\ \A t \in tuples : t.object # d
             /\ \A d \in Doc : doc[d].parent # None => ~Absent(doc[d].parent)
             /\ \A q \in Request : RowReq(req[q])
             /\ \A q, o \in Request :
                  Edits(q) /\ Edits(o) /\ req[q].kind = "create" /\ req[q].doc = req[o].doc => q = o
BY DEF RowInv, RowReq, Edits, Granting

LEMMA RowsOfReqs ==
  ASSUME TypeInv, RowInv, NEW q \in Request, Steps(q), NEW o \in Request
  PROVE  /\ RowReq(req[o])'
         /\ Edits(o)' => Edits(o) /\ req'[o].kind = req[o].kind /\ req'[o].doc = req[o].doc
<1>1. RowReq(req[o])
  BY RowInvSplit
<1>2. \A x \in Doc : (Absent(x)' => Absent(x)) /\ (Absent(x) => Absent(x)' \/ (CommitCreate(q) /\ x = req[q].doc))
  BY Created
<1>3. /\ Edits(o) => req[o] \in EditReq
      /\ Granting(o) => req[o] \in ShareReq
  BY Kinds
<1>4. CASE o # q
  <2>1. KeptAs(req[o], req'[o])
    BY <1>4, OthersKept
  <2>2. CASE Edits(o)
    <3>1. /\ req'[o].pc = req[o].pc /\ req'[o].kind = req[o].kind /\ req'[o].doc = req[o].doc
          /\ req'[o].parent = req[o].parent /\ req'[o].listed = req[o].listed
      BY <2>1, <2>2 DEF KeptAs, Edits
    <3>2. req[o].doc \in Doc /\ req[o].parent \in Doc \cup {None} /\ req[o].listed \in SUBSET Doc
      BY <1>3, <2>2 DEF EditReq
    <3>3. req[o].kind = "create" <=> Absent(req[o].doc)'
      <4>1. ASSUME CommitCreate(q), req[q].doc = req[o].doc PROVE FALSE
        <5>1. Edits(q) /\ req[q].kind = "create"
          BY <4>1 DEF CommitCreate, Edits
        <5> QED BY <1>4, <2>2, <4>1, <5>1 DEF RowInv
      <4> QED BY <1>1, <1>2, <2>2, <3>1, <3>2, <4>1 DEF RowReq, Edits, Absent
    <3>4. req[o].parent # None => ~Absent(req[o].parent)'
      BY <1>1, <1>2, <2>2, <3>1, <3>2 DEF RowReq, Edits, Absent
    <3>5. \A d \in req[o].listed : ~Absent(d)'
      BY <1>1, <1>2, <2>2, <3>2 DEF RowReq, Edits
    <3> QED BY <2>2, <3>1, <3>3, <3>4, <3>5 DEF RowReq, Absent, Edits
  <2>3. CASE Granting(o)
    <3>1. req'[o].pc = req[o].pc /\ req'[o].doc = req[o].doc /\ req[o].doc \in Doc
      BY <1>3, <2>1, <2>3 DEF KeptAs, Granting, ShareReq
    <3>2. ~Absent(req[o].doc)'
      BY <1>1, <1>2, <2>3, <3>1 DEF RowReq, Granting
    <3> QED BY <2>3, <3>1, <3>2 DEF RowReq, Absent, Edits, Granting
  <2>4. CASE ~Edits(o) /\ ~Granting(o)
    BY <2>1, <2>4 DEF KeptAs, RowReq, Edits, Granting
  <2> QED BY <2>2, <2>3, <2>4
<1>5. CASE o = q
  <2>1. CASE req'[q] = Idle
    BY <1>5, <2>1, IdleReq DEF RowReq, Edits
  <2>2. CASE Resolve(q) /\ req'[q] = [req[q] EXCEPT !.pc = "commit"]
    <3>1. Edits(q) /\ req[q] \in EditReq /\ UNCHANGED doc
      BY <1>3, <1>5, <2>2 DEF Resolve, Edits, data
    <3>2. /\ req'[q].pc = "commit" /\ req'[q].kind = req[q].kind /\ req'[q].doc = req[q].doc
          /\ req'[q].parent = req[q].parent /\ req'[q].listed = req[q].listed
      BY <2>2, <3>1 DEF EditReq
    <3> QED BY <1>1, <1>5, <3>1, <3>2 DEF RowReq, Absent, Edits
  <2>3. CASE Release(q) /\ req'[q] = [req[q] EXCEPT !.pc = "commit", !.listed = Released(req[q])]
    <3>1. Edits(q) /\ req[q] \in EditReq /\ UNCHANGED doc
      BY <1>3, <1>5, <2>3 DEF Release, Edits
    <3>2. /\ req'[q].pc = "commit" /\ req'[q].kind = req[q].kind /\ req'[q].doc = req[q].doc
          /\ req'[q].parent = req[q].parent /\ req'[q].listed \subseteq req[q].listed
      BY <2>3, <3>1 DEF EditReq, Released
    <3> QED BY <1>1, <1>5, <3>1, <3>2 DEF RowReq, Absent, Edits
  <2>4. CASE CommitDelete(q) /\ UNCHANGED <<doc, req>>
    BY <1>1, <1>5, <2>4 DEF RowReq, Absent, Edits
  <2>5. CASE (ClearShare(q) /\ req'[q] = [req[q] EXCEPT !.pc = "allow"])
               \/ (AllowShare(q) /\ req'[q] = [req[q] EXCEPT !.pc = "insert"])
    <3>1. Granting(q) /\ req[q] \in ShareReq /\ UNCHANGED doc
      BY <1>3, <1>5, <2>5 DEF ClearShare, AllowShare, Granting, data
    <3>2. req'[q].pc \in {"allow", "insert"} /\ req'[q].doc = req[q].doc
      BY <2>5, <3>1 DEF ShareReq
    <3> QED BY <1>1, <1>5, <3>1, <3>2 DEF RowReq, Absent, Edits, Granting
  <2>6. CASE (DropMembers(q) /\ req'[q] = [req[q] EXCEPT !.pc = "tuples"])
               \/ (DropTuples(q) /\ req'[q] = [req[q] EXCEPT !.pc = "row"])
    <3>1. req[q] \in DissolveReq
      BY <1>5, <2>6, Kinds DEF DropMembers, DropTuples
    <3>2. req'[q].pc \in {"tuples", "row"}
      BY <2>6, <3>1 DEF DissolveReq
    <3> QED BY <1>5, <3>2 DEF RowReq, Edits
  <2> QED BY <2>1, <2>2, <2>3, <2>4, <2>5, <2>6, OwnStep, Zenon
<1> QED BY <1>4, <1>5

LEMMA RowsOfSteps ==
  ASSUME TypeInv, RowInv, NEW q \in Request, Steps(q)
  PROVE  RowInv'
<1>1. \A d \in Doc : /\ Absent(d)' => doc'[d].parent = None /\ \A t \in tuples' : t.object # d
                     /\ doc'[d].parent # None => doc'[doc'[d].parent].status # "absent"
  BY RowsOfDocs
<1>2. \A o \in Request : /\ RowReq(req[o])'
                         /\ Edits(o)' => Edits(o) /\ req'[o].kind = req[o].kind /\ req'[o].doc = req[o].doc
  BY RowsOfReqs
<1>3. \A p, o \in Request :
        Edits(p)' /\ Edits(o)' /\ req'[p].kind = "create" /\ req'[p].doc = req'[o].doc => p = o
  BY <1>2 DEF RowInv
<1> QED BY <1>1, <1>2, <1>3 DEF RowInv, RowReq, Edits, Granting, Absent

\* Whatever is below a document has a parent, so it was created.
LEMMA BelowExists ==
  ASSUME TypeInv, RowInv, NEW d \in Doc, NEW x \in Descendants(d)
  PROVE  x \in Doc /\ ~Absent(x)
<1>1. x \in Below(Up, d)
  BY DescendantsBelow
<1>2. x \in Doc /\ Up[x] \in {d} \cup Below(Up, d)
  BY <1>1, BelowParents, BelowInside
<1>3. doc[x].parent \in Doc
  BY <1>2, BelowInside DEF Up
<1>4. doc[x].parent # None
  BY <1>3, Parameters DEF Parameters
<1> QED BY <1>2, <1>4 DEF RowInv

LEMMA RowsOfAsked ==
  ASSUME TypeInv, RowInv, NEW q \in Request, NEW r \in Reqs, Asked(q, r)
  PROVE  RowInv'
<1>1. Starting(q, r) /\ UNCHANGED <<doc, tuples>> /\ req' = [req EXCEPT ![q] = r]
  BY DEF Asked, CreateAsked, MoveAsked, DeleteAsked, ShareAsked, DissolveAsked, Starting, Others
<1>2. req'[q] = r /\ \A o \in Request \ {q} : req'[o] = req[o]
  BY <1>1 DEF TypeInv
<1>3. /\ RowReq(r)
      /\ r.pc \in {"resolve", "commit"} /\ r.kind = "create" => \A o \in Request : Running(o) => req[o].doc # r.doc
      /\ r.pc \in {"resolve", "commit"} => ~Absent(r.doc) \/ r.kind = "create"
  <2>1. CASE CreateAsked(q, r)
    <3>1. PICK u \in User, d \in Doc, p \in Doc \cup {None} :
            /\ Absent(d)
            /\ \A o \in Request : Running(o) => req[o].doc # d
            /\ p # None => Live(p)
            /\ r = Edit("create", u, d, p, IF p = None THEN "commit" ELSE "resolve")
      BY <2>1 DEF CreateAsked
    <3>2. r.kind = "create" /\ r.doc = d /\ r.parent = p /\ r.listed = {} /\ r.pc \in {"resolve", "commit"}
      BY <3>1 DEF Edit
    <3> QED BY <3>1, <3>2 DEF RowReq, Absent, Live
  <2>2. CASE MoveAsked(q, r)
    <3>1. PICK u \in User, d \in Doc, p \in Doc \cup {None}, kind \in {"move", "patch"} :
            /\ Live(d)
            /\ TargetAllowed(u, d, p) \/ p = doc[d].parent
            /\ r = Edit(kind, u, d, p, "resolve")
      BY <2>2 DEF MoveAsked
    <3>2. r.kind = kind /\ r.doc = d /\ r.parent = p /\ r.listed = {} /\ r.pc = "resolve"
      BY <3>1 DEF Edit
    <3>3. p # None => ~Absent(p)
      BY <3>1 DEF TargetAllowed, Live, Absent, RowInv
    <3> QED BY <3>1, <3>2, <3>3 DEF RowReq, Absent, Live
  <2>3. CASE DeleteAsked(q, r)
    <3>1. PICK u \in User, d \in Doc :
            /\ Live(d)
            /\ r = [Edit("delete", u, d, None, "resolve") EXCEPT !.listed = {d} \cup Descendants(d)]
      BY <2>3 DEF DeleteAsked
    <3>2. r.kind = "delete" /\ r.doc = d /\ r.parent = None /\ r.listed = {d} \cup Descendants(d) /\ r.pc = "resolve"
      BY <3>1 DEF Edit
    <3>3. \A x \in r.listed : ~Absent(x)
      BY <3>1, <3>2, BelowExists DEF Live, Absent
    <3> QED BY <3>1, <3>2, <3>3 DEF RowReq, Absent, Live
  <2>4. CASE ShareAsked(q, r)
    BY <2>4 DEF ShareAsked, Sharing, RowReq, Absent, Live
  <2>5. CASE DissolveAsked(q, r)
    BY <2>5 DEF DissolveAsked, RowReq
  <2> QED BY <2>1, <2>2, <2>3, <2>4, <2>5 DEF Asked
<1>4. \A o \in Request : RowReq(req'[o])
  BY <1>2, <1>3, RowInvSplit
<1>5. \A p, o \in Request :
        Edits(p)' /\ Edits(o)' /\ req'[p].kind = "create" /\ req'[p].doc = req'[o].doc => p = o
  <2> SUFFICES ASSUME NEW p \in Request, NEW o \in Request, Edits(p)', Edits(o)',
                      req'[p].kind = "create", req'[p].doc = req'[o].doc, p # o
               PROVE  FALSE
    OBVIOUS
  <2>1. CASE p # q /\ o # q
    BY <1>2, <2>1 DEF RowInv, Edits
  <2>2. CASE p = q
    <3>1. Running(o)
      BY <1>2, <2>2 DEF Edits, Running
    <3> QED BY <1>2, <1>3, <2>2, <3>1 DEF Edits
  <2>3. CASE o = q
    <3>1. Running(p) /\ Edits(p) /\ req[p].kind = "create" /\ req[p].doc = r.doc
      BY <1>2, <2>3 DEF Edits, Running
    <3>2. Absent(r.doc)
      BY <3>1 DEF RowInv
    <3> QED BY <1>2, <1>3, <2>3, <3>1, <3>2 DEF Edits
  <2> QED BY <2>1, <2>2, <2>3
<1>6. \A o \in Request : RowReq(req[o])'
  BY <1>1, <1>4 DEF RowReq, Absent
<1> QED BY <1>1, <1>5, <1>6 DEF RowInv, RowReq, Edits, Granting, Absent

LEMMA AsideKeeps ==
  ASSUME Aside
  PROVE  DataKept /\ UNCHANGED req
BY DEF Aside, Hang, Unshare, Join, Leave, DataKept, data

LEMMA NextRows ==
  ASSUME TypeInv, RowInv, [Next]_vars
  PROVE  RowInv'
<1>1. CASE UNCHANGED vars
  BY <1>1, RowsKept DEF vars, data
<1>2. ASSUME NEW q \in Request, Asks(q) \/ \E x \in Group : AskDissolve(q, x) PROVE RowInv'
  BY <1>2, Asking, RowsOfAsked
<1>3. ASSUME NEW q \in Request, Steps(q) PROVE RowInv'
  BY <1>3, RowsOfSteps
<1>4. CASE Aside
  BY <1>4, AsideKeeps, RowsKept DEF DataKept
<1> QED BY <1>1, <1>2, <1>3, <1>4 DEF Next, Aside

\* What becomes of a request that changes a document and goes on.
LEMMA EditFate ==
  ASSUME TypeInv, NEW q \in Request, Steps(q), NEW o \in Request, Edits(o)'
  PROVE  /\ Edits(o) /\ req[o] \in EditReq
         /\ req'[o].kind = req[o].kind /\ req'[o].doc = req[o].doc /\ req'[o].parent = req[o].parent
         /\ req[o].moved => req'[o].moved
         /\ req[o].reshaped => req'[o].reshaped
         /\ req[o].deleted => req'[o].deleted
         /\ \/ req'[o].pc = req[o].pc /\ req'[o].listed = req[o].listed
            \/ o = q /\ Resolve(q) /\ req'[o].pc = "commit" /\ req'[o].listed = req[o].listed
            \/ /\ o = q /\ Release(q) /\ Live(req[q].doc)
               /\ req'[o].pc = "commit" /\ req'[o].listed = Released(req[q])
<1>1. CASE o # q
  <2>1. KeptAs(req[o], req'[o])
    BY <1>1, OthersKept
  <2>2. Edits(o)
    BY <2>1 DEF KeptAs, Edits
  <2> QED BY <2>1, <2>2, Kinds DEF KeptAs, Edits
<1>2. CASE o = q
  <2>1. req'[q] # Idle
    BY <1>2, IdleReq DEF Edits
  <2>2. CASE Resolve(q) /\ req'[q] = [req[q] EXCEPT !.pc = "commit"]
    <3>1. Edits(q) /\ req[q] \in EditReq
      BY <2>2, Kinds DEF Resolve, Edits
    <3> QED BY <1>2, <2>2, <3>1 DEF EditReq
  <2>3. CASE /\ Release(q) /\ Live(req[q].doc)
             /\ req'[q] = [req[q] EXCEPT !.pc = "commit", !.listed = Released(req[q])]
    <3>1. Edits(q) /\ req[q] \in EditReq
      BY <2>3, Kinds DEF Release, Edits
    <3> QED BY <1>2, <2>3, <3>1 DEF EditReq
  <2>4. CASE CommitDelete(q) /\ UNCHANGED req
    <3>1. Edits(q) /\ req[q] \in EditReq
      BY <2>4, Kinds DEF CommitDelete, Edits
    <3> QED BY <1>2, <2>4, <3>1
  <2>5. CASE (ClearShare(q) /\ req'[q] = [req[q] EXCEPT !.pc = "allow"])
               \/ (AllowShare(q) /\ req'[q] = [req[q] EXCEPT !.pc = "insert"])
    <3>1. req[q] \in ShareReq
      BY <2>5, Kinds DEF ClearShare, AllowShare, Granting
    <3>2. req'[q].pc \in {"allow", "insert"}
      BY <2>5, <3>1 DEF ShareReq
    <3> QED BY <1>2, <3>2 DEF Edits
  <2>6. CASE (DropMembers(q) /\ req'[q] = [req[q] EXCEPT !.pc = "tuples"])
               \/ (DropTuples(q) /\ req'[q] = [req[q] EXCEPT !.pc = "row"])
    <3>1. req[q] \in DissolveReq
      BY <2>6, Kinds DEF DropMembers, DropTuples
    <3>2. req'[q].pc \in {"tuples", "row"}
      BY <2>6, <3>1 DEF DissolveReq
    <3> QED BY <1>2, <3>2 DEF Edits
  <2> QED BY <2>1, <2>2, <2>3, <2>4, <2>5, <2>6, OwnStep, Zenon
<1> QED BY <1>1, <1>2

-----------------------------------------------------------------------------
(* The tree *)

\* What admitted a move still holds.
MoveOk(f, r) ==
  r.parent \in {None, f[r.doc]} \/ (r.parent # r.doc /\ r.parent \notin Below(f, r.doc))

Moving(r) == r.pc \in {"resolve", "commit"} /\ r.kind \in {"move", "patch"} /\ ~r.moved

CrossInv ==
  /\ hung => crossed
  /\ ~crossed => Acyclic(Up) /\ \A q \in Request : Moving(req[q]) => MoveOk(Up, req[q])

LiveInv ==
  /\ \A d \in Doc : Live(d) /\ doc[d].parent # None => Live(doc[d].parent) \/ d \in orphaned
  /\ \A q \in Request :
       req[q].pc = "commit" /\ req[q].kind # "delete" /\ ~req[q].deleted /\ req[q].parent # None
         => Live(req[q].parent)

LEMMA TreeInvSplit ==
  ASSUME TypeInv
  PROVE  TreeInv <=> CrossInv /\ LiveInv
<1>1. ASSUME NEW q \in Request, Moving(req[q])
      PROVE  MoveOk(Up, req[q]) <=>
               \/ req[q].parent \in {None, doc[req[q].doc].parent}
               \/ req[q].parent # req[q].doc /\ req[q].parent \notin Descendants(req[q].doc)
  <2>1. req[q].doc \in Doc
    BY <1>1, Kinds DEF Moving, Edits, EditReq
  <2>2. Up[req[q].doc] = doc[req[q].doc].parent /\ Descendants(req[q].doc) = Below(Up, req[q].doc)
    BY <2>1, DescendantsBelow DEF Up
  <2> QED BY <2>2 DEF MoveOk
<1> QED BY <1>1 DEF TreeInv, CrossInv, LiveInv, Moving, Edits

LEMMA UpType ==
  ASSUME TypeInv
  PROVE  Up \in [Doc -> Doc \cup {None}]
BY DEF TypeInv, Up

LEMMA InitTree == Init => CrossInv /\ LiveInv
<1> SUFFICES ASSUME Init PROVE CrossInv /\ LiveInv
  OBVIOUS
<1>1. PICK f \in Forest, absent \in SUBSET Doc, u \in Creator :
        /\ \A d \in absent : f[d] = None /\ \A c \in Doc : f[c] # d
        /\ doc = [d \in Doc |-> [status |-> IF d \in absent THEN "absent" ELSE "live",
                                 parent |-> f[d], creator |-> u]]
        /\ tuples = UNION {{OwnerTuple(d, u)} \cup ParentTuple(d) : d \in Doc \ absent}
        /\ req = [q \in Request |-> Idle]
  BY DEF Init
<1>2. \A d \in Doc : /\ doc[d].status = IF d \in absent THEN "absent" ELSE "live"
                     /\ doc[d].parent = f[d]
  BY <1>1
<1>3. f \in [Doc -> Doc \cup {None}] /\ Acyclic(f)
  BY DEF Forest, Acyclic
<1>4. Up = f
  BY <1>2, <1>3 DEF Up
<1>5. hung = FALSE /\ \A q \in Request : req[q].pc = "idle"
  BY DEF Init, Idle
<1>6. ASSUME NEW d \in Doc, doc[d].parent # None PROVE Live(doc[d].parent)
  BY <1>1, <1>2, <1>3, <1>6 DEF Live
<1> QED BY <1>1, <1>3, <1>4, <1>5, <1>6 DEF CrossInv, LiveInv, Moving

\* Without a stale move no document is below itself.
LEMMA NeverEndless ==
  ASSUME CrossInv, ~crossed, NEW d \in Doc
  PROVE  ~Endless(d)
BY DescendantsBelow, NobodyBelowItself DEF CrossInv, Endless

\* A move that was admitted stays so while the tree stays.
LEMMA CrossWhileStill ==
  ASSUME TypeInv, CrossInv, UNCHANGED crossed, Up' = Up, hung' => crossed,
         \A q \in Request : Moving(req[q])' =>
           \/ Moving(req[q]) /\ req'[q].doc = req[q].doc /\ req'[q].parent = req[q].parent
           \/ MoveOk(Up, req'[q])
  PROVE  CrossInv'
<1> SUFFICES ASSUME ~crossed, NEW q \in Request, Moving(req[q])' PROVE MoveOk(Up, req[q])'
  BY DEF CrossInv
<1> QED BY DEF CrossInv, MoveOk

LEMMA MovingFate ==
  ASSUME TypeInv, NEW q \in Request, Steps(q), NEW o \in Request, Moving(req[o])'
  PROVE  Moving(req[o]) /\ req'[o].doc = req[o].doc /\ req'[o].parent = req[o].parent
BY EditFate DEF Moving, Edits

LEMMA CrossOfSteps ==
  ASSUME TypeInv, RowInv, CrossInv, NEW q \in Request, Steps(q)
  PROVE  CrossInv'
<1> DEFINE d == req[q].doc
           p == req[q].parent
<1>1. CASE CommitCreate(q)
  <2>1. /\ req[q] \in EditReq /\ d \in Doc /\ p \in Doc \cup {None}
        /\ Up' = [Up EXCEPT ![d] = p]
        /\ UNCHANGED <<hung, crossed>>
    BY <1>1, CreateWrites DEF CommitCreate
  <2>2. Absent(d) /\ (p # None => ~Absent(p))
    BY <1>1 DEF RowInv, CommitCreate, Edits
  <2>3. p # d
    BY <2>1, <2>2, Parameters DEF Parameters
  <2>4. \A x \in Doc : Up[x] # d
    BY <2>1, <2>2, Parameters DEF Up, RowInv, Parameters
  <2> SUFFICES ASSUME ~crossed
               PROVE  Acyclic(Up') /\ \A o \in Request : Moving(req[o])' => MoveOk(Up', req'[o])
    BY <2>1 DEF CrossInv
  <2>5. Acyclic(Up')
    <3>1. Below(Up, d) = {}
      BY <2>1, <2>4, NothingBelowALeaf
    <3> QED BY <2>1, <2>3, <3>1, UpType, MoveKeepsForest DEF CrossInv
  <2>6. ASSUME NEW o \in Request, Moving(req[o])' PROVE MoveOk(Up', req'[o])
    <3>1. Moving(req[o]) /\ req'[o].doc = req[o].doc /\ req'[o].parent = req[o].parent
      BY <2>6, MovingFate
    <3>2. req[o] \in EditReq /\ Edits(o) /\ req[o].kind # "create"
      BY <3>1, Kinds DEF Moving, Edits
    <3>3. /\ req[o].doc \in Doc /\ req[o].doc # d
          /\ req[o].parent \in Doc \cup {None} /\ (req[o].parent # None => req[o].parent # d)
      BY <2>2, <3>2 DEF EditReq, RowInv
    <3>4. Up'[req[o].doc] = Up[req[o].doc]
      BY <2>1, <3>3, UpType
    <3>5. Below(Up', req[o].doc) \subseteq Below(Up, req[o].doc) \cup {d}
      <4> DEFINE e == req[o].doc
      <4>1. d \in Doc /\ p \in Doc \cup {None} /\ e \in Doc /\ e # d
        BY <2>1, <3>3
      <4> HIDE DEF d, p, e
      <4>2. Below([Up EXCEPT ![d] = p], e) \subseteq Below(Up, e) \cup {d}
        BY <2>4, <4>1, UpType, LeafComesBelow
      <4> QED BY <2>1, <4>2 DEF e
    <3>6. MoveOk(Up, req[o])
      BY <3>1 DEF CrossInv
    <3> QED BY <3>1, <3>3, <3>4, <3>5, <3>6 DEF MoveOk
  <2> QED BY <2>5, <2>6
<1>2. CASE CommitUpdate(q)
  <2>1. /\ req[q] \in EditReq /\ d \in Doc /\ p \in Doc \cup {None}
        /\ Up' = [Up EXCEPT ![d] = p]
        /\ UNCHANGED hung /\ crossed' = (crossed \/ req[q].moved)
    BY <1>2, UpdateWrites DEF CommitUpdate
  <2>2. ASSUME NEW o \in Request, Moving(req[o])' PROVE FALSE
    <3>1. o # q
      BY <1>2, <2>2, IdleReq DEF CommitUpdate, Moving
    <3>2. Edits(o) /\ req[o] \in EditReq
      BY <2>2, EditFate DEF Moving, Edits
    <3>3. req'[o] = Overtaken(req[o], d)
      BY <1>2, <3>1, <3>2 DEF CommitUpdate, Editing, Edits
    <3> QED BY <2>2, <3>2, <3>3, OvertakenTypes DEF Moving
  <2>3. ASSUME ~crossed' PROVE Acyclic(Up')
    <3>1. ~crossed /\ ~req[q].moved
      BY <2>1, <2>3
    <3>2. Moving(req[q])
      BY <1>2, <3>1 DEF CommitUpdate, Moving
    <3>3. Acyclic(Up) /\ MoveOk(Up, req[q])
      BY <3>1, <3>2 DEF CrossInv
    <3> QED BY <2>1, <3>3, UpType, MoveKeepsForest DEF MoveOk
  <2>4. hung' => crossed'
    BY <2>1 DEF CrossInv
  <2> QED BY <2>2, <2>3, <2>4 DEF CrossInv
<1>3. CASE CommitDelete(q)
  <2>1. Up' = Up /\ UNCHANGED crossed /\ d \in Doc
    BY <1>3, DeleteWrites DEF CommitDelete
  <2>2. hung' => crossed
    BY <1>3, <2>1, NeverEndless DEF CommitDelete, CrossInv
  <2> QED BY <2>1, <2>2, CrossWhileStill, MovingFate
<1>4. CASE ~CommitCreate(q) /\ ~CommitUpdate(q) /\ ~CommitDelete(q)
  <2>1. UNCHANGED <<doc, crossed, hung>>
    BY <1>4 DEF Steps, Resolve, Release, ClearShare, AllowShare, InsertShare, DropMembers, DropTuples,
                DropRow, Abandon, data, ghost
  <2>2. Up' = Up /\ (hung' => crossed)
    BY <2>1 DEF Up, CrossInv
  <2> QED BY <2>1, <2>2, CrossWhileStill, MovingFate
<1> QED BY <1>1, <1>2, <1>3, <1>4

\* Documents do not die but in a delete.
LEMMA LiveOfSteps ==
  ASSUME TypeInv, RowInv, LiveInv, NEW q \in Request, Steps(q)
  PROVE  LiveInv'
<1> DEFINE d == req[q].doc
           p == req[q].parent
<1>1. ASSUME \A x \in Doc : Live(x) => doc'[x].status = "live",
             NEW o \in Request, req'[o].pc = "commit", req'[o].kind # "delete",
             ~req'[o].deleted, req'[o].parent # None
      PROVE  doc'[req'[o].parent].status = "live"
  <2>1. /\ Edits(o) /\ req[o] \in EditReq
        /\ req'[o].kind = req[o].kind /\ req'[o].parent = req[o].parent /\ ~req[o].deleted
        /\ req'[o].pc = req[o].pc \/ Resolve(o) \/ Release(o)
    BY <1>1, EditFate DEF Edits
  <2>2. req[o].parent \in Doc
    BY <1>1, <2>1 DEF EditReq
  <2>3. CASE req'[o].pc = req[o].pc
    BY <1>1, <2>1, <2>2, <2>3 DEF LiveInv
  <2>4. CASE Resolve(o) \/ Release(o)
    BY <1>1, <2>1, <2>2, <2>4 DEF Resolve, Release
  <2> QED BY <2>1, <2>3, <2>4
<1>2. CASE CommitCreate(q)
  <2>1. /\ req[q] \in EditReq /\ d \in Doc /\ p \in Doc \cup {None}
        /\ doc'[d].status = "live" /\ doc'[d].parent = p
        /\ \A x \in Doc : x # d => doc'[x] = doc[x]
        /\ orphaned' = IF Undercut(req[q]) THEN orphaned \cup {d} ELSE orphaned
    BY <1>2, CreateWrites DEF CommitCreate
  <2>2. \A x \in Doc : Live(x) => doc'[x].status = "live"
    BY <2>1 DEF Live
  <2>3. p # None => Live(p) \/ Undercut(req[q])
    BY <1>2 DEF Undercut, LiveInv, CommitCreate
  <2>4. ASSUME NEW x \in Doc, doc'[x].status = "live", doc'[x].parent # None
        PROVE  doc'[doc'[x].parent].status = "live" \/ x \in orphaned'
    <3>1. CASE x = d
      BY <2>1, <2>2, <2>3, <2>4, <3>1
    <3>2. CASE x # d
      <4>1. Live(x) /\ doc'[x].parent = doc[x].parent /\ doc[x].parent \in Doc
        BY <2>1, <2>4, <3>2 DEF Live, TypeInv
      <4>2. Live(doc[x].parent) \/ x \in orphaned
        BY <2>4, <4>1 DEF LiveInv
      <4> QED BY <2>1, <2>2, <4>1, <4>2
    <3> QED BY <3>1, <3>2
  <2> QED BY <1>1, <2>2, <2>4 DEF LiveInv, Live
<1>3. CASE CommitUpdate(q)
  <2>1. /\ req[q] \in EditReq /\ d \in Doc /\ p \in Doc \cup {None}
        /\ \A x \in Doc : doc'[x].status = doc[x].status /\ (x # d => doc'[x] = doc[x])
        /\ Up' = [Up EXCEPT ![d] = p]
        /\ orphaned' = IF Undercut(req[q]) THEN orphaned \cup {d} ELSE orphaned \ {d}
    BY <1>3, UpdateWrites DEF CommitUpdate
  <2>2. \A x \in Doc : Live(x) => doc'[x].status = "live"
    BY <2>1 DEF Live
  <2>3. p # None => Live(p) \/ Undercut(req[q])
    BY <1>3 DEF Undercut, LiveInv, CommitUpdate
  <2>4. ASSUME NEW x \in Doc, doc'[x].status = "live", doc'[x].parent # None
        PROVE  doc'[doc'[x].parent].status = "live" \/ x \in orphaned'
    <3>1. CASE x = d
      <4>1. doc'[x].parent = p
        <5>1. Up'[d] = p
          BY <2>1, UpType
        <5> QED BY <2>1, <3>1, <5>1 DEF Up
      <4> QED BY <2>1, <2>2, <2>3, <2>4, <3>1, <4>1
    <3>2. CASE x # d
      <4>1. Live(x) /\ doc'[x].parent = doc[x].parent /\ doc[x].parent \in Doc
        BY <2>1, <2>4, <3>2 DEF Live, TypeInv
      <4>2. Live(doc[x].parent) \/ x \in orphaned
        BY <2>4, <4>1 DEF LiveInv
      <4> QED BY <2>1, <2>2, <3>2, <4>1, <4>2
    <3> QED BY <3>1, <3>2
  <2> QED BY <1>1, <2>2, <2>4 DEF LiveInv, Live
<1>4. CASE CommitDelete(q) /\ ~Endless(d)
  <2>1. /\ d \in Doc
        /\ \A x \in Doc : /\ doc'[x].status = IF x \in Gone(q) /\ Live(x) THEN "deleted" ELSE doc[x].status
                          /\ doc'[x].parent = doc[x].parent
        /\ UNCHANGED orphaned
        /\ req' = [Flagged("deleted", {o \in Editing : req[o].pc = "commit"}) EXCEPT ![q] = Idle]
    BY <1>4, DeleteWrites DEF CommitDelete
  <2>2. ASSUME NEW x \in Doc, doc'[x].status = "live", doc'[x].parent # None
        PROVE  doc'[doc'[x].parent].status = "live" \/ x \in orphaned'
    <3>1. Live(x) /\ x \notin Gone(q) /\ doc'[x].parent = doc[x].parent /\ doc[x].parent \in Doc
      BY <2>1, <2>2 DEF Live, TypeInv
    <3>2. Live(doc[x].parent) \/ x \in orphaned
      BY <2>2, <3>1 DEF LiveInv
    <3>3. doc[x].parent \notin Gone(q)
      <4>1. Gone(q) = {d} \cup Below(Up, d)
        BY <2>1, DescendantsBelow DEF Gone
      <4>2. Up[x] = doc[x].parent
        BY DEF Up
      <4>3. Up[x] \in {d} \cup Below(Up, d) => x \in Below(Up, d)
        BY BelowClosed
      <4> QED BY <3>1, <4>1, <4>2, <4>3
    <3> QED BY <2>1, <3>1, <3>2, <3>3 DEF Live
  <2>3. ASSUME NEW o \in Request, req'[o].pc = "commit", ~req'[o].deleted PROVE FALSE
    <3>1. o # q
      BY <2>1, <2>3, IdleReq DEF Flagged
    <3>2. Edits(o) /\ req[o].pc = "commit"
      BY <1>4, <2>3, <3>1, EditFate DEF Edits
    <3>3. o \in {g \in Editing : req[g].pc = "commit"}
      BY <3>2 DEF Editing
    <3>4. Flagged("deleted", {g \in Editing : req[g].pc = "commit"})[o]["deleted"] = TRUE
      BY <3>3, FlagKeeps DEF Editing, Edits
    <3>5. req'[o] = Flagged("deleted", {g \in Editing : req[g].pc = "commit"})[o]
      BY <2>1, <3>1 DEF Flagged
    <3> QED BY <2>3, <3>4, <3>5
  <2> QED BY <2>2, <2>3 DEF LiveInv, Live
<1>5. CASE ~CommitCreate(q) /\ ~CommitUpdate(q) /\ ~(CommitDelete(q) /\ ~Endless(d))
  <2>1. UNCHANGED <<doc, orphaned>>
    BY <1>5 DEF Steps, Resolve, Release, ClearShare, AllowShare, InsertShare, DropMembers, DropTuples,
                DropRow, Abandon, data, ghost, CommitDelete
  <2>2. \A x \in Doc : Live(x) => doc'[x].status = "live"
    BY <2>1 DEF Live
  <2> QED BY <1>1, <2>1, <2>2 DEF LiveInv, Live
<1> QED BY <1>2, <1>3, <1>4, <1>5

LEMMA TreeOfAsked ==
  ASSUME TypeInv, CrossInv, LiveInv, NEW q \in Request, NEW r \in Reqs, Asked(q, r)
  PROVE  CrossInv' /\ LiveInv'
<1>1. /\ Starting(q, r) /\ req' = [req EXCEPT ![q] = r]
      /\ UNCHANGED <<doc, tuples, crossed, hung, orphaned>>
  BY DEF Asked, CreateAsked, MoveAsked, DeleteAsked, ShareAsked, DissolveAsked, Starting, Others, ghost
<1>2. req'[q] = r /\ \A o \in Request \ {q} : req'[o] = req[o]
  BY <1>1 DEF TypeInv
<1>3. /\ Moving(r) => MoveOk(Up, r)
      /\ r.pc = "commit" => r.parent = None
  <2>1. CASE CreateAsked(q, r)
    BY <2>1 DEF CreateAsked, Edit, Moving
  <2>2. CASE MoveAsked(q, r)
    <3>1. PICK u \in User, d \in Doc, p \in Doc \cup {None}, kind \in {"move", "patch"} :
            /\ TargetAllowed(u, d, p) \/ p = doc[d].parent
            /\ r = Edit(kind, u, d, p, "resolve")
      BY <2>2 DEF MoveAsked
    <3>2. r.doc = d /\ r.parent = p /\ r.pc = "resolve"
      BY <3>1 DEF Edit
    <3>3. p # None => p = Up[d] \/ (p # d /\ p \notin Below(Up, d))
      BY <3>1, DescendantsBelow DEF TargetAllowed, Up
    <3> QED BY <3>2, <3>3 DEF MoveOk
  <2>3. CASE DeleteAsked(q, r)
    BY <2>3 DEF DeleteAsked, Edit, Moving
  <2>4. CASE ShareAsked(q, r)
    BY <2>4 DEF ShareAsked, Sharing, Moving
  <2>5. CASE DissolveAsked(q, r)
    BY <2>5 DEF DissolveAsked, Moving
  <2> QED BY <2>1, <2>2, <2>3, <2>4, <2>5 DEF Asked
<1>4. Up' = Up
  BY <1>1 DEF Up
<1>5. CrossInv'
  <2>1. \A o \in Request : Moving(req[o])' =>
           \/ Moving(req[o]) /\ req'[o].doc = req[o].doc /\ req'[o].parent = req[o].parent
           \/ MoveOk(Up, req'[o])
    BY <1>2, <1>3 DEF Moving
  <2>2. hung' => crossed
    BY <1>1 DEF CrossInv
  <2> QED BY <1>1, <1>4, <2>1, <2>2, CrossWhileStill
<1>6. LiveInv'
  BY <1>1, <1>2, <1>3 DEF LiveInv, Live
<1> QED BY <1>5, <1>6

LEMMA TreeAside ==
  ASSUME TypeInv, CrossInv, LiveInv, Aside
  PROVE  CrossInv' /\ LiveInv'
<1>1. UNCHANGED <<doc, req, crossed, orphaned>>
  BY DEF Aside, Hang, Unshare, Join, Leave, data, ghost
<1>2. hung' => crossed
  <2>1. CASE \E d \in Doc : Hang(d)
    <3>1. \E c \in Doc : Endless(c)
      BY <2>1 DEF Hang
    <3> QED BY <3>1, NeverEndless
  <2>2. CASE UNCHANGED hung
    BY <2>2 DEF CrossInv
  <2> QED BY <2>1, <2>2 DEF Aside, Unshare, Join, Leave
<1>3. Up' = Up
  BY <1>1 DEF Up
<1>4. CrossInv'
  <2>1. \A q \in Request : Moving(req[q])' =>
           Moving(req[q]) /\ req'[q].doc = req[q].doc /\ req'[q].parent = req[q].parent
    BY <1>1 DEF Moving
  <2> QED BY <1>1, <1>2, <1>3, <2>1, CrossWhileStill
<1>5. LiveInv'
  BY <1>1 DEF LiveInv, Live
<1> QED BY <1>4, <1>5

LEMMA NextTree ==
  ASSUME TypeInv, RowInv, CrossInv, LiveInv, [Next]_vars
  PROVE  CrossInv' /\ LiveInv'
<1>1. CASE UNCHANGED vars
  <2>1. UNCHANGED <<doc, req, crossed, hung, orphaned>>
    BY <1>1 DEF vars, data, ghost
  <2> QED BY <2>1 DEF CrossInv, LiveInv, Live, Up, Moving, MoveOk
<1>2. ASSUME NEW q \in Request, Asks(q) \/ \E x \in Group : AskDissolve(q, x)
      PROVE  CrossInv' /\ LiveInv'
  BY <1>2, Asking, TreeOfAsked
<1>3. ASSUME NEW q \in Request, Steps(q) PROVE CrossInv' /\ LiveInv'
  BY <1>3, CrossOfSteps, LiveOfSteps
<1>4. CASE Aside
  BY <1>4, TreeAside
<1> QED BY <1>1, <1>2, <1>3, <1>4 DEF Next, Aside

-----------------------------------------------------------------------------
(* Tuples *)

\* The parts of TuplesFollow.
MembersIn == members \subseteq groups \X User

RowTuples(d) ==
  LET on    == {t \in tuples : t.object = d}
      edge  == {t \in on : t.rel = "parent_item"}
      owner == {t \in on : t.rel = "owner"}
  IN  /\ Live(d) => /\ edge = IF <<d, "parent_item">> \in revoked THEN {} ELSE ParentTuple(d)
                    /\ owner = IF <<d, "owner">> \in revoked THEN {} ELSE {OwnerTuple(d, doc[d].creator)}
      /\ ~Live(d) => owner = {} /\ (on # {} => d \in late)

ShareTuples(d, s) ==
  /\ Shares(d, s) \subseteq tuples => <<d, s>> \in doubled
  /\ s \in Group \ groups => tuples \cap Shares(d, s) \subseteq stray

\* The pending shares and the groups that are about to go.
Pending(r) ==
  /\ r.pc \in {"allow", "insert"} /\ ~r.twice => tuples \cap Shares(r.doc, r.grantee) = {}
  /\ r.pc = "row" => \A t \in tuples : t.subject = r.group => t \in stray

\* Only a document is the subject of an edge of the tree, and only a user an owner.
SubjectInv ==
  \A t \in tuples : /\ t.rel = "parent_item" => t.subject \in Doc
                    /\ t.rel = "owner" => t.subject \in User

\* Nothing of a document that was not created yet has been revoked.
RevokedInv == \A d \in Doc : Absent(d) => \A rel \in Basic : <<d, rel>> \notin revoked

LEMMA TupleInvSplit ==
  TupleInv <=> /\ MembersIn
               /\ \A d \in Doc : RowTuples(d) /\ \A s \in User \cup Group : ShareTuples(d, s)
               /\ \A q \in Request : Pending(req[q])
<1>1. \A d \in Doc, s \in User \cup Group :
        LET on == {t \in tuples : t.object = d}
        IN  /\ Shares(d, s) \subseteq on <=> Shares(d, s) \subseteq tuples
            /\ on \cap Shares(d, s) = tuples \cap Shares(d, s)
  BY DEF Shares, Tuple
<1> QED BY <1>1 DEF TupleInv, TuplesFollow, MembersIn, RowTuples, ShareTuples, Pending

LEMMA InitTuples == Init => TupleInv /\ SubjectInv /\ RevokedInv
<1> SUFFICES ASSUME Init PROVE TupleInv /\ SubjectInv /\ RevokedInv
  OBVIOUS
<1>1. PICK f \in Forest, absent \in SUBSET Doc, u \in Creator :
        /\ doc = [d \in Doc |-> [status |-> IF d \in absent THEN "absent" ELSE "live",
                                 parent |-> f[d], creator |-> u]]
        /\ tuples = UNION {{OwnerTuple(d, u)} \cup ParentTuple(d) : d \in Doc \ absent}
        /\ req = [q \in Request |-> Idle]
        /\ revoked = {}
  BY DEF Init
<1>2. \A d \in Doc : /\ doc[d].status = IF d \in absent THEN "absent" ELSE "live"
                     /\ doc[d].parent = f[d] /\ doc[d].creator = u
  BY <1>1
<1>3. f \in [Doc -> Doc \cup {None}] /\ u \in User
  BY Parameters DEF Parameters, Forest
<1>4. \A t \in tuples : /\ t.object \in Doc \ absent
                        /\ \/ t = OwnerTuple(t.object, u)
                           \/ t \in ParentTuple(t.object)
  BY <1>1 DEF OwnerTuple, ParentTuple, Tuple
<1>5. \A t \in tuples : \/ t.rel = "owner" /\ t.subject = u
                        \/ t.rel = "parent_item" /\ t.subject \in Doc
  BY <1>2, <1>3, <1>4 DEF OwnerTuple, ParentTuple, Tuple
<1>6. ASSUME NEW d \in Doc PROVE RowTuples(d)
  <2> DEFINE on == {t \in tuples : t.object = d}
  <2>1. CASE d \in absent
    BY <1>2, <1>4, <2>1 DEF RowTuples, Live
  <2>2. CASE d \notin absent
    <3>1. OwnerTuple(d, u) \in tuples /\ ParentTuple(d) \subseteq tuples
      BY <1>1, <2>2
    <3>2. \A t \in ParentTuple(d) : t.object = d /\ t.rel = "parent_item"
      BY DEF ParentTuple, Tuple
    <3>3. OwnerTuple(d, u).object = d /\ OwnerTuple(d, u).rel = "owner"
      BY DEF OwnerTuple, Tuple
    <3>4. \A t \in on : t = OwnerTuple(d, u) \/ t \in ParentTuple(d)
      BY <1>4
    <3>5. {t \in on : t.rel = "parent_item"} = ParentTuple(d)
      BY <3>1, <3>2, <3>3, <3>4
    <3>6. {t \in on : t.rel = "owner"} = {OwnerTuple(d, doc[d].creator)}
      BY <1>2, <3>1, <3>2, <3>3, <3>4
    <3>7. Live(d)
      BY <1>2, <2>2 DEF Live
    <3> QED BY <1>1, <3>5, <3>6, <3>7 DEF RowTuples
  <2> QED BY <2>1, <2>2
<1>7. ASSUME NEW d \in Doc, NEW s \in User \cup Group PROVE ShareTuples(d, s)
  <2>1. tuples \cap Shares(d, s) = {}
    BY <1>5 DEF Shares, Tuple
  <2>2. Shares(d, s) # {}
    BY DEF Shares
  <2> QED BY <2>1, <2>2 DEF ShareTuples
<1>8. \A q \in Request : Pending(req[q])
  BY <1>1 DEF Pending, Idle
<1>9. MembersIn
  BY DEF Init, MembersIn
<1>10. SubjectInv
  BY <1>3, <1>5 DEF SubjectInv
<1>11. RevokedInv
  BY <1>1 DEF RevokedInv
<1> QED BY <1>6, <1>7, <1>8, <1>9, <1>10, <1>11, TupleInvSplit
LEMMA SubjectsOfSteps ==
  ASSUME TypeInv, SubjectInv, NEW q \in Request, Steps(q)
  PROVE  SubjectInv'
<1>1. CASE CommitCreate(q)
  <2>1. /\ req[q].parent \in Doc \cup {None} /\ req[q].user \in User
        /\ tuples' = tuples \cup {OwnerTuple(req[q].doc, req[q].user)}
                        \cup (IF req[q].parent = None THEN {}
                              ELSE {Tuple(req[q].doc, "parent_item", req[q].parent)})
    BY <1>1, CreateWrites DEF EditReq
  <2> QED BY <2>1 DEF SubjectInv, OwnerTuple, Tuple
<1>2. CASE CommitUpdate(q)
  <2>1. req[q].parent \in Doc \cup {None} /\ tuples' = Reparented(req[q].doc, req[q].parent)
    BY <1>2, UpdateWrites
  <2> QED BY <2>1 DEF SubjectInv, Reparented, Tuple
<1>3. CASE InsertShare(q)
  <2>1. /\ req[q].perm \in {"viewer", "editor"}
        /\ tuples' = tuples \cup {Tuple(req[q].doc, req[q].perm, req[q].grantee)}
    BY <1>3, InsertWrites
  <2> QED BY <2>1 DEF SubjectInv, Tuple
<1>4. CASE CommitDelete(q) \/ DataKept
  <2>1. tuples' \subseteq tuples
    BY <1>4, DeleteWrites DEF DataKept
  <2> QED BY <2>1 DEF SubjectInv
<1> QED BY <1>1, <1>2, <1>3, <1>4, DataStep

LEMMA RevokedOfSteps ==
  ASSUME TypeInv, RevokedInv, NEW q \in Request, Steps(q)
  PROVE  RevokedInv'
<1>1. revoked' \subseteq revoked
  BY DEF Steps, Resolve, CommitCreate, CommitUpdate, Release, CommitDelete, ClearShare, AllowShare,
         InsertShare, DropMembers, DropTuples, DropRow, Abandon, ghost
<1>2. \A d \in Doc : Absent(d)' => Absent(d)
  BY Created
<1> QED BY <1>1, <1>2 DEF RevokedInv

\* Where only shares change, the rows keep their owners and their edges.
LEMMA RowsWithShares ==
  ASSUME UNCHANGED <<doc, revoked>>, late \subseteq late',
         \A t : t.rel \in Basic => (t \in tuples' <=> t \in tuples),
         \A t \in tuples' : t \in tuples \/ Live(t.object) \/ t.object \in late',
         NEW d \in Doc, RowTuples(d)
  PROVE  RowTuples(d)'
<1>1. {t \in {s \in tuples' : s.object = d} : t.rel = "parent_item"}
        = {t \in {s \in tuples : s.object = d} : t.rel = "parent_item"}
  BY DEF Basic
<1>2. {t \in {s \in tuples' : s.object = d} : t.rel = "owner"}
        = {t \in {s \in tuples : s.object = d} : t.rel = "owner"}
  BY DEF Basic
<1>3. ParentTuple(d)' = ParentTuple(d) /\ (Live(d)' <=> Live(d))
  BY DEF ParentTuple, Live
<1>4. ASSUME ~Live(d), {t \in tuples' : t.object = d} # {} PROVE d \in late'
  BY <1>4 DEF RowTuples
<1> QED BY <1>1, <1>2, <1>3, <1>4 DEF RowTuples

LEMMA SharesKept ==
  ASSUME NEW d \in Doc, NEW s \in User \cup Group, ShareTuples(d, s),
         tuples' \cap Shares(d, s) \subseteq tuples,
         <<d, s>> \in doubled => <<d, s>> \in doubled' \/ tuples' \cap Shares(d, s) = {},
         stray \subseteq stray', groups \subseteq groups'
  PROVE  ShareTuples(d, s)'
<1>1. Shares(d, s) # {}
  BY DEF Shares
<1>2. Shares(d, s)' = Shares(d, s)
  BY DEF Shares
<1> QED BY <1>1, <1>2 DEF ShareTuples

\* The two facts about a request hold on if its tuples only go.
LEMMA PendingKept ==
  ASSUME NEW r, NEW s, Pending(r), KeptAs(r, s),
         r.pc \in {"allow", "insert"} /\ ~s.twice => tuples' \cap Shares(r.doc, r.grantee) \subseteq tuples,
         stray \subseteq stray',
         r.pc = "row" => \A t \in tuples' : t.subject = r.group => t \in tuples \/ t \in stray'
  PROVE  /\ s.pc \in {"allow", "insert"} /\ ~s.twice => tuples' \cap Shares(s.doc, s.grantee) = {}
         /\ s.pc = "row" => \A t \in tuples' : t.subject = s.group => t \in stray'
BY DEF Pending, KeptAs

\* The same with the request's own step.
PendingNext(o) ==
  /\ req'[o].pc \in {"allow", "insert"} /\ ~req'[o].twice =>
       tuples' \cap Shares(req'[o].doc, req'[o].grantee) = {}
  /\ req'[o].pc = "row" => \A t \in tuples' : t.subject = req'[o].group => t \in stray'

LEMMA PendingIsNext == \A o \in Request : Pending(req[o])' <=> PendingNext(o)
BY DEF Pending, PendingNext, Shares

LEMMA PendingOfIdle ==
  ASSUME NEW q \in Request, req'[q].pc \notin {"allow", "insert", "row"}
  PROVE  PendingNext(q)
BY DEF PendingNext

LEMMA TupleInvNext ==
  ASSUME MembersIn',
         \A d \in Doc : RowTuples(d)',
         \A d \in Doc, s \in User \cup Group : ShareTuples(d, s)',
         \A q \in Request : PendingNext(q)
  PROVE  TupleInv'
<1>1. \A q \in Request : Pending(req[q])'
  BY PendingIsNext
<1>2. \A d \in Doc, s \in User \cup Group :
        LET on == {t \in tuples' : t.object = d}
        IN  /\ Shares(d, s) \subseteq on <=> Shares(d, s) \subseteq tuples'
            /\ on \cap Shares(d, s) = tuples' \cap Shares(d, s)
  BY DEF Shares, Tuple
<1>3. TuplesFollow'
  BY <1>2 DEF TuplesFollow, MembersIn, RowTuples, ShareTuples, Shares, Tuple
<1> QED BY <1>1, <1>3 DEF TupleInv, Pending, Shares, Tuple

LEMMA TuplesOfCreate ==
  ASSUME TypeInv, RowInv, TupleInv, SubjectInv, RevokedInv, NEW q \in Request, CommitCreate(q)
  PROVE  TupleInv'
<1>0. PICK c \in Doc, p \in Doc \cup {None}, u \in User :
        c = req[q].doc /\ p = req[q].parent /\ u = req[q].user
  BY CreateWrites DEF EditReq
<1> DEFINE New == {OwnerTuple(c, u)} \cup (IF p = None THEN {} ELSE {Tuple(c, "parent_item", p)})
<1>1. /\ doc'[c].status = "live" /\ doc'[c].parent = p /\ doc'[c].creator = u
      /\ \A d \in Doc : d # c => doc'[d] = doc[d]
      /\ tuples' = tuples \cup New
  BY <1>0, CreateWrites
<1>2. \A t \in tuples : t.object # c
  BY <1>0 DEF RowInv, CommitCreate, Edits
<1>3. \A t \in New : t.object = c /\ t.rel \in Basic /\ t.subject \in User \cup Doc
  BY <1>1 DEF OwnerTuple, Tuple, Basic
<1>4. UNCHANGED <<groups, members, late, doubled, stray, revoked>>
  BY DEF CommitCreate
<1>5. ASSUME NEW d \in Doc, NEW s \in User \cup Group PROVE ShareTuples(d, s)'
  <2>1. tuples' \cap Shares(d, s) \subseteq tuples
    BY <1>1, <1>3 DEF Shares, Tuple, Basic
  <2> QED BY <1>4, <2>1, SharesKept, TupleInvSplit
<1>6. ASSUME NEW d \in Doc PROVE RowTuples(d)'
  <2>1. CASE d = c
    <3>1. {t \in tuples' : t.object = c} = New
      BY <1>1, <1>2, <1>3
    <3>2. {t \in New : t.rel = "parent_item"} = IF p = None THEN {} ELSE {Tuple(c, "parent_item", p)}
      BY DEF OwnerTuple, Tuple
    <3>3. {t \in New : t.rel = "owner"} = {OwnerTuple(c, u)}
      BY DEF OwnerTuple, Tuple
    <3>4. ParentTuple(c)' = IF p = None THEN {} ELSE {Tuple(c, "parent_item", p)}
      BY <1>1 DEF ParentTuple, Tuple
    <3>5. doc'[d].status = "live" /\ doc'[d].creator = u
      BY <1>1, <2>1
    <3>6. <<d, "parent_item">> \notin revoked' /\ <<d, "owner">> \notin revoked'
      BY <1>0, <1>4, <2>1 DEF RowInv, CommitCreate, Edits, RevokedInv, Basic
    <3> HIDE DEF New
    <3> QED BY <2>1, <3>1, <3>2, <3>3, <3>4, <3>5, <3>6 DEF RowTuples, Live, OwnerTuple, Tuple
  <2>2. CASE d # c
    <3>1. {t \in tuples' : t.object = d} = {t \in tuples : t.object = d}
      BY <1>1, <1>3, <2>2
    <3>2. doc'[d] = doc[d]
      BY <1>1, <2>2
    <3>3. RowTuples(d)
      BY TupleInvSplit
    <3> HIDE DEF New
    <3> QED BY <1>4, <3>1, <3>2, <3>3 DEF RowTuples, Live, ParentTuple, OwnerTuple, Tuple
  <2> QED BY <2>1, <2>2
<1>7. ASSUME NEW o \in Request PROVE PendingNext(o)
  <2>1. CASE o = q
    <3>1. req'[q] = Idle
      BY DEF CommitCreate, Flagged
    <3> QED BY <2>1, <3>1, PendingOfIdle DEF Idle
  <2>2. CASE o # q
    <3>1. KeptAs(req[o], req'[o])
      BY <2>2, OthersKept DEF Steps
    <3>2. Pending(req[o])
      BY TupleInvSplit
    <3>3. tuples' \cap Shares(req[o].doc, req[o].grantee) \subseteq tuples
      BY <1>1, <1>3 DEF Shares, Tuple, Basic
    <3>4. req[o].pc = "row" => \A t \in tuples' : t.subject = req[o].group => t \in tuples
      BY <1>1, <1>3, Kinds, Parameters DEF DissolveReq, Parameters
    <3> HIDE DEF New
    <3> QED BY <1>4, <3>1, <3>2, <3>3, <3>4, PendingKept DEF PendingNext
  <2> QED BY <2>1, <2>2
<1>8. MembersIn'
  BY <1>4, TupleInvSplit DEF MembersIn
<1> QED BY <1>5, <1>6, <1>7, <1>8, TupleInvNext

\* No share is added.
BasicOnly == \A t \in tuples' : t \in tuples \/ (t.rel \in Basic /\ t.subject \in User \cup Doc)

LEMMA NoShares ==
  ASSUME BasicOnly
  PROVE  \A d, s : tuples' \cap Shares(d, s) \subseteq tuples
BY DEF BasicOnly, Shares, Tuple, Basic

LEMMA PendingOfOthers ==
  ASSUME TypeInv, TupleInv, BasicOnly, stray \subseteq stray',
         NEW q \in Request, Steps(q), NEW o \in Request \ {q}
  PROVE  PendingNext(o)
<1>1. KeptAs(req[o], req'[o])
  BY OthersKept
<1>2. Pending(req[o])
  BY TupleInvSplit
<1>3. tuples' \cap Shares(req[o].doc, req[o].grantee) \subseteq tuples
  BY NoShares
<1>4. req[o].pc = "row" => \A t \in tuples' : t.subject = req[o].group => t \in tuples
  BY Kinds, Parameters DEF DissolveReq, Parameters, BasicOnly
<1> QED BY <1>1, <1>2, <1>3, <1>4, PendingKept DEF PendingNext

LEMMA TuplesOfUpdate ==
  ASSUME TypeInv, RowInv, TupleInv, SubjectInv, NEW q \in Request, CommitUpdate(q)
  PROVE  TupleInv'
<1>1. PICK c \in Doc, p \in Doc \cup {None} : c = req[q].doc /\ p = req[q].parent
  BY UpdateWrites
<1>2. /\ doc'[c].parent = p
      /\ \A d \in Doc : doc'[d].status = doc[d].status /\ doc'[d].creator = doc[d].creator
      /\ \A d \in Doc : d # c => doc'[d] = doc[d]
      /\ tuples' = Reparented(c, p)
  <2>1. Up'[c] = p
    BY <1>1, UpdateWrites, UpType
  <2> QED BY <1>1, <2>1, UpdateWrites DEF Up
<1>3. /\ UNCHANGED <<groups, members, doubled, stray>>
      /\ revoked' = revoked \ {<<c, "parent_item">>}
      /\ late' = IF Live(c) THEN late ELSE late \cup {c}
      /\ req'[q] = Idle
  BY <1>1 DEF CommitUpdate
<1> DEFINE New == IF p = None THEN {} ELSE {Tuple(c, "parent_item", p)}
<1>4. /\ \A t \in New : t.object = c /\ t.rel = "parent_item" /\ t.subject \in Doc
      /\ tuples' = {t \in tuples : ~(t.object = c /\ t.rel = "parent_item")} \cup New
  BY <1>2 DEF Reparented, Tuple
<1> HIDE DEF New
<1>5. BasicOnly
  BY <1>4 DEF BasicOnly, Basic
<1>6. ASSUME NEW d \in Doc, NEW s \in User \cup Group PROVE ShareTuples(d, s)'
  BY <1>3, <1>5, NoShares, SharesKept, TupleInvSplit
<1>7. ASSUME NEW d \in Doc PROVE RowTuples(d)'
  <2>1. RowTuples(d)
    BY TupleInvSplit
  <2>2. CASE d = c
    <3>1. {t \in {x \in tuples' : x.object = d} : t.rel = "parent_item"} = New
      BY <1>4, <2>2
    <3>2. {t \in {x \in tuples' : x.object = d} : t.rel = "owner"}
            = {t \in {x \in tuples : x.object = d} : t.rel = "owner"}
      BY <1>4
    <3>3. ParentTuple(d)' = New
      BY <1>2, <2>2 DEF ParentTuple, Tuple, New
    <3>4. /\ <<d, "parent_item">> \notin revoked'
          /\ <<d, "owner">> \in revoked' <=> <<d, "owner">> \in revoked
      BY <1>3, <2>2
    <3> QED BY <1>2, <1>3, <2>1, <2>2, <3>1, <3>2, <3>3, <3>4 DEF RowTuples, Live, OwnerTuple, Tuple
  <2>3. CASE d # c
    <3>1. {t \in tuples' : t.object = d} = {t \in tuples : t.object = d}
      BY <1>4, <2>3
    <3>2. doc'[d] = doc[d] /\ late \subseteq late'
      BY <1>2, <1>3, <2>3
    <3>3. \A rel : <<d, rel>> \in revoked' <=> <<d, rel>> \in revoked
      BY <1>3, <2>3
    <3> QED BY <2>1, <3>1, <3>2, <3>3 DEF RowTuples, Live, ParentTuple, OwnerTuple, Tuple
  <2> QED BY <2>2, <2>3
<1>8. ASSUME NEW o \in Request PROVE PendingNext(o)
  <2>1. CASE o = q
    BY <1>3, <2>1, PendingOfIdle DEF Idle
  <2>2. CASE o # q
    BY <1>3, <1>5, <2>2, PendingOfOthers DEF Steps
  <2> QED BY <2>1, <2>2
<1>9. MembersIn'
  BY <1>3, TupleInvSplit DEF MembersIn
<1> QED BY <1>6, <1>7, <1>8, <1>9, TupleInvNext

LEMMA TuplesOfDelete ==
  ASSUME TypeInv, RowInv, TupleInv, SubjectInv, NEW q \in Request, CommitDelete(q), ~Endless(req[q].doc)
  PROVE  TupleInv'
<1>1. PICK gone \in SUBSET Doc : gone = Gone(q)
  BY DeleteWrites DEF Gone, Descendants
<1>2. /\ \A d \in Doc : /\ doc'[d].status = IF d \in gone /\ Live(d) THEN "deleted" ELSE doc[d].status
                        /\ doc'[d].parent = doc[d].parent /\ doc'[d].creator = doc[d].creator
      /\ tuples' = {t \in tuples : t.object \notin gone}
  BY <1>1, DeleteWrites
<1>3. UNCHANGED <<groups, members, doubled, stray, late, revoked>>
  BY DEF CommitDelete
<1>4. req'[q] = Idle
  BY DEF CommitDelete, Flagged
<1>5. BasicOnly
  BY <1>2 DEF BasicOnly
<1>6. ASSUME NEW d \in Doc, NEW s \in User \cup Group PROVE ShareTuples(d, s)'
  BY <1>3, <1>5, NoShares, SharesKept, TupleInvSplit
<1>7. ASSUME NEW d \in Doc PROVE RowTuples(d)'
  <2>1. RowTuples(d)
    BY TupleInvSplit
  <2>2. CASE d \in gone
    <3>1. {t \in tuples' : t.object = d} = {}
      BY <1>2, <2>2
    <3>2. doc'[d].status # "live"
      BY <1>2, <2>2 DEF Live
    <3> QED BY <3>1, <3>2 DEF RowTuples, Live
  <2>3. CASE d \notin gone
    <3>1. {t \in tuples' : t.object = d} = {t \in tuples : t.object = d}
      BY <1>2, <2>3
    <3>2. /\ doc'[d].status = doc[d].status /\ doc'[d].parent = doc[d].parent
          /\ doc'[d].creator = doc[d].creator
      BY <1>2, <2>3
    <3> QED BY <1>3, <2>1, <3>1, <3>2 DEF RowTuples, Live, ParentTuple, OwnerTuple, Tuple
  <2> QED BY <2>2, <2>3
<1>8. ASSUME NEW o \in Request PROVE PendingNext(o)
  <2>1. CASE o = q
    BY <1>4, <2>1, PendingOfIdle DEF Idle
  <2>2. CASE o # q
    BY <1>3, <1>5, <2>2, PendingOfOthers DEF Steps
  <2> QED BY <2>1, <2>2
<1>9. MembersIn'
  BY <1>3, TupleInvSplit DEF MembersIn
<1> QED BY <1>6, <1>7, <1>8, <1>9, TupleInvNext

\* Steps that take shares away, or change no tuple.
LEMMA TuplesWithShares ==
  ASSUME TypeInv, TupleInv, UNCHANGED <<doc, late, stray, revoked>>,
         \A t : t.rel \in Basic => (t \in tuples' <=> t \in tuples),
         tuples' \subseteq tuples,
         \A d \in Doc, s \in User \cup Group :
           <<d, s>> \in doubled => <<d, s>> \in doubled' \/ tuples' \cap Shares(d, s) = {},
         groups' = groups \/ \A d \in Doc, s \in Group \ groups' : tuples' \cap Shares(d, s) \subseteq stray',
         MembersIn',
         \A q \in Request : PendingNext(q)
  PROVE  TupleInv'
<1>1. ASSUME NEW d \in Doc PROVE RowTuples(d)'
  BY RowsWithShares, TupleInvSplit
<1>2. ASSUME NEW d \in Doc, NEW s \in User \cup Group PROVE ShareTuples(d, s)'
  <2>1. ShareTuples(d, s)
    BY TupleInvSplit
  <2>2. CASE groups' = groups
    BY <2>1, <2>2, SharesKept
  <2>3. CASE \A x \in Doc, g \in Group \ groups' : tuples' \cap Shares(x, g) \subseteq stray'
    <3>1. Shares(d, s) # {} /\ Shares(d, s)' = Shares(d, s)
      BY DEF Shares
    <3> QED BY <2>1, <2>3, <3>1 DEF ShareTuples
  <2> QED BY <2>2, <2>3
<1> QED BY <1>1, <1>2, TupleInvNext

LEMMA TuplesOfClear ==
  ASSUME TypeInv, TupleInv, NEW q \in Request, ClearShare(q)
  PROVE  TupleInv'
<1>1. req[q] \in ShareReq
  BY Kinds DEF ClearShare, Granting
<1>2. PICK c \in Doc, g \in Grantee : c = req[q].doc /\ g = req[q].grantee
  BY <1>1 DEF ShareReq
<1>3. /\ tuples' = tuples \ Shares(c, g) /\ doubled' = doubled \ {<<c, g>>}
      /\ UNCHANGED <<doc, groups, members, late, stray, revoked>>
  BY <1>2 DEF ClearShare
<1>4. req'[q].pc = "allow" /\ req'[q].doc = c /\ req'[q].grantee = g
  <2>1. req'[q] = [req[q] EXCEPT !.pc = "allow"]
    BY GoesTo DEF ClearShare
  <2> QED BY <1>1, <1>2, <2>1 DEF ShareReq
<1>5. \A t : t.rel \in Basic => (t \in tuples' <=> t \in tuples)
  BY <1>3 DEF Shares, Tuple, Basic
<1>6. BasicOnly
  BY <1>3 DEF BasicOnly
<1>7. ASSUME NEW o \in Request PROVE PendingNext(o)
  <2>1. CASE o = q
    BY <1>3, <1>4, <2>1 DEF PendingNext
  <2>2. CASE o # q
    BY <1>3, <1>6, <2>2, PendingOfOthers DEF Steps
  <2> QED BY <2>1, <2>2
<1>8. MembersIn'
  BY <1>3, TupleInvSplit DEF MembersIn
<1> QED BY <1>3, <1>5, <1>7, <1>8, TuplesWithShares

LEMMA TuplesOfInsert ==
  ASSUME TypeInv, TupleInv, NEW q \in Request, InsertShare(q)
  PROVE  TupleInv'
<1>1. PICK c \in Doc, g \in Grantee, perm \in {"viewer", "editor"} :
        c = req[q].doc /\ g = req[q].grantee /\ perm = req[q].perm
  BY InsertWrites
<1> DEFINE new == Tuple(c, perm, g)
           over == {o \in Request \ {q} : /\ req[o].pc \in {"allow", "insert"}
                                          /\ req[o].doc = c /\ req[o].grantee = g}
<1>2. /\ tuples' = tuples \cup {new}
      /\ doubled' = IF req[q].twice THEN doubled \cup {<<c, g>>} ELSE doubled
      /\ late' = IF Live(c) THEN late ELSE late \cup {c}
      /\ stray' = IF g \in Group \ groups \/ Dissolving(g) THEN stray \cup {new} ELSE stray
      /\ req' = [Flagged("twice", over) EXCEPT ![q] = Idle]
      /\ UNCHANGED <<doc, groups, members, revoked>>
  BY <1>1 DEF InsertShare
<1>3. new.object = c /\ new.rel \notin Basic /\ new.subject = g /\ new \in Shares(c, g)
  BY <1>1 DEF Tuple, Basic, Shares
<1>4. \A d, s : new \in Shares(d, s) => d = c /\ s = g
  BY DEF Tuple, Shares
<1>5. ASSUME NEW d \in Doc PROVE RowTuples(d)'
  <2>1. \A t : t.rel \in Basic => (t \in tuples' <=> t \in tuples)
    BY <1>2, <1>3
  <2>2. \A t \in tuples' : t \in tuples \/ Live(t.object) \/ t.object \in late'
    BY <1>2, <1>3
  <2>3. late \subseteq late'
    BY <1>2
  <2> QED BY <1>2, <2>1, <2>2, <2>3, RowsWithShares, TupleInvSplit
<1> HIDE DEF new
<1>6. ASSUME NEW d \in Doc, NEW s \in User \cup Group PROVE ShareTuples(d, s)'
  <2>1. ShareTuples(d, s) /\ Shares(d, s)' = Shares(d, s)
    BY TupleInvSplit DEF Shares
  <2>2. CASE d = c /\ s = g
    <3>1. ASSUME Shares(d, s) \subseteq tuples' PROVE <<d, s>> \in doubled'
      <4>1. CASE req[q].twice
        BY <1>2, <2>2, <4>1
      <4>2. CASE ~req[q].twice
        <5>1. tuples \cap Shares(c, g) = {}
          BY <1>1, <4>2, TupleInvSplit DEF Pending, InsertShare
        <5>2. Tuple(c, "viewer", g) = new /\ Tuple(c, "editor", g) = new
          BY <1>2, <2>2, <3>1, <5>1 DEF Shares
        <5> QED BY <5>2 DEF Tuple
      <4> QED BY <4>1, <4>2
    <3>2. ASSUME s \in Group \ groups PROVE tuples' \cap Shares(d, s) \subseteq stray'
      BY <1>2, <2>1, <2>2, <3>2 DEF ShareTuples
    <3> QED BY <1>2, <2>1, <3>1, <3>2 DEF ShareTuples
  <2>3. CASE ~(d = c /\ s = g)
    <3>1. tuples' \cap Shares(d, s) \subseteq tuples
      BY <1>2, <1>4, <2>3
    <3>2. doubled \subseteq doubled' /\ stray \subseteq stray'
      BY <1>2
    <3> QED BY <1>2, <2>1, <3>1, <3>2, SharesKept
  <2> QED BY <2>2, <2>3
<1>7. ASSUME NEW o \in Request PROVE PendingNext(o)
  <2>1. CASE o = q
    <3>1. req'[q] = Idle
      BY <1>2 DEF Flagged
    <3> QED BY <2>1, <3>1, PendingOfIdle DEF Idle
  <2>2. CASE o # q
    <3>1. KeptAs(req[o], req'[o]) /\ Pending(req[o])
      BY <2>2, OthersKept, TupleInvSplit DEF Steps
    <3>2. ASSUME req[o].pc \in {"allow", "insert"}, ~req'[o].twice
          PROVE  tuples' \cap Shares(req[o].doc, req[o].grantee) \subseteq tuples
      <4>1. CASE req[o].doc = c /\ req[o].grantee = g
        <5>1. o \in over
          BY <2>2, <3>2, <4>1
        <5>2. over \in SUBSET Request /\ \A h \in over : Granting(h)
          BY DEF Granting
        <5> HIDE DEF over
        <5>3. Flagged("twice", over)[o]["twice"] = TRUE
          BY <5>1, <5>2, FlagKeeps
        <5>4. req'[o] = Flagged("twice", over)[o]
          BY <1>2, <2>2 DEF Flagged
        <5> QED BY <3>2, <5>3, <5>4
      <4>2. CASE ~(req[o].doc = c /\ req[o].grantee = g)
        BY <1>2, <1>4, <4>2
      <4> QED BY <4>1, <4>2
    <3>3. req[o].pc = "row" => \A t \in tuples' : t.subject = req[o].group => t \in tuples \/ t \in stray'
      BY <1>2, <1>3 DEF Dissolving
    <3>4. stray \subseteq stray'
      BY <1>2
    <3> QED BY <3>1, <3>2, <3>3, <3>4, PendingKept DEF PendingNext
  <2> QED BY <2>1, <2>2
<1>8. MembersIn'
  BY <1>2, TupleInvSplit DEF MembersIn
<1> QED BY <1>5, <1>6, <1>7, <1>8, TupleInvNext

LEMMA TuplesOfDissolve ==
  ASSUME TypeInv, TupleInv, SubjectInv, NEW q \in Request, DropMembers(q) \/ DropTuples(q) \/ DropRow(q)
  PROVE  TupleInv'
<1>1. req[q] \in DissolveReq
  BY Kinds DEF DropMembers, DropTuples, DropRow
<1>2. PICK x \in Group : x = req[q].group
  BY <1>1 DEF DissolveReq
<1>3. UNCHANGED <<doc, late, doubled, stray, revoked>>
  BY DEF DropMembers, DropTuples, DropRow, ghost
<1>4. /\ tuples' = tuples \/ (DropTuples(q) /\ tuples' = {t \in tuples : t.subject # x})
      /\ groups' = groups \/ (DropRow(q) /\ groups' = groups \ {x} /\ tuples' = tuples)
  BY <1>2 DEF DropMembers, DropTuples, DropRow
<1>5. \A t : t.rel \in Basic => (t \in tuples' <=> t \in tuples)
  <2>1. \A t \in tuples : t.rel \in Basic => t.subject \notin Group
    BY Parameters DEF SubjectInv, Basic, Parameters
  <2> QED BY <1>4, <2>1
<1>6. BasicOnly
  BY <1>4 DEF BasicOnly
<1>7. ASSUME NEW o \in Request PROVE PendingNext(o)
  <2>1. CASE o # q
    BY <1>3, <1>6, <2>1, PendingOfOthers DEF Steps
  <2>2. CASE o = q /\ DropMembers(q)
    <3>1. req'[q].pc = "tuples"
      <4>1. req'[q] = [req[q] EXCEPT !.pc = "tuples"]
        BY <2>2, GoesTo DEF DropMembers
      <4> QED BY <1>1, <4>1 DEF DissolveReq
    <3> QED BY <2>2, <3>1, PendingOfIdle
  <2>3. CASE o = q /\ DropTuples(q)
    <3>1. req'[q].pc = "row" /\ req'[q].group = x
      <4>1. req'[q] = [req[q] EXCEPT !.pc = "row"]
        BY <2>3, GoesTo DEF DropTuples
      <4> QED BY <1>1, <1>2, <4>1 DEF DissolveReq
    <3>2. tuples' = {t \in tuples : t.subject # x}
      BY <1>2, <2>3 DEF DropTuples
    <3> QED BY <2>3, <3>1, <3>2 DEF PendingNext
  <2>4. CASE o = q /\ DropRow(q)
    <3>1. req'[q] = Idle
      BY <2>4, DoneTypes DEF DropRow
    <3> QED BY <2>4, <3>1, PendingOfIdle DEF Idle
  <2> QED BY <2>1, <2>2, <2>3, <2>4
<1>8. groups' = groups \/ \A d \in Doc, s \in Group \ groups' : tuples' \cap Shares(d, s) \subseteq stray'
  <2>1. ASSUME DropRow(q), groups' = groups \ {x}, tuples' = tuples,
               NEW d \in Doc, NEW s \in Group \ groups'
        PROVE  tuples' \cap Shares(d, s) \subseteq stray'
    <3>1. CASE s = x
      <4>1. Pending(req[q]) /\ req[q].pc = "row"
        BY <2>1, TupleInvSplit DEF DropRow
      <4>2. \A t \in Shares(d, s) : t.subject = s
        BY DEF Shares, Tuple
      <4> QED BY <1>2, <1>3, <2>1, <3>1, <4>1, <4>2 DEF Pending
    <3>2. CASE s # x
      <4>1. s \in Group \ groups /\ ShareTuples(d, s)
        BY <2>1, <3>2, TupleInvSplit
      <4> QED BY <1>3, <2>1, <4>1 DEF ShareTuples
    <3> QED BY <3>1, <3>2
  <2> QED BY <1>4, <2>1
<1>9. MembersIn'
  <2>1. \/ UNCHANGED <<groups, members>>
        \/ UNCHANGED groups /\ members' \subseteq members
        \/ groups' = groups \ {x} /\ members' = {m \in members : m[1] # x}
    BY <1>2 DEF DropMembers, DropTuples, DropRow, WithoutMembers
  <2>2. members \subseteq groups \X User
    BY TupleInvSplit DEF MembersIn
  <2> QED BY <2>1, <2>2 DEF MembersIn
<1> QED BY <1>3, <1>4, <1>5, <1>7, <1>8, <1>9, TuplesWithShares

\* The steps that touch neither tuples nor groups.
LEMMA TuplesElsewhere ==
  ASSUME TypeInv, TupleInv, NEW q \in Request,
         Resolve(q) \/ AllowShare(q) \/ Release(q) \/ Abandon(q) \/ (CommitDelete(q) /\ Endless(req[q].doc))
  PROVE  TupleInv'
<1>1. UNCHANGED <<doc, tuples, groups, members, late, doubled, stray, revoked>>
  BY DEF Resolve, AllowShare, Release, Abandon, CommitDelete, data, ghost
<1>2. BasicOnly
  BY <1>1 DEF BasicOnly
<1>3. PendingNext(q)
  <2>1. Steps(q) /\ Pending(req[q])
    BY TupleInvSplit DEF Steps
  <2>2. CASE AllowShare(q)
    <3>1. req[q] \in ShareReq
      BY <2>2, Kinds DEF AllowShare, Granting
    <3>2. req'[q] = [req[q] EXCEPT !.pc = "insert"]
      BY <2>2, GoesTo DEF AllowShare
    <3>3. /\ req'[q].pc = "insert" /\ req'[q].doc = req[q].doc /\ req'[q].grantee = req[q].grantee
          /\ req'[q].twice = req[q].twice
      BY <3>1, <3>2 DEF ShareReq
    <3> QED BY <1>1, <2>1, <2>2, <3>3 DEF PendingNext, Pending, AllowShare
  <2>3. CASE Resolve(q)
    <3>1. req[q] \in EditReq /\ req'[q] = [req[q] EXCEPT !.pc = "commit"]
      BY <2>3, Kinds, GoesTo DEF Resolve, Edits
    <3>2. req'[q].pc = "commit"
      BY <3>1 DEF EditReq
    <3> QED BY <3>2, PendingOfIdle
  <2>4. CASE Release(q)
    <3>1. req[q] \in EditReq
      BY <2>4, Kinds DEF Release, Edits
    <3>2. CASE Live(req[q].doc)
      <4>1. req'[q] = [req[q] EXCEPT !.pc = "commit", !.listed = Released(req[q])]
        BY <2>4, <3>2 DEF Release, TypeInv
      <4>2. req'[q].pc = "commit"
        BY <3>1, <4>1 DEF EditReq
      <4> QED BY <4>2, PendingOfIdle
    <3>3. CASE ~Live(req[q].doc)
      <4>1. req'[q] = Idle
        BY <2>4, <3>3, DoneTypes DEF Release
      <4> QED BY <4>1, PendingOfIdle DEF Idle
    <3> QED BY <3>2, <3>3
  <2>5. CASE Abandon(q)
    <3>1. req'[q] = Idle
      BY <2>5, DoneTypes DEF Abandon
    <3> QED BY <3>1, PendingOfIdle DEF Idle
  <2>6. CASE CommitDelete(q) /\ Endless(req[q].doc)
    <3>1. req'[q].pc = "commit"
      BY <2>6 DEF CommitDelete
    <3> QED BY <3>1, PendingOfIdle
  <2> QED BY <2>2, <2>3, <2>4, <2>5, <2>6
<1>4. ASSUME NEW o \in Request \ {q} PROVE PendingNext(o)
  BY <1>1, <1>2, PendingOfOthers DEF Steps
<1>5. MembersIn'
  BY <1>1, TupleInvSplit DEF MembersIn
<1> QED BY <1>1, <1>3, <1>4, <1>5, TuplesWithShares

LEMMA TuplesAsked ==
  ASSUME TypeInv, TupleInv, NEW q \in Request, NEW r \in Reqs, Asked(q, r)
  PROVE  TupleInv'
<1>1. /\ req' = [req EXCEPT ![q] = r]
      /\ UNCHANGED <<doc, tuples, groups, members, late, doubled, stray, revoked>>
  BY DEF Asked, CreateAsked, MoveAsked, DeleteAsked, ShareAsked, DissolveAsked, Starting, Others, ghost
<1>2. req'[q] = r /\ \A o \in Request \ {q} : req'[o] = req[o]
  BY <1>1 DEF TypeInv
<1>3. r.pc \notin {"allow", "insert", "row"}
  <2>1. CASE CreateAsked(q, r)
    BY <2>1 DEF CreateAsked, Edit
  <2>2. CASE MoveAsked(q, r)
    BY <2>2 DEF MoveAsked, Edit
  <2>3. CASE DeleteAsked(q, r)
    BY <2>3 DEF DeleteAsked, Edit
  <2>4. CASE ShareAsked(q, r)
    BY <2>4 DEF ShareAsked, Sharing
  <2>5. CASE DissolveAsked(q, r)
    BY <2>5 DEF DissolveAsked
  <2> QED BY <2>1, <2>2, <2>3, <2>4, <2>5 DEF Asked
<1>4. ASSUME NEW o \in Request PROVE PendingNext(o)
  <2>1. CASE o = q
    BY <1>2, <1>3, <2>1, PendingOfIdle
  <2>2. CASE o # q
    BY <1>1, <1>2, <2>2, TupleInvSplit DEF PendingNext, Pending
  <2> QED BY <2>1, <2>2
<1>5. MembersIn'
  BY <1>1, TupleInvSplit DEF MembersIn
<1> QED BY <1>1, <1>4, <1>5, TuplesWithShares

\* The share route takes one tuple.  If it is the owner's or the edge, it was the one of
\* its kind, and is recorded as revoked.
LEMMA TuplesOfUnshare ==
  ASSUME TypeInv, TupleInv, NEW u \in User, NEW t \in tuples, Unshare(u, t)
  PROVE  TupleInv'
<1>1. /\ tuples' = tuples \ {t}
      /\ revoked' = IF t.rel \in Basic THEN revoked \cup {<<t.object, t.rel>>} ELSE revoked
      /\ UNCHANGED <<doc, req, groups, members, late, doubled, stray>>
  BY DEF Unshare, Basic
<1>2. ASSUME NEW d \in Doc PROVE RowTuples(d)'
  <2> DEFINE on    == {x \in tuples : x.object = d}
             on2   == {x \in tuples' : x.object = d}
             edge  == {x \in on : x.rel = "parent_item"}
             edge2 == {x \in on2 : x.rel = "parent_item"}
             own   == {x \in on : x.rel = "owner"}
             own2  == {x \in on2 : x.rel = "owner"}
  <2>1. /\ Live(d) => /\ edge = IF <<d, "parent_item">> \in revoked THEN {} ELSE ParentTuple(d)
                      /\ own = IF <<d, "owner">> \in revoked THEN {} ELSE {OwnerTuple(d, doc[d].creator)}
        /\ ~Live(d) => own = {} /\ (on # {} => d \in late)
    BY TupleInvSplit DEF RowTuples
  <2>2. on2 \subseteq on /\ edge2 = edge \ {t} /\ own2 = own \ {t}
    BY <1>1
  <2>3. t \in edge <=> t.object = d /\ t.rel = "parent_item"
    OBVIOUS
  <2>4. t \in own <=> t.object = d /\ t.rel = "owner"
    OBVIOUS
  <2>5. /\ <<d, "parent_item">> \in revoked' <=> <<d, "parent_item">> \in revoked \/ t \in edge
        /\ <<d, "owner">> \in revoked' <=> <<d, "owner">> \in revoked \/ t \in own
    BY <1>1, <2>3, <2>4 DEF Basic
  <2>6. ParentTuple(d)' = ParentTuple(d) /\ (Live(d)' <=> Live(d))
    BY <1>1 DEF ParentTuple, Live
  <2>7. \A x, y \in ParentTuple(d) : x = y
    BY DEF ParentTuple
  <2> HIDE DEF on, on2, edge, edge2, own, own2
  <2>8. Live(d) => /\ edge2 = IF <<d, "parent_item">> \in revoked' THEN {} ELSE ParentTuple(d)
                   /\ own2 = IF <<d, "owner">> \in revoked' THEN {} ELSE {OwnerTuple(d, doc[d].creator)}
    BY <2>1, <2>2, <2>5, <2>7
  <2>9. ~Live(d) => own2 = {} /\ (on2 # {} => d \in late')
    BY <1>1, <2>1, <2>2
  <2> QED BY <1>1, <2>6, <2>8, <2>9 DEF RowTuples, on2, edge2, own2, OwnerTuple, Tuple
<1>3. ASSUME NEW d \in Doc, NEW s \in User \cup Group PROVE ShareTuples(d, s)'
  BY <1>1, SharesKept, TupleInvSplit
<1>4. ASSUME NEW o \in Request PROVE PendingNext(o)
  BY <1>1, TupleInvSplit DEF PendingNext, Pending
<1>5. MembersIn'
  BY <1>1, TupleInvSplit DEF MembersIn
<1> QED BY <1>2, <1>3, <1>4, <1>5, TupleInvNext

LEMMA RevokedOfUnshare ==
  ASSUME TypeInv, RowInv, RevokedInv, NEW u \in User, NEW t \in tuples, Unshare(u, t)
  PROVE  RevokedInv'
<1>1. UNCHANGED doc /\ revoked' \subseteq revoked \cup {<<t.object, t.rel>>}
  BY DEF Unshare
<1>2. \A d \in Doc : Absent(d) => t.object # d
  BY DEF RowInv
<1> QED BY <1>1, <1>2 DEF RevokedInv, Absent

LEMMA TuplesAside ==
  ASSUME TypeInv, RowInv, TupleInv, RevokedInv, Aside
  PROVE  TupleInv' /\ RevokedInv'
<1>1. ASSUME NEW u \in User, NEW t \in tuples, Unshare(u, t) PROVE TupleInv' /\ RevokedInv'
  BY <1>1, TuplesOfUnshare, RevokedOfUnshare
<1>2. ASSUME UNCHANGED <<doc, tuples, req, groups, late, doubled, stray, revoked>>, MembersIn'
      PROVE  TupleInv' /\ RevokedInv'
  <2>1. ASSUME NEW o \in Request PROVE PendingNext(o)
    BY <1>2, TupleInvSplit DEF PendingNext, Pending
  <2>2. TupleInv'
    BY <1>2, <2>1, TuplesWithShares
  <2> QED BY <1>2, <2>2 DEF RevokedInv, Absent
<1>3. MembersIn
  BY TupleInvSplit
<1>4. ASSUME NEW d \in Doc, Hang(d) PROVE TupleInv' /\ RevokedInv'
  <2>1. UNCHANGED <<doc, tuples, req, groups, members, late, doubled, stray, revoked>>
    BY <1>4 DEF Hang, data, ghost
  <2> QED BY <1>2, <1>3, <2>1 DEF MembersIn
<1>5. ASSUME NEW x \in Group, NEW u \in User, Join(x, u) \/ Leave(x, u) PROVE TupleInv' /\ RevokedInv'
  <2>1. /\ UNCHANGED <<doc, tuples, req, groups, late, doubled, stray, revoked>>
        /\ members' \subseteq members \/ (x \in groups /\ members' = members \cup {<<x, u>>})
    BY <1>5 DEF Join, Leave, ghost
  <2>2. MembersIn'
    BY <1>3, <2>1 DEF MembersIn
  <2> QED BY <1>2, <2>1, <2>2
<1> QED BY <1>1, <1>4, <1>5 DEF Aside

LEMMA NextTuples ==
  ASSUME TypeInv, RowInv, TupleInv, SubjectInv, RevokedInv, [Next]_vars
  PROVE  TupleInv' /\ SubjectInv' /\ RevokedInv'
<1>1. CASE UNCHANGED vars
  <2>1. UNCHANGED <<doc, tuples, groups, members, req, late, doubled, stray, revoked>>
    BY <1>1 DEF vars, data, ghost
  <2>2. ASSUME NEW o \in Request PROVE PendingNext(o)
    BY <2>1, TupleInvSplit DEF PendingNext, Pending
  <2>3. MembersIn'
    BY <2>1, TupleInvSplit DEF MembersIn
  <2>4. TupleInv'
    BY <2>1, <2>2, <2>3, TuplesWithShares
  <2> QED BY <2>1, <2>4 DEF SubjectInv, RevokedInv, Absent
<1>2. ASSUME NEW q \in Request, Asks(q) \/ \E x \in Group : AskDissolve(q, x)
      PROVE  TupleInv' /\ SubjectInv' /\ RevokedInv'
  <2>1. PICK r \in Reqs : Asked(q, r)
    BY <1>2, Asking
  <2>2. UNCHANGED <<doc, tuples, revoked>>
    BY <2>1 DEF Asked, CreateAsked, MoveAsked, DeleteAsked, ShareAsked, DissolveAsked, Starting, Others, ghost
  <2> QED BY <2>1, <2>2, TuplesAsked DEF SubjectInv, RevokedInv, Absent
<1>3. ASSUME NEW q \in Request, Steps(q) PROVE TupleInv' /\ SubjectInv' /\ RevokedInv'
  <2>1. TupleInv'
    BY <1>3, TuplesOfCreate, TuplesOfUpdate, TuplesOfDelete, TuplesOfClear, TuplesOfInsert,
       TuplesOfDissolve, TuplesElsewhere DEF Steps
  <2> QED BY <1>3, <2>1, SubjectsOfSteps, RevokedOfSteps
<1>4. CASE Aside
  <2>1. tuples' \subseteq tuples
    BY <1>4, AsideKeeps DEF DataKept
  <2> QED BY <1>4, <2>1, TuplesAside DEF SubjectInv
<1> QED BY <1>1, <1>2, <1>3, <1>4 DEF Next, Aside

-----------------------------------------------------------------------------
(* Attachments *)

DeletesIt(r, d) == r.pc = "commit" /\ r.kind = "delete" /\ d \in r.listed
Covered(d)      == \E q \in Request : DeletesIt(req[q], d)

Attachments(d) ==
  d \notin parted =>
    /\ doc[d].status = "deleted" => d \notin attached
    /\ Live(d) /\ d \notin attached => Covered(d)

\* What a delete has listed, as long as nothing reshaped the tree.
Listing(f, r) ==
  r.pc \in {"resolve", "commit"} /\ r.kind = "delete" =>
    /\ ~r.reshaped => /\ r.listed \subseteq {r.doc} \cup Below(f, r.doc)
                      /\ \A d \in {r.doc} \cup Below(f, r.doc) : Live(d) => d \in r.listed
    /\ r.pc = "commit" => r.listed \cap attached = {}

LEMMA AttachInvSplit ==
  ASSUME TypeInv
  PROVE  AttachInv <=> (\A d \in Doc : Attachments(d)) /\ \A q \in Request : Listing(Up, req[q])
<1>1. ASSUME NEW q \in Request, Edits(q)
      PROVE  Descendants(req[q].doc) = Below(Up, req[q].doc)
  BY <1>1, Kinds, DescendantsBelow DEF EditReq
<1> QED BY <1>1 DEF AttachInv, AttachmentsFollow, Attachments, Covered, DeletesIt, Listing, Edits

LEMMA InitAttach ==
  ASSUME Init, TypeInv
  PROVE  AttachInv
<1>1. PICK f \in Forest, absent \in SUBSET Doc, u \in Creator :
        /\ doc = [d \in Doc |-> [status |-> IF d \in absent THEN "absent" ELSE "live",
                                 parent |-> f[d], creator |-> u]]
        /\ tuples = UNION {{OwnerTuple(d, u)} \cup ParentTuple(d) : d \in Doc \ absent}
        /\ attached = Doc \ absent
  BY DEF Init
<1>2. req = [q \in Request |-> Idle]
  BY DEF Init
<1>3. \A d \in Doc : Attachments(d)
  BY <1>1 DEF Attachments, Live
<1>4. \A q \in Request : Listing(Up, req[q])
  BY <1>2 DEF Listing, Idle
<1> QED BY <1>3, <1>4, AttachInvSplit

\* The step's own request apart, a delete that is about to commit goes on to be.
LEMMA CoveredKept ==
  ASSUME TypeInv, NEW q \in Request, Steps(q), NEW d, Covered(d), ~DeletesIt(req[q], d)
  PROVE  Covered(d)'
<1>1. PICK o \in Request : DeletesIt(req[o], d)
  BY DEF Covered
<1>2. KeptAs(req[o], req'[o])
  BY <1>1, OthersKept
<1> QED BY <1>1, <1>2 DEF Covered, DeletesIt, KeptAs

\* What Listing says next, of a request that neither resolved nor released.
LEMMA ListingKept ==
  ASSUME NEW r, NEW s, Listing(Up, r), Up' = Up,
         s.pc \in {"resolve", "commit"} => r.pc \in {"resolve", "commit"},
         s.kind = r.kind, s.doc = r.doc, s.listed = r.listed,
         r.reshaped => s.reshaped,
         \A d \in Doc : doc'[d].status = "live" => Live(d), r.doc \in Doc,
         s.pc = "commit" => r.pc = "commit",
         attached' \subseteq attached
  PROVE  s.pc \in {"resolve", "commit"} /\ s.kind = "delete" =>
    /\ ~s.reshaped => /\ s.listed \subseteq {s.doc} \cup Below(Up', s.doc)
                      /\ \A d \in {s.doc} \cup Below(Up', s.doc) : doc'[d].status = "live" => d \in s.listed
    /\ s.pc = "commit" => s.listed \cap attached' = {}
BY BelowInside DEF Listing

LEMMA AttachNext ==
  ASSUME TypeInv',
         \A d \in Doc : d \notin parted' =>
           /\ doc'[d].status = "deleted" => d \notin attached'
           /\ doc'[d].status = "live" /\ d \notin attached' => Covered(d)',
         \A q \in Request : req'[q].pc \in {"resolve", "commit"} /\ req'[q].kind = "delete" =>
           /\ ~req'[q].reshaped =>
                /\ req'[q].listed \subseteq {req'[q].doc} \cup Below(Up', req'[q].doc)
                /\ \A d \in {req'[q].doc} \cup Below(Up', req'[q].doc) :
                     doc'[d].status = "live" => d \in req'[q].listed
           /\ req'[q].pc = "commit" => req'[q].listed \cap attached' = {}
  PROVE  AttachInv'
<1>1. ASSUME NEW q \in Request, Edits(q)'
      PROVE  Descendants(req[q].doc)' = Below(Up', req'[q].doc)
  <2>1. req'[q] \in Reqs
    BY DEF TypeInv
  <2>2. req'[q].doc \in Doc
    BY <1>1, <2>1 DEF Edits, Reqs, Idle, EditReq, ShareReq, DissolveReq
  <2> QED BY <2>2 DEF Descendants, Children, Below, Up
<1> QED BY <1>1 DEF AttachInv, AttachmentsFollow, Covered, DeletesIt, Edits, Live

LEMMA AttachOfCreate ==
  ASSUME TypeInv, TypeInv', RowInv, AttachInv, NEW q \in Request, CommitCreate(q)
  PROVE  AttachInv'
<1>1. PICK c \in Doc : c = req[q].doc
  BY CreateWrites
<1>2. /\ doc'[c].status = "live"
      /\ \A d \in Doc : d # c => doc'[d] = doc[d]
      /\ attached' = attached \cup {c} /\ parted' = parted
      /\ req' = [Flagged("reshaped", Editing) EXCEPT ![q] = Idle]
  BY <1>1, CreateWrites DEF CommitCreate
<1>3. Absent(c)
  BY <1>1 DEF RowInv, CommitCreate, Edits
<1>4. ASSUME NEW d \in Doc, d \notin parted'
      PROVE  /\ doc'[d].status = "deleted" => d \notin attached'
             /\ doc'[d].status = "live" /\ d \notin attached' => Covered(d)'
  <2>1. CASE d = c
    BY <1>2, <2>1
  <2>2. CASE d # c
    <3>1. Attachments(d) /\ doc'[d] = doc[d]
      BY <1>2, <2>2, AttachInvSplit
    <3>2. ~DeletesIt(req[q], d)
      BY DEF DeletesIt, CommitCreate
    <3>3. Covered(d) => Covered(d)'
      BY <3>2, CoveredKept DEF Steps
    <3> QED BY <1>2, <1>4, <2>2, <3>1, <3>3 DEF Attachments, Live
  <2> QED BY <2>1, <2>2
<1>5. ASSUME NEW o \in Request, req'[o].pc \in {"resolve", "commit"}, req'[o].kind = "delete"
      PROVE  /\ req'[o].reshaped
             /\ req'[o].pc = "commit" => req'[o].listed \cap attached' = {}
  <2>1. o # q
    BY <1>2, <1>5, IdleReq DEF Flagged
  <2>2. Edits(o) /\ req[o].kind = "delete" /\ req'[o].pc = req[o].pc /\ req'[o].listed = req[o].listed
    BY <1>5, <2>1, EditFate DEF Edits, Steps
  <2>3. Flagged("reshaped", Editing)[o]["reshaped"] = TRUE
    BY <2>2, FlagKeeps DEF Editing, Edits
  <2>4. req'[o].reshaped
    BY <1>2, <2>1, <2>3 DEF Flagged
  <2>5. c \notin req[o].listed
    BY <1>3, <2>2 DEF RowInv
  <2>6. req[o].pc = "commit" => req[o].listed \cap attached = {}
    BY <2>2, AttachInvSplit DEF Listing
  <2> QED BY <1>2, <2>2, <2>4, <2>5, <2>6
<1> QED BY <1>4, <1>5, AttachNext

LEMMA AttachOfUpdate ==
  ASSUME TypeInv, TypeInv', AttachInv, NEW q \in Request, CommitUpdate(q)
  PROVE  AttachInv'
<1>1. /\ \A d \in Doc : doc'[d].status = doc[d].status
      /\ attached' = attached /\ parted' = parted
  BY UpdateWrites DEF CommitUpdate
<1>2. ASSUME NEW d \in Doc, d \notin parted'
      PROVE  /\ doc'[d].status = "deleted" => d \notin attached'
             /\ doc'[d].status = "live" /\ d \notin attached' => Covered(d)'
  <2>1. Attachments(d)
    BY AttachInvSplit
  <2>2. ~DeletesIt(req[q], d)
    BY DEF DeletesIt, CommitUpdate
  <2>3. Covered(d) => Covered(d)'
    BY <2>2, CoveredKept DEF Steps
  <2> QED BY <1>1, <1>2, <2>1, <2>3 DEF Attachments, Live
<1>3. ASSUME NEW o \in Request, req'[o].pc \in {"resolve", "commit"}, req'[o].kind = "delete"
      PROVE  /\ req'[o].reshaped
             /\ req'[o].pc = "commit" => req'[o].listed \cap attached' = {}
  <2>1. o # q
    BY <1>3, IdleReq DEF CommitUpdate
  <2>2. /\ Edits(o) /\ req[o] \in EditReq
        /\ req[o].kind = "delete" /\ req'[o].pc = req[o].pc /\ req'[o].listed = req[o].listed
    BY <1>3, <2>1, EditFate DEF Edits, Steps
  <2>3. req'[o] = Overtaken(req[o], req[q].doc)
    BY <2>1, <2>2 DEF CommitUpdate, Editing, Edits
  <2>4. req'[o].reshaped
    BY <2>2, <2>3, OvertakenTypes
  <2>5. req[o].pc = "commit" => req[o].listed \cap attached = {}
    BY <2>2, AttachInvSplit DEF Listing
  <2> QED BY <1>1, <2>2, <2>4, <2>5
<1> QED BY <1>2, <1>3, AttachNext

\* Of the requests that a step leaves alone.
LEMMA ListingOfOthers ==
  ASSUME TypeInv, AttachInv, NEW q \in Request, Steps(q), NEW o \in Request, Edits(o)',
         Up' = Up, attached' \subseteq attached,
         \A d \in Doc : doc'[d].status = "live" => Live(d),
         o # q \/ ~Release(q)
  PROVE  req'[o].kind = "delete" =>
           /\ ~req'[o].reshaped =>
                /\ req'[o].listed \subseteq {req'[o].doc} \cup Below(Up', req'[o].doc)
                /\ \A d \in {req'[o].doc} \cup Below(Up', req'[o].doc) :
                     doc'[d].status = "live" => d \in req'[o].listed
           /\ req'[o].pc = "commit" => req'[o].listed \cap attached' = {}
<1>1. /\ Edits(o) /\ req[o] \in EditReq
      /\ req'[o].kind = req[o].kind /\ req'[o].doc = req[o].doc /\ req'[o].listed = req[o].listed
      /\ req[o].reshaped => req'[o].reshaped
      /\ req'[o].pc = req[o].pc \/ Resolve(o)
  BY EditFate
<1>2. req[o].doc \in Doc /\ Listing(Up, req[o])
  BY <1>1, AttachInvSplit DEF EditReq
<1>3. Resolve(o) => req[o].kind # "delete"
  BY DEF Resolve
<1> SUFFICES ASSUME req'[o].kind = "delete"
             PROVE  /\ ~req'[o].reshaped =>
                         /\ req'[o].listed \subseteq {req'[o].doc} \cup Below(Up', req'[o].doc)
                         /\ \A d \in {req'[o].doc} \cup Below(Up', req'[o].doc) :
                              doc'[d].status = "live" => d \in req'[o].listed
                    /\ req'[o].pc = "commit" => req'[o].listed \cap attached' = {}
  OBVIOUS
<1>4. req'[o].pc = req[o].pc /\ req'[o].pc \in {"resolve", "commit"}
  BY <1>1, <1>3 DEF Edits
<1> QED BY <1>1, <1>2, <1>4, ListingKept

LEMMA AttachOfRelease ==
  ASSUME TypeInv, TypeInv', AttachInv, NEW q \in Request, Release(q)
  PROVE  AttachInv'
<1>1. /\ req[q] \in EditReq /\ Edits(q) /\ req[q].kind = "delete" /\ req[q].pc = "resolve"
      /\ UNCHANGED doc /\ attached' = attached \ Released(req[q])
  BY Kinds DEF Release, Edits
<1>2. Up' = Up /\ \A d \in Doc : doc'[d].status = "live" => Live(d)
  BY <1>1 DEF Up, Live
<1>3. \A d \in Doc : Covered(d) => Covered(d)'
  BY <1>1, CoveredKept DEF DeletesIt, Steps
<1>4. CASE Live(req[q].doc)
  <2>1. req'[q] = [req[q] EXCEPT !.pc = "commit", !.listed = Released(req[q])] /\ parted' = parted
    BY <1>4 DEF Release, TypeInv
  <2>2. /\ req'[q].pc = "commit" /\ req'[q].listed = Released(req[q]) /\ req'[q].kind = "delete"
        /\ req'[q].doc = req[q].doc /\ req'[q].reshaped = req[q].reshaped
    BY <1>1, <2>1 DEF EditReq
  <2>3. ASSUME NEW d \in Doc, d \notin parted'
        PROVE  /\ doc'[d].status = "deleted" => d \notin attached'
               /\ doc'[d].status = "live" /\ d \notin attached' => Covered(d)'
    <3>1. Attachments(d)
      BY AttachInvSplit
    <3>2. d \in Released(req[q]) => Covered(d)'
      BY <2>2 DEF Covered, DeletesIt
    <3> QED BY <1>1, <1>3, <2>1, <2>3, <3>1, <3>2 DEF Attachments, Live
  <2>4. ASSUME NEW o \in Request, req'[o].pc \in {"resolve", "commit"}, req'[o].kind = "delete"
        PROVE  /\ ~req'[o].reshaped =>
                    /\ req'[o].listed \subseteq {req'[o].doc} \cup Below(Up', req'[o].doc)
                    /\ \A d \in {req'[o].doc} \cup Below(Up', req'[o].doc) :
                         doc'[d].status = "live" => d \in req'[o].listed
               /\ req'[o].pc = "commit" => req'[o].listed \cap attached' = {}
    <3>1. CASE o # q
      BY <1>1, <1>2, <2>4, <3>1, ListingOfOthers DEF Edits, Steps
    <3>2. CASE o = q
      <4>1. Listing(Up, req[q]) /\ req[q].doc \in Doc
        BY <1>1, AttachInvSplit DEF EditReq
      <4>2. Below(Up, req[q].doc) \in SUBSET Doc
        BY BelowInside
      <4> QED BY <1>1, <1>2, <2>2, <3>2, <4>1, <4>2 DEF Listing, Released
    <3> QED BY <3>1, <3>2
  <2> QED BY <2>3, <2>4, AttachNext
<1>5. CASE ~Live(req[q].doc)
  <2>1. req'[q] = Idle /\ parted' = parted \cup Released(req[q])
    BY <1>5, DoneTypes DEF Release
  <2>2. ASSUME NEW d \in Doc, d \notin parted'
        PROVE  /\ doc'[d].status = "deleted" => d \notin attached'
               /\ doc'[d].status = "live" /\ d \notin attached' => Covered(d)'
    BY <1>1, <1>3, <2>1, <2>2, AttachInvSplit DEF Attachments, Live
  <2>3. ASSUME NEW o \in Request, req'[o].pc \in {"resolve", "commit"}, req'[o].kind = "delete"
        PROVE  /\ ~req'[o].reshaped =>
                    /\ req'[o].listed \subseteq {req'[o].doc} \cup Below(Up', req'[o].doc)
                    /\ \A d \in {req'[o].doc} \cup Below(Up', req'[o].doc) :
                         doc'[d].status = "live" => d \in req'[o].listed
               /\ req'[o].pc = "commit" => req'[o].listed \cap attached' = {}
    <3>1. o # q
      BY <2>1, <2>3, IdleReq
    <3> QED BY <1>1, <1>2, <2>3, <3>1, ListingOfOthers DEF Edits, Steps
  <2> QED BY <2>2, <2>3, AttachNext
<1> QED BY <1>4, <1>5

LEMMA AttachOfDelete ==
  ASSUME TypeInv, TypeInv', AttachInv, NEW q \in Request, CommitDelete(q), ~Endless(req[q].doc)
  PROVE  AttachInv'
<1>1. PICK gone \in SUBSET Doc : gone = Gone(q)
  BY DeleteWrites DEF Gone, Descendants
<1> DEFINE live == {d \in gone : Live(d)}
<1>2. /\ req[q] \in EditReq /\ req[q].doc \in Doc
      /\ req[q].pc = "commit" /\ req[q].kind = "delete" /\ ~Release(q)
  BY DeleteWrites DEF CommitDelete, Release
<1>3. /\ \A d \in Doc : doc'[d].status = IF d \in live THEN "deleted" ELSE doc[d].status
      /\ Up' = Up
  BY <1>1, DeleteWrites
<1>4. /\ attached' = attached
      /\ parted' = IF req[q].reshaped THEN parted \cup Differ(req[q].listed, live) ELSE parted
  BY <1>1 DEF CommitDelete, Gone
<1>5. /\ req[q].listed \cap attached = {}
      /\ ~req[q].reshaped => req[q].listed \subseteq gone /\ live \subseteq req[q].listed
  <2>1. Listing(Up, req[q])
    BY AttachInvSplit
  <2>2. gone = {req[q].doc} \cup Below(Up, req[q].doc)
    BY <1>1, <1>2, DescendantsBelow DEF Gone
  <2> QED BY <1>2, <2>1, <2>2 DEF Listing
<1>6. \A d \in live : Live(d)
  OBVIOUS
<1>7. \A d \in gone : Live(d) => d \in live
  OBVIOUS
<1> HIDE DEF live
<1>8. ASSUME NEW d \in Doc, d \notin parted'
      PROVE  /\ doc'[d].status = "deleted" => d \notin attached'
             /\ doc'[d].status = "live" /\ d \notin attached' => Covered(d)'
  <2>1. Attachments(d) /\ d \notin parted
    BY <1>4, <1>8, AttachInvSplit
  <2>2. CASE d \in live
    <3>1. d \in req[q].listed
      BY <1>4, <1>5, <1>8, <2>2 DEF Differ
    <3> QED BY <1>3, <1>4, <1>5, <2>2, <3>1
  <2>3. CASE d \notin live
    <3>1. Live(d) => ~DeletesIt(req[q], d)
      BY <1>4, <1>5, <1>7, <1>8, <2>3 DEF Differ, DeletesIt
    <3>2. Live(d) /\ Covered(d) => Covered(d)'
      BY <3>1, CoveredKept DEF Steps
    <3> QED BY <1>3, <1>4, <2>1, <2>3, <3>2 DEF Attachments, Live
  <2> QED BY <2>2, <2>3
<1>9. \A d \in Doc : doc'[d].status = "live" => Live(d)
  BY <1>3 DEF Live
<1>10. ASSUME NEW o \in Request, req'[o].pc \in {"resolve", "commit"}, req'[o].kind = "delete"
       PROVE  /\ ~req'[o].reshaped =>
                   /\ req'[o].listed \subseteq {req'[o].doc} \cup Below(Up', req'[o].doc)
                   /\ \A d \in {req'[o].doc} \cup Below(Up', req'[o].doc) :
                        doc'[d].status = "live" => d \in req'[o].listed
              /\ req'[o].pc = "commit" => req'[o].listed \cap attached' = {}
  BY <1>2, <1>3, <1>4, <1>9, <1>10, ListingOfOthers DEF Edits, Steps
<1> QED BY <1>8, <1>10, AttachNext

\* The steps that leave documents and attachments alone; a delete that ends after
\* it released them is in parted.
LEMMA AttachElsewhere ==
  ASSUME TypeInv, TypeInv', AttachInv, NEW q \in Request, Steps(q), ~Release(q),
         UNCHANGED <<doc, attached>>, parted \subseteq parted',
         \A d \in Doc : DeletesIt(req[q], d) => d \in parted' \/ req' = req
  PROVE  AttachInv'
<1>1. ASSUME NEW d \in Doc, d \notin parted'
      PROVE  /\ doc'[d].status = "deleted" => d \notin attached'
             /\ doc'[d].status = "live" /\ d \notin attached' => Covered(d)'
  <2>1. Attachments(d) /\ d \notin parted
    BY <1>1, AttachInvSplit
  <2>2. Covered(d) => Covered(d)'
    <3>1. CASE DeletesIt(req[q], d)
      BY <1>1, <3>1 DEF Covered, DeletesIt
    <3>2. CASE ~DeletesIt(req[q], d)
      BY <3>2, CoveredKept
    <3> QED BY <3>1, <3>2
  <2> QED BY <2>1, <2>2 DEF Attachments, Live
<1>2. Up' = Up /\ \A d \in Doc : doc'[d].status = "live" => Live(d)
  BY DEF Up, Live
<1>3. ASSUME NEW o \in Request, req'[o].pc \in {"resolve", "commit"}, req'[o].kind = "delete"
      PROVE  /\ ~req'[o].reshaped =>
                  /\ req'[o].listed \subseteq {req'[o].doc} \cup Below(Up', req'[o].doc)
                  /\ \A d \in {req'[o].doc} \cup Below(Up', req'[o].doc) :
                       doc'[d].status = "live" => d \in req'[o].listed
             /\ req'[o].pc = "commit" => req'[o].listed \cap attached' = {}
  BY <1>2, <1>3, ListingOfOthers DEF Edits
<1> QED BY <1>1, <1>3, AttachNext

LEMMA AttachOfSteps ==
  ASSUME TypeInv, TypeInv', RowInv, AttachInv, NEW q \in Request, Steps(q)
  PROVE  AttachInv'
<1>1. CASE CommitCreate(q)
  BY <1>1, AttachOfCreate
<1>2. CASE CommitUpdate(q)
  BY <1>2, AttachOfUpdate
<1>3. CASE Release(q)
  BY <1>3, AttachOfRelease
<1>4. CASE CommitDelete(q) /\ ~Endless(req[q].doc)
  BY <1>4, AttachOfDelete
<1>5. CASE CommitDelete(q) /\ Endless(req[q].doc)
  <2>1. UNCHANGED <<doc, attached, parted, req>> /\ ~Release(q)
    BY <1>5 DEF CommitDelete, Release
  <2> QED BY <2>1, AttachElsewhere
<1>6. CASE Abandon(q)
  <2>1. UNCHANGED <<doc, attached>>
    BY <1>6 DEF Abandon, data
  <2>2. parted' = parted \cup (IF req[q].kind = "delete" /\ req[q].pc = "commit" THEN req[q].listed ELSE {})
    BY <1>6 DEF Abandon
  <2>3. CASE Release(q)
    BY <2>3, AttachOfRelease
  <2>4. CASE ~Release(q)
    BY <2>1, <2>2, <2>4, AttachElsewhere DEF DeletesIt
  <2> QED BY <2>3, <2>4
<1>7. CASE Resolve(q) \/ ClearShare(q) \/ AllowShare(q) \/ InsertShare(q)
             \/ DropMembers(q) \/ DropTuples(q) \/ DropRow(q)
  <2>1. UNCHANGED <<doc, attached, parted>>
    BY <1>7 DEF Resolve, ClearShare, AllowShare, InsertShare, DropMembers, DropTuples, DropRow, data, ghost
  <2>2. ~Release(q) /\ \A d \in Doc : ~DeletesIt(req[q], d)
    BY <1>7 DEF Resolve, ClearShare, AllowShare, InsertShare, DropMembers, DropTuples, DropRow,
                Release, DeletesIt
  <2> QED BY <2>1, <2>2, AttachElsewhere
<1> QED BY <1>1, <1>2, <1>3, <1>4, <1>5, <1>6, <1>7 DEF Steps

\* A new delete lists what is below its document.
LEMMA AttachAsked ==
  ASSUME TypeInv, TypeInv', AttachInv, NEW q \in Request, NEW r \in Reqs, Asked(q, r)
  PROVE  AttachInv'
<1>1. /\ ~Running(q) /\ req' = [req EXCEPT ![q] = r]
      /\ UNCHANGED <<doc, attached, parted>>
  BY DEF Asked, CreateAsked, MoveAsked, DeleteAsked, ShareAsked, DissolveAsked, Starting, Others, ghost
<1>2. req'[q] = r /\ \A o \in Request \ {q} : req'[o] = req[o]
  BY <1>1 DEF TypeInv
<1>3. Up' = Up
  BY <1>1 DEF Up
<1>4. r.pc \in {"resolve", "commit"} /\ r.kind = "delete" =>
        r.pc = "resolve" /\ r.listed = {r.doc} \cup Below(Up, r.doc)
  <2>1. CASE CreateAsked(q, r) \/ MoveAsked(q, r)
    BY <2>1 DEF CreateAsked, MoveAsked, Edit
  <2>2. CASE DeleteAsked(q, r)
    <3>1. PICK u \in User, d \in Doc :
            r = [Edit("delete", u, d, None, "resolve") EXCEPT !.listed = {d} \cup Descendants(d)]
      BY <2>2 DEF DeleteAsked
    <3>2. r.pc = "resolve" /\ r.doc = d /\ r.listed = {d} \cup Descendants(d)
      BY <3>1 DEF Edit
    <3> QED BY <3>2, DescendantsBelow
  <2>3. CASE ShareAsked(q, r)
    BY <2>3 DEF ShareAsked, Sharing
  <2>4. CASE DissolveAsked(q, r)
    BY <2>4 DEF DissolveAsked
  <2> QED BY <2>1, <2>2, <2>3, <2>4 DEF Asked
<1>5. ASSUME NEW d \in Doc, d \notin parted'
      PROVE  /\ doc'[d].status = "deleted" => d \notin attached'
             /\ doc'[d].status = "live" /\ d \notin attached' => Covered(d)'
  <2>1. Attachments(d) /\ d \notin parted
    BY <1>1, <1>5, AttachInvSplit
  <2>2. Covered(d) => Covered(d)'
    BY <1>1, <1>2 DEF Covered, DeletesIt, Running
  <2> QED BY <1>1, <2>1, <2>2 DEF Attachments, Live
<1>6. ASSUME NEW o \in Request, req'[o].pc \in {"resolve", "commit"}, req'[o].kind = "delete"
      PROVE  /\ ~req'[o].reshaped =>
                  /\ req'[o].listed \subseteq {req'[o].doc} \cup Below(Up', req'[o].doc)
                  /\ \A d \in {req'[o].doc} \cup Below(Up', req'[o].doc) :
                       doc'[d].status = "live" => d \in req'[o].listed
             /\ req'[o].pc = "commit" => req'[o].listed \cap attached' = {}
  <2>1. CASE o = q
    BY <1>2, <1>3, <1>4, <1>6, <2>1
  <2>2. CASE o # q
    <3>1. req'[o] = req[o] /\ Listing(Up, req[o])
      BY <1>2, <2>2, AttachInvSplit
    <3> QED BY <1>1, <1>3, <1>6, <3>1 DEF Listing, Live
  <2> QED BY <2>1, <2>2
<1> QED BY <1>5, <1>6, AttachNext

LEMMA NextAttach ==
  ASSUME TypeInv, RowInv, AttachInv, [Next]_vars
  PROVE  AttachInv'
<1>1. TypeInv'
  BY NextTypes
<1>2. ASSUME UNCHANGED <<doc, attached, parted, req>> PROVE AttachInv'
  BY <1>2 DEF AttachInv, AttachmentsFollow, Descendants, Children, Edits, Live
<1>3. CASE UNCHANGED vars \/ Aside
  <2>1. UNCHANGED <<doc, attached, parted, req>>
    BY <1>3 DEF vars, data, ghost, Aside, Hang, Unshare, Join, Leave
  <2> QED BY <1>2, <2>1
<1>4. ASSUME NEW q \in Request, Asks(q) \/ \E x \in Group : AskDissolve(q, x) PROVE AttachInv'
  BY <1>1, <1>4, Asking, AttachAsked
<1>5. ASSUME NEW q \in Request, Steps(q) PROVE AttachInv'
  BY <1>1, <1>5, AttachOfSteps
<1> QED BY <1>3, <1>4, <1>5 DEF Next, Aside

-----------------------------------------------------------------------------
(* Theorems *)

DocumentsInv ==
  /\ TypeInv /\ RowInv /\ CrossInv /\ LiveInv
  /\ TupleInv /\ SubjectInv /\ RevokedInv /\ AttachInv

LEMMA AlwaysDocumentsInv == Spec => []DocumentsInv
<1>1. Init => DocumentsInv
  BY InitTypes, InitRows, InitTree, InitTuples, InitAttach DEF DocumentsInv
<1>2. DocumentsInv /\ [Next]_vars => DocumentsInv'
  BY NextTypes, NextRows, NextTree, NextTuples, NextAttach DEF DocumentsInv
<1> QED BY <1>1, <1>2, PTL DEF Spec

\* Documents, tuples, members and requests in flight stay in their types.
THEOREM DocumentTypes == Spec => []TypeInv
<1>1. DocumentsInv => TypeInv
  BY DEF DocumentsInv
<1> QED BY <1>1, AlwaysDocumentsInv, PTL

\* The tree is a forest of live documents under live ones, and no query of a subtree
\* runs without end: for any number of documents and of requests that overlap, but
\* for a move that commits on a check another move made stale, and for a parent that
\* is deleted between its lookup and the transaction.
THEOREM TreeStaysSound == Spec => []TreeSound
<1>1. DocumentsInv => TreeSound
  <2> SUFFICES ASSUME DocumentsInv PROVE TreeSound
    OBVIOUS
  <2>1. ASSUME ~crossed, NEW d \in Doc PROVE d \notin Descendants(d)
    BY <2>1, NeverEndless DEF DocumentsInv, Endless
  <2> QED BY <2>1 DEF TreeSound, DocumentsInv, CrossInv, LiveInv
<1> QED BY <1>1, AlwaysDocumentsInv, PTL

\* A live document has its creator for owner and exactly the edge of its parent column,
\* or none of the one or the other from when the share route revokes it (to the next
\* move, for the edge); a deleted one has no owner and no tuple but what a request in
\* flight wrote; and a grantee holds one role: whatever creates, moves, deletes, shares,
\* revocations and ends of groups overlap.
THEOREM TuplesFollowRows == Spec => []TuplesFollow
<1>1. DocumentsInv => TuplesFollow
  BY DEF DocumentsInv, TupleInv
<1> QED BY <1>1, AlwaysDocumentsInv, PTL

\* A delete releases the attachments of exactly the documents it deletes, at any
\* depth of the subtree, unless it fails in between or the tree changes meanwhile.
THEOREM AttachmentsFollowDeletes == Spec => []AttachmentsFollow
<1>1. DocumentsInv => AttachmentsFollow
  BY DEF DocumentsInv, AttachInv
<1> QED BY <1>1, AlwaysDocumentsInv, PTL
=============================================================================
