------------------------------ MODULE QuotaProof ------------------------------
(***************************************************************************)
(* Proof that a refusal of the creation quota reaches its row, that no     *)
(* window lets through more than its cap and what memory forgot of it, and *)
(* that a restart loses a bounded number of increments, for any finite     *)
(* number of requests, any caps and any window lengths.                    *)
(***************************************************************************)
EXTENDS QuotaProps, FiniteSetTheorems, TLAPS

\* A request that holds an entry holds one that is cached, and one past the
\* counting has its totals.
HoldsCached ==
  \A h \in Handler :
    /\ \A w \in req[h].holds : cache[w] # None
    /\ req[h].pc \in {"writing", "written", "answering"} => \A w \in Window : req[h].counts[w] # None

\* The upserts in flight are ordered by their turns.
TurnsApart ==
  \A h \in Handler : req[h].pc = "writing" =>
    /\ req[h].turn < arrivals
    /\ \A g \in Handler : req[g].pc = "writing" /\ req[g].turn = req[h].turn => g = h

\* The inductive invariant.
QuotaInv == TypeOK /\ HoldsCached /\ TurnsApart /\ RefusalDurable

Request == [pc : {"idle", "reading", "writing", "written", "answering"},
            now : Nat, cold : SUBSET Window, read : [Window -> Checkpoint \cup {None}],
            dirty : SUBSET Window, holds : SUBSET Window,
            counts : [Window -> Checkpoint \cup {None}], turn : Nat]

----------------------------------------------------------------------------
(* Counting *)

LEMMA IdleIsRequest == Idle \in Request
BY DEF Idle, Request

LEMMA WithoutType ==
  ASSUME NEW rs \in [Handler -> Request], NEW gone \in SUBSET Window
  PROVE  Without(rs, gone) \in [Handler -> Request]
<1>1. \A h \in Handler : [rs[h] EXCEPT !.holds = @ \ gone] \in Request
  BY DEF Request
<1> QED BY <1>1 DEF Without

\* A request that goes on to its next await changes nothing else.
LEMMA PcEffect ==
  ASSUME NEW rs \in [Handler -> Request], NEW h \in Handler,
         NEW p \in {"idle", "reading", "writing", "written", "answering"}
  PROVE  /\ [rs EXCEPT ![h].pc = p] \in [Handler -> Request]
         /\ [rs EXCEPT ![h].pc = p][h] = [rs[h] EXCEPT !.pc = p]
<1>1. [rs[h] EXCEPT !.pc = p] \in Request
  <2>1. rs[h] \in Request
    OBVIOUS
  <2> QED BY <2>1 DEF Request
<1> QED BY <1>1

\* Forgetting what is held changes nothing else of a request.
LEMMA WithoutEffect ==
  ASSUME NEW rs \in [Handler -> Request], NEW gone \in SUBSET Window, NEW h \in Handler
  PROVE  /\ Without(rs, gone) \in [Handler -> Request]
         /\ Without(rs, gone)[h].pc = rs[h].pc
         /\ Without(rs, gone)[h].dirty = rs[h].dirty
         /\ Without(rs, gone)[h].counts = rs[h].counts
         /\ Without(rs, gone)[h].turn = rs[h].turn
         /\ Without(rs, gone)[h].now = rs[h].now
         /\ Without(rs, gone)[h].cold = rs[h].cold
         /\ Without(rs, gone)[h].read = rs[h].read
         /\ Without(rs, gone)[h].holds = rs[h].holds \ gone
BY DEF Without, Request

\* The entry a request counts in is an entry that has it counted; if it was not
\* just begun or adopted, it is the cached one.
LEMMA CountedEffect ==
  ASSUME TypeOK, NEW r \in Request, NEW w \in Window
  PROVE  /\ Counted(r, w) \in Entry
         /\ Counted(r, w).persisted < Counted(r, w).count
         /\ \/ Counted(r, w).persisted = 0
            \/ /\ Adopts(r, w)
               /\ Counted(r, w).persisted = r.read[w].count
            \/ /\ w \notin Replaced(r)
               /\ cache[w] # None
               /\ Counted(r, w).persisted = cache[w].persisted
               /\ Counted(r, w).count = cache[w].count + 1
<1>1. cache[w] \in Entry \cup {None} /\ r.read[w] \in Checkpoint \cup {None} /\ r.now \in Nat
  BY DEF TypeOK, Request
<1>2. Length[w] \in Nat
  BY Parameters
<1>3. cache[w] # None => cache[w].persisted <= cache[w].count
  BY DEF TypeOK
<1>4. CASE Adopts(r, w)
  <2>1. r.read[w] \in Checkpoint /\ r.read[w].resetAt > r.now /\ r.read[w] # None
    BY <1>1, <1>4 DEF Adopts, LiveAt
  <2>2. Adopted(r, w) = [count |-> r.read[w].count, resetAt |-> r.read[w].resetAt, persisted |-> r.read[w].count]
    BY <1>4 DEF Adopted
  <2>3. Adopted(r, w) \in Entry
    BY <2>1, <2>2 DEF Entry, Checkpoint
  <2>4. Adopted(r, w) # None
    BY <2>3, Parameters DEF Entry
  <2>5. Current(r, w) = Adopted(r, w)
    BY <2>1, <2>2, <2>4 DEF Current, LiveAt
  <2>6. Counted(r, w) = [Adopted(r, w) EXCEPT !.count = @ + 1]
    BY <2>5 DEF Counted
  <2> QED BY <1>4, <2>1, <2>2, <2>3, <2>6 DEF Entry, Checkpoint
<1>5. CASE ~Adopts(r, w) /\ LiveAt(cache[w], r.now)
  <2>1. Adopted(r, w) = cache[w] /\ Current(r, w) = cache[w]
    BY <1>5 DEF Adopted, Current
  <2>2. Counted(r, w) = [cache[w] EXCEPT !.count = @ + 1]
    BY <2>1 DEF Counted
  <2>3. cache[w] \in Entry /\ cache[w] # None
    BY <1>1, <1>5 DEF LiveAt
  <2> QED BY <1>3, <1>5, <2>2, <2>3 DEF Entry, Replaced
<1>6. CASE ~Adopts(r, w) /\ ~LiveAt(cache[w], r.now)
  <2>1. Counted(r, w) = [count |-> 1, resetAt |-> r.now + Length[w], persisted |-> 0]
    BY <1>6 DEF Adopted, Current, Counted
  <2> QED BY <1>1, <1>2, <2>1 DEF Entry
<1> QED BY <1>4, <1>5, <1>6

----------------------------------------------------------------------------
(* What happens to the checkpoints *)

\* The upserts in flight and the rows alone decide what the row will hold.
LEMMA SameCheckpoints ==
  ASSUME NEW w \in Window, RowWillRefuse(w),
         row'[w] = row[w],
         \A h \in Handler :
           /\ (req'[h].pc = "writing" /\ w \in req'[h].dirty) <=> (req[h].pc = "writing" /\ w \in req[h].dirty)
           /\ req[h].pc = "writing" /\ w \in req[h].dirty
                => req'[h].turn = req[h].turn /\ req'[h].counts = req[h].counts
  PROVE  RowWillRefuse(w)'
<1>1. Pending(w)' = Pending(w)
  BY DEF Pending
<1>2. CASE Pending(w) = {}
  BY <1>1, <1>2 DEF RowWillRefuse
<1>3. CASE Pending(w) # {}
  <2>1. PICK h \in Pending(w) :
          /\ \A g \in Pending(w) : req[g].turn <= req[h].turn
          /\ req[h].counts[w].count > Max[w]
    BY <1>3 DEF RowWillRefuse
  <2>2. \A g \in Pending(w) : req'[g].turn = req[g].turn /\ req'[g].counts = req[g].counts
    BY DEF Pending
  <2>3. /\ \A g \in Pending(w)' : req'[g].turn <= req'[h].turn
        /\ req'[h].counts[w].count > Max[w]
    BY <1>1, <2>1, <2>2
  <2> QED BY <1>1, <2>1, <2>3 DEF RowWillRefuse
<1> QED BY <1>2, <1>3

\* The entry of a window is as it was, or gone, and no refusal is newly owed.
LEMMA RefusalKept ==
  ASSUME RefusalDurable, NEW w \in Window,
         \/ cache'[w] = None
         \/ cache[w] # None /\ cache'[w].count = cache[w].count /\ (w \in spoilt => w \in spoilt'),
         RowWillRefuse(w) => RowWillRefuse(w)'
  PROVE  (cache'[w] # None /\ cache'[w].count > Max[w] /\ w \notin spoilt') => RowWillRefuse(w)'
BY DEF RefusalDurable

----------------------------------------------------------------------------
(* Every action preserves the invariant *)

LEMMA InitInv == Init => QuotaInv
<1> SUFFICES ASSUME Init PROVE QuotaInv
  OBVIOUS
<1>1. TypeOK
  BY IdleIsRequest DEF Init, TypeOK, Request
<1>2. HoldsCached /\ TurnsApart /\ RefusalDurable
  BY DEF Init, Idle, HoldsCached, TurnsApart, RefusalDurable
<1> QED BY <1>1, <1>2 DEF QuotaInv

\* Counting: the crossing of the cap issues the latest upsert; an entry already
\* past it owes its refusal to what it was before, or to the row it adopts.
LEMMA CountInv ==
  ASSUME QuotaInv, NEW h \in Handler, NEW r \in Request,
         req[h].pc \in {"idle", "reading"}, CountAs(h, r)
  PROVE  QuotaInv'
<1> DEFINE after == [w \in Window |-> Counted(r, w)]
           dirty == {w \in Window : Dirty(w, after[w])}
           done  == [r EXCEPT !.pc = IF dirty = {} THEN "answering" ELSE "writing",
                              !.dirty = dirty, !.holds = dirty, !.turn = arrivals,
                              !.counts = [w \in Window |->
                                            [count |-> after[w].count, resetAt |-> after[w].resetAt]]]
           kept  == Without(req, Replaced(r))
<1>1. TypeOK /\ HoldsCached /\ TurnsApart /\ RefusalDurable
  BY DEF QuotaInv
<1>2. req \in [Handler -> Request] /\ arrivals \in Nat
  BY <1>1 DEF TypeOK, Request
<1>3. /\ cache' = after
      /\ req' = [kept EXCEPT ![h] = done]
      /\ book' = [w \in Window |->
                    CASE book[w].resetAt = after[w].resetAt -> [book[w] EXCEPT !.requests = @ + 1]
                      [] book[w].resetAt < after[w].resetAt ->
                           [resetAt |-> after[w].resetAt, requests |-> 1, through |-> 0]
                      [] OTHER -> book[w]]
      /\ spoilt' = (spoilt \ Replaced(r)) \cup {w \in Window : AdoptsStale(r, w)}
      /\ arrivals' = arrivals + 1
      /\ now' = now /\ row' = row /\ faults' = faults
  BY DEF CountAs
<1>4. \A w \in Window : after[w] = Counted(r, w) /\ after[w] \in Entry /\ after[w].persisted < after[w].count
  BY <1>1, CountedEffect
<1>5. after \in [Window -> Entry]
  BY <1>4
<1>6. dirty \in SUBSET Window /\ \A w \in Window : w \in dirty <=> Dirty(w, after[w])
  OBVIOUS
<1>7. /\ done \in Request
      /\ done.pc = IF dirty = {} THEN "answering" ELSE "writing"
      /\ done.dirty = dirty /\ done.holds = dirty /\ done.turn = arrivals
      /\ \A w \in Window : done.counts[w] \in Checkpoint /\ done.counts[w].count = after[w].count
  <2> HIDE DEF dirty
  <2> DEFINE totals == [w \in Window |-> [count |-> after[w].count, resetAt |-> after[w].resetAt]]
  <2>1. totals \in [Window -> Checkpoint] /\ \A w \in Window : totals[w].count = after[w].count
    <3> HIDE DEF after
    <3> QED BY <1>5 DEF Entry, Checkpoint
  <2> HIDE DEF totals
  <2>2. done = [r EXCEPT !.pc = IF dirty = {} THEN "answering" ELSE "writing",
                         !.dirty = dirty, !.holds = dirty, !.turn = arrivals, !.counts = totals]
    BY DEF totals
  <2>3. dirty \in SUBSET Window /\ arrivals \in Nat /\ totals \in [Window -> Checkpoint \cup {None}]
    BY <1>2, <1>6, <2>1
  <2>4. done \in Request
    <3>1. PICK p \in {"answering", "writing"} : p = IF dirty = {} THEN "answering" ELSE "writing"
      OBVIOUS
    <3>2. done = [r EXCEPT !.pc = p, !.dirty = dirty, !.holds = dirty, !.turn = arrivals, !.counts = totals]
      BY <2>2, <3>1
    <3>3. PICK q \in Request : q = [r EXCEPT !.pc = p, !.dirty = dirty, !.holds = dirty]
      <4>1. [r EXCEPT !.pc = p, !.dirty = dirty, !.holds = dirty] \in Request
        BY <2>3 DEF Request
      <4> QED BY <4>1
    <3>4. done = [q EXCEPT !.turn = arrivals, !.counts = totals]
      BY <3>2, <3>3 DEF Request
    <3> HIDE DEF done
    <3>5. [q EXCEPT !.turn = arrivals, !.counts = totals] \in Request
      BY <2>3 DEF Request
    <3> QED BY <3>4, <3>5
  <2>5. /\ done.pc = IF dirty = {} THEN "answering" ELSE "writing"
        /\ done.dirty = dirty /\ done.holds = dirty /\ done.turn = arrivals /\ done.counts = totals
    BY <2>2 DEF Request
  <2> HIDE DEF done
  <2> QED BY <2>1, <2>4, <2>5
<1>8. \A w \in Window : cache'[w] # None
  BY <1>3, <1>4, Parameters DEF Entry
<1> HIDE DEF done, dirty, after
<1>9. kept \in [Handler -> Request] /\ \A g \in Handler : 
        /\ kept[g].pc = req[g].pc /\ kept[g].dirty = req[g].dirty
        /\ kept[g].counts = req[g].counts /\ kept[g].turn = req[g].turn
        /\ kept[g].holds = req[g].holds \ Replaced(r)
  BY <1>2, WithoutEffect DEF Replaced
<1> HIDE DEF kept
<1>10. req' \in [Handler -> Request] /\ req'[h] = done /\ \A g \in Handler \ {h} : req'[g] = kept[g]
  BY <1>3, <1>7, <1>9
<1>11. TypeOK'
  <2>1. book' \in [Window -> [resetAt : Nat, requests : Nat, through : Nat]]
    <3>1. ASSUME NEW w \in Window PROVE book'[w] \in [resetAt : Nat, requests : Nat, through : Nat]
      <4>1. book[w] \in [resetAt : Nat, requests : Nat, through : Nat] /\ after[w].resetAt \in Nat
        BY <1>1, <1>5 DEF TypeOK, Entry
      <4>2. CASE book[w].resetAt = after[w].resetAt
        BY <1>3, <4>1, <4>2
      <4>3. CASE book[w].resetAt < after[w].resetAt
        <5>1. ~(book[w].resetAt = after[w].resetAt)
          BY <4>1, <4>3
        <5> QED BY <1>3, <4>1, <4>3, <5>1
      <4>4. CASE ~(book[w].resetAt = after[w].resetAt) /\ ~(book[w].resetAt < after[w].resetAt)
        BY <1>3, <4>1, <4>4
      <4> QED BY <4>2, <4>3, <4>4
    <3> QED BY <1>3, <3>1
  <2>2. \A w \in Window : cache'[w] # None => cache'[w].persisted <= cache'[w].count
    BY <1>3, <1>4 DEF Entry
  <2>3. now' \in Nat /\ row' \in [Window -> Checkpoint \cup {None}] /\ faults' \in Nat
    BY <1>1, <1>3 DEF TypeOK
  <2>4. cache' \in [Window -> Entry \cup {None}] /\ arrivals' \in Nat
    BY <1>2, <1>3, <1>5
  <2>5. spoilt' \in SUBSET Window
    BY <1>1, <1>3 DEF TypeOK
  <2> QED BY <1>10, <2>1, <2>2, <2>3, <2>4, <2>5 DEF TypeOK, Request
<1>12. HoldsCached'
  <2>1. ASSUME NEW g \in Handler
        PROVE  req'[g].pc \in {"writing", "written", "answering"} => \A w \in Window : req'[g].counts[w] # None
    <3>1. CASE g = h
      BY <1>7, <1>10, <3>1, Parameters DEF Checkpoint
    <3>2. CASE g # h
      BY <1>1, <1>9, <1>10, <3>2 DEF HoldsCached
    <3> QED BY <3>1, <3>2
  <2>2. ASSUME NEW g \in Handler PROVE req'[g].holds \in SUBSET Window
    BY <1>10 DEF Request
  <2> QED BY <1>8, <2>1, <2>2 DEF HoldsCached
<1>13. TurnsApart'
  <2>1. \A g \in Handler \ {h} : req[g].pc = "writing" => req[g].turn < arrivals /\ req[g].turn \in Nat
    BY <1>1, <1>2 DEF TurnsApart, Request
  <2> QED BY <1>1, <1>2, <1>3, <1>7, <1>9, <1>10, <2>1 DEF TurnsApart
<1>14. RefusalDurable'
  <2> SUFFICES ASSUME NEW w \in Window, cache'[w].count > Max[w], w \notin spoilt'
               PROVE  RowWillRefuse(w)'
    BY DEF RefusalDurable
  <2>1. CASE w \in dirty
    <3>1. done.pc = "writing" /\ h \in Pending(w)'
      BY <1>7, <1>10, <2>1 DEF Pending
    <3>2. ASSUME NEW g \in Pending(w)' PROVE req'[g].turn <= req'[h].turn
      <4>1. g \in Handler /\ req'[g].pc = "writing"
        BY DEF Pending
      <4>2. CASE g = h
        BY <1>2, <1>7, <1>10, <4>2
      <4>3. CASE g # h
        <5>1. req[g].pc = "writing" /\ req'[g].turn = req[g].turn /\ req[g].turn \in Nat
          BY <1>2, <1>9, <1>10, <4>1, <4>3 DEF Request
        <5> QED BY <1>1, <1>2, <1>7, <1>10, <4>1, <5>1 DEF TurnsApart
      <4> QED BY <4>2, <4>3
    <3>3. req'[h].counts[w].count > Max[w]
      BY <1>3, <1>7, <1>10
    <3> QED BY <3>1, <3>2, <3>3 DEF RowWillRefuse
  <2>2. CASE w \notin dirty
    <3>1. after[w].persisted > Max[w] /\ after[w].count > Max[w]
      <4>1. Max[w] \in Nat /\ after[w] \in Entry /\ after[w].count > Max[w]
        BY <1>3, <1>4, Parameters
      <4>2. ~(after[w].persisted <= Max[w])
        BY <1>6, <2>2, <4>1 DEF Dirty
      <4> QED BY <4>1, <4>2 DEF Entry
    <3>2. CASE after[w].persisted = 0
      BY <3>1, <3>2, Parameters
    <3>3. CASE Adopts(r, w) /\ after[w].persisted = r.read[w].count
      <4>1. Pending(w) = {} /\ row[w] = r.read[w]
        BY <1>3, <3>3 DEF AdoptsStale
      <4>2. row[w] # None /\ row[w].count > Max[w]
        BY <3>1, <3>3, <4>1 DEF Adopts, LiveAt
      <4>3. RowWillRefuse(w)
        BY <4>1, <4>2 DEF RowWillRefuse
      <4> QED BY <1>3, <1>7, <1>9, <1>10, <2>2, <4>3, SameCheckpoints
    <3>4. CASE /\ w \notin Replaced(r) /\ cache[w] # None
               /\ after[w].persisted = cache[w].persisted
      <4>1. cache[w] \in Entry /\ cache[w].persisted <= cache[w].count
        BY <1>1, <3>4 DEF TypeOK
      <4>2. cache[w].count > Max[w]
        BY <3>1, <3>4, <4>1, Parameters DEF Entry
      <4>3. w \notin spoilt
        BY <1>3, <3>4
      <4>4. RowWillRefuse(w)
        BY <1>1, <3>4, <4>2, <4>3 DEF RefusalDurable
      <4> QED BY <1>3, <1>7, <1>9, <1>10, <2>2, <4>4, SameCheckpoints
    <3> QED BY <1>1, <1>4, <3>2, <3>3, <3>4, CountedEffect
  <2> QED BY <2>1, <2>2
<1> QED BY <1>11, <1>12, <1>13, <1>14 DEF QuotaInv

\* A step that leaves the upserts, the rows and every other request alone, and
\* only drops entries or raises what they call persisted.
LEMMA QuietInv ==
  ASSUME QuotaInv, NEW gone \in SUBSET Window, NEW h \in Handler, NEW q \in Request,
         req' = [Without(req, gone) EXCEPT ![h] = q],
         q.pc # "writing", req[h].pc # "writing", q.holds \subseteq req[h].holds \ gone,
         q.pc \in {"written", "answering"} => \A w \in Window : q.counts[w] # None,
         cache' \in [Window -> Entry \cup {None}],
         \A w \in gone : cache'[w] = None,
         \A w \in Window \ gone :
           IF cache[w] = None THEN cache'[w] = None
           ELSE /\ cache'[w] # None
                /\ cache'[w].count = cache[w].count
                /\ cache'[w].persisted <= cache'[w].count,
         spoilt' = spoilt \ gone,
         now' = now, row' = row, arrivals' = arrivals, faults' \in Nat,
         book' \in [Window -> [resetAt : Nat, requests : Nat, through : Nat]]
  PROVE  QuotaInv'
<1> DEFINE kept == Without(req, gone)
<1>1. TypeOK /\ HoldsCached /\ TurnsApart /\ RefusalDurable
  BY DEF QuotaInv
<1>2. req \in [Handler -> Request]
  BY <1>1 DEF TypeOK, Request
<1>3. kept \in [Handler -> Request] /\ \A g \in Handler :
        /\ kept[g].pc = req[g].pc /\ kept[g].dirty = req[g].dirty
        /\ kept[g].counts = req[g].counts /\ kept[g].turn = req[g].turn
        /\ kept[g].holds = req[g].holds \ gone
  BY <1>2, WithoutEffect
<1> HIDE DEF kept
<1>4. req' \in [Handler -> Request] /\ req'[h] = q /\ \A g \in Handler \ {h} : req'[g] = kept[g]
  BY <1>3 DEF kept
<1>5. TypeOK'
  <2>1. \A w \in Window : cache'[w] # None => cache'[w].persisted <= cache'[w].count
    OBVIOUS
  <2>2. now' \in Nat /\ row' \in [Window -> Checkpoint \cup {None}] /\ arrivals' \in Nat /\ spoilt' \in SUBSET Window
    BY <1>1 DEF TypeOK
  <2> QED BY <1>4, <2>1, <2>2 DEF TypeOK, Request
<1>6. HoldsCached'
  <2>1. ASSUME NEW g \in Handler, NEW w \in req'[g].holds PROVE cache'[w] # None
    <3>1. w \in req[g].holds \ gone
      BY <1>3, <1>4, <2>1
    <3>2. w \in Window /\ cache[w] # None
      BY <1>1, <1>2, <3>1 DEF HoldsCached, Request
    <3> QED BY <3>1, <3>2
  <2>2. ASSUME NEW g \in Handler, req'[g].pc \in {"writing", "written", "answering"}, NEW w \in Window
        PROVE  req'[g].counts[w] # None
    <3>1. CASE g = h
      BY <1>4, <2>2, <3>1
    <3>2. CASE g # h
      BY <1>1, <1>3, <1>4, <2>2, <3>2 DEF HoldsCached
    <3> QED BY <3>1, <3>2
  <2> QED BY <2>1, <2>2 DEF HoldsCached
<1>7. TurnsApart'
  <2>1. \A g \in Handler : req'[g].pc = "writing" => req[g].pc = "writing" /\ req'[g].turn = req[g].turn
    BY <1>3, <1>4
  <2>2. arrivals' = arrivals
    OBVIOUS
  <2> QED BY <1>1, <2>1, <2>2 DEF TurnsApart
<1>8. RefusalDurable'
  <2>1. ASSUME NEW w \in Window
        PROVE  (cache'[w] # None /\ cache'[w].count > Max[w] /\ w \notin spoilt') => RowWillRefuse(w)'
    <3>1. RowWillRefuse(w) => RowWillRefuse(w)'
      BY <1>3, <1>4, SameCheckpoints
    <3> QED BY <1>1, <3>1, RefusalKept
  <2> QED BY <2>1 DEF RefusalDurable
<1> QED BY <1>5, <1>6, <1>7, <1>8 DEF QuotaInv

\* The upsert that runs is the oldest, so what the row will hold is unchanged.
LEMMA UpsertInv ==
  ASSUME QuotaInv, NEW h \in Handler, Upsert(h)
  PROVE  QuotaInv'
<1>1. TypeOK /\ HoldsCached /\ TurnsApart /\ RefusalDurable
  BY DEF QuotaInv
<1>2. req \in [Handler -> Request]
  BY <1>1 DEF TypeOK, Request
<1>3. /\ req[h].pc = "writing"
      /\ \A g \in Handler : req[g].pc = "writing" => req[h].turn <= req[g].turn
      /\ row' = [w \in Window |-> IF w \in req[h].dirty THEN req[h].counts[w] ELSE row[w]]
      /\ req' = [req EXCEPT ![h].pc = "written"]
      /\ now' = now /\ cache' = cache /\ arrivals' = arrivals /\ faults' = faults
      /\ book' = book /\ spoilt' = spoilt
  BY DEF Upsert
<1>4. /\ req' \in [Handler -> Request]
      /\ \A g \in Handler \ {h} : req'[g] = req[g]
      /\ req'[h].pc = "written" /\ req'[h].counts = req[h].counts /\ req'[h].holds = req[h].holds
  <2>1. req' \in [Handler -> Request] /\ req'[h] = [req[h] EXCEPT !.pc = "written"]
    BY <1>2, <1>3, PcEffect
  <2>2. req[h] \in Request
    BY <1>2
  <2>3. req'[h].pc = "written" /\ req'[h].counts = req[h].counts /\ req'[h].holds = req[h].holds
    BY <2>1, <2>2 DEF Request
  <2> QED BY <1>2, <1>3, <2>1, <2>3
<1>5. row' \in [Window -> Checkpoint \cup {None}] /\ req[h].counts \in [Window -> Checkpoint \cup {None}]
  BY <1>1, <1>2, <1>3 DEF TypeOK, Request
<1>6. TypeOK'
  BY <1>1, <1>3, <1>4, <1>5 DEF TypeOK, Request
<1>7. HoldsCached'
  BY <1>1, <1>3, <1>4 DEF HoldsCached
<1>8. TurnsApart'
  BY <1>1, <1>3, <1>4 DEF TurnsApart
<1>9. ASSUME NEW w \in Window, RowWillRefuse(w)
      PROVE  RowWillRefuse(w)'
  <2>1. Pending(w)' = Pending(w) \ {h}
    BY <1>3, <1>4 DEF Pending
  <2>2. CASE w \notin req[h].dirty
    <3>1. row'[w] = row[w] /\ Pending(w)' = Pending(w)
      BY <1>3, <2>1, <2>2 DEF Pending
    <3>2. \A g \in Pending(w) : req'[g] = req[g]
      BY <1>4, <2>2 DEF Pending
    <3> QED BY <1>9, <3>1, <3>2 DEF RowWillRefuse
  <2>3. CASE w \in req[h].dirty
    <3>1. h \in Pending(w)
      BY <1>3, <2>3 DEF Pending
    <3>2. PICK x \in Pending(w) :
            /\ \A g \in Pending(w) : req[g].turn <= req[x].turn
            /\ req[x].counts[w].count > Max[w]
      BY <1>9, <3>1 DEF RowWillRefuse
    <3>3. CASE x = h
      <4>1. ASSUME NEW g \in Pending(w) PROVE g = h
        <5>1. g \in Handler /\ req[g].pc = "writing" /\ req[g].turn \in Nat /\ req[h].turn \in Nat
          BY <1>2 DEF Pending, Request
        <5>2. req[h].turn <= req[g].turn /\ req[g].turn <= req[h].turn
          BY <1>3, <3>2, <3>3, <5>1
        <5>3. req[g].turn = req[h].turn
          BY <5>1, <5>2
        <5> QED BY <1>1, <1>3, <5>1, <5>3 DEF TurnsApart
      <4>2. Pending(w)' = {}
        BY <2>1, <4>1
      <4>3. row'[w] = req[h].counts[w] /\ row'[w] # None
        BY <1>1, <1>3, <2>3 DEF HoldsCached
      <4> QED BY <3>2, <3>3, <4>2, <4>3 DEF RowWillRefuse
    <3>4. CASE x # h
      <4>1. x \in Pending(w)'
        BY <2>1, <3>4
      <4>2. \A g \in Pending(w)' : req'[g] = req[g] /\ g \in Pending(w)
        BY <1>4, <2>1 DEF Pending
      <4> QED BY <3>2, <4>1, <4>2 DEF RowWillRefuse
    <3> QED BY <3>3, <3>4
  <2> QED BY <2>2, <2>3
<1>10. RefusalDurable'
  BY <1>1, <1>3, <1>9 DEF RefusalDurable
<1> QED BY <1>6, <1>7, <1>8, <1>10 DEF QuotaInv

LEMMA StartColdInv ==
  ASSUME QuotaInv, NEW h \in Handler, StartCold(h)
  PROVE  QuotaInv'
<1> DEFINE cold == {w \in Window : ~LiveAt(cache[w], now)}
           q == [Idle EXCEPT !.pc = "reading", !.now = now, !.cold = cold,
                             !.read = [w \in Window |-> IF w \in cold THEN row[w] ELSE None]]
<1>1. TypeOK
  BY DEF QuotaInv
<1>2. cold \in SUBSET Window /\ \A w \in Window \ cold : cache[w] # None
  BY DEF LiveAt
<1>3. /\ req[h].pc = "idle"
      /\ cache' = [w \in Window |-> IF w \in cold THEN None ELSE cache[w]]
      /\ req' = [Without(req, cold) EXCEPT ![h] = q]
      /\ spoilt' = spoilt \ cold
      /\ now' = now /\ row' = row /\ arrivals' = arrivals /\ faults' = faults /\ book' = book
  BY DEF StartCold
<1>4. q \in Request /\ q.pc = "reading" /\ q.holds = {}
  <2> DEFINE read == [w \in Window |-> IF w \in cold THEN row[w] ELSE None]
  <2>1. read \in [Window -> Checkpoint \cup {None}] /\ now \in Nat
    BY <1>1 DEF TypeOK
  <2> HIDE DEF read, cold
  <2>2. [Idle EXCEPT !.pc = "reading", !.now = now, !.cold = cold, !.read = read] \in Request
    BY <1>2, <2>1, IdleIsRequest DEF Request
  <2>3. q = [Idle EXCEPT !.pc = "reading", !.now = now, !.cold = cold, !.read = read]
    BY DEF read
  <2> QED BY <2>2, <2>3 DEF Idle
<1> HIDE DEF cold, q
<1>5. cache' \in [Window -> Entry \cup {None}] /\ \A w \in cold : cache'[w] = None
  BY <1>1, <1>2, <1>3 DEF TypeOK
<1>6. \A w \in Window \ cold :
        /\ cache'[w] # None /\ cache'[w].count = cache[w].count
        /\ cache'[w].persisted <= cache'[w].count
  BY <1>1, <1>2, <1>3 DEF TypeOK
<1>7. faults' \in Nat /\ book' \in [Window -> [resetAt : Nat, requests : Nat, through : Nat]]
  BY <1>1, <1>3 DEF TypeOK
<1> QED BY <1>2, <1>3, <1>4, <1>5, <1>6, <1>7, QuietInv

LEMMA SettleInv ==
  ASSUME QuotaInv, NEW h \in Handler, Settle(h)
  PROVE  QuotaInv'
<1> DEFINE expired == {w \in Window : ~LiveAt(cache[w], req[h].now)}
           settled == [w \in Window |-> IF w \in req[h].holds
                                          THEN [cache[w] EXCEPT !.persisted = cache[w].count]
                                          ELSE cache[w]]
           q == [Without(req, expired)[h] EXCEPT !.pc = "answering", !.holds = {}]
<1>1. TypeOK /\ HoldsCached
  BY DEF QuotaInv
<1>2. expired \in SUBSET Window /\ \A w \in Window \ expired : cache[w] # None
  BY DEF LiveAt
<1>3. /\ req[h].pc = "written"
      /\ cache' = [w \in Window |-> IF w \in expired THEN None ELSE settled[w]]
      /\ req' = [Without(req, expired) EXCEPT ![h].pc = "answering", ![h].holds = {}]
      /\ spoilt' = spoilt \ expired
      /\ now' = now /\ row' = row /\ arrivals' = arrivals /\ faults' = faults /\ book' = book
  BY DEF Settle
<1>4. \A w \in Window : cache[w] # None =>
        /\ settled[w] \in Entry /\ settled[w] # None
        /\ settled[w].count = cache[w].count /\ settled[w].persisted <= settled[w].count
  <2> TAKE w \in Window
  <2> HAVE cache[w] # None
  <2>1. cache[w] \in Entry /\ cache[w].persisted <= cache[w].count
    BY <1>1 DEF TypeOK
  <2>2. CASE w \in req[h].holds
    <3>1. settled[w] = [cache[w] EXCEPT !.persisted = cache[w].count]
      BY <2>2
    <3>2. settled[w] \in Entry /\ settled[w].count = cache[w].count /\ settled[w].persisted = cache[w].count
      BY <2>1, <3>1 DEF Entry
    <3> QED BY <2>1, <3>2, Parameters DEF Entry
  <2>3. CASE w \notin req[h].holds
    BY <2>1, <2>3
  <2> QED BY <2>2, <2>3
<1>5. req \in [Handler -> Request]
  BY <1>1 DEF TypeOK, Request
<1>6. /\ Without(req, expired) \in [Handler -> Request]
      /\ Without(req, expired)[h].counts = req[h].counts
  BY <1>2, <1>5, WithoutEffect
<1> HIDE DEF expired, settled
<1>7. /\ q \in Request /\ q.pc = "answering" /\ q.holds = {} /\ q.counts = req[h].counts
      /\ req' = [Without(req, expired) EXCEPT ![h] = q]
  BY <1>3, <1>6 DEF Request
<1> HIDE DEF q
<1>8. \A w \in Window : q.counts[w] # None
  BY <1>1, <1>3, <1>7 DEF HoldsCached
<1>9. cache' \in [Window -> Entry \cup {None}] /\ \A w \in expired : cache'[w] = None
  BY <1>2, <1>3, <1>4
<1>10. \A w \in Window \ expired :
        /\ cache'[w] # None /\ cache'[w].count = cache[w].count
        /\ cache'[w].persisted <= cache'[w].count
  BY <1>2, <1>3, <1>4
<1>11. faults' \in Nat /\ book' \in [Window -> [resetAt : Nat, requests : Nat, through : Nat]]
  BY <1>1, <1>3 DEF TypeOK
<1> QED BY <1>2, <1>3, <1>7, <1>8, <1>9, <1>10, <1>11, QuietInv

\* Without holds nothing back when nothing is gone.
LEMMA WithoutNothing ==
  ASSUME NEW rs \in [Handler -> Request]
  PROVE  Without(rs, {}) = rs
<1>1. ASSUME NEW h \in Handler PROVE [rs[h] EXCEPT !.holds = @ \ {}] = rs[h]
  <2>1. rs[h].holds \ {} = rs[h].holds
    OBVIOUS
  <2> QED BY <2>1 DEF Request
<1> QED BY <1>1 DEF Without

LEMMA AnswerInv ==
  ASSUME QuotaInv, NEW h \in Handler, Answer(h)
  PROVE  QuotaInv'
<1>1. TypeOK
  BY DEF QuotaInv
<1>2. req \in [Handler -> Request]
  BY <1>1 DEF TypeOK, Request
<1>3. /\ req[h].pc = "answering"
      /\ req' = [Without(req, {}) EXCEPT ![h] = Idle]
      /\ now' = now /\ row' = row /\ cache' = cache /\ arrivals' = arrivals /\ faults' = faults
      /\ spoilt' = spoilt \ {}
  BY <1>2, WithoutNothing DEF Answer
<1>4. book' \in [Window -> [resetAt : Nat, requests : Nat, through : Nat]]
  <2>1. ASSUME NEW w \in Window PROVE book'[w] \in [resetAt : Nat, requests : Nat, through : Nat]
    <3>1. book[w] \in [resetAt : Nat, requests : Nat, through : Nat]
      BY <1>1 DEF TypeOK
    <3>2. book'[w] = book[w] \/ book'[w] = [book[w] EXCEPT !.through = @ + 1]
      BY DEF Answer
    <3> QED BY <3>1, <3>2
  <2> QED BY <2>1 DEF Answer
<1>5. Idle \in Request /\ Idle.pc = "idle" /\ Idle.holds = {}
  BY IdleIsRequest DEF Idle
<1>6. \A w \in Window :
        IF cache[w] = None THEN cache'[w] = None
        ELSE cache'[w] # None /\ cache'[w].count = cache[w].count /\ cache'[w].persisted <= cache'[w].count
  BY <1>1, <1>3 DEF TypeOK
<1>7. cache' \in [Window -> Entry \cup {None}] /\ faults' \in Nat
  BY <1>1, <1>3 DEF TypeOK
<1> QED BY <1>3, <1>4, <1>5, <1>6, <1>7, QuietInv

\* A refused upsert is what spoils its windows; the others keep their checkpoints.
LEMMA RefusedInv ==
  ASSUME QuotaInv, NEW h \in Handler, Refused(h)
  PROVE  QuotaInv'
<1>1. TypeOK /\ HoldsCached /\ TurnsApart /\ RefusalDurable
  BY DEF QuotaInv
<1>2. req \in [Handler -> Request]
  BY <1>1 DEF TypeOK, Request
<1>3. /\ req[h].pc = "writing"
      /\ req' = [req EXCEPT ![h] = Idle]
      /\ spoilt' = spoilt \cup req[h].dirty
      /\ faults' = faults + 1
      /\ now' = now /\ row' = row /\ cache' = cache /\ arrivals' = arrivals /\ book' = book
  BY DEF Refused
<1>4. Idle \in Request /\ Idle.pc = "idle" /\ Idle.holds = {}
  BY IdleIsRequest DEF Idle
<1>5. req' \in [Handler -> Request] /\ req'[h] = Idle /\ \A g \in Handler \ {h} : req'[g] = req[g]
  BY <1>2, <1>3, <1>4
<1>6. req[h].dirty \in SUBSET Window
  BY <1>2 DEF Request
<1>7. TypeOK'
  BY <1>1, <1>3, <1>5, <1>6 DEF TypeOK, Request
<1>8. HoldsCached'
  BY <1>1, <1>3, <1>4, <1>5 DEF HoldsCached
<1>9. TurnsApart'
  BY <1>1, <1>3, <1>4, <1>5 DEF TurnsApart
<1>10. RefusalDurable'
  <2> SUFFICES ASSUME NEW w \in Window, cache[w] # None, cache[w].count > Max[w], w \notin spoilt, w \notin req[h].dirty
               PROVE  RowWillRefuse(w)'
    BY <1>3 DEF RefusalDurable
  <2>1. RowWillRefuse(w)
    BY <1>1 DEF RefusalDurable
  <2>2. ASSUME NEW g \in Handler
        PROVE  /\ (req'[g].pc = "writing" /\ w \in req'[g].dirty) <=> (req[g].pc = "writing" /\ w \in req[g].dirty)
               /\ req[g].pc = "writing" /\ w \in req[g].dirty
                    => req'[g].turn = req[g].turn /\ req'[g].counts = req[g].counts
    <3>1. CASE g = h
      BY <1>4, <1>5, <3>1
    <3>2. CASE g # h
      BY <1>5, <3>2
    <3> QED BY <3>1, <3>2
  <2> QED BY <1>3, <2>1, <2>2, SameCheckpoints
<1> QED BY <1>7, <1>8, <1>9, <1>10 DEF QuotaInv

LEMMA EvictedInv ==
  ASSUME QuotaInv, NEW v \in Window, Evicted(v)
  PROVE  QuotaInv'
<1>1. TypeOK /\ HoldsCached /\ TurnsApart /\ RefusalDurable
  BY DEF QuotaInv
<1>2. req \in [Handler -> Request]
  BY <1>1 DEF TypeOK, Request
<1>3. /\ cache' = [cache EXCEPT ![v] = None]
      /\ req' = Without(req, {v})
      /\ spoilt' = spoilt \ {v}
      /\ faults' = faults + 1
      /\ now' = now /\ row' = row /\ arrivals' = arrivals /\ book' = book
  BY DEF Evicted
<1>4. req' \in [Handler -> Request] /\ \A g \in Handler :
        /\ req'[g].pc = req[g].pc /\ req'[g].dirty = req[g].dirty
        /\ req'[g].counts = req[g].counts /\ req'[g].turn = req[g].turn
        /\ req'[g].holds = req[g].holds \ {v}
  <2>1. {v} \in SUBSET Window
    OBVIOUS
  <2>2. req' \in [Handler -> Request]
    BY <1>2, <1>3, <2>1, WithoutType
  <2>3. ASSUME NEW g \in Handler
        PROVE  /\ req'[g].pc = req[g].pc /\ req'[g].dirty = req[g].dirty
               /\ req'[g].counts = req[g].counts /\ req'[g].turn = req[g].turn
               /\ req'[g].holds = req[g].holds \ {v}
    BY <1>2, <1>3, <2>1, WithoutEffect
  <2> QED BY <2>2, <2>3
<1>5. cache' \in [Window -> Entry \cup {None}] /\ cache'[v] = None /\ \A w \in Window \ {v} : cache'[w] = cache[w]
  BY <1>1, <1>3 DEF TypeOK
<1>6. TypeOK'
  <2>1. \A w \in Window : cache'[w] # None => cache'[w].persisted <= cache'[w].count
    BY <1>1, <1>5 DEF TypeOK
  <2>2. /\ now' \in Nat /\ row' \in [Window -> Checkpoint \cup {None}]
        /\ arrivals' \in Nat /\ faults' \in Nat /\ spoilt' \in SUBSET Window
        /\ book' \in [Window -> [resetAt : Nat, requests : Nat, through : Nat]]
    BY <1>1, <1>3 DEF TypeOK
  <2> QED BY <1>4, <1>5, <2>1, <2>2 DEF TypeOK, Request
<1>7. HoldsCached'
  <2>1. ASSUME NEW g \in Handler, NEW w \in req'[g].holds PROVE cache'[w] # None
    <3>1. w \in req[g].holds /\ w # v /\ w \in Window
      BY <1>2, <1>4 DEF Request
    <3> QED BY <1>1, <1>5, <3>1 DEF HoldsCached
  <2> QED BY <1>1, <1>4, <2>1 DEF HoldsCached
<1>8. TurnsApart'
  <2>1. \A g \in Handler : req'[g].pc = req[g].pc /\ req'[g].turn = req[g].turn
    BY <1>4
  <2>2. arrivals' = arrivals
    BY <1>3
  <2> QED BY <1>1, <2>1, <2>2 DEF TurnsApart
<1>9. RefusalDurable'
  <2>1. ASSUME NEW w \in Window
        PROVE  (cache'[w] # None /\ cache'[w].count > Max[w] /\ w \notin spoilt') => RowWillRefuse(w)'
    <3>1. RowWillRefuse(w) => RowWillRefuse(w)'
      BY <1>3, <1>4, SameCheckpoints
    <3>2. w # v => (w \in spoilt => w \in spoilt')
      BY <1>3
    <3> QED BY <1>1, <1>5, <3>1, <3>2 DEF RefusalDurable
  <2> QED BY <2>1 DEF RefusalDurable
<1> QED BY <1>6, <1>7, <1>8, <1>9 DEF QuotaInv

LEMMA RestartInv ==
  ASSUME QuotaInv, Restart
  PROVE  QuotaInv'
<1>1. TypeOK
  BY DEF QuotaInv
<1>2. /\ cache' = [w \in Window |-> None]
      /\ req' = [h \in Handler |-> Idle]
      /\ spoilt' = {}
      /\ faults' = faults + 1
      /\ now' = now /\ row' = row /\ arrivals' = arrivals /\ book' = book
  BY DEF Restart
<1>3. TypeOK'
  BY <1>1, <1>2, IdleIsRequest DEF TypeOK, Request
<1>4. HoldsCached' /\ TurnsApart' /\ RefusalDurable'
  BY <1>2 DEF Idle, HoldsCached, TurnsApart, RefusalDurable
<1> QED BY <1>3, <1>4 DEF QuotaInv

\* Steps that change nothing the invariant is about.
LEMMA ClockInv ==
  ASSUME QuotaInv, Tick \/ UNCHANGED vars
  PROVE  QuotaInv'
<1>1. TypeOK /\ HoldsCached /\ TurnsApart /\ RefusalDurable
  BY DEF QuotaInv
<1>2. /\ row' = row /\ cache' = cache /\ req' = req /\ arrivals' = arrivals
      /\ faults' = faults /\ book' = book /\ spoilt' = spoilt
  BY DEF Tick, vars
<1>3. now' \in Nat
  BY <1>1 DEF Tick, vars, TypeOK
<1>4. TypeOK'
  BY <1>1, <1>2, <1>3 DEF TypeOK
<1>5. HoldsCached' /\ TurnsApart'
  BY <1>1, <1>2 DEF HoldsCached, TurnsApart
<1>6. RefusalDurable'
  BY <1>1, <1>2 DEF RefusalDurable, RowWillRefuse, Pending
<1> QED BY <1>4, <1>5, <1>6 DEF QuotaInv

LEMMA CountingInv ==
  ASSUME QuotaInv, NEW h \in Handler, StartWarm(h) \/ CountCold(h)
  PROVE  QuotaInv'
<1>1. TypeOK
  BY DEF QuotaInv
<1>2. CASE StartWarm(h)
  <2>1. [Idle EXCEPT !.now = now] \in Request
    BY <1>1, IdleIsRequest DEF TypeOK, Request
  <2>2. req[h].pc = "idle" /\ CountAs(h, [Idle EXCEPT !.now = now])
    BY <1>2 DEF StartWarm
  <2> QED BY <2>1, <2>2, CountInv
<1>3. CASE CountCold(h)
  <2>1. req[h] \in Request /\ req[h].pc = "reading" /\ CountAs(h, req[h])
    BY <1>1, <1>3 DEF TypeOK, Request, CountCold
  <2> QED BY <2>1, CountInv
<1> QED BY <1>2, <1>3

LEMMA NextInv == QuotaInv /\ [Next]_vars => QuotaInv'
<1> SUFFICES ASSUME QuotaInv, [Next]_vars PROVE QuotaInv'
  OBVIOUS
<1>1. ASSUME NEW h \in Handler,
             \/ StartWarm(h) \/ StartCold(h) \/ CountCold(h) \/ Upsert(h)
             \/ Settle(h) \/ Answer(h) \/ Refused(h)
      PROVE  QuotaInv'
  BY <1>1, CountingInv, StartColdInv, UpsertInv, SettleInv, AnswerInv, RefusedInv
<1>2. ASSUME NEW w \in Window, Evicted(w) PROVE QuotaInv'
  BY <1>2, EvictedInv
<1>3. CASE Restart
  BY <1>3, RestartInv
<1>4. CASE Tick \/ UNCHANGED vars
  BY <1>4, ClockInv
<1> QED BY <1>1, <1>2, <1>3, <1>4 DEF Next

-----------------------------------------------------------------------------
(* Budget and drift: what is remembered of a window *)

\* A request that has not counted holds nothing and has no totals.
NotCounted ==
  \A h \in Handler : req[h].pc \in {"idle", "reading"} =>
    req[h].holds = {} /\ \A w \in Window : req[h].counts[w] = None

\* Requests that were or will be let through in the latest window, unless refused.
Hopeful(w) ==
  {h \in Handler : LET c == req[h].counts[w]
                   IN  c # None /\ c.resetAt = book[w].resetAt /\ c.count <= Max[w]}
Promised(w) == book[w].through + Cardinality(Hopeful(w))

\* Whatever is remembered of the latest window, in memory or in the row, counts
\* past the cap only with requests that are not let through.
InBudget(w, e) ==
  e # None =>
    /\ e.resetAt <= book[w].resetAt
    /\ e.resetAt = book[w].resetAt => Promised(w) + e.count <= Max[w] + book[w].requests

Budget(w) ==
  /\ Promised(w) <= book[w].requests
  /\ InBudget(w, cache[w])
  /\ InBudget(w, row[w])
  /\ \A h \in Handler : InBudget(w, req[h].read[w]) /\ InBudget(w, req[h].counts[w])

BudgetInv == \A w \in Window : Budget(w)

\* Without a fault a window that lasts is in memory, so its row is not read back.
ExactInv ==
  /\ \A h \in Handler : req[h].now <= now
  /\ faults = 0 => \A w \in Window :
       /\ book[w].resetAt > now =>
            /\ cache[w] # None /\ cache[w].resetAt = book[w].resetAt
            /\ cache[w].count = book[w].requests
       /\ \A h \in Handler : ~Adopts(req[h], w)

\* The count the row of this very window will have.
Stored(w) ==
  IF Latest(w) # None /\ Latest(w).resetAt = cache[w].resetAt THEN Latest(w).count ELSE 0

Holders(w) == {h \in Handler : w \in req[h].holds}

Slack(n) == (MaxDrift - 1) * n

\* An entry that is due is written with its count; otherwise what was taken as
\* persisted is ahead of the row by MAX_DRIFT - 1 for each holder that settled.
Drift(w) ==
  (cache[w] # None /\ cache[w].count <= Max[w] /\ w \notin spoilt) =>
    /\ cache[w].count >= cache[w].persisted + MaxDrift => Stored(w) = cache[w].count
    /\ cache[w].persisted + Slack(Cardinality(Holders(w)) + 1)
         <= Stored(w) + Slack(Cardinality(Handler))

DriftInv == \A w \in Window : Drift(w)

LEMMA LeastNat ==
  ASSUME NEW T \in SUBSET Nat, T # {}
  PROVE  \E x \in T : \A y \in T : x <= y
<1> DEFINE Less == {ss \in Nat \X Nat : ss[1] < ss[2]}
<1>1. IsWellFoundedOn(Less, Nat)
  BY NatLessThanWellFounded DEF OpToRel
<1> HIDE DEF Less
<1>2. PICK x \in T : \A y \in T : ~(<<y, x>> \in Less)
  BY <1>1, WFMin
<1>3. \A y \in T : ~(y < x)
  BY <1>2 DEF Less
<1> QED BY <1>3

\* Of the upserts in flight one is the last to have been issued.
LEMMA LatestExists ==
  ASSUME TypeOK, TurnsApart, NEW w \in Window, Pending(w) # {}
  PROVE  \E h \in Pending(w) : \A g \in Pending(w) : req[g].turn <= req[h].turn
<1> DEFINE T == {arrivals - req[h].turn : h \in Pending(w)}
<1>1. arrivals \in Nat /\ \A h \in Pending(w) : req[h].turn \in Nat /\ req[h].turn < arrivals
  BY DEF TypeOK, TurnsApart, Pending
<1>2. T \in SUBSET Nat /\ T # {}
  BY <1>1
<1>3. PICK x \in T : \A y \in T : x <= y
  BY <1>2, LeastNat
<1>4. PICK h \in Pending(w) : x = arrivals - req[h].turn
  BY <1>3
<1>5. \A g \in Pending(w) : arrivals - req[h].turn <= arrivals - req[g].turn
  BY <1>3, <1>4
<1> QED BY <1>1, <1>5

LEMMA LastIs ==
  ASSUME NEW P, NEW rs, NEW h \in P,
         \A g \in P : rs[g].turn \in Nat /\ rs[g].turn <= rs[h].turn,
         \A g \in P : rs[g].turn = rs[h].turn => g = h
  PROVE  (CHOOSE x \in P : \A g \in P : rs[g].turn <= rs[x].turn) = h
<1> DEFINE best == CHOOSE x \in P : \A g \in P : rs[g].turn <= rs[x].turn
<1>1. best \in P /\ \A g \in P : rs[g].turn <= rs[best].turn
  OBVIOUS
<1> HIDE DEF best
<1>2. rs[best].turn = rs[h].turn
  BY <1>1
<1> QED BY <1>1, <1>2 DEF best

LEMMA LatestIs ==
  ASSUME TypeOK, TurnsApart, NEW w \in Window, NEW h \in Pending(w),
         \A g \in Pending(w) : req[g].turn <= req[h].turn
  PROVE  Latest(w) = req[h].counts[w]
<1>1. \A g \in Pending(w) : g \in Handler /\ req[g].pc = "writing" /\ req[g].turn \in Nat
  BY DEF TypeOK, Pending
<1>2. \A g \in Pending(w) : req[g].turn = req[h].turn => g = h
  BY <1>1 DEF TurnsApart
<1> QED BY <1>1, <1>2, LastIs DEF Latest

LEMMA LatestType ==
  ASSUME TypeOK, TurnsApart, NEW w \in Window
  PROVE  Latest(w) \in Checkpoint \cup {None} /\ Stored(w) \in Nat
<1>1. Latest(w) \in Checkpoint \cup {None}
  <2>1. CASE Pending(w) = {}
    BY <2>1 DEF Latest, TypeOK
  <2>2. CASE Pending(w) # {}
    <3>1. PICK h \in Pending(w) : \A g \in Pending(w) : req[g].turn <= req[h].turn
      BY <2>2, LatestExists
    <3>2. Latest(w) = req[h].counts[w]
      BY <3>1, LatestIs
    <3> QED BY <3>2 DEF Pending, TypeOK
  <2> QED BY <2>1, <2>2
<1> QED BY <1>1 DEF Stored, Checkpoint

\* The row and the upserts in flight of a window decide what its row will hold.
LEMMA LatestKept ==
  ASSUME TypeOK, TurnsApart, TypeOK', TurnsApart', NEW w \in Window,
         row'[w] = row[w], Pending(w)' = Pending(w),
         \A h \in Pending(w) : req'[h].turn = req[h].turn /\ req'[h].counts = req[h].counts
  PROVE  Latest(w)' = Latest(w)
<1>1. CASE Pending(w) = {}
  BY <1>1 DEF Latest
<1>2. CASE Pending(w) # {}
  <2>1. PICK h \in Pending(w) : \A g \in Pending(w) : req[g].turn <= req[h].turn
    BY <1>2, LatestExists
  <2>2. Latest(w) = req[h].counts[w]
    BY <2>1, LatestIs
  <2>3. \A g \in Pending(w)' : req'[g].turn \in Nat /\ req'[g].turn <= req'[h].turn
    BY <2>1 DEF TypeOK, Pending
  <2>4. \A g \in Pending(w)' : req'[g].turn = req'[h].turn => g = h
    BY DEF TurnsApart, Pending
  <2>5. Latest(w)' = req'[h].counts[w]
    BY <2>3, <2>4, LastIs DEF Latest
  <2> QED BY <2>2, <2>5
<1> QED BY <1>1, <1>2

\* Every step but the counting of a request.
NotCounting ==
  \/ \E h \in Handler : StartCold(h) \/ Upsert(h) \/ Settle(h) \/ Answer(h) \/ Refused(h)
  \/ \E w \in Window : Evicted(w)
  \/ Tick \/ Restart \/ UNCHANGED vars

\* A request goes on with what it knows, or reads the cold rows.
GoesOn(g) ==
  /\ req'[g].now = req[g].now /\ req'[g].cold = req[g].cold /\ req'[g].read = req[g].read
  /\ req'[g].counts = req[g].counts
  /\ req'[g].holds \subseteq req[g].holds
  /\ req'[g].pc \in {"idle", "reading"} => req'[g].pc = req[g].pc

Reads(g) ==
  /\ req'[g].now = now /\ req'[g].cold = {w \in Window : ~LiveAt(cache[w], now)}
  /\ \A w \in Window : req'[g].read[w] = IF w \in req'[g].cold THEN row[w] ELSE None
  /\ req'[g].counts = [w \in Window |-> None]
  /\ req'[g].holds = {}

LEMMA RequestsGoOn ==
  ASSUME TypeOK, NotCounting, NEW g \in Handler
  PROVE  GoesOn(g) \/ req'[g] = Idle \/ Reads(g)
<1>1. req \in [Handler -> Request]
  BY DEF TypeOK, Request
<1>2. ASSUME NEW gone \in SUBSET Window
      PROVE  LET kept == Without(req, gone)
             IN  /\ kept \in [Handler -> Request]
                 /\ kept[g].pc = req[g].pc /\ kept[g].now = req[g].now /\ kept[g].cold = req[g].cold
                 /\ kept[g].read = req[g].read /\ kept[g].counts = req[g].counts
                 /\ kept[g].holds = req[g].holds \ gone
  BY <1>1, WithoutEffect
<1>3. ASSUME NEW h \in Handler, StartCold(h)
      PROVE  GoesOn(g) \/ Reads(g)
  <2> DEFINE cold == {w \in Window : ~LiveAt(cache[w], now)}
             read == [w \in Window |-> IF w \in cold THEN row[w] ELSE None]
             kept == Without(req, cold)
             q == [Idle EXCEPT !.pc = "reading", !.now = now, !.cold = cold, !.read = read]
  <2>1. req' = [kept EXCEPT ![h] = q]
    BY <1>3 DEF StartCold
  <2>2. kept \in [Handler -> Request]
    BY <1>2
  <2>3. CASE g = h
    <3>1. req'[g] = q
      BY <2>1, <2>2, <2>3
    <3>2. /\ q.now = now /\ q.cold = cold /\ q.read = read
          /\ q.counts = [w \in Window |-> None] /\ q.holds = {}
      BY DEF Idle
    <3>3. \A w \in Window : read[w] = IF w \in cold THEN row[w] ELSE None
      OBVIOUS
    <3> HIDE DEF q, read
    <3> QED BY <3>1, <3>2, <3>3 DEF Reads
  <2>4. CASE g # h
    <3>1. req'[g] = kept[g]
      BY <2>1, <2>2, <2>4
    <3> HIDE DEF q, cold
    <3>2. cold \in SUBSET Window
      BY DEF cold
    <3> QED BY <1>2, <3>1, <3>2 DEF GoesOn
  <2> QED BY <2>3, <2>4
<1>4. ASSUME NEW h \in Handler, Upsert(h)
      PROVE  GoesOn(g)
  BY <1>1, <1>4 DEF Upsert, GoesOn, Request
<1>5. ASSUME NEW h \in Handler, Settle(h)
      PROVE  GoesOn(g)
  <2> DEFINE expired == {w \in Window : ~LiveAt(cache[w], req[h].now)}
             kept == Without(req, expired)
  <2>1. req' = [kept EXCEPT ![h].pc = "answering", ![h].holds = {}]
    BY <1>5 DEF Settle
  <2>2. expired \in SUBSET Window
    OBVIOUS
  <2> HIDE DEF expired
  <2>3. kept \in [Handler -> Request]
    BY <1>2, <2>2
  <2>4. /\ kept[g].pc = req[g].pc /\ kept[g].now = req[g].now /\ kept[g].cold = req[g].cold
        /\ kept[g].read = req[g].read /\ kept[g].counts = req[g].counts
        /\ kept[g].holds = req[g].holds \ expired
    BY <1>2, <2>2
  <2> HIDE DEF kept
  <2> QED BY <2>1, <2>3, <2>4 DEF GoesOn, Request
<1>6. ASSUME NEW h \in Handler, Answer(h) \/ Refused(h)
      PROVE  GoesOn(g) \/ req'[g] = Idle
  BY <1>1, <1>6 DEF Answer, Refused, GoesOn
<1>7. ASSUME NEW w \in Window, Evicted(w)
      PROVE  GoesOn(g)
  <2>1. req' = Without(req, {w}) /\ {w} \in SUBSET Window
    BY <1>7 DEF Evicted
  <2> QED BY <1>2, <2>1 DEF GoesOn
<1>8. CASE Restart
  BY <1>8 DEF Restart
<1>9. CASE Tick \/ UNCHANGED vars
  BY <1>9 DEF Tick, vars, GoesOn
<1> QED BY <1>3, <1>4, <1>5, <1>6, <1>7, <1>8, <1>9 DEF NotCounting

\* Entries stay or go, a row takes the totals of a request, and a book only
\* counts what was let through.
LEMMA MemoryGoesOn ==
  ASSUME TypeOK, NotCounting, NEW w \in Window
  PROVE  /\ \/ cache'[w] = None
            \/ cache[w] # None /\ cache'[w].count = cache[w].count /\ cache'[w].resetAt = cache[w].resetAt
         /\ row'[w] = row[w] \/ \E h \in Handler : row'[w] = req[h].counts[w]
         /\ book'[w].resetAt = book[w].resetAt /\ book'[w].requests = book[w].requests
         /\ now <= now' /\ (faults' = 0 => faults = 0)
<1>1. /\ cache[w] \in Entry \cup {None} /\ now \in Nat /\ faults \in Nat
      /\ book[w] \in [resetAt : Nat, requests : Nat, through : Nat]
      /\ cache \in [Window -> Entry \cup {None}]
  BY DEF TypeOK
<1> DEFINE Goal ==
             /\ cache'[w] \in {None, cache[w], [cache[w] EXCEPT !.persisted = cache[w].count]}
             /\ cache'[w] # None => cache[w] # None
             /\ row'[w] = row[w] \/ \E x \in Handler : row'[w] = req[x].counts[w]
             /\ book'[w] \in {book[w], [book[w] EXCEPT !.through = @ + 1]}
             /\ now' \in {now, now + 1} /\ faults' \in {faults, faults + 1}
<1>2. ASSUME NEW h \in Handler, StartCold(h) PROVE Goal
  BY <1>1, <1>2 DEF StartCold
<1>3. ASSUME NEW h \in Handler, Upsert(h) PROVE Goal
  BY <1>1, <1>3 DEF Upsert
<1>4. ASSUME NEW h \in Handler, Settle(h) PROVE Goal
  BY <1>1, <1>4 DEF Settle, LiveAt
<1>5. ASSUME NEW h \in Handler, Answer(h) PROVE Goal
  BY <1>1, <1>5 DEF Answer
<1>6. ASSUME NEW h \in Handler, Refused(h) PROVE Goal
  BY <1>1, <1>6 DEF Refused
<1>7. ASSUME NEW v \in Window, Evicted(v) PROVE Goal
  BY <1>1, <1>7 DEF Evicted
<1>8. ASSUME Tick \/ Restart \/ UNCHANGED vars PROVE Goal
  BY <1>1, <1>8 DEF Tick, Restart, vars
<1>9. Goal
  <2> HIDE DEF Goal
  <2> QED BY <1>2, <1>3, <1>4, <1>5, <1>6, <1>7, <1>8 DEF NotCounting
<1>10. \/ cache'[w] = None
       \/ cache[w] # None /\ cache'[w].count = cache[w].count /\ cache'[w].resetAt = cache[w].resetAt
  BY <1>1, <1>9 DEF Entry
<1>11. book'[w].resetAt = book[w].resetAt /\ book'[w].requests = book[w].requests
  BY <1>1, <1>9
<1>12. now <= now' /\ (faults' = 0 => faults = 0)
  BY <1>1, <1>9
<1> QED BY <1>9, <1>10, <1>11, <1>12

LEMMA HopefulFinite ==
  ASSUME NEW w \in Window
  PROVE  /\ IsFiniteSet(Hopeful(w)) /\ Cardinality(Hopeful(w)) \in Nat
         /\ \A S \in SUBSET Hopeful(w) : IsFiniteSet(S) /\ Cardinality(S) \in Nat /\ Cardinality(S) <= Cardinality(Hopeful(w))
<1>1. IsFiniteSet(Hopeful(w))
  BY FS_Subset, Parameters DEF Hopeful
<1> QED BY <1>1, FS_Subset, FS_CardinalityType

\* Nobody becomes hopeful but by counting, and who is let through was hopeful.
LEMMA PromisedGoesOn ==
  ASSUME QuotaInv, NotCounting, NEW w \in Window
  PROVE  Promised(w)' \in Nat /\ Promised(w)' <= Promised(w)
<1>1. /\ TypeOK /\ HoldsCached
      /\ req \in [Handler -> Request]
      /\ book[w] \in [resetAt : Nat, requests : Nat, through : Nat] /\ book \in [Window -> [resetAt : Nat, requests : Nat, through : Nat]]
  BY DEF QuotaInv, TypeOK, Request
<1>2. book'[w].resetAt = book[w].resetAt
  BY <1>1, MemoryGoesOn
<1>3. \A g \in Handler : req'[g].counts[w] = req[g].counts[w] \/ req'[g].counts[w] = None
  BY <1>1, RequestsGoOn DEF GoesOn, Reads, Idle
<1>4. Hopeful(w)' \subseteq Hopeful(w)
  BY <1>2, <1>3 DEF Hopeful
<1>5. CASE book'[w] = book[w]
  BY <1>1, <1>4, <1>5, HopefulFinite DEF Promised
<1>6. CASE book'[w] # book[w]
  <2>1. PICK h \in Handler : Answer(h)
    <3>1. \A h \in Handler : StartCold(h) \/ Upsert(h) \/ Settle(h) \/ Refused(h) => book' = book
      BY DEF StartCold, Upsert, Settle, Refused
    <3>2. (\E v \in Window : Evicted(v)) \/ Tick \/ Restart \/ UNCHANGED vars => book' = book
      BY DEF Evicted, Tick, Restart, vars
    <3> QED BY <1>6, <3>1, <3>2 DEF NotCounting
  <2>2. /\ req[h].pc = "answering" /\ req'[h] = Idle
        /\ ~OverCap(req[h].counts, w) /\ book[w].resetAt = req[h].counts[w].resetAt /\ book[w].resetAt > now
        /\ book'[w] = [book[w] EXCEPT !.through = @ + 1]
    BY <1>1, <1>6, <2>1 DEF Answer
  <2>3. req[h].counts[w] # None /\ req[h].counts[w] \in Checkpoint
    BY <1>1, <2>2 DEF HoldsCached, Request
  <2>4. h \in Hopeful(w)
    <3>1. req[h].counts[w].count <= Max[w]
      BY <2>2, <2>3, Parameters DEF OverCap, Checkpoint
    <3> QED BY <2>2, <2>3, <3>1 DEF Hopeful
  <2>5. h \notin Hopeful(w)'
    BY <2>2 DEF Hopeful, Idle
  <2>6. Cardinality(Hopeful(w)') \in Nat /\ Cardinality(Hopeful(w)') + 1 <= Cardinality(Hopeful(w))
    <3>1. Cardinality(Hopeful(w) \ {h}) = Cardinality(Hopeful(w)) - 1 /\ IsFiniteSet(Hopeful(w) \ {h})
      BY <2>4, HopefulFinite, FS_RemoveElement
    <3>2. Hopeful(w)' \in SUBSET (Hopeful(w) \ {h})
      BY <1>4, <2>5
    <3>3. IsFiniteSet(Hopeful(w)') /\ Cardinality(Hopeful(w)') <= Cardinality(Hopeful(w) \ {h})
      BY <3>1, <3>2, FS_Subset
    <3> QED BY <3>1, <3>3, HopefulFinite, FS_CardinalityType
  <2> QED BY <1>1, <2>2, <2>6, HopefulFinite DEF Promised
<1> QED BY <1>5, <1>6

LEMMA InBudgetKept ==
  ASSUME NEW w \in Window, NEW e, InBudget(w, e), NEW f, f = None \/ (e # None /\ f.count = e.count /\ f.resetAt = e.resetAt),
         e # None => e.count \in Nat,
         TypeOK, Promised(w)' \in Nat, Promised(w)' <= Promised(w), Promised(w) \in Nat,
         book'[w].resetAt = book[w].resetAt, book'[w].requests = book[w].requests
  PROVE  f # None =>
           /\ f.resetAt <= book'[w].resetAt
           /\ f.resetAt = book'[w].resetAt => Promised(w)' + f.count <= Max[w] + book'[w].requests
<1>1. Max[w] \in Nat /\ book[w].requests \in Nat
  BY Parameters DEF TypeOK
<1> QED BY <1>1 DEF InBudget

LEMMA OtherBudget ==
  ASSUME QuotaInv, NotCounted, BudgetInv, NotCounting
  PROVE  NotCounted' /\ BudgetInv'
<1>1. TypeOK /\ \A g \in Handler : GoesOn(g) \/ req'[g] = Idle \/ Reads(g)
  BY RequestsGoOn DEF QuotaInv
<1>2. NotCounted'
  <2>1. ASSUME NEW g \in Handler, req'[g].pc \in {"idle", "reading"}
        PROVE  req'[g].holds = {} /\ \A w \in Window : req'[g].counts[w] = None
    <3>1. CASE GoesOn(g)
      BY <2>1, <3>1 DEF GoesOn, NotCounted
    <3>2. CASE req'[g] = Idle
      BY <3>2 DEF Idle
    <3>3. CASE Reads(g)
      BY <3>3 DEF Reads
    <3> QED BY <1>1, <3>1, <3>2, <3>3
  <2> QED BY <2>1 DEF NotCounted
<1>3. ASSUME NEW w \in Window
      PROVE  Budget(w)'
  <2>1. /\ Promised(w)' \in Nat /\ Promised(w)' <= Promised(w)
        /\ Promised(w) \in Nat
    BY <1>1, PromisedGoesOn, HopefulFinite DEF TypeOK, Promised
  <2>2. /\ \/ cache'[w] = None
           \/ cache[w] # None /\ cache'[w].count = cache[w].count /\ cache'[w].resetAt = cache[w].resetAt
        /\ row'[w] = row[w] \/ \E h \in Handler : row'[w] = req[h].counts[w]
        /\ book'[w].resetAt = book[w].resetAt /\ book'[w].requests = book[w].requests
    BY <1>1, MemoryGoesOn
  <2>3. /\ cache[w] # None => cache[w].count \in Nat
        /\ row[w] # None => row[w].count \in Nat
        /\ \A g \in Handler : /\ req[g].read[w] # None => req[g].read[w].count \in Nat
                              /\ req[g].counts[w] # None => req[g].counts[w].count \in Nat
        /\ book[w].requests \in Nat
    BY <1>1 DEF TypeOK, Entry, Checkpoint
  <2>4. /\ Promised(w) <= book[w].requests
        /\ InBudget(w, cache[w]) /\ InBudget(w, row[w])
        /\ \A g \in Handler : InBudget(w, req[g].read[w]) /\ InBudget(w, req[g].counts[w])
    BY DEF BudgetInv, Budget
  <2>5. InBudget(w, cache[w])'
    <3>1. PICK f : f = cache'[w]
      OBVIOUS
    <3> QED BY <1>1, <2>1, <2>2, <2>3, <2>4, <3>1, InBudgetKept DEF InBudget
  <2>6. InBudget(w, row[w])'
    <3>1. PICK f : f = row'[w]
      OBVIOUS
    <3> QED BY <1>1, <2>1, <2>2, <2>3, <2>4, <3>1, InBudgetKept DEF InBudget
  <2>7. ASSUME NEW g \in Handler
        PROVE  InBudget(w, req[g].read[w])' /\ InBudget(w, req[g].counts[w])'
    <3>1. PICK e, f : e = req'[g].read[w] /\ f = req'[g].counts[w]
      OBVIOUS
    <3>2. /\ e = None \/ e = req[g].read[w] \/ e = row[w]
          /\ f = None \/ f = req[g].counts[w]
      BY <1>1, <3>1 DEF GoesOn, Idle, Reads
    <3>3. InBudget(w, req[g].counts[w])'
      BY <1>1, <2>1, <2>2, <2>3, <2>4, <3>1, <3>2, InBudgetKept DEF InBudget
    <3>4. InBudget(w, req[g].read[w])'
      BY <1>1, <2>1, <2>2, <2>3, <2>4, <3>1, <3>2, InBudgetKept DEF InBudget
    <3> QED BY <3>3, <3>4
  <2>8. Promised(w)' <= book'[w].requests
    BY <2>1, <2>2, <2>3, <2>4
  <2> QED BY <2>5, <2>6, <2>7, <2>8 DEF Budget
<1>4. BudgetInv'
  BY <1>3 DEF BudgetInv
<1> QED BY <1>2, <1>4

\* Without a fault only what has expired is dropped.
LEMMA OtherExact ==
  ASSUME QuotaInv, BudgetInv, ExactInv, NotCounting
  PROVE  ExactInv'
<1>1. /\ TypeOK /\ \A g \in Handler : GoesOn(g) \/ req'[g] = Idle \/ Reads(g)
      /\ now \in Nat /\ now' \in {now, now + 1} /\ faults \in Nat
  <2>1. now' \in {now, now + 1}
    <3>1. \A h \in Handler : StartCold(h) \/ Upsert(h) \/ Settle(h) \/ Answer(h) \/ Refused(h) => now' = now
      BY DEF StartCold, Upsert, Settle, Answer, Refused
    <3>2. (\E v \in Window : Evicted(v)) \/ Tick \/ Restart \/ UNCHANGED vars => now' \in {now, now + 1}
      BY DEF Evicted, Tick, Restart, vars
    <3> QED BY <3>1, <3>2 DEF NotCounting
  <2> QED BY <2>1, RequestsGoOn DEF QuotaInv, TypeOK
<1>2. \A g \in Handler : req'[g].now <= now'
  <2>1. \A g \in Handler : req[g].now <= now /\ req[g].now \in Nat
    BY <1>1 DEF ExactInv, TypeOK
  <2>2. Idle.now = 0
    BY DEF Idle
  <2> QED BY <1>1, <2>1, <2>2 DEF GoesOn, Reads
<1>3. ASSUME faults' = 0, NEW w \in Window
      PROVE  /\ book'[w].resetAt > now' =>
                  /\ cache'[w] # None /\ cache'[w].resetAt = book'[w].resetAt
                  /\ cache'[w].count = book'[w].requests
             /\ \A g \in Handler : ~Adopts(req'[g], w)
  <2>1. faults = 0
    BY <1>1, <1>3, MemoryGoesOn
  <2>2. /\ book[w].resetAt \in Nat
        /\ book'[w].resetAt = book[w].resetAt /\ book'[w].requests = book[w].requests
        /\ \/ cache'[w] = None
           \/ cache[w] # None /\ cache'[w].count = cache[w].count /\ cache'[w].resetAt = cache[w].resetAt
    BY <1>1, MemoryGoesOn DEF TypeOK
  <2>3. book[w].resetAt > now =>
          /\ cache[w] # None /\ cache[w].resetAt = book[w].resetAt
          /\ cache[w].count = book[w].requests
    BY <2>1 DEF ExactInv
  <2>4. cache[w] # None /\ cache[w].resetAt > now => cache'[w] # None
    <3> SUFFICES ASSUME cache[w] # None, cache[w].resetAt > now
                 PROVE  cache'[w] # None
      OBVIOUS
    <3>1. cache[w] \in Entry /\ None \notin Entry
      BY <1>1, Parameters DEF TypeOK, Entry
    <3>2. ASSUME NEW h \in Handler, StartCold(h) PROVE cache'[w] # None
      BY <3>2 DEF StartCold, LiveAt
    <3>3. ASSUME NEW h \in Handler, Settle(h) PROVE cache'[w] # None
      <4>1. req[h].now \in Nat /\ req[h].now <= now
        BY <1>1 DEF ExactInv, TypeOK
      <4>2. LiveAt(cache[w], req[h].now)
        BY <1>1, <3>1, <4>1 DEF LiveAt, Entry
      <4>3. cache'[w] \in {cache[w], [cache[w] EXCEPT !.persisted = cache[w].count]}
        BY <3>3, <4>2 DEF Settle
      <4>4. [cache[w] EXCEPT !.persisted = cache[w].count] \in Entry
        BY <3>1 DEF Entry
      <4> QED BY <3>1, <4>3, <4>4
    <3>4. \A h \in Handler : Upsert(h) \/ Answer(h) \/ Refused(h) => cache' = cache
      BY DEF Upsert, Answer, Refused
    <3>5. Tick \/ UNCHANGED vars => cache' = cache
      BY DEF Tick, vars
    <3>6. ~Restart /\ \A v \in Window : ~Evicted(v)
      BY <1>1, <1>3 DEF Restart, Evicted
    <3> QED BY <3>2, <3>3, <3>4, <3>5, <3>6 DEF NotCounting
  <2>5. ASSUME NEW g \in Handler
        PROVE  ~Adopts(req'[g], w)
    <3>1. CASE GoesOn(g)
      BY <2>1, <3>1 DEF GoesOn, Adopts, ExactInv
    <3>2. CASE req'[g] = Idle
      BY <3>2 DEF Idle, Adopts
    <3>3. CASE Reads(g)
      <4> SUFFICES ASSUME w \in req'[g].cold PROVE ~LiveAt(req'[g].read[w], req'[g].now)
        BY DEF Adopts
      <4>1. req'[g].read[w] = row[w] /\ req'[g].now = now /\ ~LiveAt(cache[w], now)
        BY <3>3 DEF Reads
      <4>2. ~(book[w].resetAt > now)
        BY <2>3, <4>1 DEF LiveAt
      <4>3. row[w] # None => row[w].resetAt <= book[w].resetAt /\ row[w].resetAt \in Nat
        BY <1>1 DEF BudgetInv, Budget, InBudget, TypeOK, Checkpoint
      <4> QED BY <1>1, <2>2, <4>1, <4>2, <4>3 DEF LiveAt
    <3> QED BY <1>1, <3>1, <3>2, <3>3
  <2>6. book'[w].resetAt > now' => book[w].resetAt > now
    BY <1>1, <2>2
  <2> QED BY <2>2, <2>3, <2>4, <2>5, <2>6
<1> QED BY <1>2, <1>3 DEF ExactInv

\* What counting does to the requests and the entries.
LEMMA CountEffect ==
  ASSUME TypeOK, NEW h \in Handler, NEW r \in Request, CountAs(h, r)
  PROVE  /\ \A w \in Window : cache'[w] = Counted(r, w) /\ Counted(r, w) \in Entry
         /\ req'[h].now = r.now /\ req'[h].cold = r.cold /\ req'[h].read = r.read
         /\ req'[h].turn = arrivals /\ arrivals' = arrivals + 1
         /\ req'[h].dirty = {w \in Window : Dirty(w, Counted(r, w))} /\ req'[h].holds = req'[h].dirty
         /\ req'[h].pc = IF req'[h].dirty = {} THEN "answering" ELSE "writing"
         /\ \A w \in Window : req'[h].counts[w] = [count |-> Counted(r, w).count, resetAt |-> Counted(r, w).resetAt]
         /\ \A g \in Handler \ {h} :
              /\ req'[g].pc = req[g].pc /\ req'[g].now = req[g].now /\ req'[g].cold = req[g].cold
              /\ req'[g].read = req[g].read /\ req'[g].counts = req[g].counts
              /\ req'[g].turn = req[g].turn /\ req'[g].dirty = req[g].dirty
              /\ req'[g].holds = req[g].holds \ Replaced(r)
         /\ \A w \in Window : book'[w] =
              IF book[w].resetAt = Counted(r, w).resetAt THEN [book[w] EXCEPT !.requests = @ + 1]
              ELSE IF book[w].resetAt < Counted(r, w).resetAt
                     THEN [resetAt |-> Counted(r, w).resetAt, requests |-> 1, through |-> 0]
                     ELSE book[w]
         /\ spoilt' = (spoilt \ Replaced(r)) \cup {w \in Window : AdoptsStale(r, w)}
         /\ UNCHANGED <<now, row, faults>>
<1> DEFINE after == [w \in Window |-> Counted(r, w)]
           dirty == {w \in Window : Dirty(w, after[w])}
           totals == [w \in Window |-> [count |-> after[w].count, resetAt |-> after[w].resetAt]]
           done  == [r EXCEPT !.pc = IF dirty = {} THEN "answering" ELSE "writing",
                              !.dirty = dirty, !.holds = dirty, !.turn = arrivals, !.counts = totals]
           kept  == Without(req, Replaced(r))
<1>1. /\ cache' = after
      /\ req' = [kept EXCEPT ![h] = done]
      /\ spoilt' = (spoilt \ Replaced(r)) \cup {w \in Window : AdoptsStale(r, w)}
      /\ arrivals' = arrivals + 1
      /\ UNCHANGED <<now, row, faults>>
  BY DEF CountAs
<1>2. \A w \in Window : book'[w] =
        IF book[w].resetAt = after[w].resetAt THEN [book[w] EXCEPT !.requests = @ + 1]
        ELSE IF book[w].resetAt < after[w].resetAt
               THEN [resetAt |-> after[w].resetAt, requests |-> 1, through |-> 0]
               ELSE book[w]
  <2>1. \A w \in Window : book[w].resetAt \in Nat /\ after[w].resetAt \in Nat
    BY CountedEffect DEF TypeOK, Entry
  <2>2. book' = [w \in Window |->
                    CASE book[w].resetAt = after[w].resetAt -> [book[w] EXCEPT !.requests = @ + 1]
                      [] book[w].resetAt < after[w].resetAt ->
                           [resetAt |-> after[w].resetAt, requests |-> 1, through |-> 0]
                      [] OTHER -> book[w]]
    BY DEF CountAs
  <2> HIDE DEF after
  <2>3. ASSUME NEW w \in Window
        PROVE  book'[w] =
                 IF book[w].resetAt = after[w].resetAt THEN [book[w] EXCEPT !.requests = @ + 1]
                 ELSE IF book[w].resetAt < after[w].resetAt
                        THEN [resetAt |-> after[w].resetAt, requests |-> 1, through |-> 0]
                        ELSE book[w]
    <3>1. CASE book[w].resetAt = after[w].resetAt
      <4>1. ~(book[w].resetAt < after[w].resetAt)
        BY <2>1, <3>1
      <4> QED BY <2>2, <3>1, <4>1
    <3>2. CASE book[w].resetAt < after[w].resetAt
      <4>1. ~(book[w].resetAt = after[w].resetAt)
        BY <2>1, <3>2
      <4> QED BY <2>2, <3>2, <4>1
    <3>3. CASE ~(book[w].resetAt = after[w].resetAt) /\ ~(book[w].resetAt < after[w].resetAt)
      BY <2>2, <3>3
    <3> QED BY <3>1, <3>2, <3>3
  <2> QED BY <2>3
<1>3. \A w \in Window : after[w] = Counted(r, w) /\ Counted(r, w) \in Entry
  BY CountedEffect
<1>4. \A w \in Window : totals[w] = [count |-> Counted(r, w).count, resetAt |-> Counted(r, w).resetAt]
  OBVIOUS
<1>5. dirty = {w \in Window : Dirty(w, Counted(r, w))}
  OBVIOUS
<1> HIDE DEF after, dirty, totals
<1>6. /\ done.now = r.now /\ done.cold = r.cold /\ done.read = r.read /\ done.turn = arrivals
      /\ done.dirty = dirty /\ done.holds = dirty /\ done.counts = totals
      /\ done.pc = IF dirty = {} THEN "answering" ELSE "writing"
  BY DEF Request
<1>7. req \in [Handler -> Request] /\ Replaced(r) \in SUBSET Window
  BY DEF TypeOK, Request, Replaced
<1>8. kept \in [Handler -> Request] /\ \A g \in Handler :
        /\ kept[g].pc = req[g].pc /\ kept[g].now = req[g].now /\ kept[g].cold = req[g].cold
        /\ kept[g].read = req[g].read /\ kept[g].counts = req[g].counts
        /\ kept[g].turn = req[g].turn /\ kept[g].dirty = req[g].dirty
        /\ kept[g].holds = req[g].holds \ Replaced(r)
  BY <1>7, WithoutEffect
<1> HIDE DEF done, kept
<1>9. req'[h] = done /\ \A g \in Handler \ {h} : req'[g] = kept[g]
  BY <1>1, <1>8
<1>10. \A w \in Window : cache'[w] = Counted(r, w)
  BY <1>1, <1>3
<1>11. /\ req'[h].now = r.now /\ req'[h].cold = r.cold /\ req'[h].read = r.read /\ req'[h].turn = arrivals
       /\ req'[h].dirty = {w \in Window : Dirty(w, Counted(r, w))} /\ req'[h].holds = req'[h].dirty
       /\ req'[h].pc = IF req'[h].dirty = {} THEN "answering" ELSE "writing"
       /\ \A w \in Window : req'[h].counts[w] = [count |-> Counted(r, w).count, resetAt |-> Counted(r, w).resetAt]
  BY <1>4, <1>5, <1>6, <1>9, Zenon
<1>12. \A g \in Handler \ {h} :
         /\ req'[g].pc = req[g].pc /\ req'[g].now = req[g].now /\ req'[g].cold = req[g].cold
         /\ req'[g].read = req[g].read /\ req'[g].counts = req[g].counts
         /\ req'[g].turn = req[g].turn /\ req'[g].dirty = req[g].dirty
         /\ req'[g].holds = req[g].holds \ Replaced(r)
  BY <1>8, <1>9
<1>13. \A w \in Window : book'[w] =
         IF book[w].resetAt = Counted(r, w).resetAt THEN [book[w] EXCEPT !.requests = @ + 1]
         ELSE IF book[w].resetAt < Counted(r, w).resetAt
                THEN [resetAt |-> Counted(r, w).resetAt, requests |-> 1, through |-> 0]
                ELSE book[w]
  BY <1>2, <1>3
<1> QED BY <1>1, <1>3, <1>10, <1>11, <1>12, <1>13

\* Where the entry a request counts in came from.
LEMMA CountedFrom ==
  ASSUME TypeOK, NEW r \in Request, NEW w \in Window
  PROVE  \/ /\ ~Adopts(r, w) /\ ~LiveAt(cache[w], r.now)
            /\ Counted(r, w) = [count |-> 1, resetAt |-> r.now + Length[w], persisted |-> 0]
         \/ /\ ~Adopts(r, w) /\ LiveAt(cache[w], r.now) /\ w \notin Replaced(r)
            /\ cache[w] # None /\ cache[w] \in Entry
            /\ Counted(r, w).count = cache[w].count + 1
            /\ Counted(r, w).resetAt = cache[w].resetAt
            /\ Counted(r, w).persisted = cache[w].persisted
         \/ /\ Adopts(r, w)
            /\ r.read[w] # None /\ r.read[w] \in Checkpoint
            /\ Counted(r, w).count = r.read[w].count + 1
            /\ Counted(r, w).resetAt = r.read[w].resetAt
            /\ Counted(r, w).persisted = r.read[w].count
<1>1. cache[w] \in Entry \cup {None} /\ r.read[w] \in Checkpoint \cup {None} /\ r.now \in Nat
  BY DEF TypeOK, Request
<1>2. CASE Adopts(r, w)
  <2>1. r.read[w] \in Checkpoint /\ r.read[w].resetAt > r.now /\ r.read[w] # None
    BY <1>1, <1>2 DEF Adopts, LiveAt
  <2>2. Adopted(r, w) = [count |-> r.read[w].count, resetAt |-> r.read[w].resetAt, persisted |-> r.read[w].count]
    BY <1>2 DEF Adopted
  <2>3. Adopted(r, w) \in Entry
    BY <2>1, <2>2 DEF Entry, Checkpoint
  <2>4. Adopted(r, w) # None
    BY <2>3, Parameters DEF Entry
  <2>5. Counted(r, w) = [Adopted(r, w) EXCEPT !.count = @ + 1]
    BY <2>1, <2>2, <2>4 DEF Counted, Current, LiveAt
  <2>6. /\ Counted(r, w).count = r.read[w].count + 1 /\ Counted(r, w).resetAt = r.read[w].resetAt
        /\ Counted(r, w).persisted = r.read[w].count
    BY <2>1, <2>2, <2>5 DEF Checkpoint
  <2> QED BY <1>2, <2>1, <2>6
<1>3. CASE ~Adopts(r, w) /\ LiveAt(cache[w], r.now)
  <2>1. Counted(r, w) = [cache[w] EXCEPT !.count = @ + 1]
    BY <1>3 DEF Counted, Adopted, Current
  <2>2. cache[w] \in Entry /\ cache[w] # None
    BY <1>1, <1>3 DEF LiveAt
  <2> QED BY <1>3, <2>1, <2>2 DEF Entry, Replaced
<1>4. CASE ~Adopts(r, w) /\ ~LiveAt(cache[w], r.now)
  <2>1. Counted(r, w) = [count |-> 1, resetAt |-> r.now + Length[w], persisted |-> 0]
    BY <1>4 DEF Adopted, Current, Counted
  <2> QED BY <1>4, <2>1
<1> QED BY <1>2, <1>3, <1>4

\* A request that counts becomes hopeful in the window it counts in, if it is
\* within the cap; a later window begins with it.
LEMMA CountPromises ==
  ASSUME TypeOK, NotCounted, NEW w \in Window, Budget(w), NEW h \in Handler, NEW r \in Request,
         req[h].pc \in {"idle", "reading"}, InBudget(w, r.read[w]), CountAs(h, r),
         NEW e, e = Counted(r, w)
  PROVE  \/ /\ e.resetAt = book[w].resetAt /\ book'[w].resetAt = book[w].resetAt
            /\ book'[w].requests = book[w].requests + 1
            /\ Promised(w)' = IF e.count <= Max[w] THEN Promised(w) + 1 ELSE Promised(w)
         \/ /\ e.resetAt > book[w].resetAt /\ book'[w].resetAt = e.resetAt /\ e.count = 1
            /\ book'[w].requests = 1 /\ Promised(w)' = 1
         \/ /\ e.resetAt < book[w].resetAt /\ book'[w].resetAt = book[w].resetAt
            /\ book'[w].requests = book[w].requests /\ Promised(w)' = Promised(w)
<1>1. /\ book'[w] = IF book[w].resetAt = e.resetAt THEN [book[w] EXCEPT !.requests = @ + 1]
                    ELSE IF book[w].resetAt < e.resetAt
                           THEN [resetAt |-> e.resetAt, requests |-> 1, through |-> 0]
                           ELSE book[w]
      /\ e \in Entry
      /\ req'[h].counts[w] = [count |-> e.count, resetAt |-> e.resetAt]
      /\ \A g \in Handler \ {h} : req'[g].counts = req[g].counts
  <2>1. \A v \in Window : book'[v] =
          IF book[v].resetAt = Counted(r, v).resetAt THEN [book[v] EXCEPT !.requests = @ + 1]
          ELSE IF book[v].resetAt < Counted(r, v).resetAt
                 THEN [resetAt |-> Counted(r, v).resetAt, requests |-> 1, through |-> 0]
                 ELSE book[v]
    BY CountEffect
  <2>2. e \in Entry /\ req'[h].counts[w] = [count |-> e.count, resetAt |-> e.resetAt]
    BY CountEffect
  <2>3. \A g \in Handler \ {h} : req'[g].counts = req[g].counts
    BY CountEffect
  <2> QED BY <2>1, <2>2, <2>3
<1>2. /\ e.count \in Nat /\ e.resetAt \in Nat /\ Max[w] \in Nat \ {0}
      /\ book[w] \in [resetAt : Nat, requests : Nat, through : Nat]
  BY <1>1, Parameters DEF TypeOK, Entry
<1>3. req'[h].counts[w] # None /\ req'[h].counts[w].count = e.count /\ req'[h].counts[w].resetAt = e.resetAt
  <2>1. [count |-> e.count, resetAt |-> e.resetAt] \in Checkpoint /\ None \notin Entry
    BY <1>2, Parameters DEF Checkpoint, Entry
  <2> QED BY <1>1, <2>1, Parameters DEF Checkpoint
<1>4. h \notin Hopeful(w)
  BY DEF NotCounted, Hopeful
<1>5. IsFiniteSet(Hopeful(w)) /\ Cardinality(Hopeful(w)) \in Nat
  BY HopefulFinite
<1>6. CASE e.resetAt = book[w].resetAt
  <2>1. book'[w] = [book[w] EXCEPT !.requests = @ + 1]
    BY <1>1, <1>6
  <2>2. /\ book'[w].resetAt = book[w].resetAt /\ book'[w].requests = book[w].requests + 1
        /\ book'[w].through = book[w].through
    BY <1>2, <2>1
  <2>3. Hopeful(w)' = IF e.count <= Max[w] THEN Hopeful(w) \cup {h} ELSE Hopeful(w)
    BY <1>1, <1>3, <1>4, <1>6, <2>2 DEF Hopeful
  <2>4. Cardinality(Hopeful(w) \cup {h}) = Cardinality(Hopeful(w)) + 1
    BY <1>4, <1>5, FS_AddElement
  <2> QED BY <1>2, <1>5, <1>6, <2>2, <2>3, <2>4 DEF Promised
<1>7. CASE e.resetAt > book[w].resetAt
  <2>1. book'[w] = [resetAt |-> e.resetAt, requests |-> 1, through |-> 0]
    BY <1>1, <1>2, <1>7
  <2>2. book'[w].resetAt = e.resetAt /\ book'[w].requests = 1 /\ book'[w].through = 0
    BY <2>1
  <2>3. e.count = 1
    <3>1. \A v \in {cache[w], r.read[w]} : v # None => ~(e.resetAt = v.resetAt)
      <4>1. \A v \in {cache[w], r.read[w]} : v # None => v.resetAt <= book[w].resetAt /\ v.resetAt \in Nat
        BY DEF Budget, InBudget, TypeOK, Entry, Checkpoint, Request
      <4> QED BY <1>2, <1>7, <4>1
    <3>2. \/ Counted(r, w) = [count |-> 1, resetAt |-> r.now + Length[w], persisted |-> 0]
          \/ \E v \in {cache[w], r.read[w]} : v # None /\ e.resetAt = v.resetAt
      BY CountedFrom
    <3> QED BY <3>1, <3>2
  <2>4. \A g \in Handler : req[g].counts[w] # None => req[g].counts[w].resetAt # e.resetAt
    <3>1. \A g \in Handler : req[g].counts[w] # None =>
            req[g].counts[w].resetAt \in Nat /\ req[g].counts[w].resetAt <= book[w].resetAt
      BY DEF Budget, InBudget, TypeOK, Checkpoint
    <3> QED BY <1>2, <1>7, <3>1
  <2>5. Hopeful(w)' = {h}
    BY <1>1, <1>2, <1>3, <2>2, <2>3, <2>4 DEF Hopeful
  <2>6. Cardinality({h}) = 1
    BY FS_Singleton
  <2> QED BY <1>7, <2>2, <2>3, <2>5, <2>6 DEF Promised
<1>8. CASE e.resetAt < book[w].resetAt
  <2>1. book'[w] = book[w]
    BY <1>1, <1>2, <1>8
  <2>2. e.resetAt # book[w].resetAt
    BY <1>2, <1>8
  <2>3. Hopeful(w)' = Hopeful(w)
    BY <1>1, <1>3, <1>4, <2>1, <2>2 DEF Hopeful
  <2> QED BY <1>8, <2>1, <2>3 DEF Promised
<1> QED BY <1>2, <1>6, <1>7, <1>8

LEMMA CountBudget ==
  ASSUME QuotaInv, NotCounted, BudgetInv, NEW h \in Handler, NEW r \in Request,
         req[h].pc \in {"idle", "reading"}, \A w \in Window : InBudget(w, r.read[w]), CountAs(h, r)
  PROVE  NotCounted' /\ BudgetInv'
<1>1. TypeOK
  BY DEF QuotaInv
<1>2. /\ req'[h].pc \in {"answering", "writing"} /\ req'[h].read = r.read
      /\ \A w \in Window : cache'[w] = Counted(r, w) /\ Counted(r, w) \in Entry
      /\ \A w \in Window : req'[h].counts[w] = [count |-> Counted(r, w).count, resetAt |-> Counted(r, w).resetAt]
      /\ UNCHANGED <<now, row, faults>>
  BY <1>1, CountEffect
<1>3. \A g \in Handler \ {h} :
        /\ req'[g].pc = req[g].pc /\ req'[g].read = req[g].read
        /\ req'[g].counts = req[g].counts /\ req'[g].holds = req[g].holds \ Replaced(r)
  BY <1>1, CountEffect
<1>4. NotCounted'
  <2>1. ASSUME NEW g \in Handler, req'[g].pc \in {"idle", "reading"}
        PROVE  req'[g].holds = {} /\ \A w \in Window : req'[g].counts[w] = None
    <3>1. g # h
      BY <1>2, <2>1
    <3> QED BY <1>3, <2>1, <3>1 DEF NotCounted
  <2> QED BY <2>1 DEF NotCounted
<1>5. ASSUME NEW w \in Window
      PROVE  Budget(w)'
  <2>1. PICK e : e = Counted(r, w)
    OBVIOUS
  <2>2. Budget(w) /\ InBudget(w, r.read[w])
    BY DEF BudgetInv
  <2>3. \/ /\ e.resetAt = book[w].resetAt /\ book'[w].resetAt = book[w].resetAt
           /\ book'[w].requests = book[w].requests + 1
           /\ Promised(w)' = IF e.count <= Max[w] THEN Promised(w) + 1 ELSE Promised(w)
        \/ /\ e.resetAt > book[w].resetAt /\ book'[w].resetAt = e.resetAt /\ e.count = 1
           /\ book'[w].requests = 1 /\ Promised(w)' = 1
        \/ /\ e.resetAt < book[w].resetAt /\ book'[w].resetAt = book[w].resetAt
           /\ book'[w].requests = book[w].requests /\ Promised(w)' = Promised(w)
    BY <1>1, <2>1, <2>2, CountPromises
  <2>4. /\ e.count \in Nat /\ e.resetAt \in Nat /\ e # None /\ Max[w] \in Nat \ {0}
        /\ book[w].requests \in Nat /\ book[w].resetAt \in Nat /\ Promised(w) \in Nat
    BY <1>1, <1>2, <2>1, HopefulFinite, Parameters DEF TypeOK, Entry, Promised
  <2>5. Promised(w) <= book[w].requests
    BY <2>2 DEF Budget
  <2>6. ASSUME NEW v, InBudget(w, v), v # None => v.count \in Nat /\ v.resetAt \in Nat
        PROVE  v # None => /\ v.resetAt <= book'[w].resetAt
                           /\ v.resetAt = book'[w].resetAt => Promised(w)' + v.count <= Max[w] + book'[w].requests
    BY <2>3, <2>4, <2>6 DEF InBudget
  <2>7. e.count = 1 \/ \E v \in {cache[w], r.read[w]} :
          /\ v # None /\ InBudget(w, v) /\ v.count \in Nat
          /\ e.count = v.count + 1 /\ e.resetAt = v.resetAt
    <3>1. CASE e = [count |-> 1, resetAt |-> r.now + Length[w], persisted |-> 0]
      BY <3>1
    <3>2. CASE e # [count |-> 1, resetAt |-> r.now + Length[w], persisted |-> 0]
      <4>1. \E v \in {cache[w], r.read[w]} :
              /\ v # None /\ v.count \in Nat /\ e.count = v.count + 1 /\ e.resetAt = v.resetAt
        BY <1>1, <2>1, <3>2, CountedFrom DEF Entry, Checkpoint
      <4> QED BY <2>2, <4>1 DEF Budget
    <3> QED BY <3>1, <3>2
  <2>8. /\ e.resetAt <= book'[w].resetAt
        /\ e.resetAt = book'[w].resetAt => Promised(w)' + e.count <= Max[w] + book'[w].requests
    BY <2>3, <2>4, <2>5, <2>7 DEF InBudget
  <2>9. Promised(w)' <= book'[w].requests
    BY <2>3, <2>4, <2>5
  <2>10. /\ cache'[w] = e /\ row'[w] = row[w]
         /\ req'[h].counts[w].count = e.count /\ req'[h].counts[w].resetAt = e.resetAt
    <3>1. req'[h].counts[w] = [count |-> e.count, resetAt |-> e.resetAt]
      BY <1>2, <2>1
    <3> QED BY <1>2, <2>1, <3>1
  <2>11. /\ row[w] # None => row[w].count \in Nat /\ row[w].resetAt \in Nat
         /\ r.read[w] # None => r.read[w].count \in Nat /\ r.read[w].resetAt \in Nat
         /\ \A g \in Handler : /\ req[g].read[w] # None => req[g].read[w].count \in Nat /\ req[g].read[w].resetAt \in Nat
                               /\ req[g].counts[w] # None => req[g].counts[w].count \in Nat /\ req[g].counts[w].resetAt \in Nat
    BY <1>1 DEF TypeOK, Checkpoint, Request
  <2>12. InBudget(w, cache[w])' /\ InBudget(w, row[w])'
    BY <2>2, <2>6, <2>8, <2>10, <2>11 DEF InBudget, Budget
  <2>13. InBudget(w, req[h].read[w])' /\ InBudget(w, req[h].counts[w])'
    BY <1>2, <2>2, <2>6, <2>8, <2>10, <2>11 DEF InBudget
  <2>14. ASSUME NEW g \in Handler, g # h
         PROVE  InBudget(w, req[g].read[w])' /\ InBudget(w, req[g].counts[w])'
    <3>1. req'[g].read = req[g].read /\ req'[g].counts = req[g].counts
      BY <1>3, <2>14
    <3>2. InBudget(w, req[g].read[w]) /\ InBudget(w, req[g].counts[w])
      BY <2>2 DEF Budget
    <3> QED BY <2>6, <2>11, <3>1, <3>2 DEF InBudget
  <2> QED BY <2>9, <2>12, <2>13, <2>14 DEF Budget
<1> QED BY <1>4, <1>5 DEF BudgetInv

LEMMA CountExact ==
  ASSUME QuotaInv, NotCounted, BudgetInv, ExactInv, NEW h \in Handler, NEW r \in Request,
         req[h].pc \in {"idle", "reading"}, \A w \in Window : InBudget(w, r.read[w]), CountAs(h, r),
         r.now <= now, faults = 0 => \A w \in Window : ~Adopts(r, w)
  PROVE  ExactInv'
<1>1. TypeOK
  BY DEF QuotaInv
<1>2. /\ req'[h].now = r.now /\ req'[h].cold = r.cold /\ req'[h].read = r.read
      /\ \A w \in Window : cache'[w] = Counted(r, w) /\ Counted(r, w) \in Entry
      /\ UNCHANGED <<now, row, faults>>
  BY <1>1, CountEffect
<1>3. \A g \in Handler \ {h} :
        req'[g].now = req[g].now /\ req'[g].cold = req[g].cold /\ req'[g].read = req[g].read
  BY <1>1, CountEffect
<1>4. \A g \in Handler : req'[g].now <= now'
  BY <1>2, <1>3 DEF ExactInv
<1>5. ASSUME faults = 0, NEW w \in Window
      PROVE  \A g \in Handler : ~Adopts(req'[g], w)
  BY <1>2, <1>3, <1>5 DEF ExactInv, Adopts
<1>6. ASSUME faults = 0, NEW w \in Window, book'[w].resetAt > now
      PROVE  /\ cache'[w] # None /\ cache'[w].resetAt = book'[w].resetAt
             /\ cache'[w].count = book'[w].requests
  <2>1. PICK e : e = Counted(r, w)
    OBVIOUS
  <2>2. Budget(w) /\ InBudget(w, r.read[w])
    BY DEF BudgetInv
  <2>3. \/ /\ e.resetAt = book[w].resetAt /\ book'[w].resetAt = book[w].resetAt
           /\ book'[w].requests = book[w].requests + 1
        \/ /\ e.resetAt > book[w].resetAt /\ book'[w].resetAt = e.resetAt /\ e.count = 1
           /\ book'[w].requests = 1
        \/ /\ e.resetAt < book[w].resetAt /\ book'[w].resetAt = book[w].resetAt
    BY <1>1, <2>1, <2>2, CountPromises
  <2>4. /\ e.count \in Nat /\ e.resetAt \in Nat /\ e # None /\ cache'[w] = e
        /\ book[w].requests \in Nat /\ book[w].resetAt \in Nat /\ now \in Nat /\ r.now \in Nat
    BY <1>1, <1>2, <2>1, Parameters DEF TypeOK, Entry, Request
  <2>5. book[w].resetAt > now =>
          /\ cache[w] # None /\ cache[w].resetAt = book[w].resetAt
          /\ cache[w].count = book[w].requests
    BY <1>6 DEF ExactInv
  <2>6. CASE LiveAt(cache[w], r.now)
    <3>1. /\ cache[w] # None /\ cache[w].resetAt \in Nat
          /\ e.count = cache[w].count + 1 /\ e.resetAt = cache[w].resetAt
      BY <1>6, <2>1, <2>6, <1>1, CountedFrom DEF Entry
    <3>2. cache[w].resetAt <= book[w].resetAt
      BY <2>2, <3>1 DEF Budget, InBudget
    <3> QED BY <1>6, <2>3, <2>4, <2>5, <3>1, <3>2
  <2>7. CASE ~LiveAt(cache[w], r.now)
    <3>1. e.count = 1
      BY <1>6, <2>1, <2>7, <1>1, CountedFrom
    <3>2. ~(book[w].resetAt > now)
      BY <2>4, <2>5, <2>7 DEF LiveAt
    <3> QED BY <1>6, <2>3, <2>4, <3>1, <3>2
  <2> QED BY <2>6, <2>7
<1> QED BY <1>2, <1>4, <1>5, <1>6 DEF ExactInv

LEMMA InitBudget == Init => NotCounted /\ BudgetInv /\ ExactInv
<1> SUFFICES ASSUME Init PROVE NotCounted /\ BudgetInv /\ ExactInv
  OBVIOUS
<1>1. /\ now = 0 /\ \A w \in Window : row[w] = None /\ cache[w] = None
      /\ \A w \in Window : book[w] = [resetAt |-> 0, requests |-> 0, through |-> 0]
      /\ \A h \in Handler : /\ req[h].now = 0 /\ req[h].cold = {} /\ req[h].holds = {}
                            /\ \A w \in Window : req[h].read[w] = None /\ req[h].counts[w] = None
  BY DEF Init, Idle
<1>2. NotCounted /\ ExactInv
  BY <1>1 DEF NotCounted, ExactInv, Adopts
<1>3. ASSUME NEW w \in Window PROVE Budget(w)
  <2>1. Hopeful(w) = {}
    BY <1>1 DEF Hopeful
  <2>2. Promised(w) = 0 /\ book[w].requests = 0
    BY <1>1, <2>1, FS_EmptySet DEF Promised
  <2> QED BY <1>1, <2>2 DEF Budget, InBudget
<1> QED BY <1>2, <1>3 DEF BudgetInv

\* What a request brings to the counting.
LEMMA Brings ==
  ASSUME TypeOK, BudgetInv, ExactInv, NEW h \in Handler, StartWarm(h) \/ CountCold(h)
  PROVE  \E r \in Request :
           /\ CountAs(h, r) /\ req[h].pc \in {"idle", "reading"}
           /\ \A w \in Window : InBudget(w, r.read[w])
           /\ r.now <= now
           /\ faults = 0 => \A w \in Window : ~Adopts(r, w)
<1>1. CASE StartWarm(h)
  <2> DEFINE r == [Idle EXCEPT !.now = now]
  <2>1. r \in Request /\ r.cold = {} /\ r.now = now /\ r.read = [w \in Window |-> None]
    BY IdleIsRequest DEF TypeOK, Request, Idle
  <2>2. CountAs(h, r) /\ req[h].pc = "idle" /\ now \in Nat
    BY <1>1 DEF StartWarm, TypeOK
  <2> HIDE DEF r
  <2> QED BY <2>1, <2>2 DEF InBudget, Adopts
<1>2. CASE CountCold(h)
  <2>1. req[h] \in Request
    BY DEF TypeOK, Request
  <2>2. CountAs(h, req[h]) /\ req[h].pc = "reading"
    BY <1>2 DEF CountCold
  <2> QED BY <2>1, <2>2 DEF BudgetInv, Budget, ExactInv
<1> QED BY <1>1, <1>2

LEMMA NextKinds ==
  [Next]_vars => NotCounting \/ \E h \in Handler : StartWarm(h) \/ CountCold(h)
BY DEF Next, NotCounting

LEMMA NextBudget ==
  QuotaInv /\ NotCounted /\ BudgetInv /\ ExactInv /\ [Next]_vars => NotCounted' /\ BudgetInv' /\ ExactInv'
<1> SUFFICES ASSUME QuotaInv, NotCounted, BudgetInv, ExactInv, [Next]_vars
             PROVE  NotCounted' /\ BudgetInv' /\ ExactInv'
  OBVIOUS
<1>1. CASE NotCounting
  BY <1>1, OtherBudget, OtherExact
<1>2. ASSUME NEW h \in Handler, StartWarm(h) \/ CountCold(h)
      PROVE  NotCounted' /\ BudgetInv' /\ ExactInv'
  <2>1. TypeOK
    BY DEF QuotaInv
  <2>2. PICK r \in Request :
          /\ CountAs(h, r) /\ req[h].pc \in {"idle", "reading"}
          /\ \A w \in Window : InBudget(w, r.read[w])
          /\ r.now <= now
          /\ faults = 0 => \A w \in Window : ~Adopts(r, w)
    BY <1>2, <2>1, Brings
  <2> QED BY <2>2, CountBudget, CountExact
<1> QED BY <1>1, <1>2, NextKinds

LEMMA Slacks ==
  /\ \A n \in Nat : Slack(n) \in Nat /\ Slack(n + 1) = Slack(n) + MaxDrift - 1
  /\ \A m, n \in Nat : m <= n => Slack(m) <= Slack(n)
<1>1. MaxDrift - 1 \in Nat
  BY Parameters
<1>2. \A d, n \in Nat : d * n \in Nat /\ d * (n + 1) = d * n + d
  OBVIOUS
<1>3. \A d, m, n \in Nat : m <= n => d * m <= d * n
  <2> SUFFICES ASSUME NEW d \in Nat, NEW m \in Nat, NEW n \in Nat, m <= n
               PROVE  d * m <= d * n
    OBVIOUS
  <2>1. n = m + (n - m) /\ n - m \in Nat
    OBVIOUS
  <2>2. \A k \in Nat : d * (m + k) = d * m + d * k /\ d * k \in Nat
    OBVIOUS
  <2>3. d * n = d * m + d * (n - m) /\ d * (n - m) \in Nat
    BY <2>1, <2>2
  <2> QED BY <2>3
<1> DEFINE d == MaxDrift - 1
<1>4. \A n : Slack(n) = d * n
  BY DEF Slack
<1>5. d \in Nat /\ d = MaxDrift - 1 /\ MaxDrift \in Nat
  BY <1>1, Parameters
<1> HIDE DEF d
<1>6. \A n \in Nat : Slack(n) \in Nat /\ Slack(n + 1) = Slack(n) + d
  BY <1>2, <1>4, <1>5
<1>7. \A m, n \in Nat : m <= n => Slack(m) <= Slack(n)
  BY <1>3, <1>4, <1>5
<1> QED BY <1>5, <1>6, <1>7

LEMMA HoldersFinite ==
  ASSUME NEW S \in SUBSET Handler
  PROVE  /\ IsFiniteSet(S) /\ Cardinality(S) \in Nat
         /\ Cardinality(Handler) \in Nat /\ Cardinality(S) <= Cardinality(Handler)
         /\ \A h \in Handler \ S : /\ Cardinality(S) + 1 <= Cardinality(Handler)
                                   /\ Cardinality(S \cup {h}) = Cardinality(S) + 1
         /\ \A T \in SUBSET S : Cardinality(T) \in Nat /\ Cardinality(T) <= Cardinality(S)
<1>1. IsFiniteSet(S) /\ IsFiniteSet(Handler)
  BY FS_Subset, Parameters
<1>2. Cardinality(S) \in Nat /\ Cardinality(Handler) \in Nat /\ Cardinality(S) <= Cardinality(Handler)
  BY <1>1, FS_Subset, FS_CardinalityType
<1>3. ASSUME NEW h \in Handler \ S
      PROVE  Cardinality(S) + 1 <= Cardinality(Handler) /\ Cardinality(S \cup {h}) = Cardinality(S) + 1
  <2>1. Cardinality(S \cup {h}) = Cardinality(S) + 1
    BY <1>1, FS_AddElement
  <2>2. Cardinality(S \cup {h}) <= Cardinality(Handler)
    <3>1. S \cup {h} \in SUBSET Handler
      OBVIOUS
    <3> QED BY <1>1, <3>1, FS_Subset
  <2> QED BY <2>1, <2>2
<1>4. \A T \in SUBSET S : Cardinality(T) \in Nat /\ Cardinality(T) <= Cardinality(S)
  BY <1>1, FS_Subset, FS_CardinalityType
<1> QED BY <1>1, <1>2, <1>3, <1>4

\* The upsert that runs is the oldest, so what the row will hold stays.
LEMMA UpsertLatest ==
  ASSUME QuotaInv, QuotaInv', NEW h \in Handler, Upsert(h), NEW w \in Window
  PROVE  Latest(w)' = Latest(w)
<1>1. TypeOK /\ TurnsApart /\ TypeOK' /\ TurnsApart'
  BY DEF QuotaInv
<1>2. req \in [Handler -> Request]
  BY <1>1 DEF TypeOK, Request
<1>3. /\ req[h].pc = "writing"
      /\ \A g \in Handler : req[g].pc = "writing" => req[h].turn <= req[g].turn
      /\ row'[w] = IF w \in req[h].dirty THEN req[h].counts[w] ELSE row[w]
      /\ \A g \in Handler \ {h} : req'[g] = req[g]
      /\ req'[h].pc = "written"
  BY <1>2 DEF Upsert, Request
<1>4. Pending(w)' = Pending(w) \ {h}
  BY <1>3 DEF Pending
<1>5. \A g \in Pending(w) : g \in Handler /\ req[g].pc = "writing" /\ req[g].turn \in Nat
  BY <1>2 DEF Pending, Request
<1>6. CASE h \notin Pending(w)
  <2>1. w \notin req[h].dirty
    BY <1>3, <1>6 DEF Pending
  <2>2. Pending(w)' = Pending(w) /\ \A g \in Pending(w) : req'[g] = req[g]
    BY <1>3, <1>4, <1>5, <1>6
  <2> QED BY <1>1, <1>3, <2>1, <2>2, LatestKept
<1>7. CASE h \in Pending(w)
  <2>1. PICK x \in Pending(w) : \A g \in Pending(w) : req[g].turn <= req[x].turn
    BY <1>1, <1>7, LatestExists
  <2>2. Latest(w) = req[x].counts[w]
    BY <1>1, <2>1, LatestIs
  <2>3. \A g \in Pending(w) : req[g].turn = req[x].turn => g = x
    BY <1>1, <1>5 DEF TurnsApart
  <2>4. CASE x = h
    <3>1. \A g \in Pending(w) : g = h
      BY <1>3, <1>5, <2>1, <2>3, <2>4
    <3>2. Pending(w)' = {} /\ w \in req[h].dirty
      BY <1>4, <1>7, <3>1 DEF Pending
    <3> QED BY <1>3, <2>2, <2>4, <3>2 DEF Latest
  <2>5. CASE x # h
    <3>1. x \in Pending(w)' /\ \A g \in Pending(w)' : g \in Pending(w) /\ req'[g] = req[g]
      BY <1>3, <1>4, <1>5, <2>5
    <3>2. (CHOOSE y \in Pending(w)' : \A g \in Pending(w)' : req'[g].turn <= req'[y].turn) = x
      BY <1>5, <2>1, <2>3, <3>1, LastIs
    <3>3. Latest(w)' = req'[x].counts[w]
      BY <3>1, <3>2 DEF Latest
    <3> QED BY <2>2, <3>1, <3>3
  <2> QED BY <2>4, <2>5
<1> QED BY <1>6, <1>7

\* An entry that stays and is not spoilt was not, and its row will hold the same.
LEMMA OtherLatest ==
  ASSUME QuotaInv, QuotaInv', NotCounting, NEW w \in Window, cache'[w] # None, w \notin spoilt'
  PROVE  w \notin spoilt /\ Latest(w)' = Latest(w)
<1>1. TypeOK /\ TurnsApart /\ TypeOK' /\ TurnsApart' /\ req \in [Handler -> Request]
  BY DEF QuotaInv, TypeOK, Request
<1>2. ASSUME row'[w] = row[w],
             \A g \in Handler :
               \/ req'[g].pc = req[g].pc /\ req'[g].dirty = req[g].dirty /\ req'[g].turn = req[g].turn
                    /\ req'[g].counts = req[g].counts
               \/ /\ ~(req[g].pc = "writing" /\ w \in req[g].dirty)
                  /\ ~(req'[g].pc = "writing" /\ w \in req'[g].dirty)
      PROVE  Latest(w)' = Latest(w)
  <2>1. Pending(w)' = Pending(w)
    BY <1>2 DEF Pending
  <2>2. \A g \in Pending(w) : req'[g].turn = req[g].turn /\ req'[g].counts = req[g].counts
    BY <1>2 DEF Pending
  <2> QED BY <1>1, <1>2, <2>1, <2>2, LatestKept
<1>3. ASSUME NEW gone \in SUBSET Window
      PROVE  /\ Without(req, gone) \in [Handler -> Request]
             /\ \A g \in Handler :
                  /\ Without(req, gone)[g].pc = req[g].pc /\ Without(req, gone)[g].dirty = req[g].dirty
                  /\ Without(req, gone)[g].turn = req[g].turn /\ Without(req, gone)[g].counts = req[g].counts
  <2>1. req \in [Handler -> Request]
    BY <1>1
  <2>2. Without(req, gone) \in [Handler -> Request]
    BY <2>1, WithoutType
  <2>3. ASSUME NEW g \in Handler
        PROVE  /\ Without(req, gone)[g].pc = req[g].pc /\ Without(req, gone)[g].dirty = req[g].dirty
               /\ Without(req, gone)[g].turn = req[g].turn /\ Without(req, gone)[g].counts = req[g].counts
    BY <2>1, WithoutEffect
  <2> QED BY <2>2, <2>3
<1>4. ASSUME NEW h \in Handler, StartCold(h)
      PROVE  w \notin spoilt /\ Latest(w)' = Latest(w)
  <2> DEFINE cold == {v \in Window : ~LiveAt(cache[v], now)}
             kept == Without(req, cold)
             q == [Idle EXCEPT !.pc = "reading", !.now = now, !.cold = cold,
                               !.read = [v \in Window |-> IF v \in cold THEN row[v] ELSE None]]
  <2>1. /\ req' = [kept EXCEPT ![h] = q] /\ req[h].pc = "idle" /\ row'[w] = row[w]
        /\ spoilt' = spoilt \ cold /\ w \notin cold
    BY <1>4 DEF StartCold
  <2>2. kept \in [Handler -> Request] /\ cold \in SUBSET Window
    BY <1>3
  <2>3. q.pc = "reading"
    BY DEF Idle
  <2> HIDE DEF q, cold
  <2>4. req'[h].pc = "reading" /\ \A g \in Handler \ {h} : req'[g] = kept[g]
    BY <2>1, <2>2, <2>3
  <2> QED BY <1>2, <1>3, <2>1, <2>2, <2>4
<1>5. ASSUME NEW h \in Handler, Upsert(h)
      PROVE  w \notin spoilt /\ Latest(w)' = Latest(w)
  BY <1>5, UpsertLatest DEF Upsert
<1>6. ASSUME NEW h \in Handler, Settle(h)
      PROVE  w \notin spoilt /\ Latest(w)' = Latest(w)
  <2> DEFINE expired == {v \in Window : ~LiveAt(cache[v], req[h].now)}
             kept == Without(req, expired)
  <2>1. /\ req' = [kept EXCEPT ![h].pc = "answering", ![h].holds = {}] /\ req[h].pc = "written" /\ row'[w] = row[w]
        /\ spoilt' = spoilt \ expired /\ w \notin expired
    BY <1>6 DEF Settle
  <2>2. kept \in [Handler -> Request] /\ expired \in SUBSET Window
    BY <1>3
  <2> HIDE DEF expired
  <2>3. req'[h].pc = "answering" /\ \A g \in Handler \ {h} : req'[g] = kept[g]
    BY <2>1, <2>2 DEF Request
  <2> QED BY <1>2, <1>3, <2>1, <2>2, <2>3
<1>7. ASSUME NEW h \in Handler, Answer(h)
      PROVE  w \notin spoilt /\ Latest(w)' = Latest(w)
  <2>1. /\ req[h].pc = "answering" /\ req'[h].pc = "idle" /\ row'[w] = row[w] /\ spoilt' = spoilt
        /\ \A g \in Handler \ {h} : req'[g] = req[g]
    BY <1>1, <1>7 DEF Answer, Idle
  <2> QED BY <1>2, <2>1
<1>8. ASSUME NEW h \in Handler, Refused(h)
      PROVE  w \notin spoilt /\ Latest(w)' = Latest(w)
  <2>1. /\ w \notin req[h].dirty /\ req'[h].pc = "idle" /\ row'[w] = row[w] /\ spoilt \subseteq spoilt'
        /\ \A g \in Handler \ {h} : req'[g] = req[g]
    BY <1>1, <1>8 DEF Refused, Idle
  <2> QED BY <1>2, <2>1
<1>9. ASSUME NEW v \in Window, Evicted(v)
      PROVE  w \notin spoilt /\ Latest(w)' = Latest(w)
  <2>1. /\ req' = Without(req, {v}) /\ row'[w] = row[w] /\ spoilt' = spoilt \ {v} /\ cache' = [cache EXCEPT ![v] = None]
    BY <1>9 DEF Evicted
  <2>2. w # v /\ {v} \in SUBSET Window
    BY <1>1, <2>1 DEF TypeOK
  <2> QED BY <1>2, <1>3, <2>1, <2>2
<1>10. ~Restart
  BY DEF Restart
<1>11. CASE Tick \/ UNCHANGED vars
  <2>1. row' = row /\ req' = req /\ spoilt' = spoilt
    BY <1>11 DEF Tick, vars
  <2> QED BY <1>2, <2>1
<1> QED BY <1>4, <1>5, <1>6, <1>7, <1>8, <1>9, <1>10, <1>11 DEF NotCounting

\* What was taken as persisted stays, or a request that held the entry settles.
LEMMA PersistedGoesOn ==
  ASSUME TypeOK, NotCounting, NEW w \in Window, cache'[w] # None
  PROVE  \/ cache'[w].persisted = cache[w].persisted
         \/ \E h \in Handler : /\ w \in req[h].holds /\ w \notin req'[h].holds
                               /\ cache'[w].persisted = cache[w].count
<1>1. cache \in [Window -> Entry \cup {None}] /\ req \in [Handler -> Request]
  BY DEF TypeOK, Request
<1>2. ASSUME NEW h \in Handler, StartCold(h) PROVE cache'[w] = cache[w]
  BY <1>2 DEF StartCold
<1>3. ASSUME NEW h \in Handler, Upsert(h) \/ Answer(h) \/ Refused(h) PROVE cache'[w] = cache[w]
  BY <1>3 DEF Upsert, Answer, Refused
<1>4. ASSUME NEW h \in Handler, Settle(h)
      PROVE  \/ cache'[w] = cache[w]
             \/ /\ w \in req[h].holds /\ w \notin req'[h].holds
                /\ cache'[w].persisted = cache[w].count
  <2> DEFINE expired == {v \in Window : ~LiveAt(cache[v], req[h].now)}
             kept == Without(req, expired)
  <2>1. req' = [kept EXCEPT ![h].pc = "answering", ![h].holds = {}]
    BY <1>4 DEF Settle
  <2>2. expired \in SUBSET Window
    OBVIOUS
  <2>3. cache'[w] = IF w \in req[h].holds THEN [cache[w] EXCEPT !.persisted = cache[w].count] ELSE cache[w]
    BY <1>4 DEF Settle
  <2>4. cache[w] \in Entry
    BY <1>1, <1>4 DEF Settle, LiveAt
  <2> HIDE DEF expired
  <2>5. kept \in [Handler -> Request]
    BY <1>1, <2>2, WithoutType
  <2> HIDE DEF kept
  <2>6. req'[h].holds = {}
    BY <2>1, <2>5 DEF Request
  <2> QED BY <2>3, <2>4, <2>6 DEF Entry
<1>5. ASSUME NEW v \in Window, Evicted(v) PROVE cache'[w] = cache[w]
  BY <1>1, <1>5 DEF Evicted
<1>6. ~Restart
  BY DEF Restart
<1>7. Tick \/ UNCHANGED vars => cache' = cache
  BY DEF Tick, vars
<1> QED BY <1>2, <1>3, <1>4, <1>5, <1>6, <1>7 DEF NotCounting

LEMMA DriftOther ==
  ASSUME QuotaInv, QuotaInv', DriftInv, NotCounting
  PROVE  DriftInv'
<1>1. TypeOK /\ TurnsApart
  BY DEF QuotaInv
<1> SUFFICES ASSUME NEW w \in Window, cache'[w] # None, cache'[w].count <= Max[w], w \notin spoilt'
             PROVE  /\ cache'[w].count >= cache'[w].persisted + MaxDrift => Stored(w)' = cache'[w].count
                    /\ cache'[w].persisted + Slack(Cardinality(Holders(w)') + 1)
                         <= Stored(w)' + Slack(Cardinality(Handler))
  BY DEF DriftInv, Drift
<1>2. w \notin spoilt /\ Latest(w)' = Latest(w)
  BY OtherLatest
<1>3. cache[w] # None /\ cache'[w].count = cache[w].count /\ cache'[w].resetAt = cache[w].resetAt
  BY <1>1, MemoryGoesOn
<1>4. Stored(w)' = Stored(w) /\ Stored(w) \in Nat
  BY <1>1, <1>2, <1>3, LatestType DEF Stored
<1>5. cache[w].count \in Nat /\ cache[w].persisted \in Nat /\ MaxDrift \in Nat \ {0}
  BY <1>1, <1>3, Parameters DEF TypeOK, Entry
<1>6. /\ cache[w].count >= cache[w].persisted + MaxDrift => Stored(w) = cache[w].count
      /\ cache[w].persisted + Slack(Cardinality(Holders(w)) + 1)
           <= Stored(w) + Slack(Cardinality(Handler))
  BY <1>2, <1>3 DEF DriftInv, Drift
<1>7. Holders(w)' \in SUBSET Holders(w) /\ Holders(w) \in SUBSET Handler
  <2>1. \A g \in Handler : w \in req'[g].holds => w \in req[g].holds
    <3>1. ASSUME NEW g \in Handler, w \in req'[g].holds PROVE w \in req[g].holds
      <4>1. GoesOn(g) \/ req'[g] = Idle \/ Reads(g)
        BY <1>1, RequestsGoOn
      <4> QED BY <3>1, <4>1 DEF GoesOn, Idle, Reads
    <3> QED BY <3>1
  <2> QED BY <2>1 DEF Holders
<1>8. PICK H : H = Holders(w)'
  OBVIOUS
<1> DEFINE n == Cardinality(Holders(w))
           m == Cardinality(H)
           k == Cardinality(Handler)
<1>9. n \in Nat /\ m \in Nat /\ k \in Nat /\ m <= n
  BY <1>7, <1>8, HoldersFinite
<1>10. CASE cache'[w].persisted = cache[w].persisted
  <2>1. m + 1 \in Nat /\ n + 1 \in Nat /\ m + 1 <= n + 1
    BY <1>9
  <2>2. Slack(m + 1) <= Slack(n + 1) /\ Slack(m + 1) \in Nat /\ Slack(n + 1) \in Nat /\ Slack(k) \in Nat
    BY <1>9, <2>1, Slacks
  <2> HIDE DEF n, m, k
  <2>3. /\ cache[w].persisted + Slack(n + 1) <= Stored(w) + Slack(k)
        /\ Cardinality(Holders(w)') = m
    BY <1>6, <1>8 DEF n, m, k
  <2>4. cache[w].persisted + Slack(m + 1) <= Stored(w) + Slack(k)
    BY <1>4, <1>5, <2>2, <2>3
  <2> QED BY <1>3, <1>4, <1>6, <1>10, <2>3, <2>4 DEF k
<1>11. CASE cache'[w].persisted # cache[w].persisted
  <2>1. PICK h \in Handler : /\ w \in req[h].holds /\ w \notin req'[h].holds
                             /\ cache'[w].persisted = cache[w].count
    BY <1>1, <1>11, PersistedGoesOn
  <2>2. h \in Holders(w) /\ h \notin H
    BY <1>8, <2>1 DEF Holders
  <2>3. m + 1 <= k /\ m + 1 <= n
    <3>1. H \in SUBSET Handler /\ h \in Handler \ H /\ H \cup {h} \in SUBSET Holders(w)
      BY <1>7, <1>8, <2>2
    <3>2. m + 1 <= k /\ Cardinality(H \cup {h}) = m + 1
      BY <3>1, HoldersFinite
    <3>3. Cardinality(H \cup {h}) <= n
      BY <1>7, <3>1, HoldersFinite
    <3> QED BY <3>2, <3>3
  <2>4. /\ Slack(m + 1) <= Slack(k) /\ Slack(m + 1) <= Slack(n) /\ Slack(n + 1) = Slack(n) + MaxDrift - 1
        /\ Slack(m + 1) \in Nat /\ Slack(n) \in Nat /\ Slack(k) \in Nat
    <3>1. m + 1 \in Nat
      BY <1>9
    <3> QED BY <1>9, <2>3, <3>1, Slacks
  <2> HIDE DEF n, m, k
  <2>5. /\ cache[w].persisted + Slack(n + 1) <= Stored(w) + Slack(k)
        /\ Cardinality(Holders(w)') = m
    BY <1>6, <1>8 DEF n, m, k
  <2>6. cache[w].count + Slack(m + 1) <= Stored(w) + Slack(k)
    <3>1. CASE cache[w].count >= cache[w].persisted + MaxDrift
      BY <1>4, <1>5, <1>6, <2>4, <3>1
    <3>2. CASE ~(cache[w].count >= cache[w].persisted + MaxDrift)
      <4>1. cache[w].count <= cache[w].persisted + MaxDrift - 1
        BY <1>5, <3>2
      <4> QED BY <1>4, <1>5, <2>4, <2>5, <4>1
    <3> QED BY <3>1, <3>2
  <2>7. ~(cache'[w].count >= cache'[w].persisted + MaxDrift)
    BY <1>3, <1>5, <2>1
  <2> QED BY <1>3, <1>4, <2>1, <2>5, <2>6, <2>7 DEF k
<1> QED BY <1>10, <1>11

\* A request that counts adds its upsert, the last one, or leaves what the row
\* will hold.
LEMMA CountLatest ==
  ASSUME QuotaInv, QuotaInv', NEW h \in Handler, NEW r \in Request,
         req[h].pc \in {"idle", "reading"}, CountAs(h, r), NEW w \in Window
  PROVE  Latest(w)' = IF w \in req'[h].dirty THEN req'[h].counts[w] ELSE Latest(w)
<1>1. TypeOK /\ TurnsApart /\ TypeOK' /\ TurnsApart'
  BY DEF QuotaInv
<1>2. /\ req'[h].turn = arrivals
      /\ req'[h].pc = IF req'[h].dirty = {} THEN "answering" ELSE "writing"
      /\ row'[w] = row[w]
  BY <1>1, CountEffect
<1>3. \A g \in Handler \ {h} :
        /\ req'[g].pc = req[g].pc /\ req'[g].counts = req[g].counts
        /\ req'[g].turn = req[g].turn /\ req'[g].dirty = req[g].dirty
  BY <1>1, CountEffect
<1>4. h \notin Pending(w) /\ \A g \in Pending(w) : g \in Handler \ {h}
  BY DEF Pending
<1>5. CASE w \in req'[h].dirty
  <2>1. h \in Pending(w)' /\ \A g \in Pending(w)' : g = h \/ g \in Pending(w)
    BY <1>2, <1>3, <1>5 DEF Pending
  <2>2. arrivals \in Nat /\ \A g \in Pending(w) : req[g].turn \in Nat /\ req[g].turn < arrivals
    BY <1>1 DEF TypeOK, TurnsApart, Pending
  <2>3. \A g \in Pending(w)' : req'[g].turn \in Nat /\ req'[g].turn <= req'[h].turn
    BY <1>2, <1>3, <1>4, <2>1, <2>2
  <2>4. \A g \in Pending(w)' : req'[g].turn = req'[h].turn => g = h
    BY <1>2, <1>3, <1>4, <2>1, <2>2
  <2>5. Latest(w)' = req'[h].counts[w]
    BY <2>1, <2>3, <2>4, LastIs DEF Latest
  <2> QED BY <1>5, <2>5
<1>6. CASE w \notin req'[h].dirty
  <2>1. Pending(w)' = Pending(w)
    BY <1>3, <1>4, <1>6 DEF Pending
  <2>2. \A g \in Pending(w) : req'[g].turn = req[g].turn /\ req'[g].counts = req[g].counts
    BY <1>3, <1>4
  <2> QED BY <1>1, <1>2, <1>6, <2>1, <2>2, LatestKept
<1> QED BY <1>5, <1>6

LEMMA DriftCount ==
  ASSUME QuotaInv, QuotaInv', NotCounted, DriftInv, NEW h \in Handler, NEW r \in Request,
         req[h].pc \in {"idle", "reading"}, CountAs(h, r)
  PROVE  DriftInv'
<1>1. TypeOK /\ TurnsApart /\ TypeOK' /\ TurnsApart'
  BY DEF QuotaInv
<1> SUFFICES ASSUME NEW w \in Window, cache'[w] # None, cache'[w].count <= Max[w], w \notin spoilt'
             PROVE  /\ cache'[w].count >= cache'[w].persisted + MaxDrift => Stored(w)' = cache'[w].count
                    /\ cache'[w].persisted + Slack(Cardinality(Holders(w)') + 1)
                         <= Stored(w)' + Slack(Cardinality(Handler))
  BY DEF DriftInv, Drift
<1>2. PICK e : e = Counted(r, w)
  OBVIOUS
<1>3. /\ cache'[w] = e /\ e \in Entry
      /\ (w \in req'[h].dirty) <=> Dirty(w, e)
      /\ req'[h].holds = req'[h].dirty
      /\ req'[h].counts[w] = [count |-> e.count, resetAt |-> e.resetAt]
      /\ \A g \in Handler \ {h} : req'[g].holds = req[g].holds \ Replaced(r)
      /\ spoilt' = (spoilt \ Replaced(r)) \cup {v \in Window : AdoptsStale(r, v)}
  <2>1. /\ cache'[w] = e /\ e \in Entry
        /\ req'[h].dirty = {v \in Window : Dirty(v, Counted(r, v))}
        /\ req'[h].holds = req'[h].dirty
    BY <1>1, <1>2, CountEffect
  <2>2. req'[h].counts[w] = [count |-> e.count, resetAt |-> e.resetAt]
    BY <1>1, <1>2, CountEffect
  <2>3. \A g \in Handler \ {h} : req'[g].holds = req[g].holds \ Replaced(r)
    BY <1>1, CountEffect
  <2>4. spoilt' = (spoilt \ Replaced(r)) \cup {v \in Window : AdoptsStale(r, v)}
    BY <1>1, CountEffect
  <2> QED BY <1>2, <2>1, <2>2, <2>3, <2>4
<1>4. /\ e.count \in Nat /\ e.persisted \in Nat /\ e.persisted < e.count /\ e.count <= Max[w]
      /\ Max[w] \in Nat /\ MaxDrift \in Nat \ {0}
  <2>1. e.persisted < e.count
    BY <1>1, <1>2, CountedEffect
  <2> QED BY <1>3, <2>1, Parameters DEF Entry
<1>5. (w \in req'[h].dirty) <=> e.count >= e.persisted + MaxDrift
  BY <1>3, <1>4 DEF Dirty
<1>6. (w \in Replaced(r) \/ w \notin spoilt) /\ ~AdoptsStale(r, w)
  BY <1>3
<1>7. Latest(w)' = IF w \in req'[h].dirty THEN req'[h].counts[w] ELSE Latest(w)
  BY CountLatest
<1>8. PICK H : H = Holders(w)'
  OBVIOUS
<1> DEFINE m == Cardinality(H)
           k == Cardinality(Handler)
<1>9. H \in SUBSET Handler /\ m \in Nat /\ k \in Nat /\ m <= k
  <2>1. H \in SUBSET Handler
    BY <1>8 DEF Holders
  <2> QED BY <2>1, HoldersFinite
<1>10. CASE w \in req'[h].dirty
  <2>1. req'[h].counts[w] \in Checkpoint /\ req'[h].counts[w] # None
    <3>1. req'[h].counts[w] \in Checkpoint
      BY <1>3 DEF Checkpoint, Entry
    <3> QED BY <3>1, Parameters DEF Checkpoint
  <2>2. Stored(w)' = e.count
    BY <1>3, <1>7, <1>10, <2>1 DEF Stored
  <2>3. /\ Slack(m + 1) <= Slack(k + 1) /\ Slack(k + 1) = Slack(k) + MaxDrift - 1
        /\ Slack(m + 1) \in Nat /\ Slack(k) \in Nat
    <3>1. m + 1 \in Nat /\ k + 1 \in Nat /\ m + 1 <= k + 1
      BY <1>9
    <3> QED BY <1>9, <3>1, Slacks
  <2> HIDE DEF m, k
  <2>4. e.persisted + MaxDrift <= e.count
    BY <1>4, <1>5, <1>10
  <2>5. e.persisted + Slack(m + 1) <= e.count + Slack(k)
    BY <1>4, <2>3, <2>4
  <2> QED BY <1>3, <1>8, <2>2, <2>5 DEF m, k
<1>11. CASE w \notin req'[h].dirty
  <2>1. Latest(w)' = Latest(w) /\ ~(e.count >= e.persisted + MaxDrift)
    BY <1>5, <1>7, <1>11
  <2>2. Latest(w) \in Checkpoint \cup {None} /\ Stored(w)' \in Nat
    <3>1. Latest(w) \in Checkpoint \cup {None}
      BY <1>1, LatestType
    <3>2. Stored(w)' = IF Latest(w) # None /\ Latest(w).resetAt = e.resetAt THEN Latest(w).count ELSE 0
      BY <1>3, <2>1 DEF Stored
    <3> QED BY <3>1, <3>2 DEF Checkpoint
  <2>3. h \in Handler \ H
    BY <1>3, <1>8, <1>11 DEF Holders
  <2>4. Slack(m + 1) <= Slack(k) /\ Slack(m + 1) \in Nat /\ Slack(k) \in Nat
    <3>1. m + 1 <= k
      <4>1. H \in SUBSET Handler
        BY <1>9
      <4>2. Cardinality(H) + 1 <= Cardinality(Handler)
        BY <2>3, <4>1, HoldersFinite
      <4> QED BY <4>2
    <3>2. m + 1 \in Nat
      BY <1>9
    <3> QED BY <1>9, <3>1, <3>2, Slacks
  <2>5. CASE e.persisted <= Stored(w)'
    <3> HIDE DEF m, k
    <3>1. PICK s \in Nat : s = Stored(w)'
      BY <2>2
    <3>2. e.persisted + Slack(m + 1) <= s + Slack(k)
      BY <1>4, <2>4, <2>5, <3>1
    <3> QED BY <1>3, <1>8, <2>1, <3>1, <3>2 DEF m, k
  <2>6. CASE Adopts(r, w)
    <3>1. Pending(w) = {} /\ row[w] = r.read[w] /\ r.read[w] # None
      BY <1>6, <2>6 DEF AdoptsStale, Adopts, LiveAt
    <3>2. e.resetAt = r.read[w].resetAt /\ e.persisted = r.read[w].count
      BY <1>1, <1>2, <2>6, CountedFrom
    <3>3. Latest(w) = r.read[w]
      BY <3>1 DEF Latest
    <3>4. Stored(w)' = e.persisted
      BY <1>3, <2>1, <3>1, <3>2, <3>3 DEF Stored
    <3> QED BY <1>4, <2>5, <3>4
  <2>7. CASE ~Adopts(r, w) /\ ~LiveAt(cache[w], r.now)
    <3>1. e.persisted = 0
      <4>1. e = [count |-> 1, resetAt |-> r.now + Length[w], persisted |-> 0]
        BY <1>1, <1>2, <2>7, CountedFrom
      <4> QED BY <4>1
    <3> QED BY <2>2, <2>5, <3>1
  <2>8. CASE ~Adopts(r, w) /\ LiveAt(cache[w], r.now)
    <3>1. /\ w \notin Replaced(r) /\ cache[w] # None /\ cache[w] \in Entry
          /\ e.count = cache[w].count + 1 /\ e.resetAt = cache[w].resetAt /\ e.persisted = cache[w].persisted
      BY <1>1, <1>2, <2>8, CountedFrom
    <3>2. cache[w].count <= Max[w]
      BY <1>4, <3>1 DEF Entry
    <3>3. e.persisted + Slack(Cardinality(Holders(w)) + 1) <= Stored(w) + Slack(k)
      BY <1>6, <3>1, <3>2 DEF DriftInv, Drift
    <3>4. Stored(w)' = Stored(w) /\ Stored(w) \in Nat
      BY <1>1, <1>3, <2>1, <3>1, LatestType DEF Stored
    <3>5. H \in SUBSET Holders(w) /\ Holders(w) \in SUBSET Handler
      BY <1>3, <1>8, <2>3 DEF Holders
    <3>6. Slack(m + 1) <= Slack(Cardinality(Holders(w)) + 1) /\ Slack(Cardinality(Holders(w)) + 1) \in Nat
      <4>1. Cardinality(Holders(w)) \in Nat /\ m <= Cardinality(Holders(w))
        BY <3>5, HoldersFinite
      <4>2. m + 1 \in Nat /\ Cardinality(Holders(w)) + 1 \in Nat /\ m + 1 <= Cardinality(Holders(w)) + 1
        BY <1>9, <4>1
      <4> QED BY <4>2, Slacks
    <3> HIDE DEF m, k
    <3>7. e.persisted + Slack(m + 1) <= Stored(w) + Slack(k)
      BY <1>4, <2>4, <3>3, <3>4, <3>6
    <3> QED BY <1>3, <1>8, <2>1, <3>4, <3>7 DEF m, k
  <2> QED BY <2>6, <2>7, <2>8
<1> QED BY <1>10, <1>11

\* The inductive invariant of the budget and the drift.
CounterInv == QuotaInv /\ NotCounted /\ BudgetInv /\ ExactInv /\ DriftInv

LEMMA CounterInits == Init => CounterInv
<1> SUFFICES ASSUME Init PROVE CounterInv
  OBVIOUS
<1>1. DriftInv
  BY DEF Init, DriftInv, Drift
<1> QED BY <1>1, InitInv, InitBudget DEF CounterInv

LEMMA CounterNext == CounterInv /\ [Next]_vars => CounterInv'
<1> SUFFICES ASSUME CounterInv, [Next]_vars PROVE CounterInv'
  OBVIOUS
<1>1. QuotaInv /\ NotCounted /\ BudgetInv /\ ExactInv /\ DriftInv
  BY DEF CounterInv
<1>2. QuotaInv' /\ NotCounted' /\ BudgetInv' /\ ExactInv'
  BY <1>1, NextInv, NextBudget
<1>3. DriftInv'
  <2>1. CASE NotCounting
    BY <1>1, <1>2, <2>1, DriftOther
  <2>2. ASSUME NEW h \in Handler, StartWarm(h) \/ CountCold(h) PROVE DriftInv'
    <3>1. PICK r \in Request : CountAs(h, r) /\ req[h].pc \in {"idle", "reading"}
      BY <1>1, <2>2, Brings DEF QuotaInv
    <3> QED BY <1>1, <1>2, <3>1, DriftCount
  <2> QED BY <2>1, <2>2, NextKinds
<1> QED BY <1>2, <1>3 DEF CounterInv

----------------------------------------------------------------------------
(* The theorems *)

LEMMA AlwaysQuotaInv == Spec => []QuotaInv
BY InitInv, NextInv, PTL DEF Spec

\* The counters, the entries and the requests in flight stay in their types.
THEOREM QuotaTypes == Spec => []TypeOK
<1>1. QuotaInv => TypeOK
  BY DEF QuotaInv
<1> QED BY <1>1, AlwaysQuotaInv, PTL

\* A window that refuses in memory has its refusal in the row, or in an upsert
\* that will be the last to reach it, unless the database refused a checkpoint.
THEOREM RefusalReachesTheRow == Spec => []RefusalDurable
<1>1. QuotaInv => RefusalDurable
  BY DEF QuotaInv
<1> QED BY <1>1, AlwaysQuotaInv, PTL

LEMMA AlwaysCounterInv == Spec => []CounterInv
BY CounterInits, CounterNext, PTL DEF Spec

\* No window lets more requests through than its cap and what memory forgot of
\* it, and without a restart or an eviction memory forgets nothing: whatever the
\* number of requests, the order of their upserts and the rows they reload.
THEOREM BudgetIsKept == Spec => []BudgetKept
<1>1. CounterInv => BudgetKept
  <2> SUFFICES ASSUME CounterInv, NEW w \in Window,
                      LiveAt(cache[w], now), cache[w].resetAt = book[w].resetAt
               PROVE  /\ book[w].through + cache[w].count <= Max[w] + book[w].requests
                      /\ faults = 0 => book[w].requests = cache[w].count
    BY DEF BudgetKept
  <2>1. TypeOK /\ Budget(w) /\ ExactInv
    BY DEF CounterInv, QuotaInv, BudgetInv
  <2>2. cache[w] # None /\ cache[w].resetAt > now
    BY DEF LiveAt
  <2>3. /\ book[w].through \in Nat /\ book[w].requests \in Nat /\ cache[w].count \in Nat
        /\ Max[w] \in Nat
    BY <2>1, <2>2, Parameters DEF TypeOK, Entry
  <2>4. book[w].through + Cardinality(Hopeful(w)) + cache[w].count <= Max[w] + book[w].requests
    BY <2>1, <2>2 DEF Budget, InBudget, Promised
  <2>5. book[w].through + cache[w].count <= Max[w] + book[w].requests
    BY <2>3, <2>4, HopefulFinite
  <2>6. faults = 0 => book[w].requests = cache[w].count
    BY <2>1, <2>2 DEF ExactInv
  <2> QED BY <2>5, <2>6
<1> QED BY <1>1, AlwaysCounterInv, PTL

\* A restart loses at most MAX_DRIFT - 1 increments of a window for each request
\* in flight, as long as the row is not refused and no stale row is adopted.
THEOREM DriftIsBounded == Spec => []DriftBounded
<1>1. CounterInv => DriftBounded
  <2> SUFFICES ASSUME CounterInv, NEW w \in Window,
                      LiveAt(cache[w], now), cache[w].count <= Max[w], w \notin spoilt
               PROVE  cache[w].count <= (IF LiveAt(Latest(w), now) THEN Latest(w).count ELSE 0)
                                          + (MaxDrift - 1) * Cardinality(Handler)
    BY DEF DriftBounded
  <2>1. TypeOK /\ TurnsApart /\ Drift(w)
    BY DEF CounterInv, QuotaInv, DriftInv
  <2>2. cache[w] # None /\ cache[w].resetAt > now /\ cache[w] \in Entry
    BY <2>1 DEF LiveAt, TypeOK
  <2>3. /\ cache[w].count >= cache[w].persisted + MaxDrift => Stored(w) = cache[w].count
        /\ cache[w].persisted + Slack(Cardinality(Holders(w)) + 1) <= Stored(w) + Slack(Cardinality(Handler))
    BY <2>1, <2>2 DEF Drift
  <2>4. Stored(w) <= (IF LiveAt(Latest(w), now) THEN Latest(w).count ELSE 0)
        /\ Stored(w) \in Nat
        /\ (IF LiveAt(Latest(w), now) THEN Latest(w).count ELSE 0) \in Nat
    <3>1. Latest(w) \in Checkpoint \cup {None} /\ Stored(w) \in Nat
      BY <2>1, LatestType
    <3>2. (IF LiveAt(Latest(w), now) THEN Latest(w).count ELSE 0) \in Nat
      BY <3>1 DEF LiveAt, Checkpoint
    <3>3. CASE Latest(w) # None /\ Latest(w).resetAt = cache[w].resetAt
      <4>1. LiveAt(Latest(w), now) /\ Stored(w) = Latest(w).count
        BY <2>2, <3>3 DEF LiveAt, Stored
      <4> QED BY <3>1, <3>2, <4>1
    <3>4. CASE ~(Latest(w) # None /\ Latest(w).resetAt = cache[w].resetAt)
      <4>1. Stored(w) = 0
        BY <3>4 DEF Stored
      <4> QED BY <3>2, <4>1
    <3> QED BY <3>1, <3>2, <3>3, <3>4
  <2>5. PICK n, k \in Nat : n = Cardinality(Holders(w)) /\ k = Cardinality(Handler)
    <3>1. Holders(w) \in SUBSET Handler
      BY DEF Holders
    <3> QED BY <3>1, HoldersFinite
  <2>6. /\ Slack(n + 1) = Slack(n) + MaxDrift - 1 /\ Slack(n) \in Nat /\ Slack(k) \in Nat
        /\ cache[w].persisted \in Nat /\ cache[w].count \in Nat /\ MaxDrift \in Nat \ {0}
    BY <2>2, <2>5, Slacks, Parameters DEF Entry
  <2>7. cache[w].count <= Stored(w) + Slack(k)
    <3>1. CASE cache[w].count >= cache[w].persisted + MaxDrift
      BY <2>3, <2>4, <2>6, <3>1
    <3>2. CASE ~(cache[w].count >= cache[w].persisted + MaxDrift)
      <4>1. cache[w].count <= cache[w].persisted + MaxDrift - 1
        BY <2>6, <3>2
      <4>2. cache[w].persisted + Slack(n + 1) <= Stored(w) + Slack(k)
        BY <2>3, <2>5
      <4> QED BY <2>4, <2>6, <4>1, <4>2
    <3> QED BY <3>1, <3>2
  <2>8. cache[w].count <= (IF LiveAt(Latest(w), now) THEN Latest(w).count ELSE 0) + Slack(k)
    BY <2>4, <2>6, <2>7
  <2> QED BY <2>5, <2>8 DEF Slack
<1> QED BY <1>1, AlwaysCounterInv, PTL
=============================================================================
