------------------------------ MODULE QuotaProps ------------------------------
(* What the creation quota promises, whatever the interleaving. *)
EXTENDS Quota

\* Every variable stays in its type; `persisted` never runs ahead of the count
\* (consumeCreationQuota only ever copies the count into it).
TypeOK ==
  /\ now \in Nat
  /\ row \in [Window -> Checkpoint \cup {None}]
  /\ cache \in [Window -> Entry \cup {None}]
  /\ \A w \in Window : cache[w] # None => cache[w].persisted <= cache[w].count
  /\ req \in [Handler -> [pc : {"idle", "reading", "writing", "written", "answering"},
                          now : Nat, cold : SUBSET Window, read : [Window -> Checkpoint \cup {None}],
                          dirty : SUBSET Window, holds : SUBSET Window,
                          counts : [Window -> Checkpoint \cup {None}], turn : Nat]]
  /\ arrivals \in Nat
  /\ faults \in Nat
  /\ book \in [Window -> [resetAt : Nat, requests : Nat, through : Nat]]
  /\ spoilt \in SUBSET Window

\* The row as it will be once the upserts in flight have run is past the cap.
RowWillRefuse(w) ==
  \/ Pending(w) = {} /\ row[w] # None /\ row[w].count > Max[w]
  \/ \E h \in Pending(w) :
       /\ \A g \in Pending(w) : req[g].turn <= req[h].turn
       /\ req[h].counts[w].count > Max[w]

\* A window that refuses in memory refuses after a restart as well: its row is
\* past the cap, or the upsert that takes it there is in flight, or the next
\* request will issue it (crossing the cap "makes the refusal durable").
\* Only a checkpoint the database refused, or a reload from a row that had
\* changed or was about to, can undo this.
RefusalDurable ==
  \A w \in Window :
    (cache[w] # None /\ cache[w].count > Max[w] /\ w \notin spoilt)
      => RowWillRefuse(w)

\* That row, or None.
Latest(w) ==
  IF Pending(w) = {} THEN row[w]
  ELSE LET h == CHOOSE h \in Pending(w) : \A g \in Pending(w) : req[g].turn <= req[h].turn
       IN  req[h].counts[w]

\* The increments a restart may lose: each request that waits for its upsert
\* may let MAX_DRIFT - 1 more go unwritten, because the entry then takes the
\* current count as persisted, not the count that was written.
DriftBounded ==
  \A w \in Window :
    (LiveAt(cache[w], now) /\ cache[w].count <= Max[w] /\ w \notin spoilt)
      => cache[w].count <= (IF LiveAt(Latest(w), now) THEN Latest(w).count ELSE 0)
                             + (MaxDrift - 1) * Cardinality(Handler)

\* No window lets more requests through than its cap and what memory forgot of
\* it; and memory forgets nothing while it is neither restarted nor evicted.
BudgetKept ==
  \A w \in Window :
    (LiveAt(cache[w], now) /\ cache[w].resetAt = book[w].resetAt)
      => /\ book[w].through + cache[w].count <= Max[w] + book[w].requests
         /\ faults = 0 => book[w].requests = cache[w].count
=============================================================================
