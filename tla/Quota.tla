-------------------------------- MODULE Quota --------------------------------
(***************************************************************************)
(* The creation quota: per-user windows whose counters live in memory and  *)
(* are checkpointed in `rate_limits` rows only now and then.               *)
(*                                                                         *)
(* One user and one resource are modelled, with every window the request   *)
(* counts against (minute and hour); the keys of other callers only matter *)
(* through eviction.  A step is what runs between two awaits: the read of  *)
(* the cold rows, the counting, the upsert (in the order the upserts were  *)
(* issued, because the write lock is FIFO), what follows the upsert, and   *)
(* the answer of the middleware.                                           *)
(***************************************************************************)
EXTENDS Naturals, FiniteSets

CONSTANTS
  Handler,     \* requests in flight
  Window,      \* the rate-limit keys one request counts against
  Max,         \* Max[w]: the cap of a window
  Length,      \* Length[w]: windowMs
  MaxDrift,    \* MAX_DRIFT
  None,        \* no row, no entry
  MaxTime,     \* bound on the clock
  MaxRequests, \* bound on the requests that arrive
  MaxFaults    \* bound on restarts, evictions and refused writes

ASSUME Parameters ==
  /\ IsFiniteSet(Handler)
  /\ Max \in [Window -> Nat \ {0}]
  /\ Length \in [Window -> Nat \ {0}]
  /\ MaxDrift \in Nat \ {0}
  /\ MaxTime \in Nat
  /\ MaxRequests \in Nat
  /\ MaxFaults \in Nat
  /\ None \notin [count : Nat, resetAt : Nat]
  /\ None \notin [count : Nat, resetAt : Nat, persisted : Nat]

VARIABLES
  now,      \* Date.now()
  row,      \* the committed rate_limits row of a window, or None
  cache,    \* the cached Entry of a window, or None
  req,      \* the requests in flight
  arrivals, \* requests counted so far; also the order of their upserts
  faults,   \* restarts, evictions and refused writes so far
  book,     \* history: of the latest window counted in, the requests counted and let through
  spoilt    \* history: windows whose entry had a checkpoint refused, or began from a stale one

vars == <<now, row, cache, req, arrivals, faults, book, spoilt>>

Checkpoint == [count : Nat, resetAt : Nat]
Entry      == [count : Nat, resetAt : Nat, persisted : Nat]

\* holds: windows whose cached entry is the object this request has in `dirty`;
\* an entry that was replaced or dropped is no longer held.
Idle == [pc |-> "idle", now |-> 0, cold |-> {}, read |-> [w \in Window |-> None],
         dirty |-> {}, holds |-> {}, counts |-> [w \in Window |-> None], turn |-> 0]

Init ==
  /\ now = 0
  /\ row = [w \in Window |-> None]
  /\ cache = [w \in Window |-> None]
  /\ req = [h \in Handler |-> Idle]
  /\ arrivals = 0
  /\ faults = 0
  /\ book = [w \in Window |-> [resetAt |-> 0, requests |-> 0, through |-> 0]]
  /\ spoilt = {}

-----------------------------------------------------------------------------
(* The helpers of creation-quota.ts. *)

\* live(): a cached entry or a stored row counts until its window ends.
LiveAt(entry, t) == entry # None /\ entry.resetAt > t

\* A request that held an entry which is replaced or dropped settles nothing.
Without(requests, gone) ==
  [h \in Handler |-> [requests[h] EXCEPT !.holds = @ \ gone]]

\* A cold key adopts the row the request read, whatever the cache holds by now.
Adopts(r, w) == w \in r.cold /\ LiveAt(r.read[w], r.now)

\* Mutant: the row's count is taken for the drift only.
AdoptedFromZero(r, w) ==
  IF Adopts(r, w)
    THEN [count |-> 0, resetAt |-> r.read[w].resetAt, persisted |-> r.read[w].count]
    ELSE cache[w]

Adopted(r, w) ==
  IF Adopts(r, w)
    THEN [count |-> r.read[w].count, resetAt |-> r.read[w].resetAt, persisted |-> r.read[w].count]
    ELSE cache[w]

Current(r, w) ==
  IF LiveAt(Adopted(r, w), r.now)
    THEN Adopted(r, w)
    ELSE [count |-> 0, resetAt |-> r.now + Length[w], persisted |-> 0]

Counted(r, w) == [Current(r, w) EXCEPT !.count = @ + 1]

Replaced(r) == {w \in Window : Adopts(r, w) \/ ~LiveAt(cache[w], r.now)}

\* Mutants: the crossing of the cap is not written; the drift is one increment too long.
OnDriftOnly(w, entry) ==
  /\ entry.persisted <= Max[w]
  /\ entry.count >= entry.persisted + MaxDrift
OneTooLate(w, entry) ==
  /\ entry.persisted <= Max[w]
  /\ entry.count > Max[w] \/ entry.count > entry.persisted + MaxDrift

\* The row is written when the stored value would change a decision.
Dirty(w, entry) ==
  /\ entry.persisted <= Max[w]
  /\ entry.count > Max[w] \/ entry.count >= entry.persisted + MaxDrift

-----------------------------------------------------------------------------
\* Upserts of a window that were issued and have not run yet.
Pending(w) == {h \in Handler : req[h].pc = "writing" /\ w \in req[h].dirty}

\* The row this request read is adopted although it changed since, or an upsert
\* in flight is about to change it.
AdoptsStale(r, w) == Adopts(r, w) /\ (Pending(w) # {} \/ row[w] # r.read[w])

(* consumeCreationQuota *)

\* The loop over the windows: count, decide what to write, report the totals.
CountAs(h, r) ==
  LET after == [w \in Window |-> Counted(r, w)]
      dirty == {w \in Window : Dirty(w, after[w])}
      done  == [r EXCEPT !.pc = IF dirty = {} THEN "answering" ELSE "writing",
                         !.dirty = dirty, !.holds = dirty, !.turn = arrivals,
                         !.counts = [w \in Window |->
                                       [count |-> after[w].count, resetAt |-> after[w].resetAt]]]
  IN  /\ cache' = after
      /\ req' = [Without(req, Replaced(r)) EXCEPT ![h] = done]
      /\ book' = [w \in Window |->
                    CASE book[w].resetAt = after[w].resetAt -> [book[w] EXCEPT !.requests = @ + 1]
                      [] book[w].resetAt < after[w].resetAt ->
                           [resetAt |-> after[w].resetAt, requests |-> 1, through |-> 0]
                      [] OTHER -> book[w]]
      /\ spoilt' = (spoilt \ Replaced(r)) \cup {w \in Window : AdoptsStale(r, w)}
      /\ arrivals' = arrivals + 1
      /\ UNCHANGED <<now, row, faults>>

\* Nothing is cold: the count follows without an await.
StartWarm(h) ==
  /\ req[h].pc = "idle"
  /\ arrivals < MaxRequests
  /\ \A w \in Window : LiveAt(cache[w], now)
  /\ CountAs(h, [Idle EXCEPT !.now = now])

\* The rows of the cold keys are read; live() drops what has expired.
StartCold(h) ==
  LET cold == {w \in Window : ~LiveAt(cache[w], now)}
  IN  /\ req[h].pc = "idle"
      /\ arrivals < MaxRequests
      /\ cold # {}
      /\ cache' = [w \in Window |-> IF w \in cold THEN None ELSE cache[w]]
      /\ req' = [Without(req, cold) EXCEPT ![h] =
                   [Idle EXCEPT !.pc = "reading", !.now = now, !.cold = cold,
                                !.read = [w \in Window |-> IF w \in cold THEN row[w] ELSE None]]]
      /\ spoilt' = spoilt \ cold
      /\ UNCHANGED <<now, row, arrivals, faults, book>>

CountCold(h) ==
  /\ req[h].pc = "reading"
  /\ CountAs(h, req[h])

\* The upsert of the dirty windows, in the order the upserts were issued; its
\* values were captured when it was.
Upsert(h) ==
  /\ req[h].pc = "writing"
  /\ \A g \in Handler : req[g].pc = "writing" => req[h].turn <= req[g].turn
  /\ row' = [w \in Window |-> IF w \in req[h].dirty THEN req[h].counts[w] ELSE row[w]]
  /\ req' = [req EXCEPT ![h].pc = "written"]
  /\ UNCHANGED <<now, cache, arrivals, faults, book, spoilt>>

\* After the upsert: the entries take their current count as persisted, and
\* evict() drops what has expired.
Settle(h) ==
  LET settled == [w \in Window |-> IF w \in req[h].holds
                                     THEN [cache[w] EXCEPT !.persisted = cache[w].count]
                                     ELSE cache[w]]
      expired == {w \in Window : ~LiveAt(cache[w], req[h].now)}
  IN  /\ req[h].pc = "written"
      /\ cache' = [w \in Window |-> IF w \in expired THEN None ELSE settled[w]]
      /\ req' = [Without(req, expired) EXCEPT ![h].pc = "answering", ![h].holds = {}]
      /\ spoilt' = spoilt \ expired
      /\ UNCHANGED <<now, row, arrivals, faults, book>>

-----------------------------------------------------------------------------
(* creationRateLimit: a request over a cap is refused while that window lasts. *)

\* Mutant: one request too many.
OverCapByTwo(counts, w) == counts[w].count > Max[w] + 1 /\ counts[w].resetAt > now

OverCap(counts, w) == counts[w].count > Max[w] /\ counts[w].resetAt > now

Answer(h) ==
  /\ req[h].pc = "answering"
  /\ req' = [req EXCEPT ![h] = Idle]
  /\ book' = [w \in Window |->
                IF /\ \A v \in Window : ~OverCap(req[h].counts, v)
                   /\ book[w].resetAt = req[h].counts[w].resetAt
                   /\ book[w].resetAt > now
                  THEN [book[w] EXCEPT !.through = @ + 1]
                  ELSE book[w]]
  /\ UNCHANGED <<now, row, cache, arrivals, faults, spoilt>>

-----------------------------------------------------------------------------
(* The environment. *)

Tick ==
  /\ now < MaxTime
  /\ now' = now + 1
  /\ UNCHANGED <<row, cache, req, arrivals, faults, book, spoilt>>

\* DB_BUSY or another failure of the upsert: the request answers with an error.
Refused(h) ==
  /\ faults < MaxFaults
  /\ req[h].pc = "writing"
  /\ req' = [req EXCEPT ![h] = Idle]
  /\ spoilt' = spoilt \cup req[h].dirty
  /\ faults' = faults + 1
  /\ UNCHANGED <<now, row, cache, arrivals, book>>

\* A flood of other keys: evict() drops the entry of ours that is closest to expiry.
Evicted(w) ==
  /\ faults < MaxFaults
  /\ cache[w] # None
  /\ \A v \in Window : cache[v] # None => cache[w].resetAt <= cache[v].resetAt
  /\ cache' = [cache EXCEPT ![w] = None]
  /\ req' = Without(req, {w})
  /\ spoilt' = spoilt \ {w}
  /\ faults' = faults + 1
  /\ UNCHANGED <<now, row, arrivals, book>>

\* The process restarts, or the Durable Object is evicted: only the rows stay.
Restart ==
  /\ faults < MaxFaults
  /\ cache' = [w \in Window |-> None]
  /\ req' = [h \in Handler |-> Idle]
  /\ spoilt' = {}
  /\ faults' = faults + 1
  /\ UNCHANGED <<now, row, arrivals, book>>

Next ==
  \/ \E h \in Handler :
       StartWarm(h) \/ StartCold(h) \/ CountCold(h) \/ Upsert(h) \/ Settle(h) \/ Answer(h) \/ Refused(h)
  \/ \E w \in Window : Evicted(w)
  \/ Tick
  \/ Restart

Spec == Init /\ [][Next]_vars
=============================================================================
