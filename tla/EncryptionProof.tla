--------------------------- MODULE EncryptionProof ---------------------------
(***************************************************************************)
(* Proofs that no order of failures, crashes, restarts and stale requests  *)
(* loses a row or serves from a database that meta.db cannot reopen, and   *)
(* that without a fault nothing has to be restored, for any number of      *)
(* requests, keys, writes and faults.                                      *)
(***************************************************************************)
EXTENDS EncryptionProps, FiniteSetTheorems, TLAPS

(* Requests and the latch *)

Waiting == {"idle", "asked", "admitted"}

\* The request is behind the latch.
Latched(r) == req[r].pc \notin Waiting

Latch ==
  /\ \A r \in Requests : Latched(r) => busy
  /\ \A r, s \in Requests : Latched(r) /\ Latched(s) => r = s

InitSteps   == {"copy", "copying", "aside", "promote", "drop", "record", "open"}
RotateSteps == InitSteps \cup {"drain", "prune"}

\* A request of each kind has the keys that its step needs.
WellFormed(q) ==
  \/ q = Idle
  \/ q.op = "init" /\ q.dek = None /\ q.pc = "admitted" /\ q.new = None
  \/ q.op = "init" /\ q.dek = None /\ q.pc \in InitSteps /\ q.new \in Deks
  \/ q.op = "unlock" /\ q.dek \in Deks /\ q.pc \in {"asked", "admitted", "open"} /\ q.new = None
  \/ q.op = "rotate" /\ q.dek \in Deks /\ q.pc \in {"asked", "quiesce"} /\ q.new = None
  \/ q.op = "rotate" /\ q.dek \in Deks /\ q.pc \in RotateSteps /\ q.new \in Deks
  \/ q.op = "change" /\ q.dek \in Deks /\ q.pc \in {"asked", "rewrap"} /\ q.new = None

\* The DEKs that meta.db or a client has.
Known == {m.dek : m \in meta} \cup ({req[r].dek : r \in Requests} \ {None})

\* A DEK is generated once, and there is room for every one still to come.
KeyRoom == nextKey + Cardinality(Pending) <= MaxKeys + 1

Fresh ==
  /\ \A k \in Known : k < nextKey
  /\ \A m \in meta : m.version < nextKey
  /\ \A r \in Requests : req[r].new # None => req[r].new < nextKey

ControlInv ==
  /\ TypeOK
  /\ Latch
  /\ \A r \in Requests : WellFormed(req[r])
  /\ KeyRoom
  /\ Fresh

(* Files *)

\* The file the application works on, or will after the backup is put back.
Current == IF disk["app"].key = None THEN disk["bak"] ELSE disk["app"]

\* Before init nothing but the plain database exists, and nobody has a DEK.
Uninitialized ==
  /\ meta = {} <=> ~initialized
  /\ meta = {} => /\ handle = None
                  /\ committed \subseteq {0}
                  /\ disk["bak"].key = None
                  /\ Known = {}
                  /\ disk["app"].key = Plain => committed \subseteq disk["app"].rows

AbsentIsEmpty == \A p \in Paths : disk[p].key = None => disk[p].rows = {}

\* A DEK that somebody has and that opens app.db is the recorded one, and so is
\* the key of a backup that is to be put back.
KeysAgree ==
  ~overwritten =>
    \A m \in meta :
      /\ disk["app"].key \in Known => disk["app"].key = m.dek
      /\ disk["app"].key = None /\ disk["bak"].key # None => disk["bak"].key = m.dek

\* The recorded DEK opens app.db, or a backup that holds everything.
Reopens ==
  ~overwritten =>
    \A m \in meta :
      \/ disk["app"].key = m.dek
      \/ disk["bak"].key = m.dek /\ committed \ {0} \subseteq disk["bak"].rows
      \/ committed \subseteq {0}

Kept ==
  /\ committed \ {0} \subseteq Current.rows
  /\ committed \subseteq Current.rows \cup disk["plain"].rows \cup disk["enc"].rows

FileInv ==
  /\ Uninitialized /\ AbsentIsEmpty
  /\ HandleFits /\ ServesRecorded
  /\ KeysAgree /\ Reopens /\ Kept

(* What the request behind the latch has done so far *)

InitStage(r) ==
  LET q == req[r]  app == disk["app"]  enc == disk["enc"] IN
  q.op = "init" /\ q.pc \in InitSteps =>
    /\ q.pc # "open" => meta = {}
    /\ q.pc \in {"copying", "aside"} => app.key = Plain
    /\ q.pc \in {"copying", "aside", "promote"} => enc.key = q.new
    /\ q.pc \in {"aside", "promote"} => committed \subseteq enc.rows
    /\ q.pc = "promote" => app.key = None
    /\ q.pc = "drop" => app.key = q.new /\ committed \subseteq app.rows
    /\ q.pc \in {"record", "open"} => app.key \in {None, q.new}
    /\ q.pc = "open" => /\ meta = {[dek |-> q.new, version |-> FirstVersion]}
                        /\ disk["bak"].key = None
                        /\ handle = None

RotateStage(r) ==
  LET q == req[r]  app == disk["app"]  bak == disk["bak"]  rekey == disk["rekey"] IN
  /\ q.op = "rotate" /\ q.pc = "quiesce" => handle # None
  /\ q.op = "rotate" /\ q.pc \in RotateSteps =>
       /\ q.pc # "drop" => handle = None
       /\ q.pc \in {"drain", "copy"} => app.key # None
       /\ q.pc \notin {"open", "drop"} =>
            q.new \notin Known /\ meta # {} /\ \A m \in meta : m.version < q.new
       /\ q.pc \in {"copying", "prune", "aside"} => app.key = q.dek
       /\ q.pc \in {"copying", "prune", "aside", "promote"} => rekey.key = q.new
       /\ q.pc \in {"prune", "aside"} => rekey.rows = app.rows
       /\ q.pc = "promote" => app.key = None /\ bak.key = q.dek /\ rekey.rows = bak.rows
       /\ q.pc = "record" => app.key = q.new /\ bak.key = q.dek /\ bak.rows = app.rows
       /\ q.pc \in {"open", "drop"} =>
            app.key = q.new /\ q.dek # q.new /\ \A m \in meta : m.dek = q.new
       /\ q.pc = "drop" => handle = q.new

Stages == \A r \in Requests : InitStage(r) /\ RotateStage(r)

\* The inductive invariant.
SafetyInv == ControlInv /\ FileInv /\ Stages

----------------------------------------------------------------------------
(* Keys and files *)

LEMMA KeysDiffer ==
  /\ None \notin Deks /\ Plain \notin Deks /\ Plain # None
  /\ \A k \in Deks : k \in Nat /\ 1 <= k /\ k <= MaxKeys
  BY KeyKinds, Limits DEF Deks

LEMMA NoFileHasNothing == NoFile \in File /\ NoFile.key = None /\ NoFile.rows = {}
  BY DEF NoFile, File

\* A file exists iff it has a key.
LEMMA ExistsHasKey ==
  ASSUME disk \in [Paths -> File], AbsentIsEmpty, NEW p \in Paths
  PROVE  disk[p] # NoFile <=> disk[p].key # None
<1>1. disk[p] \in File
  OBVIOUS
<1>2. disk[p] = [key |-> disk[p].key, rows |-> disk[p].rows]
  BY <1>1 DEF File
<1>3. CASE disk[p].key = None
  BY <1>2, <1>3 DEF AbsentIsEmpty, NoFile
<1>4. CASE disk[p].key # None
  BY <1>4, NoFileHasNothing
<1> QED BY <1>3, <1>4

LEMMA RemoveEffect ==
  ASSUME disk \in [Paths -> File], NEW p \in Paths, disk' = Remove(p)
  PROVE  /\ disk' \in [Paths -> File]
         /\ disk'[p].key = None /\ disk'[p].rows = {}
         /\ \A o \in Paths \ {p} : disk'[o] = disk[o]
  BY NoFileHasNothing DEF Remove

LEMMA RenameEffect ==
  ASSUME disk \in [Paths -> File], NEW p \in Paths, NEW q \in Paths, p # q,
         disk' = Rename(p, q)
  PROVE  /\ disk' \in [Paths -> File]
         /\ disk'[q] = disk[p]
         /\ disk'[p].key = None /\ disk'[p].rows = {}
         /\ \A o \in Paths \ {p, q} : disk'[o] = disk[o]
  BY NoFileHasNothing DEF Rename

LEMMA CreateEffect ==
  ASSUME disk \in [Paths -> File], NEW p \in Paths, NEW k \in Deks, disk' = Create(p, k)
  PROVE  /\ disk' \in [Paths -> File]
         /\ disk'[p].key = k /\ disk'[p].rows = {}
         /\ \A o \in Paths \ {p} : disk'[o] = disk[o]
<1>1. [key |-> k, rows |-> {}] \in File
  BY DEF File
<1> QED BY <1>1 DEF Create

LEMMA FillEffect ==
  ASSUME disk \in [Paths -> File], NEW p \in Paths, NEW q \in Paths, p # q,
         disk' = FillFrom(p, q)
  PROVE  /\ disk' \in [Paths -> File]
         /\ disk'[q].key = disk[q].key /\ disk'[q].rows = disk[p].rows
         /\ \A o \in Paths \ {q} : disk'[o] = disk[o]
<1>1. disk[p] \in File /\ disk[q] \in File
  OBVIOUS
<1>2. [disk[q] EXCEPT !.rows = disk[p].rows] \in File
  BY <1>1 DEF File
<1>3. disk' = [disk EXCEPT ![q] = [disk[q] EXCEPT !.rows = disk[p].rows]]
  BY DEF FillFrom, CopyOf
<1>4. disk'[q] = [disk[q] EXCEPT !.rows = disk[p].rows]
  BY <1>3
<1>5. disk'[q].key = disk[q].key /\ disk'[q].rows = disk[p].rows
  BY <1>1, <1>4 DEF File
<1> QED BY <1>2, <1>3, <1>5

\* What opening d on k leaves: a database if there was none.
LEMMA OpenedEffect ==
  ASSUME disk \in [Paths -> File], AbsentIsEmpty, NEW k \in Deks, disk' = OpenedOn(disk, k)
  PROVE  /\ disk' \in [Paths -> File]
         /\ disk["app"].key # None => disk' = disk
         /\ disk["app"].key = None => disk'["app"].key = k /\ disk'["app"].rows = {}
         /\ \A o \in Paths \ {"app"} : disk'[o] = disk[o]
<1>1. "app" \in Paths
  BY DEF Paths
<1>2. disk["app"] # NoFile <=> disk["app"].key # None
  BY <1>1, ExistsHasKey
<1>3. CASE disk["app"] # NoFile
  BY <1>2, <1>3 DEF OpenedOn
<1>4. CASE disk["app"] = NoFile
  <2>1. disk' = Create("app", k)
    BY <1>4 DEF OpenedOn, Create
  <2> QED BY <1>1, <1>2, <1>4, <2>1, CreateEffect
<1> QED BY <1>3, <1>4

----------------------------------------------------------------------------
(* Requests *)

\* A request that goes to another step, with a new DEK or without.
LEMMA GotoEffect ==
  ASSUME ControlInv, NEW r \in Requests, NEW pc \in Steps, Goto(r, pc)
  PROVE  \E q \in Request :
           /\ req' = [req EXCEPT ![r] = q]
           /\ q.op = req[r].op /\ q.pc = pc /\ q.dek = req[r].dek /\ q.new = req[r].new
<1> DEFINE q == [req[r] EXCEPT !.pc = pc]
<1>1. req[r] \in Request
  BY DEF ControlInv, TypeOK
<1>2. q \in Request /\ q.op = req[r].op /\ q.pc = pc /\ q.dek = req[r].dek /\ q.new = req[r].new
  BY <1>1 DEF Request
<1>3. req' = [req EXCEPT ![r] = q]
  BY DEF Goto
<1> HIDE DEF q
<1> QED BY <1>2, <1>3

Generates(r, pc, k) == req' = [req EXCEPT ![r].pc = pc, ![r].new = k]

LEMMA GenerateEffect ==
  ASSUME ControlInv, NEW r \in Requests, NEW pc \in Steps, NEW k \in Deks,
         Generates(r, pc, k)
  PROVE  \E q \in Request :
           /\ req' = [req EXCEPT ![r] = q]
           /\ q.op = req[r].op /\ q.pc = pc /\ q.dek = req[r].dek /\ q.new = k
<1> DEFINE q == [req[r] EXCEPT !.pc = pc, !.new = k]
<1>1. req[r] \in Request
  BY DEF ControlInv, TypeOK
<1>2. q \in Request /\ q.op = req[r].op /\ q.pc = pc /\ q.dek = req[r].dek /\ q.new = k
  BY <1>1 DEF Request
<1>3. req' = [req EXCEPT ![r] = q]
  BY DEF Generates
<1> HIDE DEF q
<1> QED BY <1>2, <1>3

LEMMA IdleIsRequest ==
  /\ Idle \in Request
  /\ Idle.op = "none" /\ Idle.pc = "idle" /\ Idle.dek = None /\ Idle.new = None
  /\ WellFormed(Idle)
  BY DEF Idle, Request, Operations, Steps, WellFormed

\* Request r moves on to q, and takes or releases the latch if it may.
LEMMA RequestMoves ==
  ASSUME ControlInv, NEW r \in Requests, NEW q \in Request, WellFormed(q),
         req' = [req EXCEPT ![r] = q],
         q.pc \in Waiting \/ (busy' /\ (Latched(r) \/ ~busy)),
         Latched(r) \/ (busy => busy')
  PROVE  /\ req' \in [Requests -> Request]
         /\ req'[r] = q
         /\ \A s \in Requests \ {r} : req'[s] = req[s]
         /\ Latch'
         /\ \A s \in Requests : WellFormed(req'[s])
<1>1. req \in [Requests -> Request]
  BY DEF ControlInv, TypeOK
<1>2. /\ req' \in [Requests -> Request]
      /\ req'[r] = q
      /\ \A s \in Requests \ {r} : req'[s] = req[s]
  BY <1>1
<1>3. \A s \in Requests : WellFormed(req[s])
  BY DEF ControlInv
<1>4. \A s \in Requests : WellFormed(req'[s])
  BY <1>2, <1>3
<1>5. Latch
  BY DEF ControlInv
<1>6. Latch'
  BY <1>2, <1>5 DEF Latch, Latched
<1> QED BY <1>2, <1>4, <1>6

LEMMA PendingIsFinite ==
  IsFiniteSet(Pending) /\ Cardinality(Pending) \in Nat
<1>1. Pending \subseteq Requests
  BY DEF Pending
<1> QED BY <1>1, FinitelyMany, FS_Subset, FS_CardinalityType

LEMMA PendingIsFinitePrime ==
  IsFiniteSet(Pending') /\ Cardinality(Pending') \in Nat
<1>1. Pending' \subseteq Requests
  BY DEF Pending
<1> QED BY <1>1, FinitelyMany, FS_Subset, FS_CardinalityType

\* A move that neither generates a DEK nor asks for one leaves room for the others.
LEMMA RoomStays ==
  ASSUME ControlInv, nextKey' = nextKey, Pending' \subseteq Pending
  PROVE  KeyRoom'
<1>1. Cardinality(Pending') <= Cardinality(Pending)
  BY PendingIsFinite, FS_Subset
<1>2. nextKey \in Nat
  BY Limits DEF ControlInv, TypeOK
<1>3. nextKey + Cardinality(Pending) <= MaxKeys + 1
  BY DEF ControlInv, KeyRoom
<1>4. nextKey' + Cardinality(Pending') <= MaxKeys + 1
  BY <1>1, <1>2, <1>3, Limits, PendingIsFinite, PendingIsFinitePrime
<1> QED BY <1>4 DEF KeyRoom

\* Asking for a DEK takes the room it needs.
LEMMA RoomTaken ==
  ASSUME ControlInv, nextKey' = nextKey, NEW r \in Requests,
         Pending' \subseteq Pending \cup {r},
         nextKey + Cardinality(Pending) <= MaxKeys
  PROVE  KeyRoom'
<1> DEFINE all == Pending \cup {r}
<1>0. /\ IsFiniteSet(all)
      /\ Cardinality(all) = IF r \in Pending THEN Cardinality(Pending)
                                             ELSE Cardinality(Pending) + 1
  BY PendingIsFinite, FS_AddElement
<1>1. /\ IsFiniteSet(all) /\ Cardinality(all) \in Nat
      /\ Cardinality(all) <= Cardinality(Pending) + 1
  BY <1>0, PendingIsFinite
<1>2. Cardinality(Pending') <= Cardinality(all)
  <2> HIDE DEF all
  <2>1. Pending' \subseteq all
    BY DEF all
  <2> QED BY <1>1, <2>1, FS_Subset
<1>3. nextKey \in Nat
  BY Limits DEF ControlInv, TypeOK
<1> HIDE DEF all
<1>4. nextKey' + Cardinality(Pending') <= MaxKeys + 1
  BY <1>1, <1>2, <1>3, Limits, PendingIsFinite, PendingIsFinitePrime
<1> QED BY <1>4 DEF KeyRoom

\* Generating it uses that room up.
LEMMA RoomUsed ==
  ASSUME ControlInv, NEW r \in Pending, nextKey' = nextKey + 1,
         Pending' \subseteq Pending \ {r}
  PROVE  KeyRoom' /\ nextKey \in Deks /\ nextKey' \in 1..(MaxKeys + 1)
<1> DEFINE rest == Pending \ {r}
<1>1. /\ IsFiniteSet(rest) /\ Cardinality(rest) \in Nat
      /\ Cardinality(rest) = Cardinality(Pending) - 1
  BY PendingIsFinite, FS_RemoveElement, FS_CardinalityType
<1>2. Cardinality(Pending') <= Cardinality(rest)
  BY <1>1, FS_Subset
<1> HIDE DEF rest
<1>3. nextKey \in Nat /\ nextKey >= 1
  BY Limits DEF ControlInv, TypeOK
<1>4. nextKey + Cardinality(Pending) <= MaxKeys + 1
  BY DEF ControlInv, KeyRoom
<1>5. /\ nextKey' + Cardinality(Pending') <= MaxKeys + 1
      /\ nextKey \in 1..MaxKeys
      /\ nextKey' \in 1..(MaxKeys + 1)
  BY <1>1, <1>2, <1>3, <1>4, Limits, PendingIsFinite, PendingIsFinitePrime
<1> QED BY <1>5 DEF KeyRoom, Deks

\* A request that moves on to q makes no DEK known that was not.
LEMMA KnownStays ==
  ASSUME ControlInv, NEW r \in Requests, NEW q \in Request,
         req' = [req EXCEPT ![r] = q],
         meta' = meta, q.dek \in Known \cup {None}
  PROVE  Known' \subseteq Known
<1>1. req \in [Requests -> Request]
  BY DEF ControlInv, TypeOK
<1>2. \A s \in Requests : req'[s].dek = IF s = r THEN q.dek ELSE req[s].dek
  BY <1>1
<1> QED BY <1>2 DEF Known

\* A move that generates no DEK leaves every DEK older than the next.
LEMMA FreshStays ==
  ASSUME ControlInv, NEW r \in Requests, NEW q \in Request,
         req' = [req EXCEPT ![r] = q],
         meta' = meta, nextKey' = nextKey, q.dek \in Known \cup {None},
         q.new \in {None, req[r].new}
  PROVE  Fresh'
<1>1. req \in [Requests -> Request]
  BY DEF ControlInv, TypeOK
<1>2. \A s \in Requests : req'[s].new = IF s = r THEN q.new ELSE req[s].new
  BY <1>1
<1>3. Known' \subseteq Known
  BY KnownStays
<1>4. Fresh
  BY DEF ControlInv
<1> QED BY <1>2, <1>3, <1>4 DEF Fresh

\* What a request that is not generating a DEK does to the requests as a whole.
LEMMA QuietMove ==
  ASSUME ControlInv, NEW r \in Requests, NEW q \in Request, WellFormed(q),
         req' = [req EXCEPT ![r] = q],
         q.pc \in Waiting \/ (busy' /\ (Latched(r) \/ ~busy)),
         Latched(r) \/ (busy => busy'),
         meta' = meta, nextKey' = nextKey, q.dek \in Known \cup {None},
         q.new \in {None, req[r].new},
         q.op \in {"init", "rotate"} /\ q.new = None => r \in Pending,
         TypeOK'
  PROVE  ControlInv' /\ Known' \subseteq Known
<1>1. req \in [Requests -> Request]
  BY DEF ControlInv, TypeOK
<1>2. \A s \in Requests : req'[s] = IF s = r THEN q ELSE req[s]
  BY <1>1
<1>3. Pending' \subseteq Pending
  BY <1>2 DEF Pending
<1>4. Latch' /\ \A s \in Requests : WellFormed(req'[s])
  BY RequestMoves
<1>5. KeyRoom'
  BY <1>3, RoomStays
<1>6. Fresh'
  BY FreshStays
<1>7. Known' \subseteq Known
  BY KnownStays
<1> QED BY <1>4, <1>5, <1>6, <1>7 DEF ControlInv

\* While r is behind the latch every other request waits.
LEMMA OthersWait ==
  ASSUME ControlInv, NEW r \in Requests, Latched(r), NEW s \in Requests, s # r,
         req'[s] = req[s]
  PROVE  InitStage(s)' /\ RotateStage(s)'
<1>1. req[s].pc \in Waiting
  BY DEF ControlInv, Latch, Latched
<1>2. req'[s].pc \in Waiting
  BY <1>1
<1>3. req'[s].pc # "quiesce" /\ req'[s].pc \notin InitSteps /\ req'[s].pc \notin RotateSteps
  BY <1>2 DEF Waiting, InitSteps, RotateSteps
<1> QED BY <1>3 DEF InitStage, RotateStage

\* A request that waits has nothing to show for it.
LEMMA WaitingStage ==
  ASSUME NEW s \in Requests, req'[s].pc \in Waiting
  PROVE  InitStage(s)' /\ RotateStage(s)'
<1>1. req'[s].pc # "quiesce" /\ req'[s].pc \notin InitSteps /\ req'[s].pc \notin RotateSteps
  BY DEF Waiting, InitSteps, RotateSteps
<1> QED BY <1>1 DEF InitStage, RotateStage

\* Files, meta.db and handle stay as they are.
LEMMA FilesStay ==
  ASSUME FileInv, disk' = disk, meta' = meta, handle' = handle, committed' = committed,
         overwritten' = overwritten, initialized' = initialized, Known' \subseteq Known
  PROVE  FileInv'
<1>1. Uninitialized' /\ AbsentIsEmpty'
  BY DEF FileInv, Uninitialized, AbsentIsEmpty
<1>2. HandleFits' /\ ServesRecorded'
  BY DEF FileInv, HandleFits, ServesRecorded, ServedDekRecorded
<1>3. KeysAgree' /\ Reopens' /\ Kept'
  BY DEF FileInv, KeysAgree, Reopens, Kept, Current
<1> QED BY <1>1, <1>2, <1>3 DEF FileInv

LEMMA StageStays ==
  ASSUME NEW s \in Requests, InitStage(s), RotateStage(s), req'[s] = req[s],
         disk' = disk, meta' = meta, handle' = handle, committed' = committed,
         Known' \subseteq Known
  PROVE  InitStage(s)' /\ RotateStage(s)'
  BY DEF InitStage, RotateStage

\* A step that moves r and changes no file, no handle and nothing in meta.db.
LEMMA QuietSafe ==
  ASSUME SafetyInv, NEW r \in Requests, NEW q \in Request, WellFormed(q),
         req' = [req EXCEPT ![r] = q],
         q.pc \in Waiting \/ (busy' /\ (Latched(r) \/ ~busy)),
         Latched(r) \/ (busy => busy'),
         q.dek \in Known \cup {None}, q.new \in {None, req[r].new},
         q.op \in {"init", "rotate"} /\ q.new = None => r \in Pending,
         disk' = disk, meta' = meta, handle' = handle, committed' = committed,
         overwritten' = overwritten, initialized' = initialized, nextKey' = nextKey,
         {unlocked, busy, failed}' \subseteq BOOLEAN, faults' \in 0..MaxFaults,
         InitStage(r)', RotateStage(r)'
  PROVE  SafetyInv'
<1>1. ControlInv /\ FileInv /\ Stages /\ TypeOK
  BY DEF SafetyInv, ControlInv
<1>2. /\ req' \in [Requests -> Request]
      /\ \A s \in Requests \ {r} : req'[s] = req[s]
  BY <1>1 DEF TypeOK
<1>3. TypeOK'
  BY <1>1, <1>2 DEF TypeOK
<1>4. ControlInv' /\ Known' \subseteq Known
  BY <1>1, <1>3, QuietMove
<1>5. FileInv'
  BY <1>1, <1>4, FilesStay
<1>6. ASSUME NEW s \in Requests \ {r}
      PROVE  InitStage(s)' /\ RotateStage(s)'
  BY <1>1, <1>2, <1>4, StageStays DEF Stages
<1>7. Stages'
  BY <1>6 DEF Stages
<1> QED BY <1>4, <1>5, <1>7 DEF SafetyInv

\* A client starts a request.
LEMMA AskSafe ==
  ASSUME SafetyInv, NEW r \in Requests, NEW q \in Request, WellFormed(q),
         req[r] = Idle, req' = [req EXCEPT ![r] = q],
         q.pc \in Waiting, q.new = None, q.dek \in Known \cup {None},
         q.op \in {"init", "rotate"} => nextKey + Cardinality(Pending) <= MaxKeys,
         disk' = disk, meta' = meta, handle' = handle, committed' = committed,
         overwritten' = overwritten, initialized' = initialized, nextKey' = nextKey,
         unlocked' = unlocked, busy' = busy, failed' = failed, faults' = faults
  PROVE  SafetyInv'
<1>1. ControlInv /\ FileInv /\ Stages /\ TypeOK
  BY DEF SafetyInv, ControlInv
<1>2. /\ req' \in [Requests -> Request]
      /\ \A s \in Requests : req'[s] = IF s = r THEN q ELSE req[s]
  BY <1>1 DEF TypeOK
<1>3. TypeOK'
  BY <1>1, <1>2 DEF TypeOK
<1>4. Known' \subseteq Known /\ Fresh'
  BY <1>1, KnownStays, FreshStays
<1>5. Latch' /\ \A s \in Requests : WellFormed(req'[s])
  BY <1>1, RequestMoves
<1>6. KeyRoom'
  <2>1. CASE q.op \in {"init", "rotate"}
    <3>1. Pending' \subseteq Pending \cup {r}
      BY <1>2 DEF Pending
    <3> QED BY <1>1, <2>1, <3>1, RoomTaken
  <2>2. CASE q.op \notin {"init", "rotate"}
    <3>1. Pending' \subseteq Pending
      BY <1>2, <2>2 DEF Pending
    <3> QED BY <1>1, <3>1, RoomStays
  <2> QED BY <2>1, <2>2
<1>7. ControlInv'
  BY <1>3, <1>4, <1>5, <1>6 DEF ControlInv
<1>8. FileInv'
  BY <1>1, <1>4, FilesStay
<1>9. ASSUME NEW s \in Requests
      PROVE  InitStage(s)' /\ RotateStage(s)'
  <2>1. CASE s = r
    <3>1. req'[s].pc \in Waiting
      BY <1>2, <2>1
    <3> QED BY <3>1, WaitingStage
  <2>2. CASE s # r
    <3>1. InitStage(s) /\ RotateStage(s)
      BY <1>1 DEF Stages
    <3>2. req'[s] = req[s]
      BY <1>2, <2>2
    <3> QED BY <1>4, <3>1, <3>2, StageStays
  <2> QED BY <2>1, <2>2
<1>10. Stages'
  BY <1>9 DEF Stages
<1> QED BY <1>7, <1>8, <1>10 DEF SafetyInv

----------------------------------------------------------------------------
(* Requests that are started, refused or admitted *)

LEMMA AskInitSafe ==
  ASSUME SafetyInv, NEW r \in Requests, AskInit(r)
  PROVE  SafetyInv'
<1> DEFINE q == [req[r] EXCEPT !.op = "init", !.pc = "admitted"]
<1>1. req[r] = Idle /\ req[r] \in Request
  BY DEF AskInit, SafetyInv, ControlInv, TypeOK
<1>2. q \in Request /\ q.op = "init" /\ q.pc = "admitted" /\ q.dek = None /\ q.new = None
  <2>1. q = [Idle EXCEPT !.op = "init", !.pc = "admitted"]
    BY <1>1
  <2>2. "init" \in Operations /\ "admitted" \in Steps
    BY DEF Operations, Steps
  <2> HIDE DEF q
  <2> QED BY <2>1, <2>2 DEF Request, Idle
<1>3. req' = [req EXCEPT ![r] = q]
  BY DEF AskInit
<1> HIDE DEF q
<1>4. WellFormed(q)
  BY <1>2 DEF WellFormed
<1>5. q.pc \in Waiting /\ q.dek \in Known \cup {None}
  BY <1>2 DEF Waiting
<1>6. nextKey + Cardinality(Pending) <= MaxKeys
  BY DEF AskInit
<1>7. /\ disk' = disk /\ meta' = meta /\ handle' = handle /\ committed' = committed
      /\ overwritten' = overwritten /\ initialized' = initialized /\ nextKey' = nextKey
      /\ unlocked' = unlocked /\ busy' = busy /\ failed' = failed /\ faults' = faults
  BY DEF AskInit, state
<1> QED BY <1>1, <1>2, <1>3, <1>4, <1>5, <1>6, <1>7, AskSafe

LEMMA AskUnlockSafe ==
  ASSUME SafetyInv, NEW r \in Requests, AskUnlock(r)
  PROVE  SafetyInv'
<1>1. PICK m \in meta :
        req' = [req EXCEPT ![r].op = "unlock", ![r].pc = "asked", ![r].dek = m.dek]
  BY DEF AskUnlock
<1> DEFINE q == [req[r] EXCEPT !.op = "unlock", !.pc = "asked", !.dek = m.dek]
<1>2. req[r] = Idle /\ req[r] \in Request /\ m.dek \in Deks /\ m.dek \in Known
  BY DEF AskUnlock, SafetyInv, ControlInv, TypeOK, Meta, Known
<1>3. q \in Request /\ q.op = "unlock" /\ q.pc = "asked" /\ q.dek = m.dek /\ q.new = None
  <2>1. q = [Idle EXCEPT !.op = "unlock", !.pc = "asked", !.dek = m.dek]
    BY <1>2
  <2>2. "unlock" \in Operations /\ "asked" \in Steps
    BY DEF Operations, Steps
  <2> HIDE DEF q
  <2> QED BY <1>2, <2>1, <2>2 DEF Request, Idle
<1>4. req' = [req EXCEPT ![r] = q]
  BY <1>1
<1> HIDE DEF q
<1>5. WellFormed(q)
  BY <1>2, <1>3 DEF WellFormed
<1>6. q.pc \in Waiting /\ q.dek \in Known \cup {None} /\ q.op \notin {"init", "rotate"}
  BY <1>2, <1>3 DEF Waiting
<1>7. /\ disk' = disk /\ meta' = meta /\ handle' = handle /\ committed' = committed
      /\ overwritten' = overwritten /\ initialized' = initialized /\ nextKey' = nextKey
      /\ unlocked' = unlocked /\ busy' = busy /\ failed' = failed /\ faults' = faults
  BY DEF AskUnlock, state
<1> QED BY <1>2, <1>3, <1>4, <1>5, <1>6, <1>7, AskSafe

LEMMA AskAdminSafe ==
  ASSUME SafetyInv, NEW r \in Requests, NEW op \in {"rotate", "change"}, AskAdmin(r, op)
  PROVE  SafetyInv'
<1>1. PICK m \in meta :
        req' = [req EXCEPT ![r].op = op, ![r].pc = "asked", ![r].dek = m.dek]
  BY DEF AskAdmin
<1> DEFINE q == [req[r] EXCEPT !.op = op, !.pc = "asked", !.dek = m.dek]
<1>2. req[r] = Idle /\ req[r] \in Request /\ m.dek \in Deks /\ m.dek \in Known
  BY DEF AskAdmin, SafetyInv, ControlInv, TypeOK, Meta, Known
<1>3. q \in Request /\ q.op = op /\ q.pc = "asked" /\ q.dek = m.dek /\ q.new = None
  <2>1. q = [Idle EXCEPT !.op = op, !.pc = "asked", !.dek = m.dek]
    BY <1>2
  <2>2. op \in Operations /\ "asked" \in Steps
    BY DEF Operations, Steps
  <2> HIDE DEF q
  <2> QED BY <1>2, <2>1, <2>2 DEF Request, Idle
<1>4. req' = [req EXCEPT ![r] = q]
  BY <1>1
<1> HIDE DEF q
<1>5. WellFormed(q)
  BY <1>2, <1>3 DEF WellFormed
<1>6. q.pc \in Waiting /\ q.dek \in Known \cup {None}
  BY <1>2, <1>3 DEF Waiting
<1>7. q.op \in {"init", "rotate"} => nextKey + Cardinality(Pending) <= MaxKeys
  BY <1>3 DEF AskAdmin
<1>8. /\ disk' = disk /\ meta' = meta /\ handle' = handle /\ committed' = committed
      /\ overwritten' = overwritten /\ initialized' = initialized /\ nextKey' = nextKey
      /\ unlocked' = unlocked /\ busy' = busy /\ failed' = failed /\ faults' = faults
  BY DEF AskAdmin, state
<1> QED BY <1>2, <1>3, <1>4, <1>5, <1>6, <1>7, <1>8, AskSafe

\* The request behind the latch moves on.
LEMMA LatchedMoves ==
  ASSUME SafetyInv, NEW r \in Requests, Latched(r), NEW q \in Request, WellFormed(q),
         req' = [req EXCEPT ![r] = q],
         q.pc \in Waiting \/ busy', busy' \in BOOLEAN,
         q.dek \in Known \cup {None}, q.new \in {None, req[r].new},
         q.op \in {"init", "rotate"} /\ q.new = None => r \in Pending,
         meta' = meta, nextKey' = nextKey,
         disk' \in [Paths -> File], handle' \in Deks \cup {None}, committed' = committed,
         initialized' = initialized, overwritten' = overwritten,
         unlocked' \in BOOLEAN, failed' \in BOOLEAN, faults' \in 0..MaxFaults,
         q.pc \in Waiting \/ (InitStage(r) /\ RotateStage(r))'
  PROVE  ControlInv' /\ Known' \subseteq Known /\ Stages'
<1>1. ControlInv /\ TypeOK
  BY DEF SafetyInv, ControlInv
<1>2. /\ req' \in [Requests -> Request]
      /\ \A s \in Requests : req'[s] = IF s = r THEN q ELSE req[s]
  BY <1>1 DEF TypeOK
<1>3. TypeOK'
  BY <1>1, <1>2 DEF TypeOK
<1>4. ControlInv' /\ Known' \subseteq Known
  BY <1>1, <1>3, QuietMove
<1>5. InitStage(r)' /\ RotateStage(r)'
  <2>1. CASE q.pc \in Waiting
    <3>1. req'[r].pc \in Waiting
      BY <1>2, <2>1
    <3> QED BY <3>1, WaitingStage
  <2>2. CASE q.pc \notin Waiting
    BY <2>2
  <2> QED BY <2>1, <2>2
<1>6. ASSUME NEW s \in Requests, s # r
      PROVE  InitStage(s)' /\ RotateStage(s)'
  BY <1>1, <1>2, <1>6, OthersWait
<1>7. Stages'
  BY <1>5, <1>6 DEF Stages
<1> QED BY <1>4, <1>7

\* The request behind the latch ends and releases it.
LEMMA LatchedEnds ==
  ASSUME SafetyInv, NEW r \in Requests, Latched(r), Done(r),
         meta' = meta, nextKey' = nextKey,
         disk' \in [Paths -> File], handle' \in Deks \cup {None}, committed' = committed,
         initialized' = initialized, overwritten' = overwritten,
         unlocked' \in BOOLEAN, failed' \in BOOLEAN, faults' \in 0..MaxFaults
  PROVE  ControlInv' /\ Known' \subseteq Known /\ Stages'
<1>1. req' = [req EXCEPT ![r] = Idle] /\ busy' = FALSE
  BY DEF Done, EndOperation
<1>2. Idle.pc \in Waiting
  BY IdleIsRequest DEF Waiting
<1>3. busy' \in BOOLEAN
  BY <1>1
<1>4. Idle.op \notin {"init", "rotate"}
  BY IdleIsRequest
<1> QED BY <1>1, <1>2, <1>3, <1>4, IdleIsRequest, LatchedMoves

\* A request gets behind the latch, or moves on there, with a new DEK.
LEMMA GeneratedMove ==
  ASSUME SafetyInv, NEW r \in Pending, NEW pc \in RotateSteps,
         Generates(r, pc, nextKey), nextKey' = nextKey + 1,
         req[r].op = "init" => pc \in InitSteps, req[r] # Idle,
         busy' = TRUE, Latched(r) \/ ~busy,
         disk' = disk, meta' = meta, handle' \in {handle, None}, committed' = committed,
         initialized' = initialized, unlocked' = unlocked, failed' = failed,
         overwritten' = overwritten, faults' = faults
  PROVE  /\ nextKey \in Deks /\ ControlInv' /\ Known' \subseteq Known
         /\ req'[r].op = req[r].op /\ req'[r].pc = pc
         /\ req'[r].dek = req[r].dek /\ req'[r].new = nextKey
         /\ \A s \in Requests \ {r} : req'[s] = req[s]
<1>1. ControlInv /\ TypeOK /\ r \in Requests /\ req[r] \in Request
  BY DEF SafetyInv, ControlInv, TypeOK, Pending
<1>2. pc \in Steps /\ pc \notin Waiting
  BY DEF RotateSteps, InitSteps, Steps, Waiting
<1>3. nextKey \in Deks
  <2>1. Cardinality(Pending) # 0
    BY PendingIsFinite, FS_EmptySet
  <2>2. Cardinality(Pending) >= 1
    BY <2>1, PendingIsFinite
  <2>3. nextKey \in 1..MaxKeys
    BY <1>1, <2>2, Limits, PendingIsFinite DEF ControlInv, KeyRoom, TypeOK
  <2> QED BY <2>3 DEF Deks
<1>4. PICK q \in Request :
        /\ req' = [req EXCEPT ![r] = q]
        /\ q.op = req[r].op /\ q.pc = pc /\ q.dek = req[r].dek /\ q.new = nextKey
  BY <1>1, <1>2, <1>3, GenerateEffect
<1>5. \A s \in Requests : req'[s] = IF s = r THEN q ELSE req[s]
  BY <1>1, <1>4 DEF TypeOK
<1>6. WellFormed(q)
  <2>1. WellFormed(req[r]) /\ req[r].new = None /\ req[r].op \in {"init", "rotate"}
    BY <1>1 DEF ControlInv, Pending
  <2>2. CASE req[r].op = "init"
    <3>1. req[r].dek = None
      BY <2>1, <2>2 DEF WellFormed
    <3> QED BY <1>3, <1>4, <2>2, <3>1 DEF WellFormed
  <2>3. CASE req[r].op = "rotate"
    <3>1. req[r].dek \in Deks
      BY <2>1, <2>3 DEF WellFormed
    <3> QED BY <1>3, <1>4, <2>3, <3>1 DEF WellFormed
  <2> QED BY <2>1, <2>2, <2>3
<1>7. Latch' /\ (\A s \in Requests : WellFormed(req'[s])) /\ req' \in [Requests -> Request]
  BY <1>1, <1>4, <1>6, RequestMoves
<1>8. KeyRoom' /\ nextKey' \in 1..(MaxKeys + 1)
  <2>1. Pending' \subseteq Pending \ {r}
    BY <1>3, <1>4, <1>5, KeysDiffer DEF Pending
  <2> QED BY <1>1, <2>1, RoomUsed
<1>9. Known' \subseteq Known
  <2>1. q.dek \in Known \cup {None}
    BY <1>1, <1>4 DEF Known
  <2> QED BY <1>1, <1>4, <2>1, KnownStays
<1>10. Fresh'
  <2>1. nextKey \in Nat /\ Fresh
    BY <1>1, <1>3, KeysDiffer DEF ControlInv
  <2>2. \A k \in Known' : k < nextKey'
    <3>1. \A k \in Known : k \in Nat
      BY <1>1, KeysDiffer DEF Known, TypeOK, Meta, Request
    <3> QED BY <1>9, <2>1, <3>1 DEF Fresh
  <2>3. \A m \in meta' : m.version < nextKey'
    <3>1. \A m \in meta : m.version \in Nat
      BY <1>1, Limits DEF TypeOK, Meta
    <3> QED BY <2>1, <3>1 DEF Fresh
  <2>4. \A s \in Requests : req'[s].new # None => req'[s].new < nextKey'
    <3>1. \A s \in Requests : req[s].new # None => req[s].new \in Nat
      BY <1>1, KeysDiffer DEF TypeOK, Request
    <3>2. req'[r].new = nextKey
      BY <1>1, <1>4, <1>5
    <3>3. ASSUME NEW s \in Requests \ {r}, req[s].new # None
          PROVE  req[s].new < nextKey'
      <4>1. req[s].new < nextKey
        BY <2>1, <3>3 DEF Fresh
      <4>2. req[s].new \in Nat
        BY <3>1, <3>3
      <4> QED BY <2>1, <4>1, <4>2
    <3>4. \A s \in Requests \ {r} : req'[s] = req[s]
      BY <1>5
    <3> QED BY <2>1, <3>2, <3>3, <3>4
  <2> QED BY <2>2, <2>3, <2>4 DEF Fresh
<1>11. TypeOK'
  <2>1. busy' \in BOOLEAN
    OBVIOUS
  <2> QED BY <1>1, <1>7, <1>8, <2>1 DEF TypeOK
<1>12. ControlInv'
  BY <1>7, <1>8, <1>10, <1>11 DEF ControlInv
<1> QED BY <1>1, <1>3, <1>4, <1>5, <1>9, <1>12

\* What is behind the latch, by step.
LEMMA AtLatched ==
  ASSUME NEW r \in Requests, req[r].pc \in RotateSteps \cup {"quiesce", "rewrap"}
  PROVE  Latched(r)
  BY DEF Latched, Waiting, RotateSteps, InitSteps

----------------------------------------------------------------------------
(* Init *)

\* Before init every row is in the plain database, its backup or its copy.
LEMMA BeforeInit ==
  ASSUME FileInv, meta = {}
  PROVE  /\ handle = None /\ committed \subseteq {0} /\ disk["bak"].key = None
         /\ committed \subseteq disk["app"].rows \cup disk["plain"].rows \cup disk["enc"].rows
         /\ disk["app"].key = Plain => committed \subseteq disk["app"].rows
<1>1. /\ handle = None /\ committed \subseteq {0} /\ disk["bak"].key = None
      /\ disk["app"].key = Plain => committed \subseteq disk["app"].rows
  BY DEF FileInv, Uninitialized
<1>2. disk["bak"].rows = {}
  BY <1>1 DEF FileInv, AbsentIsEmpty, Paths
<1>3. Kept
  BY DEF FileInv
<1>4. CASE disk["app"].key = None
  BY <1>1, <1>2, <1>3, <1>4 DEF Kept, Current
<1>5. CASE disk["app"].key # None
  BY <1>1, <1>3, <1>5 DEF Kept, Current
<1> QED BY <1>1, <1>4, <1>5

\* Whatever init does to the files, that must stay so.
LEMMA InitFilesSafe ==
  ASSUME FileInv, meta = {}, meta' = meta, handle' = handle, committed' = committed,
         initialized' = initialized, Known' \subseteq Known,
         \A p \in Paths : disk'[p].key = None => disk'[p].rows = {},
         disk'["bak"] = disk["bak"],
         disk'["app"].key = Plain => committed \subseteq disk'["app"].rows,
         committed \subseteq disk'["app"].rows \cup disk'["plain"].rows \cup disk'["enc"].rows
  PROVE  FileInv'
<1>1. /\ handle' = None /\ committed' \subseteq {0} /\ disk'["bak"].key = None
  BY BeforeInit
<1>2. Uninitialized'
  <2>1. Known = {}
    BY DEF FileInv, Uninitialized
  <2>2. Known' = {}
    BY <2>1
  <2> QED BY <1>1, <2>2 DEF FileInv, Uninitialized
<1>3. AbsentIsEmpty'
  BY DEF AbsentIsEmpty
<1>4. HandleFits' /\ ServesRecorded'
  BY <1>1 DEF HandleFits, ServesRecorded, ServedDekRecorded
<1>5. KeysAgree' /\ Reopens'
  BY DEF KeysAgree, Reopens
<1>6. Kept'
  <2>1. committed' \ {0} = {}
    BY <1>1
  <2>2. disk'["app"].key = None => disk'["app"].rows = {}
    BY DEF Paths
  <2>3. CASE disk'["app"].key = None
    BY <2>1, <2>2, <2>3 DEF Kept, Current
  <2>4. CASE disk'["app"].key # None
    BY <2>1, <2>4 DEF Kept, Current
  <2> QED BY <2>3, <2>4
<1> QED BY <1>2, <1>3, <1>4, <1>5, <1>6 DEF FileInv

LEMMA BeginInitSafe ==
  ASSUME SafetyInv, NEW r \in Requests, BeginInit(r)
  PROVE  SafetyInv'
<1>1. ControlInv /\ TypeOK /\ FileInv /\ Stages /\ req[r] \in Request
  BY DEF SafetyInv, ControlInv, TypeOK
<1>2. req[r].op = "init" /\ req[r].pc = "admitted"
  BY DEF BeginInit, At
<1>3. WellFormed(req[r])
  BY <1>1 DEF ControlInv
<1>4. /\ disk' = disk /\ meta' = meta /\ handle' = handle /\ committed' = committed
      /\ overwritten' = overwritten /\ initialized' = initialized /\ faults' = faults
      /\ unlocked' = unlocked
  BY DEF BeginInit
<1>5. CASE req' = [req EXCEPT ![r] = Idle]
             /\ busy' = busy /\ failed' \in BOOLEAN /\ nextKey' = nextKey
  <2>1. InitStage(r)' /\ RotateStage(r)'
    <3>1. req'[r] = Idle
      BY <1>1, <1>5 DEF TypeOK
    <3>2. req'[r].pc \in Waiting
      BY <3>1, IdleIsRequest DEF Waiting
    <3> QED BY <3>2, WaitingStage
  <2>2. {unlocked, busy, failed}' \subseteq BOOLEAN /\ faults' \in 0..MaxFaults
    BY <1>1, <1>4, <1>5 DEF TypeOK
  <2>3. Idle.pc \in Waiting /\ Idle.dek \in Known \cup {None} /\ Idle.new \in {None, req[r].new}
        /\ Idle.op \notin {"init", "rotate"}
    BY IdleIsRequest DEF Waiting
  <2> QED BY <1>1, <1>4, <1>5, <2>1, <2>2, <2>3, IdleIsRequest, QuietSafe
<1>6. CASE /\ ~busy /\ ~initialized /\ busy' = TRUE
           /\ req' = [req EXCEPT ![r].pc = IF MustMigrate THEN "copy" ELSE "record",
                                 ![r].new = nextKey]
           /\ nextKey' = nextKey + 1
           /\ failed' = failed
  <2> DEFINE pc == IF MustMigrate THEN "copy" ELSE "record"
  <2>1. r \in Pending /\ req[r] # Idle
    BY <1>2, <1>3, IdleIsRequest DEF WellFormed, InitSteps, Pending
  <2>2. pc \in {"copy", "record"} /\ pc \in InitSteps /\ pc \in RotateSteps
    BY DEF InitSteps, RotateSteps
  <2>3. Generates(r, pc, nextKey)
    BY <1>6 DEF Generates
  <2>4. pc = "record" => ~Exists("app")
    BY DEF MustMigrate
  <2> HIDE DEF pc
  <2>5. /\ ControlInv' /\ Known' \subseteq Known
        /\ req'[r].op = "init" /\ req'[r].pc = pc /\ req'[r].new = nextKey
        /\ \A s \in Requests \ {r} : req'[s] = req[s]
    BY <1>2, <1>4, <1>6, <2>1, <2>2, <2>3, GeneratedMove
  <2>6. FileInv'
    BY <1>1, <1>4, <2>5, FilesStay
  <2>7. InitStage(r)' /\ RotateStage(r)'
    <3>1. meta = {}
      BY <1>1, <1>6 DEF FileInv, Uninitialized
    <3>2. pc = "record" => disk["app"].key = None
      BY <1>1, <2>4, ExistsHasKey DEF TypeOK, FileInv, Exists, Paths
    <3> QED BY <1>4, <2>2, <2>5, <3>1, <3>2 DEF InitStage, RotateStage
  <2>8. ASSUME NEW s \in Requests, s # r
        PROVE  InitStage(s)' /\ RotateStage(s)'
    BY <1>1, <1>4, <2>5, <2>8, StageStays DEF Stages
  <2>9. Stages'
    BY <2>7, <2>8 DEF Stages
  <2> QED BY <2>5, <2>6, <2>9 DEF SafetyInv
<1>7. failed \in BOOLEAN
  BY <1>1 DEF TypeOK
<1> QED BY <1>5, <1>6, <1>7 DEF BeginInit

\* What is known of a request in the middle of an init.
LEMMA InsideInit ==
  ASSUME SafetyInv, NEW r \in Requests, req[r].op = "init", req[r].pc \in InitSteps
  PROVE  /\ ControlInv /\ TypeOK /\ FileInv /\ InitStage(r)
         /\ Latched(r) /\ r \notin Pending
         /\ req[r] \in Request /\ req[r].new \in Deks /\ req[r].dek = None
         /\ busy /\ (req[r].pc # "open" => meta = {})
<1>1. ControlInv /\ TypeOK /\ FileInv /\ InitStage(r) /\ req[r] \in Request
  BY DEF SafetyInv, ControlInv, TypeOK, Stages
<1>2. WellFormed(req[r])
  BY <1>1 DEF ControlInv
<1>3. req[r].new \in Deks /\ req[r].dek = None
  BY <1>2, IdleIsRequest DEF WellFormed, InitSteps
<1>4. Latched(r)
  BY AtLatched DEF RotateSteps
<1>5. busy
  BY <1>1, <1>4 DEF ControlInv, Latch
<1>6. r \notin Pending
  BY <1>3, KeysDiffer DEF Pending
<1> QED BY <1>1, <1>3, <1>4, <1>5, <1>6 DEF InitStage

\* An init goes on to another of its steps.
LEMMA InitMoves ==
  ASSUME SafetyInv, NEW r \in Requests, req[r].op = "init", req[r].pc \in InitSteps,
         NEW pc \in InitSteps, Goto(r, pc), busy' = busy,
         meta' = meta, nextKey' = nextKey,
         disk' \in [Paths -> File], handle' = handle, committed' = committed,
         initialized' = initialized, overwritten' = overwritten,
         unlocked' = unlocked, failed' = failed, faults' = faults,
         req'[r].op = "init" /\ req'[r].pc = pc /\ req'[r].new = req[r].new
           => InitStage(r)'
  PROVE  ControlInv' /\ Known' \subseteq Known /\ Stages'
<1>1. /\ ControlInv /\ TypeOK /\ Latched(r) /\ r \notin Pending
      /\ req[r] \in Request /\ req[r].new \in Deks /\ req[r].dek = None /\ busy
  BY InsideInit
<1>2. pc \in Steps
  BY DEF InitSteps, Steps
<1>3. PICK q \in Request :
        /\ req' = [req EXCEPT ![r] = q]
        /\ q.op = "init" /\ q.pc = pc /\ q.dek = None /\ q.new = req[r].new
  BY <1>1, <1>2, GotoEffect
<1>4. req'[r] = q
  BY <1>1, <1>3 DEF TypeOK
<1>5. WellFormed(q)
  BY <1>1, <1>3 DEF WellFormed
<1>6. InitStage(r)' /\ RotateStage(r)'
  <2>1. InitStage(r)'
    BY <1>1, <1>3, <1>4
  <2>2. RotateStage(r)'
    BY <1>3, <1>4 DEF RotateStage
  <2> QED BY <2>1, <2>2
<1>7. /\ busy' /\ busy' \in BOOLEAN /\ q.dek \in Known \cup {None} /\ q.new \in {None, req[r].new}
      /\ ~(q.op \in {"init", "rotate"} /\ q.new = None)
  BY <1>1, <1>3, KeysDiffer DEF TypeOK
<1>8. /\ handle' \in Deks \cup {None} /\ unlocked' \in BOOLEAN /\ failed' \in BOOLEAN
      /\ faults' \in 0..MaxFaults
  BY <1>1 DEF TypeOK
<1> QED BY <1>1, <1>3, <1>5, <1>6, <1>7, <1>8, LatchedMoves

LEMMA InitCopySafe ==
  ASSUME SafetyInv, NEW r \in Requests, InitCopy(r)
  PROVE  SafetyInv'
<1>1. req[r].op = "init" /\ req[r].pc = "copy" /\ req[r].pc \in InitSteps
  BY DEF InitCopy, At, InitSteps
<1>2. /\ ControlInv /\ TypeOK /\ FileInv /\ Latched(r) /\ meta = {} /\ busy
      /\ disk \in [Paths -> File] /\ AbsentIsEmpty /\ req[r].new \in Deks
  BY <1>1, InsideInit DEF TypeOK, FileInv
<1>3. /\ meta' = meta /\ handle' = handle /\ committed' = committed /\ nextKey' = nextKey
      /\ overwritten' = overwritten /\ initialized' = initialized /\ faults' = faults
      /\ unlocked' = unlocked
  BY DEF InitCopy
<1>4. /\ handle' \in Deks \cup {None} /\ unlocked' \in BOOLEAN /\ faults' \in 0..MaxFaults
  BY <1>2, <1>3 DEF TypeOK
<1>5. CASE Exists("enc")
  <2>1. disk' = disk /\ Done(r) /\ failed' = TRUE
    BY <1>5 DEF InitCopy
  <2>2. failed' \in BOOLEAN /\ disk' \in [Paths -> File]
    BY <1>2, <2>1
  <2>3. ControlInv' /\ Known' \subseteq Known /\ Stages'
    BY <1>2, <1>3, <1>4, <2>1, <2>2, LatchedEnds
  <2> QED BY <1>2, <1>3, <2>1, <2>3, FilesStay DEF SafetyInv
<1>6. CASE ~Exists("enc")
  <2>1. /\ disk' \in [Paths -> File]
        /\ disk'["enc"].key = req[r].new /\ disk'["enc"].rows = {}
        /\ disk'["app"] = disk["app"] /\ disk'["bak"] = disk["bak"]
        /\ disk'["plain"] = disk["plain"] /\ disk'["rekey"] = disk["rekey"]
    <3>1. disk' = Create("enc", req[r].new)
      BY <1>6 DEF InitCopy
    <3> QED BY <1>2, <3>1, CreateEffect DEF Paths
  <2>2. disk["enc"].rows = {}
    BY <1>2, <1>6, ExistsHasKey DEF Exists, AbsentIsEmpty, Paths
  <2>3. ControlInv' /\ Known' \subseteq Known /\ Stages'
    <3>1. CASE disk["app"].key # Plain
      <4>1. Done(r) /\ failed' = TRUE
        BY <3>1 DEF InitCopy
      <4>2. failed' \in BOOLEAN
        BY <4>1
      <4> QED BY <1>2, <1>3, <1>4, <2>1, <4>1, <4>2, LatchedEnds
    <3>2. CASE disk["app"].key = Plain
      <4>1. Goto(r, "copying") /\ busy' = busy /\ failed' = failed
        BY <1>6, <3>2 DEF InitCopy
      <4>2. "copying" \in InitSteps
        BY DEF InitSteps
      <4>3. req'[r].op = "init" /\ req'[r].pc = "copying" /\ req'[r].new = req[r].new
              => InitStage(r)'
        BY <1>2, <1>3, <2>1, <3>2 DEF InitStage
      <4> QED BY <1>1, <1>3, <2>1, <4>1, <4>2, <4>3, InitMoves
    <3> QED BY <3>1, <3>2
  <2>4. FileInv'
    <3>1. \A p \in Paths : disk'[p].key = None => disk'[p].rows = {}
      BY <1>2, <2>1 DEF AbsentIsEmpty, Paths
    <3>2. disk'["app"].key = Plain => committed \subseteq disk'["app"].rows
      BY <1>2, <2>1, BeforeInit
    <3>3. committed \subseteq disk'["app"].rows \cup disk'["plain"].rows \cup disk'["enc"].rows
      BY <1>2, <2>1, <2>2, BeforeInit
    <3> QED BY <1>2, <1>3, <2>1, <2>3, <3>1, <3>2, <3>3, InitFilesSafe
  <2> QED BY <2>3, <2>4 DEF SafetyInv
<1> QED BY <1>5, <1>6

LEMMA InitFilesStepSafe ==
  ASSUME SafetyInv, NEW r \in Requests, InitFiles(r)
  PROVE  SafetyInv'
<1>1. /\ req[r].op = "init" /\ req[r].pc \in InitSteps
      /\ req[r].pc \in {"copying", "aside", "promote", "drop"}
  BY DEF InitFiles, At, InitSteps
<1>2. /\ ControlInv /\ TypeOK /\ FileInv /\ Latched(r) /\ meta = {} /\ InitStage(r)
      /\ disk \in [Paths -> File] /\ AbsentIsEmpty /\ req[r].new \in Deks
  BY <1>1, InsideInit DEF TypeOK, FileInv
<1>3. /\ meta' = meta /\ handle' = handle /\ committed' = committed /\ nextKey' = nextKey
      /\ overwritten' = overwritten /\ initialized' = initialized /\ faults' = faults
      /\ unlocked' = unlocked /\ failed' = failed /\ busy' = busy
  BY DEF InitFiles, state
<1>4. /\ committed \subseteq disk["app"].rows \cup disk["plain"].rows \cup disk["enc"].rows
      /\ disk["app"].key = Plain => committed \subseteq disk["app"].rows
  BY <1>2, BeforeInit
<1>5. {"copying", "aside", "promote", "drop", "record"} \subseteq InitSteps
  BY DEF InitSteps
<1>6. CASE req[r].pc = "copying"
  <2>1. /\ disk' \in [Paths -> File]
        /\ disk'["enc"].key = disk["enc"].key /\ disk'["enc"].rows = disk["app"].rows
        /\ \A o \in Paths \ {"enc"} : disk'[o] = disk[o]
    <3>1. disk' = FillFrom("app", "enc")
      BY <1>6 DEF InitFiles, At
    <3> QED BY <1>2, <3>1, FillEffect DEF Paths
  <2>2. Goto(r, "aside")
    BY <1>6 DEF InitFiles, At
  <2>3. disk["app"].key = Plain /\ disk["enc"].key = req[r].new
    BY <1>1, <1>2, <1>6 DEF InitStage
  <2>4. req'[r].op = "init" /\ req'[r].pc = "aside" /\ req'[r].new = req[r].new
          => InitStage(r)'
    BY <1>2, <1>3, <1>4, <2>1, <2>3 DEF InitStage, Paths
  <2>5. ControlInv' /\ Known' \subseteq Known /\ Stages'
    BY <1>1, <1>3, <1>5, <2>1, <2>2, <2>4, InitMoves
  <2>6. FileInv'
    <3>1. \A p \in Paths : disk'[p].key = None => disk'[p].rows = {}
      BY <1>2, <2>1, <2>3, KeysDiffer DEF AbsentIsEmpty, Paths
    <3>2. /\ disk'["app"] = disk["app"] /\ disk'["bak"] = disk["bak"]
          /\ disk'["plain"] = disk["plain"]
      BY <2>1 DEF Paths
    <3> QED BY <1>2, <1>3, <1>4, <2>3, <2>5, <3>1, <3>2, InitFilesSafe
  <2> QED BY <2>5, <2>6 DEF SafetyInv
<1>7. CASE req[r].pc = "aside"
  <2>1. /\ disk' \in [Paths -> File]
        /\ disk'["plain"] = disk["app"]
        /\ disk'["app"].key = None /\ disk'["app"].rows = {}
        /\ \A o \in Paths \ {"app", "plain"} : disk'[o] = disk[o]
    <3>1. disk' = Rename("app", "plain")
      BY <1>7 DEF InitFiles, At
    <3> QED BY <1>2, <3>1, RenameEffect DEF Paths
  <2>2. Goto(r, "promote")
    BY <1>7 DEF InitFiles, At
  <2>3. /\ disk["app"].key = Plain /\ disk["enc"].key = req[r].new
        /\ committed \subseteq disk["enc"].rows
    BY <1>1, <1>2, <1>7 DEF InitStage
  <2>4. /\ disk'["bak"] = disk["bak"] /\ disk'["enc"] = disk["enc"]
        /\ disk'["rekey"] = disk["rekey"]
    BY <2>1 DEF Paths
  <2>5. req'[r].op = "init" /\ req'[r].pc = "promote" /\ req'[r].new = req[r].new
          => InitStage(r)'
    BY <1>2, <1>3, <2>1, <2>3, <2>4 DEF InitStage
  <2>6. ControlInv' /\ Known' \subseteq Known /\ Stages'
    BY <1>1, <1>3, <1>5, <2>1, <2>2, <2>5, InitMoves
  <2>7. FileInv'
    <3>1. \A p \in Paths : disk'[p].key = None => disk'[p].rows = {}
      BY <1>2, <2>1, <2>4 DEF AbsentIsEmpty, Paths
    <3>2. disk'["app"].key # Plain
      BY <2>1, KeysDiffer
    <3> QED BY <1>2, <1>3, <1>4, <2>1, <2>3, <2>4, <2>6, <3>1, <3>2, InitFilesSafe
  <2> QED BY <2>6, <2>7 DEF SafetyInv
<1>8. CASE req[r].pc = "promote"
  <2>1. /\ disk' \in [Paths -> File]
        /\ disk'["app"] = disk["enc"]
        /\ disk'["enc"].key = None /\ disk'["enc"].rows = {}
        /\ \A o \in Paths \ {"app", "enc"} : disk'[o] = disk[o]
    <3>1. disk' = Rename("enc", "app")
      BY <1>8 DEF InitFiles, At
    <3> QED BY <1>2, <3>1, RenameEffect DEF Paths
  <2>2. Goto(r, "drop")
    BY <1>8 DEF InitFiles, At
  <2>3. disk["enc"].key = req[r].new /\ committed \subseteq disk["enc"].rows
    BY <1>1, <1>2, <1>8 DEF InitStage
  <2>4. /\ disk'["bak"] = disk["bak"] /\ disk'["plain"] = disk["plain"]
        /\ disk'["rekey"] = disk["rekey"]
    BY <2>1 DEF Paths
  <2>5. req'[r].op = "init" /\ req'[r].pc = "drop" /\ req'[r].new = req[r].new
          => InitStage(r)'
    BY <1>2, <1>3, <2>1, <2>3, <2>4 DEF InitStage
  <2>6. ControlInv' /\ Known' \subseteq Known /\ Stages'
    BY <1>1, <1>3, <1>5, <2>1, <2>2, <2>5, InitMoves
  <2>7. FileInv'
    <3>1. \A p \in Paths : disk'[p].key = None => disk'[p].rows = {}
      BY <1>2, <2>1, <2>4 DEF AbsentIsEmpty, Paths
    <3> QED BY <1>2, <1>3, <1>4, <2>1, <2>3, <2>4, <2>6, <3>1, InitFilesSafe
  <2> QED BY <2>6, <2>7 DEF SafetyInv
<1>9. CASE req[r].pc = "drop"
  <2>1. /\ disk' \in [Paths -> File]
        /\ disk'["plain"].key = None /\ disk'["plain"].rows = {}
        /\ \A o \in Paths \ {"plain"} : disk'[o] = disk[o]
    <3>1. disk' = Remove("plain")
      BY <1>9 DEF InitFiles, At
    <3> QED BY <1>2, <3>1, RemoveEffect DEF Paths
  <2>2. Goto(r, "record")
    BY <1>9 DEF InitFiles, At
  <2>3. disk["app"].key = req[r].new /\ committed \subseteq disk["app"].rows
    BY <1>1, <1>2, <1>9 DEF InitStage
  <2>4. /\ disk'["bak"] = disk["bak"] /\ disk'["app"] = disk["app"]
        /\ disk'["rekey"] = disk["rekey"] /\ disk'["enc"] = disk["enc"]
    BY <2>1 DEF Paths
  <2>5. req'[r].op = "init" /\ req'[r].pc = "record" /\ req'[r].new = req[r].new
          => InitStage(r)'
    BY <1>2, <1>3, <2>3, <2>4 DEF InitStage
  <2>6. ControlInv' /\ Known' \subseteq Known /\ Stages'
    BY <1>1, <1>3, <1>5, <2>1, <2>2, <2>5, InitMoves
  <2>7. FileInv'
    <3>1. \A p \in Paths : disk'[p].key = None => disk'[p].rows = {}
      BY <1>2, <2>1, <2>4 DEF AbsentIsEmpty, Paths
    <3> QED BY <1>2, <1>3, <1>4, <2>1, <2>3, <2>4, <2>6, <3>1, InitFilesSafe
  <2> QED BY <2>6, <2>7 DEF SafetyInv
<1> QED BY <1>1, <1>6, <1>7, <1>8, <1>9

\* Recording the first DEK is what makes it known.
LEMMA InitRecordSafe ==
  ASSUME SafetyInv, NEW r \in Requests, InitRecord(r)
  PROVE  SafetyInv'
<1>1. req[r].op = "init" /\ req[r].pc = "record" /\ req[r].pc \in InitSteps
  BY DEF InitRecord, At, InitSteps
<1>2. /\ ControlInv /\ TypeOK /\ FileInv /\ Latched(r) /\ busy /\ meta = {} /\ InitStage(r)
      /\ req[r] \in Request /\ req[r].new \in Deks /\ req[r].dek = None
  BY <1>1, InsideInit
<1> DEFINE m == [dek |-> req[r].new, version |-> FirstVersion]
<1>3. /\ meta' = {m} /\ initialized' = TRUE /\ Goto(r, "open")
      /\ disk' = disk /\ handle' = handle /\ committed' = committed /\ nextKey' = nextKey
      /\ overwritten' = overwritten /\ faults' = faults
      /\ unlocked' = unlocked /\ failed' = failed /\ busy' = busy
  BY DEF InitRecord
<1>4. m \in Meta /\ m.dek = req[r].new /\ m.version = 1
  <2>1. 1 \in 1..MaxKeys
    BY <1>2, KeysDiffer, Limits
  <2> QED BY <1>2, <2>1 DEF Meta, FirstVersion
<1>5. "open" \in Steps /\ "open" \in InitSteps
  BY DEF Steps, InitSteps
<1>6. PICK q \in Request :
        /\ req' = [req EXCEPT ![r] = q]
        /\ q.op = "init" /\ q.pc = "open" /\ q.dek = None /\ q.new = req[r].new
  BY <1>1, <1>2, <1>3, <1>5, GotoEffect
<1>7. \A s \in Requests : req'[s] = IF s = r THEN q ELSE req[s]
  BY <1>2, <1>6 DEF TypeOK
<1>8. WellFormed(q)
  BY <1>2, <1>5, <1>6 DEF WellFormed
<1>9. Latch' /\ (\A s \in Requests : WellFormed(req'[s])) /\ req' \in [Requests -> Request]
  BY <1>2, <1>3, <1>6, <1>8, RequestMoves
<1>10. KeyRoom'
  <2>1. Pending' \subseteq Pending
    BY <1>2, <1>6, <1>7, KeysDiffer DEF Pending
  <2> QED BY <1>2, <1>3, <2>1, RoomStays
<1> HIDE DEF m
<1>11. Known' = {req[r].new}
  <2>1. Known = {}
    BY <1>2 DEF FileInv, Uninitialized
  <2>2. \A s \in Requests : req[s].dek = None
    BY <2>1 DEF Known
  <2>3. \A s \in Requests : req'[s].dek = None
    BY <1>6, <1>7, <2>2
  <2> QED BY <1>3, <1>4, <2>3 DEF Known
<1>12. Fresh'
  <2>1. req[r].new < nextKey
    BY <1>2, KeysDiffer DEF ControlInv, Fresh
  <2>2. 1 < nextKey
    BY <1>2, <2>1, KeysDiffer, Limits DEF TypeOK
  <2>3. \A s \in Requests : req'[s].new # None => req'[s].new < nextKey
    <3>1. \A s \in Requests : req[s].new # None => req[s].new < nextKey
      BY <1>2 DEF ControlInv, Fresh
    <3> QED BY <1>6, <1>7, <2>1, <3>1
  <2>4. \A k \in Known' : k < nextKey'
    BY <1>3, <1>11, <2>1
  <2>5. \A n \in meta' : n.version < nextKey'
    BY <1>3, <1>4, <2>2
  <2> QED BY <1>3, <2>3, <2>4, <2>5 DEF Fresh
<1>13. TypeOK'
  <2>1. initialized' \in BOOLEAN
    BY <1>3
  <2> QED BY <1>2, <1>3, <1>4, <1>9, <2>1 DEF TypeOK
<1>14. handle = None /\ committed \subseteq {0} /\ disk["bak"].key = None
  BY <1>2, BeforeInit
<1>15. FileInv'
  <2>1. meta' # {} /\ \A n \in meta' : n = m
    BY <1>3
  <2>2. Uninitialized'
    BY <1>3, <2>1 DEF Uninitialized
  <2>3. AbsentIsEmpty' /\ Kept'
    BY <1>2, <1>3 DEF FileInv, AbsentIsEmpty, Kept, Current
  <2>4. HandleFits' /\ ServesRecorded'
    BY <1>3, <1>14 DEF HandleFits, ServesRecorded, ServedDekRecorded
  <2>5. KeysAgree'
    BY <1>3, <1>4, <1>11, <1>14, <2>1 DEF KeysAgree
  <2>6. Reopens'
    BY <1>3, <1>14 DEF Reopens
  <2> QED BY <2>2, <2>3, <2>4, <2>5, <2>6 DEF FileInv
<1>16. InitStage(r)' /\ RotateStage(r)'
  <2>1. disk["app"].key \in {None, req[r].new}
    BY <1>1, <1>2 DEF InitStage
  <2>2. req'[r] = q
    BY <1>7
  <2> QED BY <1>3, <1>6, <1>14, <2>1, <2>2 DEF InitStage, RotateStage, m
<1>17. ASSUME NEW s \in Requests, s # r
       PROVE  InitStage(s)' /\ RotateStage(s)'
  BY <1>2, <1>7, <1>17, OthersWait
<1>18. Stages'
  BY <1>16, <1>17 DEF Stages
<1> QED BY <1>9, <1>10, <1>12, <1>13, <1>15, <1>18 DEF SafetyInv, ControlInv

\* Opening the database creates it in a new deployment.
LEMMA InitOpened ==
  ASSUME SafetyInv, NEW r \in Requests, req[r].op = "init", req[r].pc = "open",
         disk' = OpenedOn(disk, req[r].new), handle' \in {handle, req[r].new},
         meta' = meta, committed' = committed, initialized' = initialized,
         overwritten' = overwritten, Known' \subseteq Known
  PROVE  disk' \in [Paths -> File] /\ FileInv'
<1>1. req[r].pc \in InitSteps
  BY DEF InitSteps
<1>2. /\ TypeOK /\ FileInv /\ AbsentIsEmpty /\ InitStage(r) /\ req[r].new \in Deks
      /\ disk \in [Paths -> File]
  BY <1>1, InsideInit DEF TypeOK, FileInv
<1> DEFINE m == [dek |-> req[r].new, version |-> FirstVersion]
<1>3. /\ disk["app"].key \in {None, req[r].new} /\ disk["bak"].key = None
      /\ meta = {m} /\ handle = None
  BY <1>1, <1>2 DEF InitStage
<1>4. m.dek = req[r].new
  OBVIOUS
<1> HIDE DEF m
<1>5. /\ disk' \in [Paths -> File]
      /\ disk["app"].key # None => disk' = disk
      /\ disk["app"].key = None => disk'["app"].key = req[r].new /\ disk'["app"].rows = {}
      /\ \A o \in Paths \ {"app"} : disk'[o] = disk[o]
  BY <1>2, OpenedEffect
<1>6. disk'["app"].key = req[r].new /\ req[r].new # None
  BY <1>2, <1>3, <1>5, KeysDiffer
<1>7. disk'["bak"] = disk["bak"] /\ disk'["plain"] = disk["plain"] /\ disk'["enc"] = disk["enc"]
  BY <1>5 DEF Paths
<1>8. Uninitialized'
  <2>1. meta' # {}
    BY <1>3
  <2> QED BY <1>2, <2>1 DEF FileInv, Uninitialized
<1>9. AbsentIsEmpty'
  BY <1>2, <1>5, <1>6 DEF AbsentIsEmpty
<1>10. HandleFits' /\ ServesRecorded'
  BY <1>3, <1>4, <1>6 DEF HandleFits, ServesRecorded, ServedDekRecorded
<1>11. KeysAgree' /\ Reopens'
  BY <1>3, <1>4, <1>6 DEF KeysAgree, Reopens
<1>12. Kept'
  <2>1. Kept
    BY <1>2 DEF FileInv
  <2>2. CASE disk["app"].key # None
    BY <1>5, <2>1, <2>2 DEF Kept, Current
  <2>3. CASE disk["app"].key = None
    <3>1. disk["bak"].rows = {}
      BY <1>2, <1>3 DEF AbsentIsEmpty, Paths
    <3>2. /\ committed \ {0} \subseteq {}
          /\ committed \subseteq disk["plain"].rows \cup disk["enc"].rows
      BY <2>1, <2>3, <3>1 DEF Kept, Current
    <3>3. Current' = disk'["app"]
      BY <1>6 DEF Current
    <3> QED BY <1>7, <3>2, <3>3 DEF Kept
  <2> QED BY <2>2, <2>3
<1> QED BY <1>5, <1>8, <1>9, <1>10, <1>11, <1>12 DEF FileInv

LEMMA InitOpenSafe ==
  ASSUME SafetyInv, NEW r \in Requests, InitOpen(r)
  PROVE  SafetyInv'
<1>1. req[r].op = "init" /\ req[r].pc = "open" /\ req[r].pc \in InitSteps
  BY DEF InitOpen, At, InitSteps
<1>2. TypeOK /\ InitStage(r) /\ Latched(r) /\ req[r].new \in Deks /\ disk \in [Paths -> File]
      /\ AbsentIsEmpty
  BY <1>1, InsideInit DEF TypeOK, FileInv
<1>3. Opens(disk, req[r].new)
  BY <1>1, <1>2 DEF InitStage, Opens
<1>4. /\ disk' = OpenedOn(disk, req[r].new) /\ handle' = req[r].new /\ unlocked' = TRUE
      /\ failed' = failed /\ Done(r)
      /\ meta' = meta /\ committed' = committed /\ nextKey' = nextKey
      /\ overwritten' = overwritten /\ initialized' = initialized /\ faults' = faults
  BY <1>3 DEF InitOpen
<1>5. disk' \in [Paths -> File]
  BY <1>2, <1>4, OpenedEffect
<1>6. /\ handle' \in Deks \cup {None} /\ unlocked' \in BOOLEAN /\ failed' \in BOOLEAN
      /\ faults' \in 0..MaxFaults
  BY <1>2, <1>4 DEF TypeOK
<1>7. ControlInv' /\ Known' \subseteq Known /\ Stages'
  BY <1>2, <1>4, <1>5, <1>6, LatchedEnds
<1>8. FileInv'
  BY <1>1, <1>4, <1>7, InitOpened
<1> QED BY <1>7, <1>8 DEF SafetyInv

LEMMA FaultCounted ==
  ASSUME TypeOK, Fault
  PROVE  faults' \in 0..MaxFaults
  BY Limits DEF TypeOK, Fault

LEMMA InitFailsSafe ==
  ASSUME SafetyInv, NEW r \in Requests, InitFails(r)
  PROVE  SafetyInv'
<1>1. req[r].op = "init" /\ req[r].pc \in InitSteps
  BY DEF InitFails, InitSteps
<1>2. /\ ControlInv /\ TypeOK /\ FileInv /\ InitStage(r) /\ Latched(r) /\ req[r].new \in Deks
      /\ disk \in [Paths -> File] /\ AbsentIsEmpty /\ (req[r].pc # "open" => meta = {})
  BY <1>1, InsideInit DEF TypeOK, FileInv
<1>3. /\ Fault /\ Done(r) /\ failed' = TRUE
      /\ meta' = meta /\ handle' = handle /\ committed' = committed /\ nextKey' = nextKey
      /\ overwritten' = overwritten /\ initialized' = initialized /\ unlocked' = unlocked
  BY DEF InitFails
<1>4. /\ handle' \in Deks \cup {None} /\ unlocked' \in BOOLEAN /\ failed' \in BOOLEAN
      /\ faults' \in 0..MaxFaults
  BY <1>2, <1>3, FaultCounted DEF TypeOK
<1>5. CASE disk' = disk
  <2>1. ControlInv' /\ Known' \subseteq Known /\ Stages'
    BY <1>2, <1>3, <1>4, <1>5, LatchedEnds
  <2> QED BY <1>2, <1>3, <1>5, <2>1, FilesStay DEF SafetyInv
<1>6. CASE req[r].pc = "copying" /\ disk' = Remove("enc")
  <2>1. /\ disk' \in [Paths -> File]
        /\ disk'["enc"].key = None /\ disk'["enc"].rows = {}
        /\ \A o \in Paths \ {"enc"} : disk'[o] = disk[o]
    BY <1>2, <1>6, RemoveEffect DEF Paths
  <2>2. /\ disk'["app"] = disk["app"] /\ disk'["bak"] = disk["bak"]
        /\ disk'["plain"] = disk["plain"]
    BY <2>1 DEF Paths
  <2>3. ControlInv' /\ Known' \subseteq Known /\ Stages'
    BY <1>2, <1>3, <1>4, <2>1, LatchedEnds
  <2>4. disk["app"].key = Plain /\ meta = {}
    BY <1>1, <1>2, <1>6 DEF InitStage
  <2>5. committed \subseteq disk["app"].rows
    BY <1>2, <2>4, BeforeInit
  <2>6. \A p \in Paths : disk'[p].key = None => disk'[p].rows = {}
    BY <1>2, <2>1, <2>2 DEF AbsentIsEmpty, Paths
  <2>7. FileInv'
    BY <1>2, <1>3, <2>2, <2>3, <2>4, <2>5, <2>6, InitFilesSafe
  <2> QED BY <2>3, <2>7 DEF SafetyInv
<1>7. CASE req[r].pc = "open" /\ disk' = OpenedOn(disk, req[r].new)
  <2>1. disk' \in [Paths -> File]
    BY <1>2, <1>7, OpenedEffect
  <2>2. ControlInv' /\ Known' \subseteq Known /\ Stages'
    BY <1>2, <1>3, <1>4, <2>1, LatchedEnds
  <2>3. FileInv'
    BY <1>1, <1>3, <1>7, <2>2, InitOpened
  <2> QED BY <2>2, <2>3 DEF SafetyInv
<1> QED BY <1>5, <1>6, <1>7 DEF InitFails

----------------------------------------------------------------------------
(* Unlock, change of the master key, and the start of a rotation *)

\* A handle is closed, or opened with a DEK that somebody has; the copy of a
\* rotation may come and go meanwhile.
LEMMA HandleMoves ==
  ASSUME FileInv, \A o \in Paths \ {"rekey"} : disk'[o] = disk[o],
         disk'["rekey"].key = None => disk'["rekey"].rows = {},
         meta' = meta, committed' = committed, overwritten' = overwritten,
         initialized' = initialized, Known' \subseteq Known,
         handle' \in {handle, None} \/ (handle' = disk["app"].key /\ handle' \in Known)
  PROVE  FileInv'
<1>1. /\ disk'["app"] = disk["app"] /\ disk'["bak"] = disk["bak"]
      /\ disk'["plain"] = disk["plain"] /\ disk'["enc"] = disk["enc"]
  BY DEF Paths
<1>2. Uninitialized'
  <2>1. meta = {} => handle' = None
    BY DEF FileInv, Uninitialized
  <2> QED BY <1>1, <2>1 DEF FileInv, Uninitialized
<1>3. AbsentIsEmpty'
  BY <1>1 DEF FileInv, AbsentIsEmpty, Paths
<1>4. HandleFits'
  BY <1>1 DEF FileInv, HandleFits
<1>5. ServesRecorded'
  <2> SUFFICES ASSUME ~overwritten, handle' # None
               PROVE  \E m \in meta : m.dek = handle'
    BY DEF ServesRecorded, ServedDekRecorded
  <2>1. CASE handle' = handle
    BY <2>1 DEF FileInv, ServesRecorded, ServedDekRecorded
  <2>2. CASE handle' = disk["app"].key /\ handle' \in Known
    <3>1. meta # {}
      BY <2>2 DEF FileInv, Uninitialized
    <3> QED BY <2>2, <3>1 DEF FileInv, KeysAgree
  <2> QED BY <2>1, <2>2
<1>6. KeysAgree' /\ Reopens' /\ Kept'
  BY <1>1 DEF FileInv, KeysAgree, Reopens, Kept, Current
<1> QED BY <1>2, <1>3, <1>4, <1>5, <1>6 DEF FileInv

\* A waiting request is turned away.
LEMMA Refused ==
  ASSUME SafetyInv, NEW r \in Requests, req' = [req EXCEPT ![r] = Idle], busy' = busy,
         disk' = disk, meta' = meta, handle' = handle, committed' = committed,
         overwritten' = overwritten, initialized' = initialized, nextKey' = nextKey,
         unlocked' = unlocked, failed' = failed, faults' = faults
  PROVE  SafetyInv'
<1>1. TypeOK
  BY DEF SafetyInv, ControlInv
<1>2. InitStage(r)' /\ RotateStage(r)'
  <2>1. req'[r] = Idle
    BY <1>1 DEF TypeOK
  <2>2. req'[r].pc \in Waiting
    BY <2>1, IdleIsRequest DEF Waiting
  <2> QED BY <2>2, WaitingStage
<1>3. {unlocked, busy, failed}' \subseteq BOOLEAN /\ faults' \in 0..MaxFaults
  BY <1>1 DEF TypeOK
<1>4. /\ Idle.pc \in Waiting /\ Idle.dek \in Known \cup {None}
      /\ Idle.new \in {None, req[r].new} /\ Idle.op \notin {"init", "rotate"}
  BY IdleIsRequest DEF Waiting
<1> QED BY <1>2, <1>3, <1>4, IdleIsRequest, QuietSafe

\* What is known of an unlock or a master change.
LEMMA InsideShort ==
  ASSUME SafetyInv, NEW r \in Requests, req[r].op \in {"unlock", "change"}
  PROVE  /\ ControlInv /\ TypeOK /\ FileInv /\ req[r] \in Request
         /\ req[r].new = None /\ req[r].dek \in Deks /\ req[r].dek \in Known
<1>1. ControlInv /\ TypeOK /\ FileInv /\ req[r] \in Request
  BY DEF SafetyInv, ControlInv, TypeOK
<1>2. WellFormed(req[r])
  BY <1>1 DEF ControlInv
<1>3. req[r].new = None /\ req[r].dek \in Deks
  BY <1>2, IdleIsRequest DEF WellFormed
<1>4. req[r].dek \in Known
  BY <1>3, KeysDiffer DEF Known
<1> QED BY <1>1, <1>3, <1>4

LEMMA PostUnlockSafe ==
  ASSUME SafetyInv, NEW r \in Requests, PostUnlock(r)
  PROVE  SafetyInv'
<1>1. req[r].op = "unlock" /\ req[r].pc = "asked"
  BY DEF PostUnlock, At
<1>2. /\ ControlInv /\ TypeOK /\ req[r] \in Request
      /\ req[r].new = None /\ req[r].dek \in Deks /\ req[r].dek \in Known
  BY <1>1, InsideShort
<1>3. /\ disk' = disk /\ meta' = meta /\ handle' = handle /\ committed' = committed
      /\ overwritten' = overwritten /\ initialized' = initialized /\ nextKey' = nextKey
      /\ unlocked' = unlocked /\ busy' = busy /\ failed' = failed /\ faults' = faults
  BY DEF PostUnlock, state
<1>4. CASE unlocked
  <2>1. req' = [req EXCEPT ![r] = Idle]
    BY <1>4 DEF PostUnlock
  <2> QED BY <1>3, <2>1, Refused
<1>5. CASE ~unlocked
  <2>1. Goto(r, "admitted")
    BY <1>5 DEF PostUnlock, Goto
  <2>2. "admitted" \in Steps
    BY DEF Steps
  <2>3. PICK q \in Request :
          /\ req' = [req EXCEPT ![r] = q]
          /\ q.op = "unlock" /\ q.pc = "admitted" /\ q.dek = req[r].dek /\ q.new = None
    BY <1>1, <1>2, <2>1, <2>2, GotoEffect
  <2>4. WellFormed(q) /\ q.pc \in Waiting
    BY <1>2, <2>3 DEF WellFormed, Waiting
  <2>5. InitStage(r)' /\ RotateStage(r)'
    <3>1. req'[r] = q
      BY <1>2, <2>3 DEF TypeOK
    <3> QED BY <2>4, <3>1, WaitingStage
  <2>6. {unlocked, busy, failed}' \subseteq BOOLEAN /\ faults' \in 0..MaxFaults
    BY <1>2, <1>3 DEF TypeOK
  <2>7. q.dek \in Known \cup {None} /\ q.new \in {None, req[r].new}
        /\ q.op \notin {"init", "rotate"}
    BY <1>2, <2>3
  <2> QED BY <1>3, <2>3, <2>4, <2>5, <2>6, <2>7, QuietSafe
<1> QED BY <1>4, <1>5

LEMMA BeginUnlockSafe ==
  ASSUME SafetyInv, NEW r \in Requests, BeginUnlock(r)
  PROVE  SafetyInv'
<1>1. req[r].op = "unlock" /\ req[r].pc = "admitted"
  BY DEF BeginUnlock, At
<1>2. /\ ControlInv /\ TypeOK /\ req[r] \in Request
      /\ req[r].new = None /\ req[r].dek \in Deks /\ req[r].dek \in Known
  BY <1>1, InsideShort
<1>3. /\ disk' = disk /\ meta' = meta /\ handle' = handle /\ committed' = committed
      /\ overwritten' = overwritten /\ initialized' = initialized /\ nextKey' = nextKey
      /\ unlocked' = unlocked /\ failed' = failed /\ faults' = faults /\ busy' = TRUE
  BY DEF BeginUnlock, state
<1>4. CASE busy
  <2>1. req' = [req EXCEPT ![r] = Idle]
    BY <1>4 DEF BeginUnlock
  <2>2. busy' = busy
    BY <1>2, <1>3, <1>4 DEF TypeOK
  <2> QED BY <1>3, <2>1, <2>2, Refused
<1>5. CASE ~busy
  <2>1. Goto(r, "open")
    BY <1>5 DEF BeginUnlock, Goto
  <2>2. "open" \in Steps
    BY DEF Steps
  <2>3. PICK q \in Request :
          /\ req' = [req EXCEPT ![r] = q]
          /\ q.op = "unlock" /\ q.pc = "open" /\ q.dek = req[r].dek /\ q.new = None
    BY <1>1, <1>2, <2>1, <2>2, GotoEffect
  <2>4. WellFormed(q)
    BY <1>2, <2>3 DEF WellFormed
  <2>5. InitStage(r)' /\ RotateStage(r)'
    <3>1. req'[r] = q
      BY <1>2, <2>3 DEF TypeOK
    <3> QED BY <2>3, <3>1 DEF InitStage, RotateStage
  <2>6. {unlocked, busy, failed}' \subseteq BOOLEAN /\ faults' \in 0..MaxFaults
    <3>1. busy' \in BOOLEAN
      BY <1>3
    <3> QED BY <1>2, <1>3, <3>1 DEF TypeOK
  <2>7. q.dek \in Known \cup {None} /\ q.new \in {None, req[r].new}
        /\ q.op \notin {"init", "rotate"}
    BY <1>2, <2>3
  <2> QED BY <1>3, <1>5, <2>3, <2>4, <2>5, <2>6, <2>7, QuietSafe
<1> QED BY <1>4, <1>5

\* The DEK of an unlock fits app.db, and somebody has it: it is the recorded one.
LEMMA OpenUnlockSafe ==
  ASSUME SafetyInv, NEW r \in Requests, OpenUnlock(r)
  PROVE  SafetyInv'
<1>1. req[r].op = "unlock" /\ req[r].pc = "open"
  BY DEF OpenUnlock, At
<1>2. /\ ControlInv /\ TypeOK /\ FileInv /\ req[r].dek \in Deks /\ req[r].dek \in Known
  BY <1>1, InsideShort
<1>3. /\ disk' = disk /\ meta' = meta /\ committed' = committed /\ nextKey' = nextKey
      /\ overwritten' = overwritten /\ initialized' = initialized /\ Done(r)
  BY DEF OpenUnlock
<1>4. handle' \in {handle, None} \/ (handle' = disk["app"].key /\ handle' \in Known)
  <2>1. \/ handle' = handle
        \/ handle' = None
        \/ disk["app"].key = req[r].dek /\ handle' = req[r].dek
    BY DEF OpenUnlock
  <2> QED BY <1>2, <2>1
<1>5. /\ handle' \in Deks \cup {None}
      /\ unlocked' \in BOOLEAN /\ failed' \in BOOLEAN /\ faults' \in 0..MaxFaults
  <2>1. unlocked \in BOOLEAN /\ failed \in BOOLEAN /\ handle \in Deks \cup {None}
        /\ faults \in 0..MaxFaults
    BY <1>2 DEF TypeOK
  <2> QED BY <1>2, <2>1, FaultCounted DEF OpenUnlock
<1>6. Latched(r)
  BY <1>1, AtLatched DEF RotateSteps, InitSteps
<1>7. disk' \in [Paths -> File]
  BY <1>2, <1>3 DEF TypeOK
<1>8. ControlInv' /\ Known' \subseteq Known /\ Stages'
  BY <1>3, <1>5, <1>6, <1>7, LatchedEnds
<1>9. FileInv'
  <2>1. disk["rekey"].key = None => disk["rekey"].rows = {}
    BY <1>2 DEF FileInv, AbsentIsEmpty, Paths
  <2> QED BY <1>2, <1>3, <1>4, <1>8, <2>1, HandleMoves
<1> QED BY <1>8, <1>9 DEF SafetyInv

LEMMA BeginAdminSafe ==
  ASSUME SafetyInv, NEW r \in Requests, BeginAdmin(r)
  PROVE  SafetyInv'
<1>1. req[r].op \in {"rotate", "change"} /\ req[r].pc = "asked"
  BY DEF BeginAdmin
<1>2. /\ ControlInv /\ TypeOK /\ req[r] \in Request /\ WellFormed(req[r])
  BY DEF SafetyInv, ControlInv, TypeOK
<1>3. req[r].new = None /\ req[r].dek \in Deks /\ req[r].dek \in Known
  <2>1. req[r].new = None /\ req[r].dek \in Deks
    BY <1>1, <1>2, IdleIsRequest DEF WellFormed, RotateSteps, InitSteps
  <2> QED BY <2>1, KeysDiffer DEF Known
<1>4. /\ disk' = disk /\ meta' = meta /\ handle' = handle /\ committed' = committed
      /\ overwritten' = overwritten /\ initialized' = initialized /\ nextKey' = nextKey
      /\ unlocked' = unlocked /\ failed' = failed /\ faults' = faults
  BY DEF BeginAdmin, state
<1>5. CASE handle = None \/ ~unlocked \/ busy
  <2>1. req' = [req EXCEPT ![r] = Idle] /\ busy' = busy
    BY <1>5 DEF BeginAdmin
  <2> QED BY <1>4, <2>1, Refused
<1>6. CASE ~(handle = None \/ ~unlocked \/ busy)
  <2> DEFINE pc == IF req[r].op = "rotate" THEN "quiesce" ELSE "rewrap"
  <2>1. Goto(r, pc) /\ busy' = TRUE
    BY <1>6 DEF BeginAdmin
  <2>2. pc \in Steps
    BY DEF Steps
  <2>3. \/ req[r].op = "rotate" /\ pc = "quiesce"
        \/ req[r].op = "change" /\ pc = "rewrap"
    BY <1>1
  <2> HIDE DEF pc
  <2>4. PICK q \in Request :
          /\ req' = [req EXCEPT ![r] = q]
          /\ q.op = req[r].op /\ q.pc = pc /\ q.dek = req[r].dek /\ q.new = None
    BY <1>2, <1>3, <2>1, <2>2, GotoEffect
  <2>5. WellFormed(q)
    BY <1>3, <2>3, <2>4 DEF WellFormed
  <2>6. InitStage(r)' /\ RotateStage(r)'
    <3>1. req'[r] = q
      BY <1>2, <2>4 DEF TypeOK
    <3>2. handle' # None
      BY <1>4, <1>6
    <3>3. pc \notin RotateSteps
      BY <2>3 DEF RotateSteps, InitSteps
    <3>4. q.op # "init" /\ q.pc \notin RotateSteps
      BY <2>3, <2>4, <3>3
    <3> QED BY <3>1, <3>2, <3>4 DEF InitStage, RotateStage
  <2>7. {unlocked, busy, failed}' \subseteq BOOLEAN /\ faults' \in 0..MaxFaults
    <3>1. busy' \in BOOLEAN
      BY <2>1
    <3> QED BY <1>2, <1>4, <3>1 DEF TypeOK
  <2>8. q.op \in {"init", "rotate"} /\ q.new = None => r \in Pending
    BY <1>3, <2>4 DEF Pending
  <2>9. q.dek \in Known \cup {None} /\ q.new \in {None, req[r].new} /\ busy' /\ ~busy
    BY <1>3, <1>6, <2>1, <2>4
  <2> QED BY <1>4, <2>4, <2>5, <2>6, <2>7, <2>8, <2>9, QuietSafe
<1> QED BY <1>5, <1>6

\* Unless it notes that it recorded another DEK, a master change changes nothing.
LEMMA ChangeMasterSafe ==
  ASSUME SafetyInv, NEW r \in Requests, ChangeMaster(r)
  PROVE  SafetyInv'
<1>1. req[r].op = "change" /\ req[r].pc = "rewrap"
  BY DEF ChangeMaster, At
<1>2. /\ ControlInv /\ TypeOK /\ FileInv /\ req[r].dek \in Deks /\ req[r].dek \in Known
  BY <1>1, InsideShort
<1>3. /\ disk' = disk /\ handle' = handle /\ committed' = committed /\ nextKey' = nextKey
      /\ initialized' = initialized /\ unlocked' = unlocked /\ failed' = failed /\ Done(r)
  BY DEF ChangeMaster, state
<1>4. Latched(r)
  BY <1>1, AtLatched
<1>5. CASE Fault /\ meta' = meta /\ overwritten' = overwritten
  <2>1. /\ disk' \in [Paths -> File] /\ handle' \in Deks \cup {None}
        /\ unlocked' \in BOOLEAN /\ failed' \in BOOLEAN /\ faults' \in 0..MaxFaults
    BY <1>2, <1>3, <1>5, FaultCounted DEF TypeOK
  <2>2. ControlInv' /\ Known' \subseteq Known /\ Stages'
    BY <1>3, <1>4, <1>5, <2>1, LatchedEnds
  <2> QED BY <1>2, <1>3, <1>5, <2>2, FilesStay DEF SafetyInv
<1>6. CASE /\ meta' = {[m EXCEPT !.dek = req[r].dek] : m \in meta}
           /\ overwritten' = (overwritten \/ \E m \in meta : m.dek # req[r].dek)
           /\ faults' = faults
  <2>1. req' = [req EXCEPT ![r] = Idle] /\ busy' = FALSE
    BY <1>3 DEF Done, EndOperation
  <2>2. \A s \in Requests : req'[s] = IF s = r THEN Idle ELSE req[s]
    BY <1>2, <2>1 DEF TypeOK
  <2>3. Latch' /\ (\A s \in Requests : WellFormed(req'[s])) /\ req' \in [Requests -> Request]
    <3>1. Idle.pc \in Waiting
      BY IdleIsRequest DEF Waiting
    <3> QED BY <1>2, <1>4, <2>1, <3>1, IdleIsRequest, RequestMoves
  <2>4. meta \subseteq Meta /\ (\A m, n \in meta : m = n)
    BY <1>2 DEF TypeOK
  <2>5. /\ meta' \subseteq Meta /\ (\A m, n \in meta' : m = n)
        /\ \A n \in meta' : n.dek = req[r].dek /\ \E m \in meta : n.version = m.version
        /\ meta' = {} <=> meta = {}
    <3> DEFINE rewrapped(m) == [m EXCEPT !.dek = req[r].dek]
    <3>1. ASSUME NEW m \in Meta
          PROVE  /\ rewrapped(m) \in Meta
                 /\ rewrapped(m).dek = req[r].dek /\ rewrapped(m).version = m.version
      BY <1>2 DEF Meta
    <3>2. meta' = {rewrapped(m) : m \in meta}
      BY <1>6
    <3> HIDE DEF rewrapped
    <3>3. meta' \subseteq Meta /\ (meta' = {} <=> meta = {})
      BY <2>4, <3>1, <3>2
    <3>4. \A m, n \in meta' : m = n
      BY <2>4, <3>2
    <3>5. \A n \in meta' : n.dek = req[r].dek /\ \E m \in meta : n.version = m.version
      BY <2>4, <3>1, <3>2
    <3> QED BY <3>3, <3>4, <3>5
  <2>6. meta # {} /\ (\A m \in meta : m.dek \in Known)
    BY <1>2 DEF FileInv, Uninitialized, Known
  <2>7. Known' \subseteq Known
    BY <1>2, <2>2, <2>5, IdleIsRequest DEF Known
  <2>8. KeyRoom'
    <3>1. Pending' \subseteq Pending
      BY <2>2, IdleIsRequest DEF Pending
    <3> QED BY <1>2, <1>3, <3>1, RoomStays
  <2>9. Fresh'
    <3>1. Fresh
      BY <1>2 DEF ControlInv
    <3>2. \A s \in Requests : req'[s].new # None => req'[s].new = req[s].new
      BY <2>2, IdleIsRequest
    <3> QED BY <1>3, <2>5, <2>7, <3>1, <3>2 DEF Fresh
  <2>10. TypeOK'
    <3>1. busy' \in BOOLEAN /\ overwritten' \in BOOLEAN
      BY <1>6, <2>1
    <3> QED BY <1>2, <1>3, <1>6, <2>3, <2>5, <3>1 DEF TypeOK
  <2>11. ControlInv'
    BY <2>3, <2>8, <2>9, <2>10 DEF ControlInv
  <2>12. Stages'
    <3>1. ASSUME NEW s \in Requests
          PROVE  InitStage(s)' /\ RotateStage(s)'
      <4>1. CASE s = r
        <5>1. req'[s].pc \in Waiting
          BY <2>2, <4>1, IdleIsRequest DEF Waiting
        <5> QED BY <5>1, WaitingStage
      <4>2. CASE s # r
        BY <1>2, <1>4, <2>2, <4>2, OthersWait
      <4> QED BY <4>1, <4>2
    <3> QED BY <3>1 DEF Stages
  <2>13. ~overwritten' => ~overwritten /\ \A n \in meta' : \A m \in meta : n.dek = m.dek
    BY <1>6, <2>5
  <2>14. FileInv'
    <3>1. Uninitialized'
      BY <1>2, <1>3, <2>5, <2>6 DEF FileInv, Uninitialized
    <3>2. AbsentIsEmpty' /\ Kept' /\ HandleFits'
      BY <1>2, <1>3 DEF FileInv, AbsentIsEmpty, Kept, Current, HandleFits
    <3>3. ServesRecorded'
      BY <1>2, <1>3, <2>5, <2>6, <2>13 DEF FileInv, ServesRecorded, ServedDekRecorded
    <3>4. KeysAgree' /\ Reopens'
      BY <1>2, <1>3, <2>6, <2>7, <2>13 DEF FileInv, KeysAgree, Reopens
    <3> QED BY <3>1, <3>2, <3>3, <3>4 DEF FileInv
  <2> QED BY <2>11, <2>12, <2>14 DEF SafetyInv
<1> QED BY <1>5, <1>6 DEF ChangeMaster

LEMMA QuiesceSafe ==
  ASSUME SafetyInv, NEW r \in Requests, Quiesce(r)
  PROVE  SafetyInv'
<1>1. req[r].op = "rotate" /\ req[r].pc = "quiesce"
  BY DEF Quiesce, At
<1>2. /\ ControlInv /\ TypeOK /\ FileInv /\ RotateStage(r) /\ req[r] \in Request
      /\ WellFormed(req[r])
  BY DEF SafetyInv, ControlInv, TypeOK, Stages
<1>3. /\ disk' = disk /\ meta' = meta /\ committed' = committed
      /\ overwritten' = overwritten /\ initialized' = initialized
      /\ unlocked' = unlocked /\ failed' = failed
  BY DEF Quiesce, state
<1>4. Latched(r)
  BY <1>1, AtLatched
<1>5. busy = TRUE
  BY <1>2, <1>4 DEF ControlInv, Latch, TypeOK
<1>6. CASE Fault /\ Done(r) /\ handle' = handle /\ nextKey' = nextKey
  <2>1. /\ disk' \in [Paths -> File] /\ handle' \in Deks \cup {None}
        /\ unlocked' \in BOOLEAN /\ failed' \in BOOLEAN /\ faults' \in 0..MaxFaults
    BY <1>2, <1>3, <1>6, FaultCounted DEF TypeOK
  <2>2. ControlInv' /\ Known' \subseteq Known /\ Stages'
    BY <1>3, <1>4, <1>6, <2>1, LatchedEnds
  <2> QED BY <1>2, <1>3, <1>6, <2>2, FilesStay DEF SafetyInv
<1>7. CASE /\ handle' = Closed
           /\ req' = [req EXCEPT ![r].pc = "drain", ![r].new = nextKey]
           /\ nextKey' = nextKey + 1
           /\ busy' = busy /\ faults' = faults
  <2>1. r \in Pending /\ req[r] # Idle
    <3>1. req[r].new = None
      BY <1>1, <1>2, IdleIsRequest DEF WellFormed, RotateSteps, InitSteps
    <3> QED BY <1>1, <3>1, IdleIsRequest DEF Pending
  <2>2. Generates(r, "drain", nextKey) /\ "drain" \in RotateSteps
    BY <1>7 DEF Generates, RotateSteps
  <2>3. handle' = None /\ busy' = TRUE
    BY <1>5, <1>7 DEF Closed
  <2>4. /\ nextKey \in Deks /\ ControlInv' /\ Known' \subseteq Known
        /\ req'[r].op = "rotate" /\ req'[r].pc = "drain" /\ req'[r].new = nextKey
        /\ \A s \in Requests \ {r} : req'[s] = req[s]
    BY <1>1, <1>3, <1>4, <1>7, <2>1, <2>2, <2>3, GeneratedMove
  <2>5. FileInv'
    <3>1. disk["rekey"].key = None => disk["rekey"].rows = {}
      BY <1>2 DEF FileInv, AbsentIsEmpty, Paths
    <3> QED BY <1>2, <1>3, <2>3, <2>4, <3>1, HandleMoves
  <2>6. InitStage(r)' /\ RotateStage(r)'
    <3>1. handle # None
      BY <1>1, <1>2 DEF RotateStage
    <3>2. disk["app"].key # None
      BY <1>2, <3>1 DEF FileInv, HandleFits
    <3>3. meta # {}
      BY <1>2, <3>1 DEF FileInv, Uninitialized
    <3>4. nextKey \notin Known /\ \A m \in meta : m.version < nextKey
      <4>1. Fresh /\ nextKey \in Nat
        BY <1>2, <2>4, KeysDiffer DEF ControlInv
      <4> QED BY <4>1 DEF Fresh
    <3> QED BY <1>3, <2>3, <2>4, <3>2, <3>3, <3>4 DEF InitStage, RotateStage
  <2>7. ASSUME NEW s \in Requests, s # r
        PROVE  InitStage(s)' /\ RotateStage(s)'
    BY <1>2, <1>4, <2>4, <2>7, OthersWait
  <2>8. Stages'
    BY <2>6, <2>7 DEF Stages
  <2> QED BY <2>4, <2>5, <2>8 DEF SafetyInv
<1> QED BY <1>6, <1>7 DEF Quiesce

----------------------------------------------------------------------------
(* Rotation *)

\* What is known of a request in the middle of a rotation.
LEMMA InsideRotate ==
  ASSUME SafetyInv, NEW r \in Requests, req[r].op = "rotate", req[r].pc \in RotateSteps
  PROVE  /\ ControlInv /\ TypeOK /\ FileInv /\ RotateStage(r)
         /\ disk \in [Paths -> File] /\ AbsentIsEmpty
         /\ Latched(r) /\ busy /\ r \notin Pending /\ req[r] \in Request
         /\ req[r].new \in Deks /\ req[r].dek \in Deks /\ req[r].dek \in Known
         /\ req[r].new # None /\ req[r].dek # None
<1>1. ControlInv /\ TypeOK /\ FileInv /\ RotateStage(r) /\ req[r] \in Request
  BY DEF SafetyInv, ControlInv, TypeOK, Stages
<1>2. disk \in [Paths -> File] /\ AbsentIsEmpty
  BY <1>1 DEF TypeOK, FileInv
<1>3. WellFormed(req[r])
  BY <1>1 DEF ControlInv
<1>4. req[r].new \in Deks /\ req[r].dek \in Deks
  BY <1>3, IdleIsRequest DEF WellFormed, RotateSteps, InitSteps
<1>5. req[r].new # None /\ req[r].dek # None
  BY <1>4, KeysDiffer
<1>6. req[r].dek \in Known
  BY <1>5 DEF Known
<1>7. Latched(r) /\ r \notin Pending
  BY <1>5, AtLatched DEF Pending
<1>8. busy
  BY <1>1, <1>7 DEF ControlInv, Latch
<1> QED BY <1>1, <1>2, <1>4, <1>5, <1>6, <1>7, <1>8

\* What a rotation that goes on to another of its steps takes along.
Went(r, pc) ==
  /\ req'[r].op = "rotate" /\ req'[r].pc = pc
  /\ req'[r].dek = req[r].dek /\ req'[r].new = req[r].new
  /\ Known' \subseteq Known

LEMMA RotateMoves ==
  ASSUME SafetyInv, NEW r \in Requests, req[r].op = "rotate", req[r].pc \in RotateSteps,
         NEW pc \in RotateSteps, Goto(r, pc), busy' = busy,
         meta' = meta, nextKey' = nextKey,
         disk' \in [Paths -> File], handle' \in Deks \cup {None}, committed' = committed,
         initialized' = initialized, overwritten' = overwritten,
         unlocked' \in BOOLEAN, failed' = failed, faults' = faults,
         Went(r, pc) => RotateStage(r)'
  PROVE  ControlInv' /\ Known' \subseteq Known /\ Stages'
<1>1. /\ ControlInv /\ TypeOK /\ Latched(r) /\ req[r] \in Request /\ busy
      /\ req[r].new \in Deks /\ req[r].dek \in Deks /\ req[r].dek \in Known
      /\ req[r].new # None
  BY InsideRotate
<1>2. pc \in Steps
  BY DEF RotateSteps, InitSteps, Steps
<1>3. PICK q \in Request :
        /\ req' = [req EXCEPT ![r] = q]
        /\ q.op = "rotate" /\ q.pc = pc /\ q.dek = req[r].dek /\ q.new = req[r].new
  BY <1>1, <1>2, GotoEffect
<1>4. req'[r] = q
  BY <1>1, <1>3 DEF TypeOK
<1>5. WellFormed(q)
  BY <1>1, <1>3 DEF WellFormed
<1>6. Known' \subseteq Known
  BY <1>1, <1>3, KnownStays
<1>7. InitStage(r)' /\ RotateStage(r)'
  <2>1. RotateStage(r)'
    BY <1>3, <1>4, <1>6 DEF Went
  <2>2. InitStage(r)'
    BY <1>3, <1>4 DEF InitStage
  <2> QED BY <2>1, <2>2
<1>8. /\ busy' /\ busy' \in BOOLEAN /\ q.dek \in Known \cup {None} /\ q.new \in {None, req[r].new}
      /\ ~(q.op \in {"init", "rotate"} /\ q.new = None)
  BY <1>1, <1>3 DEF TypeOK
<1>9. failed' \in BOOLEAN /\ faults' \in 0..MaxFaults
  BY <1>1 DEF TypeOK
<1> QED BY <1>1, <1>3, <1>5, <1>7, <1>8, <1>9, LatchedMoves

LEMMA DrainSafe ==
  ASSUME SafetyInv, NEW r \in Requests, Drain(r)
  PROVE  SafetyInv'
<1>1. req[r].op = "rotate" /\ req[r].pc = "drain" /\ req[r].pc \in RotateSteps
  BY DEF Drain, At, RotateSteps
<1>2. /\ ControlInv /\ TypeOK /\ FileInv /\ RotateStage(r) /\ Latched(r)
  BY <1>1, InsideRotate
<1>3. /\ disk' = disk /\ meta' = meta /\ handle' = handle /\ committed' = committed
      /\ overwritten' = overwritten /\ initialized' = initialized /\ nextKey' = nextKey
      /\ unlocked' = unlocked /\ failed' = failed
  BY DEF Drain, state
<1>4. /\ disk' \in [Paths -> File] /\ handle' \in Deks \cup {None}
      /\ unlocked' \in BOOLEAN /\ failed' \in BOOLEAN
  BY <1>2, <1>3 DEF TypeOK
<1>5. ControlInv' /\ Known' \subseteq Known /\ Stages'
  <2>1. CASE Goto(r, "copy") /\ busy' = busy /\ faults' = faults
    <3>1. "copy" \in RotateSteps
      BY DEF RotateSteps, InitSteps
    <3>2. Went(r, "copy") => RotateStage(r)'
      BY <1>1, <1>2, <1>3 DEF Went, RotateStage
    <3> QED BY <1>1, <1>3, <1>4, <2>1, <3>1, <3>2, RotateMoves
  <2>2. CASE Fault /\ Done(r)
    <3>1. faults' \in 0..MaxFaults
      BY <1>2, <2>2, FaultCounted
    <3> QED BY <1>2, <1>3, <1>4, <2>2, <3>1, LatchedEnds
  <2> QED BY <2>1, <2>2 DEF Drain
<1> QED BY <1>2, <1>3, <1>5, FilesStay DEF SafetyInv

\* Reopening a database that is there changes no file; a DEK that does not open
\* it leaves the handle alone.
LEMMA ReopenEffect ==
  ASSUME NEW d, NEW k, d["app"].key # None, ReopenOn(d, k)
  PROVE  /\ disk' = d
         /\ handle' = handle \/ (handle' = k /\ d["app"].key = k)
<1>1. d["app"] # NoFile
  BY NoFileHasNothing
<1>2. OpenedOn(d, k) = d
  BY <1>1 DEF OpenedOn
<1> QED BY <1>2 DEF ReopenOn, Opens

LEMMA RotateCopySafe ==
  ASSUME SafetyInv, NEW r \in Requests, RotateCopy(r)
  PROVE  SafetyInv'
<1>1. req[r].op = "rotate" /\ req[r].pc = "copy" /\ req[r].pc \in RotateSteps
  BY DEF RotateCopy, At, RotateSteps, InitSteps
<1>2. /\ ControlInv /\ TypeOK /\ FileInv /\ RotateStage(r) /\ Latched(r)
      /\ disk \in [Paths -> File] /\ AbsentIsEmpty
      /\ req[r].new \in Deks /\ req[r].dek \in Deks /\ req[r].dek \in Known
      /\ req[r].new # None /\ req[r].dek # None
  BY <1>1, InsideRotate
<1>3. /\ meta' = meta /\ committed' = committed /\ nextKey' = nextKey
      /\ overwritten' = overwritten /\ initialized' = initialized /\ faults' = faults
      /\ unlocked' = unlocked /\ failed' = failed
  BY DEF RotateCopy, state
<1>4. unlocked' \in BOOLEAN /\ failed' \in BOOLEAN /\ faults' \in 0..MaxFaults
  BY <1>2, <1>3 DEF TypeOK
<1>5. disk["app"].key # None /\ handle = None
  BY <1>1, <1>2 DEF RotateStage
<1>6. CASE Exists("rekey") \/ disk["app"].key # req[r].dek
  <2> DEFINE d == Remove("rekey")
  <2>1. d["app"] = disk["app"]
    BY <1>2 DEF Remove, Paths
  <2>2. ReopenOn(d, req[r].dek) /\ Done(r)
    BY <1>6 DEF RotateCopy
  <2>3. disk' = d /\ (handle' = handle \/ (handle' = req[r].dek /\ d["app"].key = req[r].dek))
    <3> HIDE DEF d
    <3> QED BY <1>5, <2>1, <2>2, ReopenEffect
  <2>4. /\ disk' \in [Paths -> File]
        /\ disk'["rekey"].key = None /\ disk'["rekey"].rows = {}
        /\ \A o \in Paths \ {"rekey"} : disk'[o] = disk[o]
    BY <1>2, <2>3, RemoveEffect DEF Paths
  <2>5. handle' \in Deks \cup {None}
    BY <1>2, <1>5, <2>3
  <2>6. ControlInv' /\ Known' \subseteq Known /\ Stages'
    BY <1>2, <1>3, <1>4, <2>2, <2>4, <2>5, LatchedEnds
  <2>7. handle' \in {handle, None} \/ (handle' = disk["app"].key /\ handle' \in Known)
    BY <1>2, <2>1, <2>3
  <2>8. FileInv'
    BY <1>2, <1>3, <2>4, <2>6, <2>7, HandleMoves
  <2> QED BY <2>6, <2>8 DEF SafetyInv
<1>7. CASE ~(Exists("rekey") \/ disk["app"].key # req[r].dek)
  <2>1. /\ disk' = Create("rekey", req[r].new) /\ Goto(r, "copying")
        /\ handle' = handle /\ busy' = busy
    BY <1>7 DEF RotateCopy
  <2>2. /\ disk' \in [Paths -> File]
        /\ disk'["rekey"].key = req[r].new /\ disk'["rekey"].rows = {}
        /\ \A o \in Paths \ {"rekey"} : disk'[o] = disk[o]
    BY <1>2, <2>1, CreateEffect DEF Paths
  <2>3. disk'["app"] = disk["app"]
    BY <2>2 DEF Paths
  <2>4. Went(r, "copying") => RotateStage(r)'
    BY <1>1, <1>2, <1>3, <1>7, <2>1, <2>2, <2>3 DEF Went, RotateStage
  <2>5. "copying" \in RotateSteps /\ handle' \in Deks \cup {None}
    BY <1>5, <2>1 DEF RotateSteps, InitSteps
  <2>6. ControlInv' /\ Known' \subseteq Known /\ Stages'
    BY <1>1, <1>3, <1>4, <2>1, <2>2, <2>4, <2>5, RotateMoves
  <2>7. FileInv'
    BY <1>2, <1>3, <2>1, <2>2, <2>6, HandleMoves
  <2> QED BY <2>6, <2>7 DEF SafetyInv
<1> QED BY <1>6, <1>7

\* The backup is not needed while the recorded DEK opens app.db.
LEMMA BackupRemoved ==
  ASSUME FileInv, disk \in [Paths -> File], disk' = Remove("bak"),
         disk["app"].key # None,
         ~overwritten => \A m \in meta : disk["app"].key = m.dek,
         meta' = meta, handle' = handle, committed' = committed,
         overwritten' = overwritten, initialized' = initialized, Known' \subseteq Known
  PROVE  /\ disk' \in [Paths -> File] /\ FileInv'
         /\ \A o \in Paths \ {"bak"} : disk'[o] = disk[o]
<1>1. /\ disk' \in [Paths -> File]
      /\ disk'["bak"].key = None /\ disk'["bak"].rows = {}
      /\ \A o \in Paths \ {"bak"} : disk'[o] = disk[o]
  BY RemoveEffect DEF Paths
<1>2. /\ disk'["app"] = disk["app"] /\ disk'["plain"] = disk["plain"]
      /\ disk'["enc"] = disk["enc"] /\ disk'["rekey"] = disk["rekey"]
  BY <1>1 DEF Paths
<1>3. Uninitialized'
  BY <1>1, <1>2 DEF FileInv, Uninitialized
<1>4. AbsentIsEmpty'
  BY <1>1, <1>2 DEF FileInv, AbsentIsEmpty, Paths
<1>5. HandleFits' /\ ServesRecorded'
  BY <1>2 DEF FileInv, HandleFits, ServesRecorded, ServedDekRecorded
<1>6. KeysAgree' /\ Reopens'
  BY <1>2 DEF KeysAgree, Reopens
<1>7. Kept'
  BY <1>2 DEF FileInv, Kept, Current
<1> QED BY <1>1, <1>3, <1>4, <1>5, <1>6, <1>7 DEF FileInv

LEMMA RotateFilesSafe ==
  ASSUME SafetyInv, NEW r \in Requests, RotateFiles(r)
  PROVE  SafetyInv'
<1>1. /\ req[r].op = "rotate" /\ req[r].pc \in RotateSteps
      /\ req[r].pc \in {"copying", "prune", "aside", "promote"}
  BY DEF RotateFiles, At, RotateSteps, InitSteps
<1>2. /\ ControlInv /\ TypeOK /\ FileInv /\ RotateStage(r)
      /\ disk \in [Paths -> File] /\ AbsentIsEmpty
      /\ req[r].new \in Deks /\ req[r].dek \in Known
      /\ req[r].new # None /\ req[r].dek # None
  BY <1>1, InsideRotate
<1>3. /\ meta' = meta /\ committed' = committed /\ nextKey' = nextKey /\ handle' = handle
      /\ overwritten' = overwritten /\ initialized' = initialized /\ faults' = faults
      /\ unlocked' = unlocked /\ failed' = failed /\ busy' = busy
  BY DEF RotateFiles, state
<1>4. handle = None /\ handle' \in Deks \cup {None} /\ unlocked' \in BOOLEAN
  BY <1>1, <1>2, <1>3 DEF TypeOK, RotateStage
<1>5. {"prune", "aside", "promote", "record"} \subseteq RotateSteps
  BY DEF RotateSteps, InitSteps
<1>6. /\ req[r].new \notin Known /\ meta # {} /\ \A m \in meta : m.version < req[r].new
      /\ req[r].pc # "promote" => disk["app"].key = req[r].dek
      /\ disk["rekey"].key = req[r].new
  BY <1>1, <1>2 DEF RotateStage
<1>7. CASE req[r].pc = "copying"
  <2>1. disk' = FillFrom("app", "rekey") /\ Goto(r, "prune")
    BY <1>7 DEF RotateFiles, At
  <2>2. /\ disk' \in [Paths -> File]
        /\ disk'["rekey"].key = disk["rekey"].key /\ disk'["rekey"].rows = disk["app"].rows
        /\ \A o \in Paths \ {"rekey"} : disk'[o] = disk[o]
    BY <1>2, <2>1, FillEffect DEF Paths
  <2>3. disk'["app"] = disk["app"]
    BY <2>2 DEF Paths
  <2>4. Went(r, "prune") => RotateStage(r)'
    BY <1>3, <1>4, <1>6, <1>7, <2>2, <2>3 DEF Went, RotateStage
  <2>5. ControlInv' /\ Known' \subseteq Known /\ Stages'
    BY <1>1, <1>3, <1>4, <1>5, <2>1, <2>2, <2>4, RotateMoves
  <2>6. FileInv'
    BY <1>2, <1>3, <1>6, <2>2, <2>5, HandleMoves
  <2> QED BY <2>5, <2>6 DEF SafetyInv
<1>8. CASE req[r].pc = "prune"
  <2>1. disk' = Remove("bak") /\ Goto(r, "aside")
    BY <1>8 DEF RotateFiles, At
  <2>2. /\ disk' \in [Paths -> File]
        /\ disk'["app"] = disk["app"] /\ disk'["rekey"] = disk["rekey"]
    BY <1>2, <2>1, RemoveEffect DEF Paths
  <2>3. disk["rekey"].rows = disk["app"].rows
    BY <1>1, <1>2, <1>8 DEF RotateStage
  <2>4. Went(r, "aside") => RotateStage(r)'
    BY <1>3, <1>4, <1>6, <1>8, <2>2, <2>3 DEF Went, RotateStage
  <2>5. ControlInv' /\ Known' \subseteq Known /\ Stages'
    BY <1>1, <1>3, <1>4, <1>5, <2>1, <2>2, <2>4, RotateMoves
  <2>6. ~overwritten => \A m \in meta : disk["app"].key = m.dek
    BY <1>2, <1>6, <1>8 DEF FileInv, KeysAgree
  <2>7. FileInv'
    BY <1>2, <1>3, <1>6, <1>8, <2>1, <2>5, <2>6, BackupRemoved
  <2> QED BY <2>5, <2>7 DEF SafetyInv
<1>9. CASE req[r].pc = "aside"
  <2>1. disk' = Rename("app", "bak") /\ Goto(r, "promote")
    BY <1>9 DEF RotateFiles, At
  <2>2. /\ disk' \in [Paths -> File]
        /\ disk'["bak"] = disk["app"]
        /\ disk'["app"].key = None /\ disk'["app"].rows = {}
        /\ disk'["rekey"] = disk["rekey"] /\ disk'["plain"] = disk["plain"]
        /\ disk'["enc"] = disk["enc"]
    BY <1>2, <2>1, RenameEffect DEF Paths
  <2>3. disk["rekey"].rows = disk["app"].rows /\ disk["app"].key = req[r].dek
    BY <1>1, <1>2, <1>6, <1>9 DEF RotateStage
  <2>4. Went(r, "promote") => RotateStage(r)'
    BY <1>3, <1>4, <1>6, <1>9, <2>2, <2>3 DEF Went, RotateStage
  <2>5. ControlInv' /\ Known' \subseteq Known /\ Stages'
    BY <1>1, <1>3, <1>4, <1>5, <2>1, <2>2, <2>4, RotateMoves
  <2>6. FileInv'
    <3>1. Uninitialized'
      BY <1>2, <1>3, <1>6 DEF FileInv, Uninitialized
    <3>2. AbsentIsEmpty'
      BY <1>2, <2>2 DEF AbsentIsEmpty, Paths
    <3>3. HandleFits' /\ ServesRecorded'
      BY <1>3, <1>4 DEF HandleFits, ServesRecorded, ServedDekRecorded
    <3>4. ~overwritten => \A m \in meta : disk["app"].key = m.dek
      BY <1>2, <2>3 DEF FileInv, KeysAgree
    <3>5. KeysAgree'
      <4>1. None \notin Known'
        BY <1>2, <2>5, KeysDiffer DEF TypeOK, Meta, Known
      <4> QED BY <1>3, <2>2, <3>4, <4>1 DEF KeysAgree
    <3>6. Current = disk["app"] /\ Current' = disk'["bak"]
      BY <1>2, <2>2, <2>3 DEF Current
    <3>7. Kept
      BY <1>2 DEF FileInv
    <3>8. Reopens'
      BY <1>3, <2>2, <3>4, <3>6, <3>7 DEF Reopens, Kept
    <3>9. Kept'
      BY <1>3, <2>2, <3>6, <3>7 DEF Kept
    <3> QED BY <3>1, <3>2, <3>3, <3>5, <3>8, <3>9 DEF FileInv
  <2> QED BY <2>5, <2>6 DEF SafetyInv
<1>10. CASE req[r].pc = "promote"
  <2>1. disk' = Rename("rekey", "app") /\ Goto(r, "record")
    BY <1>10 DEF RotateFiles, At, Promoted
  <2>2. /\ disk' \in [Paths -> File]
        /\ disk'["app"] = disk["rekey"]
        /\ disk'["rekey"].key = None /\ disk'["rekey"].rows = {}
        /\ disk'["bak"] = disk["bak"] /\ disk'["plain"] = disk["plain"]
        /\ disk'["enc"] = disk["enc"]
    BY <1>2, <2>1, RenameEffect DEF Paths
  <2>3. /\ disk["rekey"].rows = disk["bak"].rows /\ disk["app"].key = None
        /\ disk["bak"].key = req[r].dek
    BY <1>1, <1>2, <1>10 DEF RotateStage
  <2>4. Went(r, "record") => RotateStage(r)'
    BY <1>3, <1>4, <1>6, <1>10, <2>2, <2>3 DEF Went, RotateStage
  <2>5. ControlInv' /\ Known' \subseteq Known /\ Stages'
    BY <1>1, <1>3, <1>4, <1>5, <2>1, <2>2, <2>4, RotateMoves
  <2>6. FileInv'
    <3>1. Uninitialized'
      BY <1>2, <1>3, <1>6 DEF FileInv, Uninitialized
    <3>2. AbsentIsEmpty'
      BY <1>2, <2>2 DEF AbsentIsEmpty, Paths
    <3>3. HandleFits' /\ ServesRecorded'
      BY <1>3, <1>4 DEF HandleFits, ServesRecorded, ServedDekRecorded
    <3>4. ~overwritten => \A m \in meta : disk["bak"].key = m.dek
      BY <1>2, <2>3 DEF FileInv, KeysAgree
    <3>5. KeysAgree'
      BY <1>2, <1>3, <1>6, <2>2, <2>5 DEF KeysAgree
    <3>6. Current = disk["bak"] /\ Current' = disk'["app"]
      BY <1>2, <1>6, <2>2, <2>3 DEF Current
    <3>7. Kept
      BY <1>2 DEF FileInv
    <3>8. Reopens'
      BY <1>3, <2>2, <3>4, <3>6, <3>7 DEF Reopens, Kept
    <3>9. Kept'
      BY <1>3, <2>2, <2>3, <3>6, <3>7 DEF Kept
    <3> QED BY <3>1, <3>2, <3>3, <3>5, <3>8, <3>9 DEF FileInv
  <2> QED BY <2>5, <2>6 DEF SafetyInv
<1> QED BY <1>1, <1>7, <1>8, <1>9, <1>10

\* Recording the new DEK makes it known, and makes app.db the one to keep.
LEMMA RotateRecordSafe ==
  ASSUME SafetyInv, NEW r \in Requests, RotateRecord(r)
  PROVE  SafetyInv'
<1>1. req[r].op = "rotate" /\ req[r].pc = "record" /\ req[r].pc \in RotateSteps
  BY DEF RotateRecord, At, RotateSteps, InitSteps
<1>2. /\ ControlInv /\ TypeOK /\ FileInv /\ RotateStage(r) /\ Latched(r) /\ busy
      /\ req[r] \in Request /\ req[r].new \in Deks /\ req[r].dek \in Deks
      /\ req[r].dek \in Known /\ req[r].new # None
  BY <1>1, InsideRotate
<1>3. /\ meta' = {Rotated(m, req[r].new) : m \in meta} /\ Goto(r, "open")
      /\ disk' = disk /\ handle' = handle /\ committed' = committed /\ nextKey' = nextKey
      /\ overwritten' = overwritten /\ initialized' = initialized /\ faults' = faults
      /\ unlocked' = unlocked /\ failed' = failed /\ busy' = busy
  BY DEF RotateRecord, state
<1>4. /\ disk["app"].key = req[r].new /\ handle = None
      /\ req[r].new \notin Known /\ meta # {} /\ \A m \in meta : m.version < req[r].new
  BY <1>1, <1>2 DEF RotateStage
<1>5. /\ meta' \subseteq Meta /\ (\A m, n \in meta' : m = n) /\ meta' # {}
      /\ \A m \in meta' : m.dek = req[r].new /\ m.version <= req[r].new
  <2>1. ASSUME NEW m \in meta
        PROVE  /\ Rotated(m, req[r].new) \in Meta
               /\ Rotated(m, req[r].new).dek = req[r].new
               /\ Rotated(m, req[r].new).version <= req[r].new
    <3>1. m.version \in Nat /\ m.version >= 1 /\ m.version < req[r].new
      BY <1>2, <1>4, Limits DEF TypeOK, Meta
    <3>2. m.version + 1 \in 1..MaxKeys /\ m.version + 1 <= req[r].new
      BY <1>2, <3>1, KeysDiffer, Limits
    <3> QED BY <1>2, <3>2 DEF Rotated, Meta
  <2>2. \A m, n \in meta : m = n
    BY <1>2 DEF TypeOK
  <2>3. meta' = {Rotated(m, req[r].new) : m \in meta}
    BY <1>3
  <2>4. meta' \subseteq Meta /\ meta' # {}
    BY <1>4, <2>1, <2>3
  <2>5. \A m, n \in meta' : m = n
    BY <2>2, <2>3
  <2>6. \A m \in meta' : m.dek = req[r].new /\ m.version <= req[r].new
    BY <2>1, <2>3
  <2> QED BY <2>4, <2>5, <2>6
<1>6. "open" \in Steps /\ "open" \in RotateSteps
  BY DEF Steps, RotateSteps, InitSteps
<1>7. PICK q \in Request :
        /\ req' = [req EXCEPT ![r] = q]
        /\ q.op = "rotate" /\ q.pc = "open" /\ q.dek = req[r].dek /\ q.new = req[r].new
  BY <1>1, <1>2, <1>3, <1>6, GotoEffect
<1>8. \A s \in Requests : req'[s] = IF s = r THEN q ELSE req[s]
  BY <1>2, <1>7 DEF TypeOK
<1>9. WellFormed(q)
  BY <1>2, <1>6, <1>7 DEF WellFormed
<1>10. Latch' /\ (\A s \in Requests : WellFormed(req'[s])) /\ req' \in [Requests -> Request]
  BY <1>2, <1>3, <1>7, <1>9, RequestMoves
<1>11. KeyRoom'
  <2>1. Pending' \subseteq Pending
    BY <1>2, <1>7, <1>8 DEF Pending
  <2> QED BY <1>2, <1>3, <2>1, RoomStays
<1>12. Known' \subseteq Known \cup {req[r].new}
  <2>1. \A s \in Requests : req'[s].dek = req[s].dek
    BY <1>7, <1>8
  <2> QED BY <1>5, <2>1 DEF Known
<1>13. Fresh'
  <2>1. Fresh /\ req[r].new < nextKey /\ req[r].new \in Nat /\ nextKey \in Nat
    BY <1>2, KeysDiffer, Limits DEF ControlInv, Fresh, TypeOK
  <2>2. \A s \in Requests : req'[s].new # None => req'[s].new < nextKey
    <3>1. \A s \in Requests : req'[s].new = req[s].new
      BY <1>7, <1>8
    <3> QED BY <2>1, <3>1 DEF Fresh
  <2>3. \A k \in Known' : k < nextKey
    BY <1>12, <2>1 DEF Fresh
  <2>4. ASSUME NEW m \in meta'
        PROVE  m.version < nextKey
    <3>1. m.version <= req[r].new /\ m.version \in Nat
      BY <1>5, Limits DEF Meta
    <3> QED BY <2>1, <3>1
  <2> QED BY <1>3, <2>2, <2>3, <2>4 DEF Fresh
<1>14. TypeOK'
  BY <1>2, <1>3, <1>5, <1>10 DEF TypeOK
<1>15. FileInv'
  <2>1. Uninitialized'
    BY <1>2, <1>3, <1>4, <1>5 DEF FileInv, Uninitialized
  <2>2. AbsentIsEmpty' /\ Kept'
    BY <1>2, <1>3 DEF FileInv, AbsentIsEmpty, Kept, Current
  <2>3. HandleFits' /\ ServesRecorded'
    BY <1>3, <1>4 DEF HandleFits, ServesRecorded, ServedDekRecorded
  <2>4. KeysAgree'
    BY <1>2, <1>3, <1>4, <1>5 DEF KeysAgree
  <2>5. Reopens'
    BY <1>3, <1>4, <1>5 DEF Reopens
  <2> QED BY <2>1, <2>2, <2>3, <2>4, <2>5 DEF FileInv
<1>16. InitStage(r)' /\ RotateStage(r)'
  <2>1. req[r].dek # req[r].new
    BY <1>2, <1>4
  <2>2. req'[r] = q
    BY <1>8
  <2> QED BY <1>3, <1>4, <1>5, <1>7, <2>1, <2>2 DEF InitStage, RotateStage
<1>17. ASSUME NEW s \in Requests, s # r
       PROVE  InitStage(s)' /\ RotateStage(s)'
  BY <1>2, <1>8, <1>17, OthersWait
<1>18. Stages'
  BY <1>16, <1>17 DEF Stages
<1> QED BY <1>10, <1>11, <1>13, <1>14, <1>15, <1>18 DEF SafetyInv, ControlInv

LEMMA RotateOpenSafe ==
  ASSUME SafetyInv, NEW r \in Requests, RotateOpen(r)
  PROVE  SafetyInv'
<1>1. req[r].op = "rotate" /\ req[r].pc = "open" /\ req[r].pc \in RotateSteps
  BY DEF RotateOpen, At, RotateSteps, InitSteps
<1>2. /\ ControlInv /\ TypeOK /\ FileInv /\ RotateStage(r)
      /\ disk \in [Paths -> File] /\ AbsentIsEmpty
      /\ req[r].new \in Deks /\ req[r].dek \in Known /\ req[r].new # None
  BY <1>1, InsideRotate
<1>3. /\ disk["app"].key = req[r].new /\ req[r].dek # req[r].new
      /\ \A m \in meta : m.dek = req[r].new
  BY <1>1, <1>2 DEF RotateStage
<1>4. /\ disk' = OpenedOn(disk, req[r].new) /\ handle' = req[r].new /\ unlocked' = TRUE
      /\ meta' = meta /\ committed' = committed /\ nextKey' = nextKey /\ Goto(r, "drop")
      /\ overwritten' = overwritten /\ initialized' = initialized /\ faults' = faults
      /\ failed' = failed /\ busy' = busy
  BY DEF RotateOpen
<1>5. disk' = disk
  BY <1>2, <1>3, <1>4, OpenedEffect
<1>6. req[r].new \in Known
  <2>1. meta # {}
    BY <1>2 DEF FileInv, Uninitialized
  <2> QED BY <1>3, <2>1 DEF Known
<1>7. Went(r, "drop") => RotateStage(r)'
  BY <1>3, <1>4, <1>5 DEF Went, RotateStage
<1>8. "drop" \in RotateSteps /\ handle' \in Deks \cup {None} /\ unlocked' \in BOOLEAN
      /\ disk' \in [Paths -> File]
  BY <1>2, <1>4, <1>5 DEF RotateSteps, InitSteps
<1>9. ControlInv' /\ Known' \subseteq Known /\ Stages'
  BY <1>1, <1>4, <1>7, <1>8, RotateMoves
<1>10. FileInv'
  <2>1. disk["rekey"].key = None => disk["rekey"].rows = {}
    BY <1>2 DEF AbsentIsEmpty, Paths
  <2> QED BY <1>2, <1>3, <1>4, <1>5, <1>6, <1>9, <2>1, HandleMoves
<1> QED BY <1>9, <1>10 DEF SafetyInv

LEMMA RotateDropSafe ==
  ASSUME SafetyInv, NEW r \in Requests, RotateDrop(r)
  PROVE  SafetyInv'
<1>1. req[r].op = "rotate" /\ req[r].pc = "drop" /\ req[r].pc \in RotateSteps
  BY DEF RotateDrop, At, RotateSteps, InitSteps
<1>2. /\ ControlInv /\ TypeOK /\ FileInv /\ RotateStage(r) /\ Latched(r)
      /\ disk \in [Paths -> File] /\ req[r].new # None
  BY <1>1, InsideRotate
<1>3. disk["app"].key = req[r].new /\ \A m \in meta : m.dek = req[r].new
  BY <1>1, <1>2 DEF RotateStage
<1>4. /\ disk' = Remove("bak") /\ Done(r)
      /\ meta' = meta /\ handle' = handle /\ committed' = committed /\ nextKey' = nextKey
      /\ overwritten' = overwritten /\ initialized' = initialized /\ faults' = faults
      /\ failed' = failed /\ unlocked' = unlocked
  BY DEF RotateDrop, state
<1>5. disk' \in [Paths -> File]
  BY <1>2, <1>4, RemoveEffect DEF Paths
<1>6. /\ handle' \in Deks \cup {None} /\ unlocked' \in BOOLEAN /\ failed' \in BOOLEAN
      /\ faults' \in 0..MaxFaults
  BY <1>2, <1>4 DEF TypeOK
<1>7. ControlInv' /\ Known' \subseteq Known /\ Stages'
  BY <1>2, <1>4, <1>5, <1>6, LatchedEnds
<1>8. FileInv'
  BY <1>2, <1>3, <1>4, <1>7, BackupRemoved
<1> QED BY <1>7, <1>8 DEF SafetyInv

LEMMA CopyFailsSafe ==
  ASSUME SafetyInv, NEW r \in Requests, CopyFails(r)
  PROVE  SafetyInv'
<1>1. req[r].op = "rotate" /\ req[r].pc = "copying" /\ req[r].pc \in RotateSteps
  BY DEF CopyFails, At, RotateSteps, InitSteps
<1>2. /\ ControlInv /\ TypeOK /\ FileInv /\ RotateStage(r) /\ Latched(r)
      /\ disk \in [Paths -> File]
      /\ req[r].dek \in Deks /\ req[r].dek \in Known /\ req[r].dek # None
  BY <1>1, InsideRotate
<1>3. /\ meta' = meta /\ committed' = committed /\ nextKey' = nextKey /\ Fault /\ Done(r)
      /\ overwritten' = overwritten /\ initialized' = initialized
      /\ unlocked' = unlocked /\ failed' = failed
  BY DEF CopyFails, state
<1>4. unlocked' \in BOOLEAN /\ failed' \in BOOLEAN /\ faults' \in 0..MaxFaults
  BY <1>2, <1>3, FaultCounted DEF TypeOK
<1>5. disk["app"].key = req[r].dek
  BY <1>1, <1>2 DEF RotateStage
<1> DEFINE d == Remove("rekey")
<1>6. d["app"] = disk["app"]
  BY <1>2 DEF Remove, Paths
<1>7. ReopenOn(d, req[r].dek) \/ (disk' = d /\ handle' = handle)
  BY DEF CopyFails
<1>8. disk' = d /\ (handle' = handle \/ handle' = req[r].dek)
  <2> HIDE DEF d
  <2> QED BY <1>2, <1>5, <1>6, <1>7, ReopenEffect
<1>9. /\ disk' \in [Paths -> File]
      /\ disk'["rekey"].key = None /\ disk'["rekey"].rows = {}
      /\ \A o \in Paths \ {"rekey"} : disk'[o] = disk[o]
  BY <1>2, <1>8, RemoveEffect DEF Paths
<1>10. handle' \in Deks \cup {None}
  BY <1>2, <1>8 DEF TypeOK
<1>11. ControlInv' /\ Known' \subseteq Known /\ Stages'
  BY <1>2, <1>3, <1>4, <1>9, <1>10, LatchedEnds
<1>12. handle' \in {handle, None} \/ (handle' = disk["app"].key /\ handle' \in Known)
  BY <1>2, <1>5, <1>8
<1>13. FileInv'
  BY <1>2, <1>3, <1>9, <1>11, <1>12, HandleMoves
<1> QED BY <1>11, <1>13 DEF SafetyInv

\* The backup comes back in the place of a database that is missing.
LEMMA BackupRestored ==
  ASSUME FileInv, disk \in [Paths -> File], disk' = Rename("bak", "app"),
         disk["app"].key = None, disk["bak"].key # None,
         handle' = None \/ (handle' = disk["bak"].key /\ handle' \in Known),
         meta' = meta, committed' = committed, overwritten' = overwritten,
         initialized' = (meta # {}), Known' \subseteq Known
  PROVE  disk' \in [Paths -> File] /\ FileInv'
<1>1. /\ disk' \in [Paths -> File]
      /\ disk'["app"] = disk["bak"]
      /\ disk'["bak"].key = None /\ disk'["bak"].rows = {}
      /\ disk'["rekey"] = disk["rekey"] /\ disk'["plain"] = disk["plain"]
      /\ disk'["enc"] = disk["enc"]
  BY RenameEffect DEF Paths
<1>2. meta # {}
  BY DEF FileInv, Uninitialized
<1>3. Uninitialized'
  BY <1>2 DEF Uninitialized
<1>4. AbsentIsEmpty'
  BY <1>1 DEF FileInv, AbsentIsEmpty, Paths
<1>5. ~overwritten => \A m \in meta : disk["bak"].key = m.dek
  BY DEF FileInv, KeysAgree
<1>6. HandleFits'
  BY <1>1 DEF HandleFits
<1>7. ServesRecorded'
  BY <1>2, <1>5 DEF ServesRecorded, ServedDekRecorded
<1>8. KeysAgree' /\ Reopens'
  BY <1>1, <1>5 DEF KeysAgree, Reopens
<1>9. Kept'
  <2>1. Current = disk["bak"] /\ Current' = disk'["app"]
    BY <1>1 DEF Current
  <2> QED BY <1>1, <2>1 DEF FileInv, Kept
<1> QED BY <1>1, <1>3, <1>4, <1>6, <1>7, <1>8, <1>9 DEF FileInv

LEMMA RotateFailsSafe ==
  ASSUME SafetyInv, NEW r \in Requests, RotateFails(r)
  PROVE  SafetyInv'
<1>1. /\ req[r].op = "rotate" /\ req[r].pc \in RotateSteps
      /\ req[r].pc \in {"prune", "aside", "promote", "record", "open", "drop"}
  BY DEF RotateFails, RotateSteps, InitSteps
<1>2. /\ ControlInv /\ TypeOK /\ FileInv /\ RotateStage(r) /\ Latched(r)
      /\ disk \in [Paths -> File] /\ AbsentIsEmpty
      /\ req[r].dek \in Deks /\ req[r].dek \in Known /\ req[r].dek # None
      /\ req[r].new # None
  BY <1>1, InsideRotate
<1> DEFINE back == IF Exists("bak") /\ ~Exists("app") THEN Rename("bak", "app") ELSE disk
<1>3. /\ Fault /\ Done(r) /\ failed' = TRUE
      /\ meta' = meta /\ committed' = committed /\ nextKey' = nextKey
      /\ overwritten' = overwritten /\ initialized' = initialized /\ unlocked' = unlocked
      /\ ReopenOn(back, req[r].dek) \/ (disk' \in {disk, back} /\ handle' = handle)
  BY DEF RotateFails
<1>4. unlocked' \in BOOLEAN /\ failed' \in BOOLEAN /\ faults' \in 0..MaxFaults
  BY <1>2, <1>3, FaultCounted DEF TypeOK
<1>5. /\ Exists("app") <=> disk["app"].key # None
      /\ Exists("bak") <=> disk["bak"].key # None
  BY <1>2, ExistsHasKey DEF Exists, Paths
<1>6. CASE req[r].pc # "promote"
  <2>1. disk["app"].key # None
    BY <1>1, <1>2, <1>6 DEF RotateStage
  <2>2. back = disk
    BY <1>5, <2>1
  <2>3. /\ disk' = disk
        /\ handle' = handle \/ (handle' = req[r].dek /\ disk["app"].key = req[r].dek)
    <3> HIDE DEF back
    <3> QED BY <1>3, <2>1, <2>2, ReopenEffect
  <2>4. handle' \in Deks \cup {None} /\ disk' \in [Paths -> File]
    BY <1>2, <2>3 DEF TypeOK
  <2>5. ControlInv' /\ Known' \subseteq Known /\ Stages'
    BY <1>2, <1>3, <1>4, <2>4, LatchedEnds
  <2>6. FileInv'
    <3>1. disk["rekey"].key = None => disk["rekey"].rows = {}
      BY <1>2 DEF AbsentIsEmpty, Paths
    <3> QED BY <1>2, <1>3, <2>3, <2>5, <3>1, HandleMoves
  <2> QED BY <2>5, <2>6 DEF SafetyInv
<1>7. CASE req[r].pc = "promote"
  <2>1. disk["app"].key = None /\ disk["bak"].key = req[r].dek /\ handle = None
    BY <1>1, <1>2, <1>7 DEF RotateStage
  <2>2. back = Rename("bak", "app")
    BY <1>2, <1>5, <2>1
  <2>3. back["app"] = disk["bak"]
    BY <1>2, <2>2 DEF Rename, Paths
  <2>4. \/ disk' = disk /\ handle' = handle
        \/ disk' = back /\ (handle' = handle \/ handle' = req[r].dek)
    <3> HIDE DEF back
    <3>1. CASE ReopenOn(back, req[r].dek)
      BY <1>2, <2>1, <2>3, <3>1, ReopenEffect
    <3>2. CASE disk' \in {disk, back} /\ handle' = handle
      BY <3>2
    <3> QED BY <1>3, <3>1, <3>2
  <2> HIDE DEF back
  <2>5. disk' \in [Paths -> File] /\ handle' \in Deks \cup {None}
    BY <1>2, <2>1, <2>2, <2>4, RenameEffect DEF Paths
  <2>6. ControlInv' /\ Known' \subseteq Known /\ Stages'
    BY <1>2, <1>3, <1>4, <2>5, LatchedEnds
  <2>7. FileInv'
    <3>1. CASE disk' = disk /\ handle' = handle
      BY <1>2, <1>3, <2>6, <3>1, FilesStay
    <3>2. CASE disk' = back /\ (handle' = handle \/ handle' = req[r].dek)
      <4>1. initialized' = (meta # {})
        BY <1>2, <1>3 DEF FileInv, Uninitialized, TypeOK
      <4> QED BY <1>2, <1>3, <2>1, <2>2, <2>6, <3>2, <4>1, BackupRestored
    <3> QED BY <2>4, <3>1, <3>2
  <2> QED BY <2>6, <2>7 DEF SafetyInv
<1> QED BY <1>6, <1>7

----------------------------------------------------------------------------
(* The application, crashes and the operator *)

LEMMA WriteSafe ==
  ASSUME SafetyInv, NEW w \in Rows, Write(w)
  PROVE  SafetyInv'
<1>1. ControlInv /\ TypeOK /\ FileInv /\ Stages /\ disk \in [Paths -> File] /\ AbsentIsEmpty
  BY DEF SafetyInv, ControlInv, TypeOK, FileInv
<1>2. /\ handle # None /\ disk' = [disk EXCEPT !["app"].rows = @ \cup {w}]
      /\ committed' = committed \cup {w}
      /\ meta' = meta /\ handle' = handle /\ nextKey' = nextKey /\ req' = req /\ busy' = busy
      /\ overwritten' = overwritten /\ initialized' = initialized /\ faults' = faults
      /\ failed' = failed /\ unlocked' = unlocked
  BY DEF Write, state
<1>3. disk["app"].key = handle /\ meta # {}
  BY <1>1, <1>2 DEF FileInv, HandleFits, Uninitialized
<1>4. /\ disk' \in [Paths -> File]
      /\ disk'["app"].key = disk["app"].key /\ disk'["app"].rows = disk["app"].rows \cup {w}
      /\ \A o \in Paths \ {"app"} : disk'[o] = disk[o]
  <2> DEFINE f == [disk["app"] EXCEPT !.rows = disk["app"].rows \cup {w}]
  <2>1. "app" \in Paths /\ disk["app"] \in File
    BY <1>1 DEF Paths
  <2>2. f \in File /\ f.key = disk["app"].key /\ f.rows = disk["app"].rows \cup {w}
    BY <2>1 DEF File
  <2>3. disk' = [disk EXCEPT !["app"] = f]
    BY <1>2
  <2> HIDE DEF f
  <2> QED BY <1>1, <2>1, <2>2, <2>3
<1>5. /\ disk'["bak"] = disk["bak"] /\ disk'["plain"] = disk["plain"]
      /\ disk'["enc"] = disk["enc"] /\ disk'["rekey"] = disk["rekey"]
  BY <1>4 DEF Paths
<1>6. Known' = Known /\ Pending' = Pending
  BY <1>2 DEF Known, Pending
<1>7. ControlInv'
  <2>1. TypeOK'
    BY <1>1, <1>2, <1>4 DEF TypeOK
  <2>2. Latch' /\ (\A s \in Requests : WellFormed(req'[s]))
    BY <1>1, <1>2 DEF ControlInv, Latch, Latched
  <2>3. KeyRoom' /\ Fresh'
    BY <1>1, <1>2, <1>6 DEF ControlInv, KeyRoom, Fresh
  <2> QED BY <2>1, <2>2, <2>3 DEF ControlInv
<1>8. FileInv'
  <2>1. Uninitialized'
    BY <1>1, <1>2, <1>3 DEF FileInv, Uninitialized
  <2>2. AbsentIsEmpty'
    BY <1>1, <1>2, <1>3, <1>4 DEF AbsentIsEmpty
  <2>3. HandleFits' /\ ServesRecorded'
    BY <1>1, <1>2, <1>4 DEF FileInv, HandleFits, ServesRecorded, ServedDekRecorded
  <2>4. KeysAgree'
    BY <1>1, <1>2, <1>4, <1>5, <1>6 DEF FileInv, KeysAgree
  <2>5. Reopens'
    <3>1. ~overwritten => \A m \in meta : disk["app"].key = m.dek
      BY <1>1, <1>2, <1>3 DEF FileInv, ServesRecorded, ServedDekRecorded, TypeOK
    <3> QED BY <1>2, <1>4, <3>1 DEF Reopens
  <2>6. Kept'
    <3>1. Current = disk["app"] /\ Current' = disk'["app"]
      BY <1>2, <1>3, <1>4 DEF Current
    <3> QED BY <1>1, <1>2, <1>4, <1>5, <3>1 DEF FileInv, Kept
  <2> QED BY <2>1, <2>2, <2>3, <2>4, <2>5, <2>6 DEF FileInv
<1>9. ASSUME NEW s \in Requests
      PROVE  InitStage(s)' /\ RotateStage(s)'
  <2>1. InitStage(s) /\ RotateStage(s)
    BY <1>1 DEF Stages
  <2>2. InitStage(s)'
    <3>1. ~(req[s].op = "init" /\ req[s].pc \in InitSteps)
      BY <1>2, <1>3, <2>1 DEF InitStage
    <3> QED BY <1>2, <3>1 DEF InitStage
  <2>3. RotateStage(s)'
    BY <1>2, <1>4, <2>1 DEF RotateStage
  <2> QED BY <2>2, <2>3
<1>10. Stages'
  BY <1>9 DEF Stages
<1> QED BY <1>7, <1>8, <1>10 DEF SafetyInv

\* A new process has no requests and no handle.
LEMMA BootControl ==
  ASSUME SafetyInv, Boot, disk' \in [Paths -> File], faults' \in 0..MaxFaults
  PROVE  ControlInv' /\ Known' \subseteq Known /\ Stages'
<1>1. ControlInv /\ TypeOK
  BY DEF SafetyInv, ControlInv
<1>2. /\ handle' = None /\ req' = [r \in Requests |-> Idle]
      /\ meta' = meta /\ committed' = committed /\ nextKey' = nextKey
      /\ overwritten' = overwritten
      /\ initialized' = (meta # {}) /\ unlocked' = FALSE /\ busy' = FALSE /\ failed' = FALSE
  BY DEF Boot
<1>3. \A s \in Requests : req'[s] = Idle
  BY <1>2
<1>4. Known' \subseteq Known
  BY <1>2, <1>3, IdleIsRequest DEF Known
<1>5. Latch'
  BY <1>3, IdleIsRequest DEF Latch, Latched, Waiting
<1>6. \A s \in Requests : WellFormed(req'[s])
  BY <1>3, IdleIsRequest
<1>7. KeyRoom'
  <2>1. Pending' \subseteq Pending
    BY <1>3, IdleIsRequest DEF Pending
  <2> QED BY <1>1, <1>2, <2>1, RoomStays
<1>8. Fresh'
  <2>1. Fresh
    BY <1>1 DEF ControlInv
  <2> QED BY <1>2, <1>3, <1>4, <2>1, IdleIsRequest DEF Fresh
<1>9. TypeOK'
  <2>1. req' \in [Requests -> Request]
    BY <1>2, IdleIsRequest
  <2>2. {initialized, unlocked, busy, failed, overwritten}' \subseteq BOOLEAN
    <3>1. initialized' \in BOOLEAN
      BY <1>2
    <3> QED BY <1>1, <1>2, <3>1 DEF TypeOK
  <2> QED BY <1>1, <1>2, <2>1, <2>2 DEF TypeOK
<1>10. Stages'
  <2>1. \A s \in Requests : req'[s].pc \in Waiting
    BY <1>3, IdleIsRequest DEF Waiting
  <2> QED BY <2>1, WaitingStage DEF Stages
<1> QED BY <1>4, <1>5, <1>6, <1>7, <1>8, <1>9, <1>10 DEF ControlInv

LEMMA CrashSafe ==
  ASSUME SafetyInv, Crash
  PROVE  SafetyInv'
<1>1. TypeOK /\ FileInv /\ Boot /\ Fault /\ disk' = disk
  BY DEF SafetyInv, ControlInv, Crash
<1>2. disk' \in [Paths -> File] /\ faults' \in 0..MaxFaults
  BY <1>1, FaultCounted DEF TypeOK
<1>3. ControlInv' /\ Known' \subseteq Known /\ Stages'
  BY <1>1, <1>2, BootControl
<1>4. FileInv'
  <2>1. disk["rekey"].key = None => disk["rekey"].rows = {}
    BY <1>1 DEF FileInv, AbsentIsEmpty, Paths
  <2>2. initialized' = initialized
    BY <1>1 DEF Boot, FileInv, Uninitialized, TypeOK
  <2>3. /\ handle' = None /\ meta' = meta /\ committed' = committed
        /\ overwritten' = overwritten
    BY <1>1 DEF Boot
  <2> QED BY <1>1, <1>3, <2>1, <2>2, <2>3, HandleMoves
<1> QED BY <1>3, <1>4 DEF SafetyInv

LEMMA OperatorRestoresSafe ==
  ASSUME SafetyInv, OperatorRestores
  PROVE  SafetyInv'
<1>1. /\ TypeOK /\ FileInv /\ Boot /\ disk \in [Paths -> File] /\ AbsentIsEmpty
      /\ disk' = Rename("bak", "app") /\ Exists("bak") /\ ~Exists("app") /\ faults' = faults
  BY DEF SafetyInv, ControlInv, OperatorRestores, TypeOK, FileInv
<1>2. disk["app"].key = None /\ disk["bak"].key # None
  BY <1>1, ExistsHasKey DEF Exists, Paths
<1>3. disk' \in [Paths -> File] /\ faults' \in 0..MaxFaults
  BY <1>1, RenameEffect DEF Paths, TypeOK
<1>4. ControlInv' /\ Known' \subseteq Known /\ Stages'
  BY <1>1, <1>3, BootControl
<1>5. /\ handle' = None /\ meta' = meta /\ committed' = committed
      /\ overwritten' = overwritten /\ initialized' = (meta # {})
  BY <1>1 DEF Boot
<1>6. FileInv'
  BY <1>1, <1>2, <1>4, <1>5, BackupRestored
<1> QED BY <1>4, <1>6 DEF SafetyInv

----------------------------------------------------------------------------
(* The invariant holds *)

LEMMA InitSafe == Init => SafetyInv
<1> SUFFICES ASSUME Init PROVE SafetyInv
  OBVIOUS
<1>1. /\ meta = {} /\ handle = None /\ nextKey = 1 /\ overwritten = FALSE /\ faults = 0
      /\ initialized = FALSE /\ unlocked = FALSE /\ busy = FALSE /\ failed = FALSE
      /\ req = [r \in Requests |-> Idle]
  BY DEF Init
<1>2. \A s \in Requests : req[s] = Idle
  BY <1>1
<1>3. /\ disk \in [Paths -> File] /\ committed \subseteq {0} /\ committed \subseteq Rows
      /\ \A p \in Paths \ {"app"} : disk[p].key = None /\ disk[p].rows = {}
      /\ disk["app"].rows = committed
      /\ disk["app"].key = None => committed = {}
  <2>1. 0 \in Rows
    BY Limits DEF Rows
  <2>2. CASE disk = [p \in Paths |-> NoFile] /\ committed = {}
    BY <2>2, NoFileHasNothing DEF Paths
  <2>3. CASE /\ disk = [p \in Paths |-> IF p = "app" THEN [key |-> Plain, rows |-> {0}]
                                                    ELSE NoFile]
             /\ committed = {0}
    <3> DEFINE f == [key |-> Plain, rows |-> {0}]
    <3>1. f \in File /\ f.key = Plain /\ f.rows = {0}
      BY <2>1 DEF File
    <3>2. /\ disk = [p \in Paths |-> IF p = "app" THEN f ELSE NoFile]
          /\ committed = {0}
      BY <2>3
    <3> HIDE DEF f
    <3>3. disk["app"] = f /\ \A p \in Paths \ {"app"} : disk[p] = NoFile
      BY <3>2 DEF Paths
    <3> QED BY <2>1, <3>1, <3>2, <3>3, NoFileHasNothing, KeysDiffer
  <2> QED BY <2>2, <2>3 DEF Init
<1>4. TypeOK
  <2>1. req \in [Requests -> Request]
    BY <1>1, IdleIsRequest
  <2>2. nextKey \in 1..(MaxKeys + 1) /\ faults \in 0..MaxFaults
    BY <1>1, Limits
  <2>3. {initialized, unlocked, busy, failed, overwritten} \subseteq BOOLEAN
    BY <1>1
  <2> QED BY <1>1, <1>3, <2>1, <2>2, <2>3 DEF TypeOK
<1>5. Known = {}
  BY <1>1, <1>2, IdleIsRequest DEF Known
<1>6. ControlInv
  <2>1. Latch
    BY <1>2, IdleIsRequest DEF Latch, Latched, Waiting
  <2>2. \A s \in Requests : WellFormed(req[s])
    BY <1>2, IdleIsRequest
  <2>3. KeyRoom
    <3>1. Pending = {}
      BY <1>2, IdleIsRequest DEF Pending
    <3>2. Cardinality(Pending) = 0
      BY <3>1, FS_EmptySet
    <3> QED BY <1>1, <3>2, Limits DEF KeyRoom
  <2>4. Fresh
    BY <1>1, <1>2, <1>5, IdleIsRequest DEF Fresh
  <2> QED BY <1>4, <2>1, <2>2, <2>3, <2>4 DEF ControlInv
<1>7. FileInv
  <2>1. /\ disk["bak"].key = None /\ disk["bak"].rows = {}
    BY <1>3 DEF Paths
  <2>2. Uninitialized
    BY <1>1, <1>3, <1>5, <2>1 DEF Uninitialized
  <2>3. AbsentIsEmpty
    BY <1>3 DEF AbsentIsEmpty
  <2>4. HandleFits /\ ServesRecorded
    BY <1>1 DEF HandleFits, ServesRecorded, ServedDekRecorded
  <2>5. KeysAgree /\ Reopens
    BY <1>1 DEF KeysAgree, Reopens
  <2>6. Kept
    BY <1>3, <2>1 DEF Kept, Current
  <2> QED BY <2>2, <2>3, <2>4, <2>5, <2>6 DEF FileInv
<1>8. Stages
  <2>1. \A s \in Requests : /\ req[s].op \notin {"init", "rotate"}
    BY <1>2, IdleIsRequest
  <2> QED BY <2>1 DEF Stages, InitStage, RotateStage
<1> QED BY <1>6, <1>7, <1>8 DEF SafetyInv

LEMMA NextSafe == SafetyInv /\ [Next]_vars => SafetyInv'
<1> SUFFICES ASSUME SafetyInv, [Next]_vars PROVE SafetyInv'
  OBVIOUS
<1>1. ASSUME NEW r \in Requests, InitStep(r)
      PROVE  SafetyInv'
  BY <1>1, BeginInitSafe, InitCopySafe, InitFilesStepSafe, InitRecordSafe, InitOpenSafe,
     InitFailsSafe DEF InitStep
<1>2. ASSUME NEW r \in Requests, UnlockStep(r)
      PROVE  SafetyInv'
  BY <1>2, PostUnlockSafe, BeginUnlockSafe, OpenUnlockSafe DEF UnlockStep
<1>3. ASSUME NEW r \in Requests, AdminStep(r)
      PROVE  SafetyInv'
  BY <1>3, BeginAdminSafe, ChangeMasterSafe, QuiesceSafe, DrainSafe, RotateCopySafe,
     RotateFilesSafe, RotateRecordSafe, RotateOpenSafe, RotateDropSafe, CopyFailsSafe,
     RotateFailsSafe DEF AdminStep
<1>4. CASE UNCHANGED vars
  <2>1. /\ disk' = disk /\ meta' = meta /\ handle' = handle /\ initialized' = initialized
        /\ unlocked' = unlocked /\ busy' = busy /\ failed' = failed /\ req' = req
        /\ committed' = committed /\ nextKey' = nextKey /\ overwritten' = overwritten
        /\ faults' = faults
    BY <1>4 DEF vars
  <2>2. Known' = Known /\ Pending' = Pending
    BY <2>1 DEF Known, Pending
  <2>3. ControlInv'
    <3>1. TypeOK'
      BY <2>1 DEF SafetyInv, ControlInv, TypeOK
    <3>2. Latch' /\ (\A s \in Requests : WellFormed(req'[s]))
      BY <2>1 DEF SafetyInv, ControlInv, Latch, Latched
    <3>3. KeyRoom' /\ Fresh'
      BY <2>1, <2>2 DEF SafetyInv, ControlInv, KeyRoom, Fresh
    <3> QED BY <3>1, <3>2, <3>3 DEF ControlInv
  <2>4. FileInv'
    BY <2>1, <2>2, FilesStay DEF SafetyInv
  <2>5. ASSUME NEW s \in Requests
        PROVE  InitStage(s)' /\ RotateStage(s)'
    BY <2>1, <2>2, StageStays DEF SafetyInv, Stages
  <2> QED BY <2>3, <2>4, <2>5 DEF SafetyInv, Stages
<1> QED BY <1>1, <1>2, <1>3, <1>4, AskInitSafe, AskUnlockSafe, AskAdminSafe, WriteSafe,
           CrashSafe, OperatorRestoresSafe DEF Next, RequestStep

LEMMA Safety == Spec => []SafetyInv
BY InitSafe, NextSafe, PTL DEF Spec

----------------------------------------------------------------------------
(* Without a fault *)

\* While a copy is being put in the place of app.db, what is to come has the rows.
Promoting(r) ==
  \/ At(r, "init", "promote")
  \/ At(r, "rotate", "promote") /\ committed \subseteq disk["bak"].rows

\* app.db and meta.db are changed one after the other.
Unsettled(r) == At(r, "init", "open") \/ At(r, "rotate", "promote") \/ At(r, "rotate", "record")

\* Between faults an operation loses nothing on its way, and leaves app.db complete
\* and under the recorded DEK.
QuietInv ==
  faults = 0 /\ ~overwritten =>
    /\ committed \subseteq disk["app"].rows \/ \E r \in Requests : Promoting(r)
    /\ \A m \in meta : disk["app"].key = m.dek \/ \E r \in Requests : Unsettled(r)

InBetween(r) == At(r, "init", "promote") \/ Unsettled(r)

\* Nothing is in between.
Home ==
  committed \subseteq disk["app"].rows /\ \A m \in meta : disk["app"].key = m.dek

LEMMA HomeIsQuiet == Home' => QuietInv'
BY DEF Home, QuietInv

LEMMA HomeAlone ==
  ASSUME SafetyInv, QuietInv, faults = 0, ~overwritten, \A s \in Requests : ~InBetween(s)
  PROVE  Home
BY DEF QuietInv, Home, InBetween, Promoting, Unsettled

LEMMA InBetweenIsLatched ==
  ASSUME NEW r \in Requests, InBetween(r)
  PROVE  Latched(r)
BY DEF InBetween, Unsettled, At, Latched, Waiting

\* An operation that is not in between finds app.db complete.
LEMMA HomeBehindLatch ==
  ASSUME SafetyInv, QuietInv, faults = 0, ~overwritten,
         NEW r \in Requests, Latched(r), ~InBetween(r)
  PROVE  Home
<1>1. \A s \in Requests : Latched(s) => s = r
  BY DEF SafetyInv, ControlInv, Latch
<1>2. \A s \in Requests : ~InBetween(s)
  BY <1>1, InBetweenIsLatched
<1> QED BY <1>2, HomeAlone

LEMMA HomeWithoutLatch ==
  ASSUME SafetyInv, QuietInv, faults = 0, ~overwritten, ~busy
  PROVE  Home
<1>1. \A s \in Requests : ~Latched(s)
  BY DEF SafetyInv, ControlInv, Latch
<1>2. \A s \in Requests : ~InBetween(s)
  BY <1>1, InBetweenIsLatched
<1> QED BY <1>2, HomeAlone

\* The step of a request that is not in between, and that changes no file.
LEMMA QuietStands ==
  ASSUME QuietInv, faults = 0, ~overwritten, NEW r \in Requests, ~InBetween(r),
         \A s \in Requests \ {r} : req'[s] = req[s],
         disk' = disk, meta' = meta, committed' = committed
  PROVE  QuietInv'
<1>1. ASSUME NEW s \in Requests, Promoting(s)
      PROVE  Promoting(s)'
  <2>1. s # r
    BY <1>1 DEF InBetween, Unsettled, Promoting
  <2> QED BY <1>1, <2>1 DEF Promoting, At
<1>2. ASSUME NEW s \in Requests, Unsettled(s)
      PROVE  Unsettled(s)'
  <2>1. s # r
    BY <1>2 DEF InBetween
  <2> QED BY <1>2, <2>1 DEF Unsettled, At
<1> QED BY <1>1, <1>2 DEF QuietInv

\* The requests outside of their operation, and the ends that change no file.
Unmoved(r) ==
  \/ AskInit(r) \/ AskUnlock(r) \/ (\E op \in {"rotate", "change"} : AskAdmin(r, op))
  \/ BeginInit(r) \/ PostUnlock(r) \/ BeginUnlock(r) \/ OpenUnlock(r) \/ BeginAdmin(r)
  \/ Quiesce(r) \/ Drain(r)

LEMMA UnmovedQuiet ==
  ASSUME SafetyInv, QuietInv, faults = 0, ~overwritten, NEW r \in Requests, Unmoved(r)
  PROVE  QuietInv'
<1>1. req \in [Requests -> Request]
  BY DEF SafetyInv, ControlInv, TypeOK
<1>2. disk' = disk /\ meta' = meta /\ committed' = committed
  BY DEF Unmoved, AskInit, AskUnlock, AskAdmin, BeginInit, PostUnlock, BeginUnlock, OpenUnlock,
         BeginAdmin, Quiesce, Drain
<1> DEFINE Others == \A s \in Requests \ {r} : req'[s] = req[s]
<1>3. AskInit(r) \/ AskUnlock(r) => Others /\ req[r] = Idle
  BY <1>1 DEF AskInit, AskUnlock
<1>4. ASSUME NEW op, AskAdmin(r, op) PROVE Others /\ req[r] = Idle
  BY <1>1, <1>4 DEF AskAdmin
<1>5. BeginInit(r) => Others /\ req[r].pc = "admitted"
  BY <1>1 DEF BeginInit, At
<1>6. PostUnlock(r) \/ BeginUnlock(r) \/ OpenUnlock(r) => Others /\ req[r].op = "unlock"
  BY <1>1 DEF PostUnlock, BeginUnlock, OpenUnlock, At, Done
<1>7. BeginAdmin(r) => Others /\ req[r].pc = "asked"
  BY <1>1 DEF BeginAdmin, Goto
<1>8. Quiesce(r) \/ Drain(r) => Others /\ req[r].pc \in {"quiesce", "drain"}
  BY <1>1 DEF Quiesce, Drain, At, Done, Goto
<1>9. Others /\ (req[r] = Idle \/ req[r].op = "unlock" \/ req[r].pc \in {"admitted", "asked", "quiesce", "drain"})
  <2> HIDE DEF Others
  <2> QED BY <1>3, <1>4, <1>5, <1>6, <1>7, <1>8 DEF Unmoved
<1>10. ~InBetween(r)
  BY <1>9, IdleIsRequest DEF InBetween, Unsettled, At
<1> QED BY <1>2, <1>9, <1>10, QuietStands

LEMMA GoesTo ==
  ASSUME SafetyInv, NEW r \in Requests, NEW op, NEW pc, NEW next, At(r, op, pc), Goto(r, next)
  PROVE  At(r, op, next)'
<1>1. req \in [Requests -> Request]
  BY DEF SafetyInv, ControlInv, TypeOK
<1> QED BY <1>1 DEF At, Goto, Request

LEMMA InitQuiet ==
  ASSUME SafetyInv, SafetyInv', QuietInv, faults = 0, ~overwritten, NEW r \in Requests,
         InitCopy(r) \/ InitFiles(r) \/ InitRecord(r) \/ InitOpen(r)
  PROVE  QuietInv'
<1>1. req[r].op = "init" /\ req[r].pc \in InitSteps
  BY DEF InitCopy, InitFiles, InitRecord, InitOpen, At, InitSteps
<1>2. /\ Latched(r) /\ InitStage(r) /\ req[r].new \in Deks
      /\ disk \in [Paths -> File] /\ AbsentIsEmpty
      /\ req[r].pc # "open" => meta = {}
  BY <1>1, InsideInit DEF TypeOK, FileInv
<1>3. req[r].pc \notin {"promote", "open"} => Home
  <2> SUFFICES ASSUME req[r].pc \notin {"promote", "open"} PROVE Home
    OBVIOUS
  <2>1. ~InBetween(r)
    BY <1>1 DEF InBetween, Unsettled, At
  <2> QED BY <1>2, <2>1, HomeBehindLatch
<1>4. CASE InitCopy(r)
  <2>1. Home /\ meta' = meta /\ committed' = committed
    BY <1>3, <1>4 DEF InitCopy, At
  <2>2. disk' = disk \/ disk' = Create("enc", req[r].new)
    BY <1>4 DEF InitCopy
  <2>3. disk'["app"] = disk["app"]
    BY <1>2, <2>2 DEF Create, Paths
  <2> QED BY <2>1, <2>3, HomeIsQuiet DEF Home
<1>5. CASE InitFiles(r)
  <2>1. meta = {} /\ meta' = meta /\ committed' = committed
    BY <1>2, <1>5 DEF InitFiles, At
  <2>2. CASE At(r, "init", "copying") /\ disk' = FillFrom("app", "enc")
    <3>1. disk'["app"] = disk["app"]
      BY <1>2, <2>2, FillEffect DEF Paths
    <3> QED BY <1>3, <2>1, <2>2, <3>1, HomeIsQuiet DEF Home, At
  <2>3. CASE At(r, "init", "aside") /\ Goto(r, "promote")
    <3>1. At(r, "init", "promote")'
      BY <2>3, GoesTo
    <3> QED BY <2>1, <3>1 DEF QuietInv, Promoting
  <2>4. CASE At(r, "init", "promote") /\ disk' = Rename("enc", "app")
    <3>1. disk'["app"] = disk["enc"]
      BY <1>2, <2>4, RenameEffect DEF Paths
    <3>2. committed \subseteq disk["enc"].rows
      BY <1>1, <1>2, <2>4 DEF InitStage, At
    <3> QED BY <2>1, <3>1, <3>2, HomeIsQuiet DEF Home
  <2>5. CASE At(r, "init", "drop") /\ disk' = Remove("plain")
    <3>1. disk'["app"] = disk["app"]
      BY <1>2, <2>5, RemoveEffect DEF Paths
    <3> QED BY <1>3, <2>1, <2>5, <3>1, HomeIsQuiet DEF Home, At
  <2> QED BY <1>5, <2>2, <2>3, <2>4, <2>5 DEF InitFiles
<1>6. CASE InitRecord(r)
  <2>1. Home /\ disk' = disk /\ committed' = committed
    BY <1>3, <1>6 DEF InitRecord, At
  <2>2. At(r, "init", "open")'
    BY <1>6, GoesTo DEF InitRecord
  <2> QED BY <2>1, <2>2 DEF QuietInv, Home, Unsettled
<1>7. CASE InitOpen(r)
  <2>1. req[r].pc = "open" /\ meta' = meta /\ committed' = committed
    BY <1>7 DEF InitOpen, At
  <2>2. /\ disk["app"].key \in {None, req[r].new}
        /\ \A m \in meta : m.dek = req[r].new
    BY <1>1, <1>2, <2>1 DEF InitStage
  <2>3. committed \subseteq disk["app"].rows
    <3>1. \A s \in Requests : Latched(s) => s = r
      BY <1>2 DEF SafetyInv, ControlInv, Latch
    <3>2. \A s \in Requests : Promoting(s) => InBetween(s) /\ req[s].pc = "promote"
      BY DEF Promoting, InBetween, Unsettled, At
    <3>3. \A s \in Requests : ~Promoting(s)
      BY <2>1, <3>1, <3>2, InBetweenIsLatched
    <3> QED BY <3>3 DEF QuietInv
  <2>4. disk' = OpenedOn(disk, req[r].new)
    BY <1>7, <2>2 DEF InitOpen, Opens
  <2>5. /\ disk["app"].key # None => disk' = disk
        /\ disk["app"].key = None => disk'["app"].key = req[r].new /\ disk'["app"].rows = {}
    BY <1>2, <2>4, OpenedEffect
  <2>6. disk["app"].key = None => committed = {}
    BY <1>2, <2>3 DEF AbsentIsEmpty, Paths
  <2> QED BY <2>1, <2>2, <2>3, <2>5, <2>6, HomeIsQuiet DEF Home
<1> QED BY <1>4, <1>5, <1>6, <1>7

LEMMA RotateQuiet ==
  ASSUME SafetyInv, SafetyInv', QuietInv, faults = 0, ~overwritten, NEW r \in Requests,
         RotateCopy(r) \/ RotateFiles(r) \/ RotateRecord(r) \/ RotateOpen(r) \/ RotateDrop(r)
  PROVE  QuietInv'
<1>1. req[r].op = "rotate" /\ req[r].pc \in RotateSteps
  BY DEF RotateCopy, RotateFiles, RotateRecord, RotateOpen, RotateDrop, At, RotateSteps, InitSteps
<1>2. /\ Latched(r) /\ RotateStage(r) /\ req[r].new \in Deks /\ req[r].new # None /\ req[r].dek # None
      /\ disk \in [Paths -> File] /\ AbsentIsEmpty
  BY <1>1, InsideRotate
<1>3. req[r].pc \notin {"promote", "record"} => Home
  <2> SUFFICES ASSUME req[r].pc \notin {"promote", "record"} PROVE Home
    OBVIOUS
  <2>1. ~InBetween(r)
    BY <1>1 DEF InBetween, Unsettled, At
  <2> QED BY <1>2, <2>1, HomeBehindLatch
<1>4. req[r].pc = "promote" => committed \subseteq disk["bak"].rows
  <2> SUFFICES ASSUME req[r].pc = "promote" PROVE committed \subseteq disk["bak"].rows
    OBVIOUS
  <2>1. \A s \in Requests : Promoting(s) => s = r
    <3>1. \A s \in Requests : Promoting(s) => InBetween(s)
      BY DEF Promoting, InBetween, Unsettled
    <3> QED BY <1>2, <3>1, InBetweenIsLatched DEF SafetyInv, ControlInv, Latch
  <2>2. disk["app"].rows = {}
    BY <1>1, <1>2 DEF RotateStage, AbsentIsEmpty, Paths
  <2> QED BY <1>1, <2>1, <2>2 DEF QuietInv, Promoting, At
<1>5. req[r].pc = "record" => committed \subseteq disk["app"].rows
  <2> SUFFICES ASSUME req[r].pc = "record" PROVE committed \subseteq disk["app"].rows
    OBVIOUS
  <2>1. \A s \in Requests : Promoting(s) => s = r /\ req[s].pc = "promote"
    <3>1. \A s \in Requests : Promoting(s) => InBetween(s) /\ req[s].pc = "promote"
      BY DEF Promoting, InBetween, Unsettled, At
    <3> QED BY <1>2, <3>1, InBetweenIsLatched DEF SafetyInv, ControlInv, Latch
  <2> QED BY <2>1 DEF QuietInv
<1>6. CASE RotateCopy(r)
  <2>1. Home /\ meta' = meta /\ committed' = committed /\ disk["app"].key # None
    BY <1>1, <1>2, <1>3, <1>6 DEF RotateCopy, RotateStage, At
  <2>2. CASE ReopenOn(Remove("rekey"), req[r].dek)
    <3>1. PICK d : d = Remove("rekey")
      OBVIOUS
    <3>2. d["app"] = disk["app"]
      BY <1>2, <3>1 DEF Remove, Paths
    <3>3. disk' = d
      BY <2>1, <2>2, <3>1, <3>2, ReopenEffect
    <3> QED BY <2>1, <3>2, <3>3, HomeIsQuiet DEF Home
  <2>3. CASE disk' = Create("rekey", req[r].new)
    <3>1. disk'["app"] = disk["app"]
      BY <1>2, <2>3, CreateEffect DEF Paths
    <3> QED BY <2>1, <3>1, HomeIsQuiet DEF Home
  <2> QED BY <1>6, <2>2, <2>3 DEF RotateCopy
<1>7. CASE RotateFiles(r)
  <2>1. meta' = meta /\ committed' = committed
    BY <1>7 DEF RotateFiles
  <2>2. CASE At(r, "rotate", "copying") /\ disk' = FillFrom("app", "rekey")
    <3>1. disk'["app"] = disk["app"]
      BY <1>2, <2>2, FillEffect DEF Paths
    <3> QED BY <1>3, <2>1, <2>2, <3>1, HomeIsQuiet DEF Home, At
  <2>3. CASE At(r, "rotate", "prune") /\ disk' = Remove("bak")
    <3>1. disk'["app"] = disk["app"]
      BY <1>2, <2>3, RemoveEffect DEF Paths
    <3> QED BY <1>3, <2>1, <2>3, <3>1, HomeIsQuiet DEF Home, At
  <2>4. CASE At(r, "rotate", "aside") /\ disk' = Rename("app", "bak") /\ Goto(r, "promote")
    <3>1. disk'["bak"] = disk["app"]
      BY <1>2, <2>4, RenameEffect DEF Paths
    <3>2. At(r, "rotate", "promote")'
      BY <2>4, GoesTo
    <3>3. committed \subseteq disk["app"].rows
      BY <1>3, <2>4 DEF Home, At
    <3> QED BY <2>1, <3>1, <3>2, <3>3 DEF QuietInv, Promoting, Unsettled
  <2>5. CASE At(r, "rotate", "promote") /\ disk' = Promoted /\ Goto(r, "record")
    <3>1. disk'["app"] = disk["rekey"]
      BY <1>2, <2>5, RenameEffect DEF Paths, Promoted
    <3>2. disk["rekey"].rows = disk["bak"].rows
      BY <1>1, <1>2, <2>5 DEF RotateStage, At
    <3>3. At(r, "rotate", "record")'
      BY <2>5, GoesTo
    <3> QED BY <1>4, <2>1, <2>5, <3>1, <3>2, <3>3 DEF QuietInv, Unsettled, At
  <2> QED BY <1>7, <2>2, <2>3, <2>4, <2>5 DEF RotateFiles
<1>8. CASE RotateRecord(r)
  <2>1. committed \subseteq disk["app"].rows /\ disk' = disk /\ committed' = committed
    BY <1>5, <1>8 DEF RotateRecord, At
  <2>2. disk["app"].key = req[r].new /\ meta' = {Rotated(m, req[r].new) : m \in meta}
    BY <1>1, <1>2, <1>8 DEF RotateStage, RotateRecord, At
  <2>3. \A m \in meta' : m.dek = req[r].new
    BY <2>2 DEF Rotated
  <2> QED BY <2>1, <2>2, <2>3, HomeIsQuiet DEF Home
<1>9. CASE RotateOpen(r)
  <2>1. Home /\ meta' = meta /\ committed' = committed /\ disk["app"].key # None
    BY <1>1, <1>2, <1>3, <1>9 DEF RotateOpen, RotateStage, At
  <2>2. disk' = disk
    BY <1>2, <1>9, <2>1, OpenedEffect DEF RotateOpen
  <2> QED BY <2>1, <2>2, HomeIsQuiet DEF Home
<1>10. CASE RotateDrop(r)
  <2>1. Home /\ meta' = meta /\ committed' = committed /\ disk' = Remove("bak")
    BY <1>3, <1>10 DEF RotateDrop, At
  <2>2. disk'["app"] = disk["app"]
    BY <1>2, <2>1, RemoveEffect DEF Paths
  <2> QED BY <2>1, <2>2, HomeIsQuiet DEF Home
<1> QED BY <1>6, <1>7, <1>8, <1>9, <1>10

LEMMA ChangeQuiet ==
  ASSUME SafetyInv, QuietInv, faults = 0, ~overwritten, faults' = 0, ~overwritten',
         NEW r \in Requests, ChangeMaster(r)
  PROVE  QuietInv'
<1>1. At(r, "change", "rewrap") /\ disk' = disk /\ committed' = committed
  BY DEF ChangeMaster, state
<1>2. Latched(r) /\ ~InBetween(r)
  BY <1>1, AtLatched DEF At, InBetween, Unsettled
<1>3. Home
  BY <1>2, HomeBehindLatch
<1>4. /\ meta' = {[m EXCEPT !.dek = req[r].dek] : m \in meta}
      /\ overwritten' = (overwritten \/ \E m \in meta : m.dek # req[r].dek)
  BY DEF ChangeMaster, Fault
<1>5. \A m \in meta : m.dek = req[r].dek /\ m \in Meta
  BY <1>4 DEF SafetyInv, ControlInv, TypeOK
<1>6. \A m \in meta : [m EXCEPT !.dek = req[r].dek].dek = m.dek
  BY <1>5 DEF Meta
<1> QED BY <1>1, <1>3, <1>4, <1>6, HomeIsQuiet DEF Home

LEMMA WriteQuiet ==
  ASSUME SafetyInv, QuietInv, faults = 0, ~overwritten, NEW w \in Rows, Write(w)
  PROVE  QuietInv'
<1>1. disk \in [Paths -> File] /\ FileInv /\ Stages
  BY DEF SafetyInv, ControlInv, TypeOK
<1>2. /\ handle # None /\ meta' = meta /\ committed' = committed \cup {w}
      /\ disk' = [disk EXCEPT !["app"].rows = @ \cup {w}]
  BY DEF Write
<1>3. \A s \in Requests : ~InBetween(s)
  <2>1. ASSUME NEW s \in Requests, InBetween(s)
        PROVE  FALSE
    <3>1. InitStage(s) /\ RotateStage(s) /\ (meta = {} => handle = None)
      BY <1>1 DEF Stages, FileInv, Uninitialized
    <3> QED BY <1>2, <2>1, <3>1
            DEF InBetween, Unsettled, At, InitStage, RotateStage, InitSteps, RotateSteps
  <2> QED BY <2>1
<1>4. Home
  BY <1>3, HomeAlone
<1>5. disk'["app"].key = disk["app"].key /\ disk'["app"].rows = disk["app"].rows \cup {w}
  BY <1>1, <1>2 DEF Paths, File
<1> QED BY <1>2, <1>4, <1>5, HomeIsQuiet DEF Home

\* There is nothing for an operator to restore.
LEMMA OperatorIdle ==
  ASSUME SafetyInv, QuietInv, faults = 0, ~overwritten, OperatorRestores
  PROVE  FALSE
<1>1. Home
  BY HomeWithoutLatch DEF OperatorRestores
<1>2. /\ disk \in [Paths -> File] /\ AbsentIsEmpty /\ (meta = {} => disk["bak"].key = None)
      /\ meta \subseteq Meta
  BY DEF SafetyInv, ControlInv, TypeOK, FileInv, Uninitialized
<1>3. disk["bak"] # NoFile /\ disk["app"] = NoFile
  BY DEF OperatorRestores, Exists
<1>4. disk["bak"].key # None /\ disk["app"].key = None
  BY <1>2, <1>3, ExistsHasKey, NoFileHasNothing DEF Paths
<1>5. PICK m \in meta : m.dek = None
  BY <1>1, <1>2, <1>4 DEF Home
<1> QED BY <1>2, <1>5, KeysDiffer DEF Meta

LEMMA InitQuietly == Init => QuietInv
<1> SUFFICES ASSUME Init PROVE QuietInv
  OBVIOUS
<1>1. committed \subseteq disk["app"].rows
  BY DEF Init, Paths
<1>2. meta = {}
  BY DEF Init
<1> QED BY <1>1, <1>2 DEF QuietInv

LEMMA NextQuietly == SafetyInv /\ SafetyInv' /\ QuietInv /\ [Next]_vars => QuietInv'
<1> SUFFICES ASSUME SafetyInv, SafetyInv', QuietInv, [Next]_vars, faults' = 0, ~overwritten'
             PROVE  QuietInv'
  BY DEF QuietInv
<1>1. faults \in Nat
  BY Limits DEF SafetyInv, ControlInv, TypeOK
<1>2. ~Fault /\ ~Crash
  BY <1>1 DEF Fault, Crash
<1>3. \A r \in Requests : ~InitFails(r) /\ ~CopyFails(r) /\ ~RotateFails(r)
  BY <1>2 DEF InitFails, CopyFails, RotateFails
<1>4. ASSUME NEW r \in Requests, Unmoved(r) PROVE QuietInv'
  <2>1. overwritten' = overwritten
    BY <1>4 DEF Unmoved, AskInit, AskUnlock, AskAdmin, BeginInit, PostUnlock, BeginUnlock, OpenUnlock,
                BeginAdmin, Quiesce, Drain
  <2>2. faults' = faults
    BY <1>2, <1>4 DEF Unmoved, AskInit, AskUnlock, AskAdmin, BeginInit, PostUnlock, BeginUnlock,
                OpenUnlock, BeginAdmin, Quiesce, Drain
  <2> QED BY <1>4, <2>1, <2>2, UnmovedQuiet
<1>5. ASSUME NEW r \in Requests, InitCopy(r) \/ InitFiles(r) \/ InitRecord(r) \/ InitOpen(r)
      PROVE  QuietInv'
  <2>1. overwritten' = overwritten /\ faults' = faults
    BY <1>5 DEF InitCopy, InitFiles, InitRecord, InitOpen
  <2> QED BY <1>5, <2>1, InitQuiet
<1>6. ASSUME NEW r \in Requests,
             RotateCopy(r) \/ RotateFiles(r) \/ RotateRecord(r) \/ RotateOpen(r) \/ RotateDrop(r)
      PROVE  QuietInv'
  <2>1. overwritten' = overwritten /\ faults' = faults
    BY <1>6 DEF RotateCopy, RotateFiles, RotateRecord, RotateOpen, RotateDrop
  <2> QED BY <1>6, <2>1, RotateQuiet
<1>7. ASSUME NEW r \in Requests, ChangeMaster(r) PROVE QuietInv'
  <2>1. ~overwritten /\ faults' = faults
    BY <1>2, <1>7 DEF ChangeMaster
  <2> QED BY <1>7, <2>1, ChangeQuiet
<1>8. ASSUME NEW w \in Rows, Write(w) PROVE QuietInv'
  <2>1. overwritten' = overwritten /\ faults' = faults
    BY <1>8 DEF Write
  <2> QED BY <1>8, <2>1, WriteQuiet
<1>9. CASE OperatorRestores
  <2>1. overwritten' = overwritten /\ faults' = faults
    BY <1>9 DEF OperatorRestores, Boot
  <2> QED BY <1>9, <2>1, OperatorIdle
<1>10. CASE UNCHANGED vars
  BY <1>10 DEF vars, QuietInv, Promoting, Unsettled, At
<1> QED BY <1>2, <1>3, <1>4, <1>5, <1>6, <1>7, <1>8, <1>9, <1>10
        DEF Next, RequestStep, InitStep, UnlockStep, AdminStep, Unmoved

LEMMA Quietness == Spec => []QuietInv
BY InitQuietly, NextQuietly, Safety, PTL DEF Spec

----------------------------------------------------------------------------
(* Theorems *)

\* Files, requests and counters stay well-formed, and the DEKs generated never
\* run past their bound.
THEOREM EncryptionTypeCorrect == Spec => []TypeOK
<1>1. SafetyInv => TypeOK
  BY DEF SafetyInv, ControlInv
<1> QED BY <1>1, Safety, PTL

\* No step of an init or a rotation, failed or not, renames or replaces app.db
\* under a handle that requests are served with.
THEOREM HandlesFit == Spec => []HandleFits
<1>1. SafetyInv => HandleFits
  BY DEF SafetyInv, FileInv
<1> QED BY <1>1, Safety, PTL

\* Short of a master change with an outdated DEK, what is served is what the
\* recorded DEK opens after a restart.
THEOREM OnlyRecordedServed == Spec => []ServesRecorded
<1>1. SafetyInv => ServesRecorded
  BY DEF SafetyInv, FileInv
<1> QED BY <1>1, Safety, PTL

\* An acknowledged write survives every failure and crash of a rotation in a
\* file that the recorded DEK opens.
THEOREM WritesRecoverable == Spec => []RecordedCopy
<1>1. SafetyInv => RecordedCopy
  <2> SUFFICES ASSUME SafetyInv, ~overwritten, NEW w \in committed \ {0}
               PROVE  \E p \in Paths, m \in meta : disk[p].key = m.dek /\ w \in disk[p].rows
    BY DEF RecordedCopy
  <2>1. TypeOK /\ FileInv
    BY DEF SafetyInv, ControlInv
  <2>2. PICK m \in meta : TRUE
    BY <2>1 DEF FileInv, Uninitialized
  <2>3. w \in Current.rows
    BY <2>1 DEF FileInv, Kept
  <2>4. m.dek # None
    BY <2>1, KeysDiffer DEF TypeOK, Meta
  <2>5. CASE disk["app"].key = m.dek
    <3>1. w \in disk["app"].rows
      BY <2>3, <2>4, <2>5 DEF Current
    <3> QED BY <2>5, <3>1 DEF Paths
  <2>6. CASE disk["bak"].key = m.dek /\ committed \ {0} \subseteq disk["bak"].rows
    BY <2>6 DEF Paths
  <2>7. ~(committed \subseteq {0})
    OBVIOUS
  <2> QED BY <2>1, <2>5, <2>6, <2>7 DEF FileInv, Reopens
<1> QED BY <1>1, Safety, PTL

\* No rename, unlink or reopening loses the last file with a row, whatever the
\* keys: not even a master change with an outdated DEK destroys data.
THEOREM NothingLost == Spec => []NothingErased
<1>1. SafetyInv => NothingErased
  <2> SUFFICES ASSUME SafetyInv, NEW w \in committed
               PROVE  \E p \in Paths : w \in disk[p].rows
    BY DEF NothingErased
  <2>1. Kept
    BY DEF SafetyInv, FileInv
  <2>2. w \in Current.rows \cup disk["plain"].rows \cup disk["enc"].rows
    BY <2>1 DEF Kept
  <2> QED BY <2>2 DEF Current, Paths
<1> QED BY <1>1, Safety, PTL

\* As long as nothing fails, app.db is complete and under the recorded DEK
\* whenever no operation runs, in whatever order inits, unlocks, rotations, master
\* changes and writes come: a fault is needed for anything to be restored.
THEOREM QuietlyComplete == Spec => []QuietlyCurrent
<1>1. SafetyInv /\ QuietInv => QuietlyCurrent
  BY HomeWithoutLatch DEF QuietlyCurrent, Home
<1> QED BY <1>1, Safety, Quietness, PTL
=============================================================================
