------------------------------ MODULE Encryption ------------------------------
(***************************************************************************)
(* The lifecycle of the encrypted database: first-time init, unlock, DEK   *)
(* rotation and master-key change, as steps on the files beside app.db and *)
(* on meta.db, with a failure or a crash between any two of them.          *)
(*                                                                         *)
(* A file is a key and the rows it holds; a copy that has begun holds none *)
(* of them yet.  A step is one system call, one write of meta.db, or what  *)
(* runs between two awaits.  The client of a request knows the DEK that    *)
(* meta.db recorded when it asked for it.                                  *)
(*                                                                         *)
(* Left out: key wrapping, rate limits, the challenge store, the snapshot  *)
(* file a rotation copies from, and DB_ENCRYPTION=false.                   *)
(***************************************************************************)
EXTENDS Naturals, FiniteSets

CONSTANTS
  Requests,   \* request handlers
  Plain,      \* the key of an unencrypted file
  None,       \* the key of a file that does not exist, and of no handle
  MaxKeys,    \* bound on the DEKs generated
  MaxWrites,  \* bound on the writes of the application
  MaxFaults   \* bound on failures and crashes

ASSUME FinitelyMany == IsFiniteSet(Requests)
ASSUME KeyKinds == Plain # None /\ {Plain, None} \cap Nat = {}
ASSUME Limits == MaxKeys \in Nat /\ MaxWrites \in Nat /\ MaxFaults \in Nat

\* app.db, .bak, .unencrypted.bak, .rekey.tmp, .enc.tmp
Paths == {"app", "bak", "plain", "rekey", "enc"}
Deks  == 1..MaxKeys
Rows  == 0..MaxWrites

File   == [key : Deks \cup {Plain, None}, rows : SUBSET Rows]
NoFile == [key |-> None, rows |-> {}]
Meta   == [dek : Deks, version : 1..MaxKeys]

VARIABLES
  disk,        \* the database file and its siblings
  meta,        \* what meta.db records, as a set of at most one
  handle,      \* the DEK of the handle that requests are served with, if any
  initialized, unlocked, busy, failed,  \* EncryptionState; failed is dbError
  req,         \* the requests in progress
  committed,   \* rows whose writers were told so
  nextKey,     \* next DEK to be generated
  overwritten, \* a master change recorded another DEK than meta.db had
  faults       \* faults so far

state == <<initialized, unlocked, failed>>
vars == <<disk, meta, handle, initialized, unlocked, busy, failed, req, committed,
          nextKey, overwritten, faults>>

Operations == {"none", "init", "unlock", "rotate", "change"}
Steps == {"idle", "asked", "admitted", "copy", "copying", "prune", "aside", "promote",
          "drop", "record", "open", "quiesce", "drain", "rewrap"}

\* dek is the client's, new the one the handler generated.
Request == [op : Operations, pc : Steps, dek : Deks \cup {None}, new : Deks \cup {None}]
Idle    == [op |-> "none", pc |-> "idle", dek |-> None, new |-> None]

TypeOK ==
  /\ disk \in [Paths -> File]
  /\ meta \subseteq Meta /\ \A m, n \in meta : m = n
  /\ handle \in Deks \cup {None}
  /\ {initialized, unlocked, busy, failed, overwritten} \subseteq BOOLEAN
  /\ req \in [Requests -> Request]
  /\ committed \subseteq Rows
  /\ nextKey \in 1..(MaxKeys + 1)
  /\ faults \in 0..MaxFaults

\* A new deployment, or one that so far ran unencrypted.
Init ==
  /\ \/ disk = [p \in Paths |-> NoFile] /\ committed = {}
     \/ /\ disk = [p \in Paths |-> IF p = "app" THEN [key |-> Plain, rows |-> {0}]
                                               ELSE NoFile]
        /\ committed = {0}
  /\ meta = {}
  /\ handle = None
  /\ initialized = FALSE /\ unlocked = FALSE /\ busy = FALSE /\ failed = FALSE
  /\ req = [r \in Requests |-> Idle]
  /\ nextKey = 1
  /\ overwritten = FALSE
  /\ faults = 0

----------------------------------------------------------------------------
(* Files *)

Exists(p)  == disk[p] # NoFile
Create(p, k) == [disk EXCEPT ![p] = [key |-> k, rows |-> {}]]
Remove(p)  == [disk EXCEPT ![p] = NoFile]
Rename(p, q) == [disk EXCEPT ![q] = disk[p], ![p] = NoFile]

\* copyDatabase folds the copy's WAL into its main file before it is renamed.
LeftInWal(rows)  == {}
CopyOf(rows)     == rows
FillFrom(p, q)   == [disk EXCEPT ![q].rows = CopyOf(disk[p].rows)]

\* createDb: opens the file if the key fits, and creates it if there is none.
Opens(d, k)   == d["app"].key \in {None, k}
OpenedOn(d, k) == IF d["app"] = NoFile
                  THEN [d EXCEPT !["app"] = [key |-> k, rows |-> {}]] ELSE d

(* Requests *)

At(r, op, pc) == req[r].op = op /\ req[r].pc = pc
Goto(r, pc)   == req' = [req EXCEPT ![r].pc = pc]

\* Requests that may still generate a DEK.
Pending == {r \in Requests : req[r].op \in {"init", "rotate"} /\ req[r].new = None}

\* The finally of every route that took the latch.
LatchStays   == UNCHANGED busy
EndOperation == busy' = FALSE
Done(r) == EndOperation /\ req' = [req EXCEPT ![r] = Idle]

Fault == faults < MaxFaults /\ faults' = faults + 1

----------------------------------------------------------------------------
(* POST /encryption/init *)

AskInit(r) ==
  /\ req[r] = Idle
  /\ ~initialized
  /\ nextKey + Cardinality(Pending) <= MaxKeys
  /\ req' = [req EXCEPT ![r].op = "init", ![r].pc = "admitted"]
  /\ UNCHANGED <<disk, meta, handle, state, busy, committed, nextKey, overwritten, faults>>

\* After the rate limit: the latch, and initEncryption up to the migration.
NeverMigrates == FALSE
MustMigrate   == Exists("app")

BeginInit(r) ==
  /\ At(r, "init", "admitted")
  /\ \/ /\ busy
        /\ req' = [req EXCEPT ![r] = Idle]
        /\ UNCHANGED <<busy, failed, nextKey>>
     \/ /\ ~busy /\ initialized
        /\ req' = [req EXCEPT ![r] = Idle]
        /\ failed' = TRUE
        /\ UNCHANGED <<busy, nextKey>>
     \/ /\ ~busy /\ ~initialized
        /\ busy' = TRUE
        /\ req' = [req EXCEPT ![r].pc = IF MustMigrate THEN "copy" ELSE "record",
                              ![r].new = nextKey]
        /\ nextKey' = nextKey + 1
        /\ UNCHANGED failed
  /\ UNCHANGED <<disk, meta, handle, initialized, unlocked, committed, overwritten, faults>>

\* migrateToEncrypted.  A .enc.tmp that an earlier attempt left behind has
\* another key, and an app.db that is already encrypted cannot be read: both
\* end the attempt, which leaves a .enc.tmp in any case.
InitCopy(r) ==
  /\ At(r, "init", "copy")
  /\ IF Exists("enc")
     THEN disk' = disk
     ELSE disk' = Create("enc", req[r].new)
  /\ IF Exists("enc") \/ disk["app"].key # Plain
     THEN Done(r) /\ failed' = TRUE
     ELSE Goto(r, "copying") /\ UNCHANGED <<busy, failed>>
  /\ UNCHANGED <<meta, handle, initialized, unlocked, committed, nextKey, overwritten, faults>>

InitFiles(r) ==
  /\ \/ At(r, "init", "copying") /\ disk' = FillFrom("app", "enc") /\ Goto(r, "aside")
     \/ At(r, "init", "aside") /\ disk' = Rename("app", "plain") /\ Goto(r, "promote")
     \/ At(r, "init", "promote") /\ disk' = Rename("enc", "app") /\ Goto(r, "drop")
     \/ At(r, "init", "drop") /\ disk' = Remove("plain") /\ Goto(r, "record")
  /\ UNCHANGED <<meta, handle, state, busy, committed, nextKey, overwritten, faults>>

\* writeEncryptionMeta and setInitialized, only now.
NoVersion    == 0
FirstVersion == 1

InitRecord(r) ==
  /\ At(r, "init", "record")
  /\ meta' = {[dek |-> req[r].new, version |-> FirstVersion]}
  /\ initialized' = TRUE
  /\ Goto(r, "open")
  /\ UNCHANGED <<disk, handle, unlocked, busy, failed, committed, nextKey, overwritten, faults>>

\* setDek
InitOpen(r) ==
  /\ At(r, "init", "open")
  /\ IF Opens(disk, req[r].new)
     THEN /\ disk' = OpenedOn(disk, req[r].new)
          /\ handle' = req[r].new
          /\ unlocked' = TRUE
          /\ UNCHANGED failed
     ELSE failed' = TRUE /\ UNCHANGED <<disk, handle, unlocked>>
  /\ Done(r)
  /\ UNCHANGED <<meta, initialized, committed, nextKey, overwritten, faults>>

\* Anything throws: the copy stays where it is, unless it was its verification,
\* and so does an app.db that was created before the app could not be built.
InitFails(r) ==
  /\ req[r].op = "init"
  /\ req[r].pc \in {"copying", "aside", "promote", "drop", "record", "open"}
  /\ Fault
  /\ \/ disk' = disk
     \/ req[r].pc = "copying" /\ disk' = Remove("enc")
     \/ req[r].pc = "open" /\ disk' = OpenedOn(disk, req[r].new)
  /\ failed' = TRUE
  /\ Done(r)
  /\ UNCHANGED <<meta, handle, initialized, unlocked, committed, nextKey, overwritten>>

----------------------------------------------------------------------------
(* POST /encryption/unlock-challenge and /encryption/unlock *)

AskUnlock(r) ==
  /\ req[r] = Idle
  /\ initialized /\ ~unlocked /\ ~failed
  /\ \E m \in meta :
       req' = [req EXCEPT ![r].op = "unlock", ![r].pc = "asked", ![r].dek = m.dek]
  /\ UNCHANGED <<disk, meta, handle, state, busy, committed, nextKey, overwritten, faults>>

\* The status is checked here, and not again after the awaits that follow.
PostUnlock(r) ==
  /\ At(r, "unlock", "asked")
  /\ req' = [req EXCEPT ![r] = IF unlocked THEN Idle ELSE [@ EXCEPT !.pc = "admitted"]]
  /\ UNCHANGED <<disk, meta, handle, state, busy, committed, nextKey, overwritten, faults>>

BeginUnlock(r) ==
  /\ At(r, "unlock", "admitted")
  /\ busy' = TRUE
  /\ req' = [req EXCEPT ![r] = IF busy THEN Idle ELSE [@ EXCEPT !.pc = "open"]]
  /\ UNCHANGED <<disk, meta, handle, state, committed, nextKey, overwritten, faults>>

\* unlockSystem: a missing file is an error, a key that does not fit is refused,
\* and otherwise the app is swapped for one with a new handle.
OpenUnlock(r) ==
  /\ At(r, "unlock", "open")
  /\ \/ /\ ~Exists("app")
        /\ failed' = TRUE /\ UNCHANGED <<handle, unlocked, faults>>
     \/ /\ Exists("app") /\ disk["app"].key # req[r].dek
        /\ UNCHANGED <<failed, handle, unlocked, faults>>
     \/ /\ disk["app"].key = req[r].dek
        /\ handle' = req[r].dek /\ unlocked' = TRUE
        /\ UNCHANGED <<failed, faults>>
     \/ /\ disk["app"].key = req[r].dek
        /\ Fault
        /\ failed' = TRUE /\ handle' \in {handle, None}
        /\ UNCHANGED unlocked
  /\ Done(r)
  /\ UNCHANGED <<disk, meta, initialized, committed, nextKey, overwritten>>

----------------------------------------------------------------------------
(* GET /encryption/meta, then POST /encryption/rotate-dek or change-master *)

AskAdmin(r, op) ==
  /\ req[r] = Idle
  /\ unlocked /\ handle # None
  /\ op = "rotate" => nextKey + Cardinality(Pending) <= MaxKeys
  /\ \E m \in meta :
       req' = [req EXCEPT ![r].op = op, ![r].pc = "asked", ![r].dek = m.dek]
  /\ UNCHANGED <<disk, meta, handle, state, busy, committed, nextKey, overwritten, faults>>

\* A closed handle fails the session lookup, a taken latch is a 409.
BeginAdmin(r) ==
  /\ req[r].op \in {"rotate", "change"} /\ req[r].pc = "asked"
  /\ IF handle = None \/ ~unlocked \/ busy
     THEN req' = [req EXCEPT ![r] = Idle] /\ UNCHANGED busy
     ELSE /\ busy' = TRUE
          /\ Goto(r, IF req[r].op = "rotate" THEN "quiesce" ELSE "rewrap")
  /\ UNCHANGED <<disk, meta, handle, state, committed, nextKey, overwritten, faults>>

\* changeMasterKey wraps the DEK the client sent, whatever it opens.
ChangeMaster(r) ==
  /\ At(r, "change", "rewrap")
  /\ \/ /\ meta' = {[m EXCEPT !.dek = req[r].dek] : m \in meta}
        /\ overwritten' = (overwritten \/ \E m \in meta : m.dek # req[r].dek)
        /\ UNCHANGED faults
     \/ Fault /\ UNCHANGED <<meta, overwritten>>
  /\ Done(r)
  /\ UNCHANGED <<disk, handle, state, committed, nextKey>>

(* rotateDek *)

\* The checkpoint and the close, or a checkpoint that fails.
StillOpen == handle
Closed    == None

Quiesce(r) ==
  /\ At(r, "rotate", "quiesce")
  /\ \/ /\ handle' = Closed
        /\ req' = [req EXCEPT ![r].pc = "drain", ![r].new = nextKey]
        /\ nextKey' = nextKey + 1
        /\ UNCHANGED <<busy, faults>>
     \/ Fault /\ Done(r) /\ UNCHANGED <<handle, nextKey>>
  /\ UNCHANGED <<disk, meta, state, committed, overwritten>>

\* waitForWalDrained, which throws outside of any try.
Drain(r) ==
  /\ At(r, "rotate", "drain")
  /\ \/ Goto(r, "copy") /\ UNCHANGED <<busy, faults>>
     \/ Fault /\ Done(r)
  /\ UNCHANGED <<disk, meta, handle, state, committed, nextKey, overwritten>>

\* reopenWithDek, on the files d; its own failure is swallowed.
ReopenOn(d, k) ==
  IF Opens(d, k)
  THEN disk' = OpenedOn(d, k) /\ handle' = k
  ELSE disk' = d /\ UNCHANGED handle

\* A leftover .rekey.tmp and a DEK that does not open app.db both end the
\* attempt, which removes the copy and reopens with the client's DEK.
RotateCopy(r) ==
  /\ At(r, "rotate", "copy")
  /\ IF Exists("rekey") \/ disk["app"].key # req[r].dek
     THEN ReopenOn(Remove("rekey"), req[r].dek) /\ Done(r)
     ELSE disk' = Create("rekey", req[r].new) /\ Goto(r, "copying") /\ UNCHANGED <<handle, busy>>
  /\ UNCHANGED <<meta, state, committed, nextKey, overwritten, faults>>

PromotedAlone == [Rename("rekey", "app") EXCEPT !["bak"] = NoFile]
Promoted      == Rename("rekey", "app")

RotateFiles(r) ==
  /\ \/ At(r, "rotate", "copying") /\ disk' = FillFrom("app", "rekey") /\ Goto(r, "prune")
     \/ At(r, "rotate", "prune") /\ disk' = Remove("bak") /\ Goto(r, "aside")
     \/ At(r, "rotate", "aside") /\ disk' = Rename("app", "bak") /\ Goto(r, "promote")
     \/ At(r, "rotate", "promote") /\ disk' = Promoted /\ Goto(r, "record")
  /\ UNCHANGED <<meta, handle, state, busy, committed, nextKey, overwritten, faults>>

\* writeEncryptionMeta({...meta, encryptedDek, dekVersion})
SpreadLast(m, k) == [m EXCEPT !.version = @ + 1]
Rotated(m, k)    == [dek |-> k, version |-> m.version + 1]

RotateRecord(r) ==
  /\ At(r, "rotate", "record")
  /\ meta' = {Rotated(m, req[r].new) : m \in meta}
  /\ Goto(r, "open")
  /\ UNCHANGED <<disk, handle, state, busy, committed, nextKey, overwritten, faults>>

RotateOpen(r) ==
  /\ At(r, "rotate", "open")
  /\ disk' = OpenedOn(disk, req[r].new)
  /\ handle' = req[r].new
  /\ unlocked' = TRUE
  /\ Goto(r, "drop")
  /\ UNCHANGED <<meta, initialized, busy, failed, committed, nextKey, overwritten, faults>>

RotateDrop(r) ==
  /\ At(r, "rotate", "drop")
  /\ disk' = Remove("bak")
  /\ Done(r)
  /\ UNCHANGED <<meta, handle, state, committed, nextKey, overwritten, faults>>

\* The copy or its verification throws: nothing has moved yet.
CopyFails(r) ==
  /\ At(r, "rotate", "copying")
  /\ Fault
  /\ \/ ReopenOn(Remove("rekey"), req[r].dek)
     \/ disk' = Remove("rekey") /\ UNCHANGED handle
  /\ Done(r)
  /\ UNCHANGED <<meta, state, committed, nextKey, overwritten>>

\* Anything after that throws: the backup comes back only if app.db is missing.
RotateFails(r) ==
  /\ req[r].op = "rotate"
  /\ req[r].pc \in {"prune", "aside", "promote", "record", "open", "drop"}
  /\ Fault
  /\ LET back == IF Exists("bak") /\ ~Exists("app") THEN Rename("bak", "app") ELSE disk IN
     \/ ReopenOn(back, req[r].dek)
     \/ disk' \in {disk, back} /\ UNCHANGED handle
  /\ failed' = TRUE
  /\ Done(r)
  /\ UNCHANGED <<meta, initialized, unlocked, committed, nextKey, overwritten>>

----------------------------------------------------------------------------
(* The rest of the world *)

\* A request handler of the application commits a write.
Write(w) ==
  /\ handle # None
  /\ w \in Rows \ (committed \cup {0})
  /\ disk' = [disk EXCEPT !["app"].rows = @ \cup {w}]
  /\ committed' = committed \cup {w}
  /\ UNCHANGED <<meta, handle, state, busy, req, nextKey, overwritten, faults>>

\* bootstrapEncryption in a new process.
Boot ==
  /\ handle' = None
  /\ initialized' = (meta # {})
  /\ unlocked' = FALSE /\ busy' = FALSE /\ failed' = FALSE
  /\ req' = [r \in Requests |-> Idle]
  /\ UNCHANGED <<meta, committed, nextKey, overwritten>>

Crash == Fault /\ Boot /\ UNCHANGED disk

\* The operator stops the server and renames the backup back by hand, where a
\* rotation has left no app.db.
OperatorRestores ==
  /\ ~busy
  /\ Exists("bak") /\ ~Exists("app")
  /\ disk' = Rename("bak", "app")
  /\ Boot
  /\ UNCHANGED faults

InitStep(r) ==
  BeginInit(r) \/ InitCopy(r) \/ InitFiles(r) \/ InitRecord(r) \/ InitOpen(r) \/ InitFails(r)
UnlockStep(r) == PostUnlock(r) \/ BeginUnlock(r) \/ OpenUnlock(r)
AdminStep(r) ==
  \/ BeginAdmin(r) \/ ChangeMaster(r)
  \/ Quiesce(r) \/ Drain(r) \/ RotateCopy(r) \/ RotateFiles(r) \/ RotateRecord(r)
  \/ RotateOpen(r) \/ RotateDrop(r) \/ CopyFails(r) \/ RotateFails(r)

RequestStep(r) == InitStep(r) \/ UnlockStep(r) \/ AdminStep(r)

Next ==
  \/ \E r \in Requests :
       \/ AskInit(r) \/ AskUnlock(r) \/ (\E op \in {"rotate", "change"} : AskAdmin(r, op))
       \/ RequestStep(r)
  \/ \E w \in Rows : Write(w)
  \/ Crash
  \/ OperatorRestores

Spec == Init /\ [][Next]_vars

\* A handler that was started runs on.
Fairness == \A r \in Requests : WF_vars(RequestStep(r))

FairSpec == Spec /\ Fairness
==============================================================================
