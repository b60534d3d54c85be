------------------------------ MODULE FileStore ------------------------------
(***************************************************************************)
(* The file module: content-addressed blobs, the `files` rows that name    *)
(* them, the `file_references` rows that attach them to owners, and the    *)
(* two ways a blob is reclaimed (the async sweeper and the sync delete).   *)
(*                                                                         *)
(* A step is what runs between two awaits.  A database transaction without *)
(* outside effects is one step; the upload transaction, which writes the   *)
(* blob while it holds the process-wide write lock, is several.  Reads do  *)
(* not take the lock and see the last committed state.                     *)
(*                                                                         *)
(* Left out: file sizes and the total quota, MIME checks, permission hooks *)
(* and storage drivers other than the active one.                          *)
(***************************************************************************)
EXTENDS Naturals, FiniteSets

CONSTANTS
  Contents,       \* byte strings, told apart by their sha256
  Comments,       \* owners that are hard-deleted and swept for orphans
  Documents,      \* owners that are soft-deleted and never swept
  Uploaders,      \* request handlers that upload an attachment
  Deleters,       \* request handlers that delete an attachment or an owner
  Sweeper,        \* the file-gc task; the scheduler never overlaps its runs
  None,           \* no owner, no content, nobody holding the lock
  MaxAttachments, \* MAX_ATTACHMENTS_PER_RESOURCE
  GCModes,        \* values FILE_GC_MODE may have at boot
  MaxFiles,       \* bound on files.id values
  MaxRefs,        \* bound on file_references.id values
  MaxFaults       \* bound on crashes, DB_BUSY answers and failed uploads

Owners    == Comments \cup Documents
Releasers == Deleters \cup {Sweeper}
FileIds   == 1..MaxFiles
RefIds    == 1..MaxRefs
Reference == [id : RefIds, file : FileIds, owner : Owners]

ASSUME Actors ==
  /\ IsFiniteSet(Uploaders)
  /\ Sweeper \notin Deleters
  /\ None \notin Uploaders \cup Owners \cup Contents
  /\ Comments \cap Documents = {}

ASSUME Bounds ==
  /\ MaxAttachments \in Nat \ {0}
  /\ MaxFiles \in Nat
  /\ MaxRefs \in Nat
  /\ MaxFaults \in Nat
  /\ GCModes \subseteq {"async", "sync"}

VARIABLES
  files,     \* ids of the committed `files` rows
  sha,       \* files.sha256 (so also files.storage_key) of every id ever used
  refCount,  \* files.ref_count
  refs,      \* committed `file_references` rows
  owners,    \* owners a route still finds
  blobs,     \* contents stored under their final name
  lock,      \* the upload transaction that holds the write lock, if any
  up,        \* the uploads in progress
  rel,       \* the releases in progress, one per releaser
  sweep,     \* the unreferenced-files pass of the sweeper
  nextFile,  \* next unused files.id
  nextRef,   \* next unused file_references.id
  faults,    \* faults so far
  gcMode     \* FILE_GC_MODE of this deployment

vars == <<files, sha, refCount, refs, owners, blobs, lock, up, rel, sweep,
          nextFile, nextRef, faults, gcMode>>

----------------------------------------------------------------------------
(* The tables as the handlers read them. *)

RefsTo(f) == {r \in refs : r.file = f}
RefsOf(o) == {r \in refs : r.owner = o}
RowsOf(c) == {f \in files : sha[f] = c}

\* ORPHAN_RULES: comment attachments whose comment is gone.
OrphansOfNoRule  == {}
OrphansOfAnyType == {r \in refs : r.owner \notin Comments \cap owners}
Orphans == {r \in refs : r.owner \in Comments \ owners}

\* The foreign key file_references.file_id, ON DELETE RESTRICT.
NoForeignKey(f) == TRUE
Deletable(f)    == RefsTo(f) = {}

\* MAX(ref_count - 1, 0)
NotDecremented(n) == n
WithoutFloor(n)   == n - 1
FloorOfOne(n)     == IF n > 1 THEN n - 1 ELSE 1
Decremented(n)    == IF n > 0 THEN n - 1 ELSE 0

\* WriteLock.run: a write waits until no transaction holds the lock.
NoWriteLock == TRUE
LockFree    == lock = None

(* What a handler remembers between its awaits. *)

Upload  == [pc : {"idle", "accepted", "checked", "put", "commit"},
            owner : Owners \cup {None}, content : Contents \cup {None},
            file : FileIds \cup {0}]
Release == [pc : {"idle", "list", "next", "tx", "blob", "row"},
            owner : Owners \cup {None}, todo : SUBSET RefIds,
            ref : RefIds \cup {0}, file : FileIds \cup {0}]
Sweep   == [pc : {"idle", "orphans", "blob", "row"},
            todo : SUBSET FileIds, file : FileIds \cup {0}]

IdleUpload  == [pc |-> "idle", owner |-> None, content |-> None, file |-> 0]
IdleRelease == [pc |-> "idle", owner |-> None, todo |-> {}, ref |-> 0, file |-> 0]
IdleSweep   == [pc |-> "idle", todo |-> {}, file |-> 0]

TypeOK ==
  /\ files \subseteq FileIds
  /\ sha \in [FileIds -> Contents \cup {None}]
  /\ refCount \in [FileIds -> Nat]
  /\ refs \subseteq Reference
  /\ owners \subseteq Owners
  /\ blobs \subseteq Contents
  /\ lock \in Uploaders \cup {None}
  /\ up \in [Uploaders -> Upload]
  /\ rel \in [Releasers -> Release]
  /\ sweep \in Sweep
  /\ nextFile \in 1..(MaxFiles + 1)
  /\ nextRef \in 1..(MaxRefs + 1)
  /\ faults \in 0..MaxFaults
  /\ gcMode \in GCModes

Init ==
  /\ files = {}
  /\ sha = [f \in FileIds |-> None]
  /\ refCount = [f \in FileIds |-> 0]
  /\ refs = {}
  /\ owners = Owners
  /\ blobs = {}
  /\ lock = None
  /\ up = [u \in Uploaders |-> IdleUpload]
  /\ rel = [d \in Releasers |-> IdleRelease]
  /\ sweep = IdleSweep
  /\ nextFile = 1
  /\ nextRef = 1
  /\ faults = 0
  /\ gcMode \in GCModes

----------------------------------------------------------------------------
(* uploadAndReference, behind a route that has looked the owner up. *)

InFlight == {u \in Uploaders : up[u].pc # "idle"}

\* The route finds the owner and reads the multipart body.
StartUpload(u, o, c) ==
  /\ up[u].pc = "idle"
  /\ o \in owners
  /\ nextRef + Cardinality(InFlight) <= MaxRefs
  /\ nextFile + Cardinality(InFlight) <= MaxFiles
  /\ up' = [up EXCEPT ![u] = [IdleUpload EXCEPT !.pc = "accepted", !.owner = o,
                                                !.content = c]]
  /\ UNCHANGED <<files, sha, refCount, refs, owners, blobs, lock, rel, sweep,
                 nextFile, nextRef, faults, gcMode>>

\* The attachment count of the owner, read outside the transaction.
OneTooMany(o) == Cardinality(RefsOf(o)) <= MaxAttachments
UnderLimit(o) == Cardinality(RefsOf(o)) < MaxAttachments

CheckLimit(u) ==
  /\ up[u].pc = "accepted"
  /\ up' = [up EXCEPT ![u] = IF UnderLimit(@.owner)
                             THEN [@ EXCEPT !.pc = "checked"]
                             ELSE IdleUpload]
  /\ UNCHANGED <<files, sha, refCount, refs, owners, blobs, lock, rel, sweep,
                 nextFile, nextRef, faults, gcMode>>

\* BEGIN IMMEDIATE under the write lock, and the lookup by content.
BeginUpload(u) ==
  /\ up[u].pc = "checked"
  /\ LockFree
  /\ lock' = u
  /\ \/ \E f \in RowsOf(up[u].content) :
          up' = [up EXCEPT ![u].pc = "commit", ![u].file = f]
     \/ /\ RowsOf(up[u].content) = {}
        /\ up' = [up EXCEPT ![u].pc = "put"]
  /\ UNCHANGED <<files, sha, refCount, refs, owners, blobs, rel, sweep,
                 nextFile, nextRef, faults, gcMode>>

\* driver.put, inside the transaction.
PutBlob(u) ==
  /\ up[u].pc = "put"
  /\ blobs' = blobs \cup {up[u].content}
  /\ up' = [up EXCEPT ![u].pc = "commit"]
  /\ UNCHANGED <<files, sha, refCount, refs, owners, lock, rel, sweep,
                 nextFile, nextRef, faults, gcMode>>

\* A content hit: one more reference, one more reference row.  A second
\* attachment of the same content to the same owner rolls everything back.
CommitDedupe(u) ==
  /\ up[u].pc = "commit"
  /\ up[u].file # 0
  /\ IF \E r \in RefsTo(up[u].file) : r.owner = up[u].owner
     THEN UNCHANGED <<refCount, refs, nextRef>>
     ELSE /\ refCount' = [refCount EXCEPT ![up[u].file] = @ + 1]
          /\ refs' = refs \cup {[id |-> nextRef, file |-> up[u].file,
                                 owner |-> up[u].owner]}
          /\ nextRef' = nextRef + 1
  /\ lock' = None
  /\ up' = [up EXCEPT ![u] = IdleUpload]
  /\ UNCHANGED <<files, sha, owners, blobs, rel, sweep, nextFile, faults, gcMode>>

\* New content: the `files` row and its first reference.
CommitNew(u) ==
  /\ up[u].pc = "commit"
  /\ up[u].file = 0
  /\ files' = files \cup {nextFile}
  /\ sha' = [sha EXCEPT ![nextFile] = up[u].content]
  /\ refCount' = [refCount EXCEPT ![nextFile] = 1]
  /\ refs' = refs \cup {[id |-> nextRef, file |-> nextFile, owner |-> up[u].owner]}
  /\ nextFile' = nextFile + 1
  /\ nextRef' = nextRef + 1
  /\ lock' = None
  /\ up' = [up EXCEPT ![u] = IdleUpload]
  /\ UNCHANGED <<owners, blobs, rel, sweep, faults, gcMode>>

----------------------------------------------------------------------------
(* The routes that release references. *)

\* DELETE .../attachments/:aid: the owner and the reference are both found.
StartDeleteAttachment(d, r) ==
  /\ rel[d].pc = "idle"
  /\ r.owner \in owners
  /\ rel' = [rel EXCEPT ![d] = [IdleRelease EXCEPT !.pc = "next", !.todo = {r.id}]]
  /\ UNCHANGED <<files, sha, refCount, refs, owners, blobs, lock, up, sweep,
                 nextFile, nextRef, faults, gcMode>>

\* DELETE of a comment or of a document: the owner is found.
StartDeleteOwner(d, o) ==
  /\ rel[d].pc = "idle"
  /\ rel' = [rel EXCEPT ![d] = [IdleRelease EXCEPT !.pc = "list", !.owner = o]]
  /\ UNCHANGED <<files, sha, refCount, refs, owners, blobs, lock, up, sweep,
                 nextFile, nextRef, faults, gcMode>>

\* releaseAllByOwner lists the references it is going to release.
ListByOwner(d) ==
  /\ rel[d].pc = "list"
  /\ rel' = [rel EXCEPT ![d].pc = "next",
                        ![d].todo = {r.id : r \in RefsOf(rel[d].owner)}]
  /\ UNCHANGED <<files, sha, refCount, refs, owners, blobs, lock, up, sweep,
                 nextFile, nextRef, faults, gcMode>>

\* The owner row goes last: deleted (comment) or stamped deleted_at (document).
FinishRelease(d) ==
  /\ rel[d].pc = "next"
  /\ rel[d].todo = {}
  /\ rel[d].owner # None => LockFree
  /\ owners' = owners \ {rel[d].owner}
  /\ rel' = [rel EXCEPT ![d] = IdleRelease]
  /\ UNCHANGED <<files, sha, refCount, refs, blobs, lock, up, sweep,
                 nextFile, nextRef, faults, gcMode>>

----------------------------------------------------------------------------
(* releaseReference. *)

\* The reference is read outside the transaction; a missing one is skipped.
ReadReference(d, i) ==
  /\ rel[d].pc = "next"
  /\ i \in rel[d].todo
  /\ \/ \E r \in refs :
          /\ r.id = i
          /\ rel' = [rel EXCEPT ![d].pc = "tx", ![d].todo = @ \ {i},
                                ![d].ref = i, ![d].file = r.file]
     \/ /\ \A r \in refs : r.id # i
        /\ rel' = [rel EXCEPT ![d].todo = @ \ {i}]
  /\ UNCHANGED <<files, sha, refCount, refs, owners, blobs, lock, up, sweep,
                 nextFile, nextRef, faults, gcMode>>

\* Deleting a comment always releases on the async contract.
SyncDelete(d) == gcMode = "sync" /\ rel[d].owner \notin Comments

\* The transaction removes the row if it is still there, and decrements
\* ref_count (not below 0) whether it was or not.
ReleaseTx(d) ==
  LET f       == rel[d].file
      left    == IF f \in files THEN Decremented(refCount[f]) ELSE refCount[f]
      drained == f \in files /\ left = 0
  IN
  /\ rel[d].pc = "tx"
  /\ LockFree
  /\ refs' = {r \in refs : r.id # rel[d].ref}
  /\ refCount' = [refCount EXCEPT ![f] = left]
  /\ rel' = [rel EXCEPT
               ![d].pc = IF drained /\ SyncDelete(d) THEN "blob" ELSE "next",
               ![d].ref = 0,
               ![d].file = IF drained /\ SyncDelete(d) THEN f ELSE 0]
  /\ UNCHANGED <<files, sha, owners, blobs, lock, up, sweep,
                 nextFile, nextRef, faults, gcMode>>

\* The local driver's delete, which swallows a failing rm.
SilentlyKept(c) == UNCHANGED <<blobs, faults>>
DeleteObject(c) ==
  \/ blobs' = blobs \ {c} /\ faults' = faults
  \/ blobs' = blobs /\ faults < MaxFaults /\ faults' = faults + 1

\* syncDeleteBlob: first the stored object ...
SyncDeleteBlob(d) ==
  /\ rel[d].pc = "blob"
  /\ DeleteObject(sha[rel[d].file])
  /\ rel' = [rel EXCEPT ![d].pc = "row"]
  /\ UNCHANGED <<files, sha, refCount, refs, owners, lock, up, sweep,
                 nextFile, nextRef, gcMode>>

\* ... then the row, whatever its ref_count is by now.  The foreign key
\* refuses it while a reference is left, and the request fails.
SyncDeleteRow(d) ==
  /\ rel[d].pc = "row"
  /\ LockFree
  /\ \/ /\ Deletable(rel[d].file)
        /\ files' = files \ {rel[d].file}
        /\ rel' = [rel EXCEPT ![d].pc = "next", ![d].file = 0]
     \/ /\ ~Deletable(rel[d].file)
        /\ files' = files
        /\ rel' = [rel EXCEPT ![d] = IdleRelease]
  /\ UNCHANGED <<sha, refCount, refs, owners, blobs, lock, up, sweep,
                 nextFile, nextRef, faults, gcMode>>

----------------------------------------------------------------------------
(* The file-gc task: orphaned references first, then unreferenced files. *)

StartSweep ==
  /\ gcMode = "async"
  /\ sweep.pc = "idle"
  /\ sweep' = [sweep EXCEPT !.pc = "orphans"]
  /\ rel' = [rel EXCEPT ![Sweeper] = [IdleRelease EXCEPT !.pc = "next",
                                      !.todo = {r.id : r \in Orphans}]]
  /\ UNCHANGED <<files, sha, refCount, refs, owners, blobs, lock, up,
                 nextFile, nextRef, faults, gcMode>>

\* listUnreferencedFiles
ListUnreferenced ==
  /\ sweep.pc = "orphans"
  /\ rel[Sweeper].pc = "idle"
  /\ sweep' = [sweep EXCEPT !.pc = "blob", !.todo = {f \in files : refCount[f] = 0}]
  /\ UNCHANGED <<files, sha, refCount, refs, owners, blobs, lock, up, rel,
                 nextFile, nextRef, faults, gcMode>>

\* deleteUnreferencedFile deletes the object of a candidate it listed earlier ...
CollectBlob(f) ==
  /\ sweep.pc = "blob"
  /\ f \in sweep.todo
  /\ DeleteObject(sha[f])
  /\ sweep' = [pc |-> "row", todo |-> sweep.todo \ {f}, file |-> f]
  /\ UNCHANGED <<files, sha, refCount, refs, owners, lock, up, rel,
                 nextFile, nextRef, gcMode>>

\* ... then its row if ref_count is still 0.  A reference left behind an
\* undercounted row makes the foreign key fail, which ends the whole pass.
CollectRow ==
  /\ sweep.pc = "row"
  /\ LockFree
  /\ LET collectable == sweep.file \in files /\ refCount[sweep.file] = 0 IN
     \/ /\ ~collectable
        /\ files' = files
        /\ sweep' = [sweep EXCEPT !.pc = "blob", !.file = 0]
     \/ /\ collectable /\ Deletable(sweep.file)
        /\ files' = files \ {sweep.file}
        /\ sweep' = [sweep EXCEPT !.pc = "blob", !.file = 0]
     \/ /\ collectable /\ ~Deletable(sweep.file)
        /\ files' = files
        /\ sweep' = IdleSweep
  /\ UNCHANGED <<sha, refCount, refs, owners, blobs, lock, up, rel,
                 nextFile, nextRef, faults, gcMode>>

FinishSweep ==
  /\ sweep.pc = "blob"
  /\ sweep.todo = {}
  /\ sweep' = IdleSweep
  /\ UNCHANGED <<files, sha, refCount, refs, owners, blobs, lock, up, rel,
                 nextFile, nextRef, faults, gcMode>>

----------------------------------------------------------------------------
(* Faults, MaxFaults of them at most.                                      *)

\* A write waited too long for the lock (503 DB_BUSY): the request fails with
\* what it has done so far; the sweep logs it and goes on, or ends its pass.
WaitsForLock(d) ==
  \/ rel[d].pc \in {"tx", "row"}
  \/ rel[d].pc = "next" /\ rel[d].todo = {} /\ rel[d].owner # None

Busy ==
  /\ lock # None
  /\ faults < MaxFaults
  /\ faults' = faults + 1
  /\ \/ \E u \in Uploaders :
          /\ up[u].pc = "checked"
          /\ up' = [up EXCEPT ![u] = IdleUpload]
          /\ UNCHANGED <<rel, sweep>>
     \/ \E d \in Deleters :
          /\ WaitsForLock(d)
          /\ rel' = [rel EXCEPT ![d] = IdleRelease]
          /\ UNCHANGED <<up, sweep>>
     \/ /\ WaitsForLock(Sweeper)
        /\ rel' = [rel EXCEPT ![Sweeper].pc = "next", ![Sweeper].ref = 0,
                              ![Sweeper].file = 0]
        /\ UNCHANGED <<up, sweep>>
     \/ /\ sweep.pc = "row"
        /\ sweep' = IdleSweep
        /\ UNCHANGED <<up, rel>>
  /\ UNCHANGED <<files, sha, refCount, refs, owners, blobs, lock, nextFile, nextRef,
                 gcMode>>

\* The upload's transaction throws: nothing is committed, the object stays.
UploadFails(u) ==
  /\ up[u].pc \in {"put", "commit"}
  /\ faults < MaxFaults
  /\ faults' = faults + 1
  /\ lock' = None
  /\ up' = [up EXCEPT ![u] = IdleUpload]
  /\ UNCHANGED <<files, sha, refCount, refs, owners, blobs, rel, sweep, nextFile,
                 nextRef, gcMode>>

\* A crash rolls an open transaction back and forgets every handler; the
\* committed rows and the stored objects survive it.
Crash ==
  /\ faults < MaxFaults
  /\ faults' = faults + 1
  /\ lock' = None
  /\ up' = [u \in Uploaders |-> IdleUpload]
  /\ rel' = [d \in Releasers |-> IdleRelease]
  /\ sweep' = IdleSweep
  /\ UNCHANGED <<files, sha, refCount, refs, owners, blobs, nextFile, nextRef, gcMode>>

UploadStep(u) ==
  CheckLimit(u) \/ BeginUpload(u) \/ PutBlob(u) \/ CommitDedupe(u) \/ CommitNew(u)

ReleaseStep(d) ==
  \/ ListByOwner(d)
  \/ FinishRelease(d)
  \/ \E i \in RefIds : ReadReference(d, i)
  \/ ReleaseTx(d)
  \/ SyncDeleteBlob(d)
  \/ SyncDeleteRow(d)

SweepStep ==
  StartSweep \/ ListUnreferenced \/ (\E f \in FileIds : CollectBlob(f)) \/ CollectRow
  \/ FinishSweep

Next ==
  \/ \E u \in Uploaders, o \in Owners, c \in Contents : StartUpload(u, o, c)
  \/ \E u \in Uploaders : UploadStep(u)
  \/ \E d \in Deleters, r \in refs : StartDeleteAttachment(d, r)
  \/ \E d \in Deleters, o \in owners : StartDeleteOwner(d, o)
  \/ \E d \in Releasers : ReleaseStep(d)
  \/ SweepStep
  \/ Busy
  \/ \E u \in Uploaders : UploadFails(u)
  \/ Crash

Spec == Init /\ [][Next]_vars

(* Handlers run to completion, the scheduler keeps running the sweep, and  *)
(* the FIFO write lock serves every waiter in turn.  Nobody has to send a  *)
(* request.                                                                *)
Fairness ==
  /\ \A u \in Uploaders : SF_vars(UploadStep(u))
  /\ \A d \in Releasers : SF_vars(ReleaseStep(d))
  /\ SF_vars(SweepStep)

FairSpec == Spec /\ Fairness
==============================================================================
