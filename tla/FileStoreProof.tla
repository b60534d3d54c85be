---------------------------- MODULE FileStoreProof ----------------------------
(***************************************************************************)
(* What holds of the file store for any sets of contents, owners and       *)
(* request handlers.  The inductive invariant is built in layers; each     *)
(* layer is inductive relative to the ones before it.                      *)
(***************************************************************************)
EXTENDS FileStoreProps, FiniteSetTheorems, TLAPS

(* First layer: types, and room for what the uploads in flight may insert. *)

Room ==
  /\ nextRef + Cardinality(InFlight) <= MaxRefs + 1
  /\ nextFile + Cardinality(InFlight) <= MaxFiles + 1

UploadsNamed ==
  \A u \in Uploaders :
    up[u].pc # "idle" => up[u].owner \in Owners /\ up[u].content \in Contents

FilesNamed ==
  /\ \A d \in Releasers : rel[d].pc \in {"tx", "blob", "row"} => rel[d].file \in FileIds
  /\ sweep.pc = "row" => sweep.file \in FileIds

TypeInv == TypeOK /\ Room /\ UploadsNamed /\ FilesNamed

----------------------------------------------------------------------------
(* How the number of uploads in flight changes. *)

LEMMA InFlightFinite ==
  IsFiniteSet(InFlight) /\ Cardinality(InFlight) \in Nat
BY Actors, FS_Subset, FS_CardinalityType DEF InFlight

LEMMA InFlightJoins ==
  ASSUME NEW u \in Uploaders, up[u].pc = "idle",
         InFlight' = InFlight \cup {u}
  PROVE  Cardinality(InFlight') = Cardinality(InFlight) + 1
BY InFlightFinite, FS_AddElement DEF InFlight

LEMMA InFlightLeaves ==
  ASSUME NEW u \in Uploaders, up[u].pc # "idle",
         InFlight' = InFlight \ {u}
  PROVE  Cardinality(InFlight') = Cardinality(InFlight) - 1 /\ Cardinality(InFlight) >= 1
<1>1. u \in InFlight
  BY DEF InFlight
<1>2. Cardinality(InFlight') = Cardinality(InFlight) - 1 /\ IsFiniteSet(InFlight')
  BY <1>1, InFlightFinite, FS_RemoveElement
<1>3. Cardinality(InFlight') \in Nat
  BY <1>2, FS_CardinalityType
<1> QED BY <1>2, <1>3, InFlightFinite

LEMMA InFlightForgotten ==
  ASSUME InFlight' = {} PROVE Cardinality(InFlight') = 0
BY FS_EmptySet

LEMMA RoomInit == Init => Room
<1> SUFFICES ASSUME Init PROVE Room
  OBVIOUS
<1>1. InFlight = {}
  BY DEF Init, InFlight, IdleUpload
<1>2. Cardinality(InFlight) = 0
  BY <1>1, FS_EmptySet
<1> QED BY <1>2, Bounds DEF Init, Room

LEMMA TypeInit == Init => TypeInv
<1> SUFFICES ASSUME Init PROVE TypeInv
  OBVIOUS
<1>1. Room
  BY RoomInit
<1>2. IdleUpload \in Upload /\ IdleRelease \in Release /\ IdleSweep \in Sweep
  BY DEF IdleUpload, Upload, IdleRelease, Release, IdleSweep, Sweep
<1>3. TypeOK
  BY <1>2, Bounds DEF Init, TypeOK
<1>4. UploadsNamed /\ FilesNamed
  BY DEF Init, UploadsNamed, FilesNamed, IdleUpload, IdleRelease, IdleSweep
<1> QED BY <1>1, <1>3, <1>4 DEF TypeInv

----------------------------------------------------------------------------
(* What each step of an upload does to the records of the uploads. *)

OnlyUpload(u) ==
  up' \in [Uploaders -> Upload] /\ \A v \in Uploaders \ {u} : up'[v] = up[v]

LEMMA UploadRecord ==
  ASSUME TypeOK, NEW u \in Uploaders
  PROVE  /\ up \in [Uploaders -> Upload]
         /\ up[u] \in Upload
         /\ IdleUpload \in Upload
         /\ up[u].owner \in Owners \cup {None}
         /\ up[u].content \in Contents \cup {None}
         /\ up[u].file \in FileIds \cup {0}
<1>1. up \in [Uploaders -> Upload] /\ up[u] \in Upload
  BY DEF TypeOK
<1>2. IdleUpload \in Upload
  BY DEF Upload, IdleUpload
<1>3. ASSUME NEW w \in Upload
      PROVE  /\ w.owner \in Owners \cup {None} /\ w.content \in Contents \cup {None}
             /\ w.file \in FileIds \cup {0}
  BY DEF Upload
<1> QED BY <1>1, <1>2, <1>3

LEMMA StartEffect ==
  ASSUME TypeOK, NEW u \in Uploaders, NEW o \in Owners, NEW c \in Contents,
         StartUpload(u, o, c)
  PROVE  /\ OnlyUpload(u) /\ up[u].pc = "idle" /\ up'[u].pc = "accepted"
         /\ up'[u].owner = o /\ up'[u].content = c /\ up'[u].file = 0
<1> DEFINE w == [IdleUpload EXCEPT !.pc = "accepted", !.owner = o, !.content = c]
<1>1. up' = [up EXCEPT ![u] = w] /\ up[u].pc = "idle"
  BY DEF StartUpload
<1>2. /\ w \in Upload /\ w.pc = "accepted" /\ w.owner = o /\ w.content = c
      /\ w.file = 0
  BY DEF Upload, IdleUpload
<1> HIDE DEF w
<1> QED BY <1>1, <1>2, UploadRecord DEF OnlyUpload

LEMMA CheckEffect ==
  ASSUME TypeOK, NEW u \in Uploaders, CheckLimit(u)
  PROVE  /\ OnlyUpload(u) /\ up[u].pc = "accepted"
         /\ \/ up'[u] = IdleUpload
            \/ /\ UnderLimit(up[u].owner)
               /\ up'[u].pc = "checked" /\ up'[u].owner = up[u].owner
               /\ up'[u].content = up[u].content /\ up'[u].file = up[u].file
<1> DEFINE w == [up[u] EXCEPT !.pc = "checked"]
<1>1. w \in Upload /\ w.pc = "checked" /\ w.owner = up[u].owner
      /\ w.content = up[u].content /\ w.file = up[u].file
  BY UploadRecord DEF Upload
<1>2. up[u].pc = "accepted"
      /\ up' = [up EXCEPT ![u] = IF UnderLimit(up[u].owner) THEN w ELSE IdleUpload]
  BY DEF CheckLimit
<1> HIDE DEF w
<1> QED BY <1>1, <1>2, UploadRecord DEF OnlyUpload

LEMMA BeginEffect ==
  ASSUME TypeOK, NEW u \in Uploaders, BeginUpload(u)
  PROVE  /\ OnlyUpload(u) /\ up[u].pc = "checked"
         /\ up'[u].owner = up[u].owner /\ up'[u].content = up[u].content
         /\ \/ up'[u].pc = "commit" /\ up'[u].file \in RowsOf(up[u].content)
            \/ /\ up'[u].pc = "put" /\ up'[u].file = up[u].file
               /\ RowsOf(up[u].content) = {}
<1>1. CASE RowsOf(up[u].content) = {} /\ up' = [up EXCEPT ![u].pc = "put"]
  BY <1>1, UploadRecord DEF BeginUpload, Upload, OnlyUpload
<1>2. ASSUME NEW f \in RowsOf(up[u].content),
             up' = [up EXCEPT ![u].pc = "commit", ![u].file = f]
      PROVE  /\ OnlyUpload(u)
             /\ up'[u].owner = up[u].owner /\ up'[u].content = up[u].content
             /\ up'[u].pc = "commit" /\ up'[u].file = f
  <2>1. f \in FileIds
    BY DEF RowsOf, TypeOK
  <2> DEFINE w == [up[u] EXCEPT !.pc = "commit", !.file = f]
  <2>2. up' = [up EXCEPT ![u] = w]
    BY <1>2, UploadRecord
  <2>3. w \in Upload /\ w.pc = "commit" /\ w.owner = up[u].owner
        /\ w.content = up[u].content /\ w.file = f
    BY <2>1, UploadRecord DEF Upload
  <2> HIDE DEF w
  <2> QED BY <2>2, <2>3, UploadRecord DEF OnlyUpload
<1> QED BY <1>1, <1>2 DEF BeginUpload

LEMMA PutEffect ==
  ASSUME TypeOK, NEW u \in Uploaders, PutBlob(u)
  PROVE  /\ OnlyUpload(u) /\ up[u].pc = "put" /\ up'[u].pc = "commit"
         /\ up'[u].owner = up[u].owner /\ up'[u].content = up[u].content
         /\ up'[u].file = up[u].file
BY UploadRecord DEF PutBlob, Upload, OnlyUpload

LEMMA EndEffect ==
  ASSUME TypeOK, NEW u \in Uploaders, up' = [up EXCEPT ![u] = IdleUpload]
  PROVE  OnlyUpload(u) /\ up'[u] = IdleUpload /\ up'[u].pc = "idle"
BY UploadRecord DEF OnlyUpload, IdleUpload

----------------------------------------------------------------------------
(* What each step of a release does to the records of the releases. *)

OnlyRelease(d) ==
  rel' \in [Releasers -> Release] /\ \A e \in Releasers \ {d} : rel'[e] = rel[e]

LEMMA ReleaseRecord ==
  ASSUME TypeOK, NEW d \in Releasers
  PROVE  /\ rel \in [Releasers -> Release]
         /\ rel[d] \in Release
         /\ IdleRelease \in Release
         /\ rel[d].owner \in Owners \cup {None}
         /\ rel[d].todo \in SUBSET RefIds
         /\ rel[d].file \in FileIds \cup {0}
<1>1. rel \in [Releasers -> Release] /\ rel[d] \in Release
  BY DEF TypeOK
<1>2. IdleRelease \in Release
  BY DEF Release, IdleRelease
<1>3. ASSUME NEW w \in Release
      PROVE  /\ w.owner \in Owners \cup {None} /\ w.todo \in SUBSET RefIds
             /\ w.file \in FileIds \cup {0}
  BY DEF Release
<1> QED BY <1>1, <1>2, <1>3

LEMMA Replaced ==
  ASSUME TypeOK, NEW d \in Releasers, NEW w \in Release, rel' = [rel EXCEPT ![d] = w]
  PROVE  OnlyRelease(d) /\ rel'[d] = w
BY ReleaseRecord DEF OnlyRelease

LEMMA ReferenceFields ==
  ASSUME TypeOK, NEW r \in refs
  PROVE  r.id \in RefIds /\ r.file \in FileIds /\ r.owner \in Owners
<1>1. r \in Reference
  BY DEF TypeOK
<1> QED BY <1>1 DEF Reference

LEMMA StartAttachmentEffect ==
  ASSUME TypeOK, NEW d \in Releasers, NEW r \in refs, StartDeleteAttachment(d, r)
  PROVE  OnlyRelease(d) /\ rel'[d].pc = "next" /\ rel'[d].todo = {r.id}
<1> DEFINE w == [IdleRelease EXCEPT !.pc = "next", !.todo = {r.id}]
<1>1. w \in Release /\ w.pc = "next" /\ w.todo = {r.id}
  BY ReferenceFields DEF Release, IdleRelease
<1>2. rel' = [rel EXCEPT ![d] = w]
  BY DEF StartDeleteAttachment
<1> HIDE DEF w
<1> QED BY <1>1, <1>2, Replaced

LEMMA StartOwnerEffect ==
  ASSUME TypeOK, NEW d \in Releasers, NEW o \in owners, StartDeleteOwner(d, o)
  PROVE  OnlyRelease(d) /\ rel'[d].pc = "list" /\ rel'[d].todo = {} /\ rel'[d].owner = o
<1> DEFINE w == [IdleRelease EXCEPT !.pc = "list", !.owner = o]
<1>1. o \in Owners
  BY DEF TypeOK
<1>2. w \in Release /\ w.pc = "list" /\ w.todo = {} /\ w.owner = o
  BY <1>1 DEF Release, IdleRelease
<1>3. rel' = [rel EXCEPT ![d] = w]
  BY DEF StartDeleteOwner
<1> HIDE DEF w
<1> QED BY <1>2, <1>3, Replaced

LEMMA ListEffect ==
  ASSUME TypeOK, NEW d \in Releasers, ListByOwner(d)
  PROVE  /\ OnlyRelease(d) /\ rel[d].pc = "list" /\ rel'[d].pc = "next"
         /\ rel'[d].todo = {r.id : r \in RefsOf(rel[d].owner)} /\ rel'[d].owner = rel[d].owner
<1> DEFINE ids == {r.id : r \in RefsOf(rel[d].owner)}
           w == [rel[d] EXCEPT !.pc = "next", !.todo = ids]
<1>1. ids \in SUBSET RefIds
  BY ReferenceFields DEF RefsOf
<1>2. rel' = [rel EXCEPT ![d].pc = "next", ![d].todo = ids] /\ rel[d].pc = "list"
  BY DEF ListByOwner
<1> HIDE DEF ids
<1>3. rel' = [rel EXCEPT ![d] = w]
  BY <1>2, ReleaseRecord
<1>4. w \in Release /\ w.pc = "next" /\ w.todo = ids /\ w.owner = rel[d].owner
  BY <1>1, ReleaseRecord DEF Release
<1> HIDE DEF w
<1> QED BY <1>2, <1>3, <1>4, Replaced DEF ids

LEMMA ReadEffect ==
  ASSUME TypeOK, NEW d \in Releasers, NEW i \in RefIds, ReadReference(d, i)
  PROVE  /\ OnlyRelease(d) /\ rel[d].pc = "next"
         /\ i \in rel[d].todo /\ rel'[d].todo = rel[d].todo \ {i}
         /\ rel'[d].owner = rel[d].owner
         /\ \/ /\ rel'[d].pc = "tx" /\ rel'[d].ref = i
               /\ \E r \in refs : r.id = i /\ rel'[d].file = r.file
            \/ rel'[d].pc = "next"
<1> DEFINE rest == rel[d].todo \ {i}
<1>1. rest \in SUBSET RefIds /\ rel[d].pc = "next" /\ i \in rel[d].todo
  BY ReleaseRecord DEF ReadReference
<1>2. ASSUME rel' = [rel EXCEPT ![d].todo = @ \ {i}]
      PROVE  /\ OnlyRelease(d) /\ rel'[d].pc = "next" /\ rel'[d].todo = rest
             /\ rel'[d].owner = rel[d].owner
  <2> DEFINE w == [rel[d] EXCEPT !.todo = rest]
  <2>1. rel' = [rel EXCEPT ![d] = w]
    BY <1>2, ReleaseRecord
  <2>2. w \in Release /\ w.pc = "next" /\ w.todo = rest /\ w.owner = rel[d].owner
    BY <1>1, ReleaseRecord DEF Release
  <2> HIDE DEF w
  <2> QED BY <2>1, <2>2, Replaced
<1>3. ASSUME NEW r \in refs, r.id = i,
             rel' = [rel EXCEPT ![d].pc = "tx", ![d].todo = @ \ {i},
                                ![d].ref = i, ![d].file = r.file]
      PROVE  /\ OnlyRelease(d) /\ rel'[d].pc = "tx" /\ rel'[d].todo = rest
             /\ rel'[d].ref = i /\ rel'[d].file = r.file /\ rel'[d].owner = rel[d].owner
  <2> DEFINE w == [rel[d] EXCEPT !.pc = "tx", !.todo = rest, !.ref = i, !.file = r.file]
  <2>1. rel' = [rel EXCEPT ![d] = w]
    BY <1>3, ReleaseRecord
  <2>2. r.file \in FileIds
    BY ReferenceFields
  <2>3. /\ w \in Release /\ w.pc = "tx" /\ w.todo = rest
        /\ w.ref = i /\ w.file = r.file /\ w.owner = rel[d].owner
    BY <1>1, <2>2, ReleaseRecord DEF Release
  <2> HIDE DEF w
  <2> QED BY <2>1, <2>3, Replaced
<1> QED BY <1>1, <1>2, <1>3 DEF ReadReference

LEMMA TxEffect ==
  ASSUME TypeOK, NEW d \in Releasers, ReleaseTx(d)
  PROVE  /\ OnlyRelease(d) /\ rel[d].pc = "tx"
         /\ rel'[d].todo = rel[d].todo /\ rel'[d].owner = rel[d].owner
         /\ rel'[d].pc \in {"next", "blob"}
         /\ rel'[d].pc = "blob" => rel'[d].file = rel[d].file
<1> DEFINE drained == /\ rel[d].file \in files
                      /\ Decremented(refCount[rel[d].file]) = 0
                      /\ SyncDelete(d)
           p == IF drained THEN "blob" ELSE "next"
           f == IF drained THEN rel[d].file ELSE 0
           w == [rel[d] EXCEPT !.pc = p, !.ref = 0, !.file = f]
<1>1. rel' = [rel EXCEPT ![d].pc = p, ![d].ref = 0, ![d].file = f] /\ rel[d].pc = "tx"
  BY Zenon DEF ReleaseTx
<1>2. p \in {"next", "blob"} /\ f \in FileIds \cup {0} /\ (p = "blob" => f = rel[d].file)
  BY ReleaseRecord
<1> HIDE DEF p, f
<1>3. rel' = [rel EXCEPT ![d] = w]
  BY <1>1, ReleaseRecord
<1>4. /\ w \in Release /\ w.pc = p /\ w.file = f
      /\ w.todo = rel[d].todo /\ w.owner = rel[d].owner
  BY <1>2, ReleaseRecord DEF Release
<1> HIDE DEF w
<1> QED BY <1>1, <1>2, <1>3, <1>4, Replaced

LEMMA BlobEffect ==
  ASSUME TypeOK, NEW d \in Releasers, SyncDeleteBlob(d)
  PROVE  /\ OnlyRelease(d) /\ rel[d].pc = "blob" /\ rel'[d].pc = "row"
         /\ rel'[d].file = rel[d].file /\ rel'[d].todo = rel[d].todo
         /\ rel'[d].owner = rel[d].owner
<1> DEFINE w == [rel[d] EXCEPT !.pc = "row"]
<1>1. rel' = [rel EXCEPT ![d] = w] /\ rel[d].pc = "blob"
  BY ReleaseRecord DEF SyncDeleteBlob
<1>2. /\ w \in Release /\ w.pc = "row"
      /\ w.file = rel[d].file /\ w.todo = rel[d].todo /\ w.owner = rel[d].owner
  BY ReleaseRecord DEF Release
<1> HIDE DEF w
<1> QED BY <1>1, <1>2, Replaced

\* rel[d] goes on with its list, which has not changed, or is forgotten.
GoesOn(d) ==
  /\ OnlyRelease(d)
  /\ \/ rel'[d] = IdleRelease
     \/ /\ rel'[d].pc = "next"
        /\ rel'[d].todo = rel[d].todo /\ rel'[d].owner = rel[d].owner

LEMMA RowEffect ==
  ASSUME TypeOK, NEW d \in Releasers, SyncDeleteRow(d)
  PROVE  rel[d].pc = "row" /\ GoesOn(d)
<1> DEFINE w == [rel[d] EXCEPT !.pc = "next", !.file = 0]
<1>1. ASSUME rel' = [rel EXCEPT ![d].pc = "next", ![d].file = 0] PROVE GoesOn(d)
  <2>1. rel' = [rel EXCEPT ![d] = w]
    BY <1>1, ReleaseRecord
  <2>2. w \in Release /\ w.pc = "next" /\ w.todo = rel[d].todo /\ w.owner = rel[d].owner
    BY ReleaseRecord DEF Release
  <2> HIDE DEF w
  <2> QED BY <2>1, <2>2, Replaced DEF GoesOn
<1>2. ASSUME rel' = [rel EXCEPT ![d] = IdleRelease] PROVE GoesOn(d)
  BY <1>2, ReleaseRecord, Replaced DEF GoesOn
<1> QED BY <1>1, <1>2 DEF SyncDeleteRow

LEMMA FinishEffect ==
  ASSUME TypeOK, NEW d \in Releasers, FinishRelease(d)
  PROVE  GoesOn(d)
BY ReleaseRecord, Replaced DEF FinishRelease, GoesOn

LEMMA SweepEffect ==
  ASSUME TypeOK, StartSweep
  PROVE  /\ OnlyRelease(Sweeper) /\ rel'[Sweeper].pc = "next"
         /\ rel'[Sweeper].todo = {r.id : r \in Orphans} /\ rel'[Sweeper].owner = None
<1> DEFINE ids == {r.id : r \in Orphans}
           w == [IdleRelease EXCEPT !.pc = "next", !.todo = ids]
<1>1. ids \in SUBSET RefIds
  BY ReferenceFields DEF Orphans
<1>2. rel' = [rel EXCEPT ![Sweeper] = w] /\ Sweeper \in Releasers
  BY DEF StartSweep, Releasers
<1> HIDE DEF ids
<1>3. w \in Release /\ w.pc = "next" /\ w.todo = ids /\ w.owner = None
  BY <1>1 DEF Release, IdleRelease
<1> HIDE DEF w
<1> QED BY <1>2, <1>3, Replaced DEF ids

LEMMA BusySweeperEffect ==
  ASSUME TypeOK,
         rel' = [rel EXCEPT ![Sweeper].pc = "next", ![Sweeper].ref = 0,
                            ![Sweeper].file = 0]
  PROVE  GoesOn(Sweeper)
<1> DEFINE w == [rel[Sweeper] EXCEPT !.pc = "next", !.ref = 0, !.file = 0]
<1>1. Sweeper \in Releasers
  BY DEF Releasers
<1>2. rel' = [rel EXCEPT ![Sweeper] = w]
  BY <1>1, ReleaseRecord
<1>3. /\ w \in Release /\ w.pc = "next"
      /\ w.todo = rel[Sweeper].todo /\ w.owner = rel[Sweeper].owner
  BY <1>1, ReleaseRecord DEF Release
<1> HIDE DEF w
<1> QED BY <1>1, <1>2, <1>3, Replaced DEF GoesOn

----------------------------------------------------------------------------
(* The first layer is preserved. *)

LEMMA RoomStays ==
  ASSUME TypeInv, NEW u \in Uploaders, OnlyUpload(u),
         up[u].pc # "idle", up'[u].pc # "idle",
         UNCHANGED <<nextRef, nextFile>>
  PROVE  Room'
<1>1. InFlight' = InFlight
  BY DEF OnlyUpload, InFlight
<1> QED BY <1>1 DEF TypeInv, Room

\* An upload that ends may have used one file id and one reference id.
LEMMA RoomEnds ==
  ASSUME TypeInv, NEW u \in Uploaders, OnlyUpload(u),
         up[u].pc # "idle", up'[u].pc = "idle",
         nextRef' \in {nextRef, nextRef + 1},
         nextFile' \in {nextFile, nextFile + 1}
  PROVE  Room'
<1>1. InFlight' = InFlight \ {u}
  BY DEF OnlyUpload, InFlight
<1>2. /\ Cardinality(InFlight') = Cardinality(InFlight) - 1
      /\ Cardinality(InFlight) \in Nat
  BY <1>1, InFlightLeaves, InFlightFinite
<1>3. /\ nextRef \in Nat /\ nextFile \in Nat
      /\ nextRef + Cardinality(InFlight) <= MaxRefs + 1
      /\ nextFile + Cardinality(InFlight) <= MaxFiles + 1
  BY Bounds DEF TypeInv, TypeOK, Room
<1> HIDE DEF TypeInv
<1> QED BY <1>2, <1>3, Bounds DEF Room

LEMMA UploadsNamedStays ==
  ASSUME TypeInv, NEW u \in Uploaders, OnlyUpload(u),
         \/ up'[u].pc = "idle"
         \/ up'[u].owner \in Owners /\ up'[u].content \in Contents
  PROVE  UploadsNamed'
BY DEF TypeInv, UploadsNamed, OnlyUpload

LEMMA TypeStart ==
  ASSUME TypeInv, NEW u \in Uploaders, NEW o \in Owners, NEW c \in Contents,
         StartUpload(u, o, c)
  PROVE  TypeInv'
<1> USE DEF TypeInv
<1>1. /\ OnlyUpload(u) /\ up[u].pc = "idle" /\ up'[u].pc = "accepted"
      /\ up'[u].owner = o /\ up'[u].content = c
  BY StartEffect
<1>2. InFlight' = InFlight \cup {u}
  BY <1>1 DEF OnlyUpload, InFlight
<1>3. Cardinality(InFlight') = Cardinality(InFlight) + 1 /\ Cardinality(InFlight) \in Nat
  BY <1>1, <1>2, InFlightJoins, InFlightFinite
<1>4. nextRef \in Nat /\ nextFile \in Nat
  BY Bounds DEF TypeOK
<1>5. /\ nextRef' = nextRef /\ nextFile' = nextFile
      /\ nextRef + Cardinality(InFlight) <= MaxRefs
      /\ nextFile + Cardinality(InFlight) <= MaxFiles
  BY DEF StartUpload
<1>6. Room'
  BY <1>3, <1>4, <1>5, Bounds DEF Room
<1>7. UploadsNamed'
  BY <1>1, UploadsNamedStays
<1>8. TypeOK' /\ FilesNamed'
  BY <1>1 DEF StartUpload, TypeOK, FilesNamed, OnlyUpload
<1> QED BY <1>6, <1>7, <1>8

LEMMA TypeUpload ==
  ASSUME TypeInv, NEW u \in Uploaders, UploadStep(u)
  PROVE  TypeInv'
<1> USE DEF TypeInv
<1>1. CASE CheckLimit(u)
  <2>1. /\ OnlyUpload(u) /\ up[u].pc = "accepted"
        /\ \/ up'[u].pc = "idle"
           \/ /\ up'[u].pc = "checked"
              /\ up'[u].owner = up[u].owner /\ up'[u].content = up[u].content
    BY <1>1, CheckEffect DEF IdleUpload
  <2>2. Room'
    BY <1>1, <2>1, RoomStays, RoomEnds DEF CheckLimit
  <2>3. UploadsNamed'
    BY <2>1, UploadsNamedStays DEF UploadsNamed
  <2>4. TypeOK' /\ FilesNamed'
    BY <1>1, <2>1 DEF CheckLimit, TypeOK, FilesNamed, OnlyUpload
  <2> QED BY <2>2, <2>3, <2>4
<1>2. CASE BeginUpload(u) \/ PutBlob(u)
  <2>1. /\ OnlyUpload(u) /\ up[u].pc # "idle" /\ up'[u].pc # "idle"
        /\ up'[u].owner = up[u].owner /\ up'[u].content = up[u].content
    BY <1>2, BeginEffect, PutEffect
  <2>2. up[u].owner \in Owners /\ up[u].content \in Contents
    BY <2>1 DEF UploadsNamed
  <2>3. Room' /\ UploadsNamed'
    BY <1>2, <2>1, <2>2, RoomStays, UploadsNamedStays DEF BeginUpload, PutBlob
  <2>4. TypeOK' /\ FilesNamed'
    BY <1>2, <2>1, <2>2 DEF BeginUpload, PutBlob, TypeOK, FilesNamed, OnlyUpload
  <2> QED BY <2>3, <2>4
<1>3. CASE CommitDedupe(u) \/ CommitNew(u)
  <2>1. up[u].pc # "idle" /\ up' = [up EXCEPT ![u] = IdleUpload]
    BY <1>3 DEF CommitDedupe, CommitNew
  <2>2. OnlyUpload(u) /\ up'[u].pc = "idle"
    BY <2>1, EndEffect
  <2>3. Room' /\ UploadsNamed'
    BY <1>3, <2>1, <2>2, RoomEnds, UploadsNamedStays DEF CommitDedupe, CommitNew
  <2>4. up[u].owner \in Owners /\ up[u].content \in Contents
    BY <2>1 DEF UploadsNamed
  <2>5. nextRef \in RefIds /\ nextFile \in FileIds
    <3>1. u \in InFlight
      BY <2>1 DEF InFlight
    <3>2. Cardinality(InFlight) >= 1 /\ Cardinality(InFlight) \in Nat
      BY <3>1, InFlightFinite, FS_EmptySet
    <3> QED BY <3>2, Bounds DEF Room, TypeOK, RefIds, FileIds
  <2>6. nextRef' \in 1..(MaxRefs + 1) /\ nextFile' \in 1..(MaxFiles + 1)
    BY <1>3, <2>5, Bounds DEF CommitDedupe, CommitNew, TypeOK, RefIds, FileIds
  <2>7. FilesNamed'
    BY <1>3 DEF CommitDedupe, CommitNew, FilesNamed
  <2>8. CASE CommitDedupe(u)
    <3>1. up[u].file \in FileIds
      BY <2>8, UploadRecord DEF CommitDedupe
    <3>2. [id |-> nextRef, file |-> up[u].file, owner |-> up[u].owner] \in Reference
      BY <2>4, <2>5, <3>1 DEF Reference
    <3>3. refs' \subseteq Reference
      BY <2>8, <3>2 DEF CommitDedupe, TypeOK
    <3>4. refCount' \in [FileIds -> Nat]
      BY <2>8, <3>1 DEF CommitDedupe, TypeOK
    <3>5. TypeOK'
      BY <2>2, <2>6, <2>8, <3>3, <3>4 DEF CommitDedupe, TypeOK, OnlyUpload
    <3> QED BY <2>3, <2>7, <3>5
  <2>9. CASE CommitNew(u)
    <3>1. [id |-> nextRef, file |-> nextFile, owner |-> up[u].owner] \in Reference
      BY <2>4, <2>5 DEF Reference
    <3>2. refs' \subseteq Reference
      BY <2>9, <3>1 DEF CommitNew, TypeOK
    <3>3. TypeOK'
      BY <2>2, <2>4, <2>5, <2>6, <2>9, <3>2 DEF CommitNew, TypeOK, OnlyUpload
    <3> QED BY <2>3, <2>7, <3>3
  <2> QED BY <1>3, <2>8, <2>9
<1> QED BY <1>1, <1>2, <1>3 DEF UploadStep

\* Steps outside the uploads keep what the first layer says of them.
LEMMA UploadsUntouched ==
  ASSUME TypeInv, UNCHANGED <<up, nextFile, nextRef>>
  PROVE  Room' /\ UploadsNamed'
<1>1. InFlight' = InFlight
  BY DEF InFlight
<1> QED BY <1>1 DEF TypeInv, Room, UploadsNamed

\* A step of a release names a file only in states that had one.
LEMMA FilesNamedStays ==
  ASSUME TypeInv, NEW d \in Releasers, OnlyRelease(d), UNCHANGED sweep,
         rel'[d].pc \in {"tx", "blob", "row"} => rel'[d].file \in FileIds
  PROVE  FilesNamed'
BY DEF TypeInv, FilesNamed, OnlyRelease

LEMMA TypeRelease ==
  ASSUME TypeInv, NEW d \in Releasers, ReleaseStep(d)
  PROVE  TypeInv'
<1> USE DEF TypeInv
<1>1. Room' /\ UploadsNamed'
  BY UploadsUntouched
  DEF ReleaseStep, ListByOwner, FinishRelease, ReadReference, ReleaseTx,
      SyncDeleteBlob, SyncDeleteRow
<1>2. CASE ListByOwner(d)
  <2>1. OnlyRelease(d) /\ rel'[d].pc = "next"
    BY <1>2, ListEffect
  <2>2. TypeOK' /\ FilesNamed'
    BY <1>2, <2>1, FilesNamedStays DEF ListByOwner, TypeOK, OnlyRelease
  <2> QED BY <1>1, <2>2
<1>3. CASE FinishRelease(d)
  <2>1. OnlyRelease(d) /\ rel'[d].pc \notin {"tx", "blob", "row"}
    BY <1>3, FinishEffect DEF GoesOn, IdleRelease
  <2>2. TypeOK' /\ FilesNamed'
    BY <1>3, <2>1, FilesNamedStays DEF FinishRelease, TypeOK, OnlyRelease
  <2> QED BY <1>1, <2>2
<1>4. ASSUME NEW i \in RefIds, ReadReference(d, i) PROVE TypeInv'
  <2>1. /\ OnlyRelease(d)
        /\ rel'[d].pc = "next" \/ rel'[d].file \in FileIds
    BY <1>4, ReadEffect, ReferenceFields
  <2>2. TypeOK' /\ FilesNamed'
    BY <1>4, <2>1, FilesNamedStays DEF ReadReference, TypeOK, OnlyRelease
  <2> QED BY <1>1, <2>2
<1>5. CASE ReleaseTx(d)
  <2>1. /\ OnlyRelease(d)
        /\ rel'[d].pc = "next" \/ (rel'[d].pc = "blob" /\ rel'[d].file = rel[d].file)
        /\ rel[d].file \in FileIds
    BY <1>5, TxEffect DEF FilesNamed
  <2>2. refCount' \in [FileIds -> Nat]
    BY <1>5, <2>1 DEF ReleaseTx, TypeOK, Decremented
  <2>3. refs' \subseteq Reference
    BY <1>5 DEF ReleaseTx, TypeOK
  <2>4. /\ UNCHANGED <<files, sha, owners, blobs, lock, up, sweep,
                       nextFile, nextRef, faults, gcMode>>
    BY <1>5 DEF ReleaseTx
  <2>5. TypeOK' /\ FilesNamed'
    BY <2>1, <2>2, <2>3, <2>4, FilesNamedStays DEF TypeOK, OnlyRelease
  <2> QED BY <1>1, <2>5
<1>6. CASE SyncDeleteBlob(d)
  <2>1. /\ OnlyRelease(d) /\ rel'[d].pc = "row"
        /\ rel'[d].file = rel[d].file /\ rel[d].file \in FileIds
    BY <1>6, BlobEffect DEF FilesNamed
  <2>2. blobs' \subseteq Contents /\ faults' \in 0..MaxFaults
    BY <1>6, Bounds DEF SyncDeleteBlob, DeleteObject, TypeOK
  <2>3. TypeOK' /\ FilesNamed'
    BY <1>6, <2>1, <2>2, FilesNamedStays DEF SyncDeleteBlob, TypeOK, OnlyRelease
  <2> QED BY <1>1, <2>3
<1>7. CASE SyncDeleteRow(d)
  <2>1. OnlyRelease(d) /\ rel'[d].pc \notin {"tx", "blob", "row"}
    BY <1>7, RowEffect DEF GoesOn, IdleRelease
  <2>2. TypeOK' /\ FilesNamed'
    BY <1>7, <2>1, FilesNamedStays DEF SyncDeleteRow, TypeOK, OnlyRelease
  <2> QED BY <1>1, <2>2
<1> QED BY <1>2, <1>3, <1>4, <1>5, <1>6, <1>7 DEF ReleaseStep

LEMMA TypeSweep ==
  ASSUME TypeInv, SweepStep
  PROVE  TypeInv'
<1> USE DEF TypeInv
<1>1. Room' /\ UploadsNamed'
  BY UploadsUntouched
  DEF SweepStep, StartSweep, ListUnreferenced, CollectBlob, CollectRow, FinishSweep
<1>2. sweep \in Sweep /\ IdleSweep \in Sweep /\ sweep.todo \subseteq FileIds
  BY DEF TypeOK, Sweep, IdleSweep
<1>3. CASE StartSweep
  <2>1. OnlyRelease(Sweeper) /\ rel'[Sweeper].pc = "next" /\ Sweeper \in Releasers
    BY <1>3, SweepEffect DEF Releasers
  <2>2. sweep' \in Sweep /\ sweep'.pc = "orphans"
    BY <1>2, <1>3 DEF StartSweep, Sweep
  <2>3. FilesNamed'
    BY <2>1, <2>2 DEF FilesNamed, OnlyRelease
  <2>4. TypeOK'
    BY <1>3, <2>1, <2>2 DEF StartSweep, TypeOK, OnlyRelease
  <2> QED BY <1>1, <2>3, <2>4
<1>4. CASE ListUnreferenced
  <2> DEFINE drained == {f \in files : refCount[f] = 0}
  <2>1. drained \subseteq FileIds
    BY DEF TypeOK
  <2>2. sweep' = [sweep EXCEPT !.pc = "blob", !.todo = drained]
    BY <1>4 DEF ListUnreferenced
  <2> HIDE DEF drained
  <2>3. sweep' \in Sweep /\ sweep'.pc = "blob"
    BY <1>2, <2>1, <2>2 DEF Sweep
  <2>4. TypeOK' /\ FilesNamed'
    BY <1>4, <2>3 DEF ListUnreferenced, TypeOK, FilesNamed
  <2> QED BY <1>1, <2>4
<1>5. ASSUME NEW f \in FileIds, CollectBlob(f) PROVE TypeInv'
  <2>1. sweep' \in Sweep /\ sweep'.file = f
    BY <1>2, <1>5 DEF CollectBlob, Sweep
  <2>2. blobs' \subseteq Contents /\ faults' \in 0..MaxFaults
    BY <1>5, Bounds DEF CollectBlob, DeleteObject, TypeOK
  <2>3. TypeOK' /\ FilesNamed'
    BY <1>5, <2>1, <2>2 DEF CollectBlob, TypeOK, FilesNamed
  <2> QED BY <1>1, <2>3
<1>6. CASE CollectRow
  <2>1. sweep' = IdleSweep \/ sweep' = [sweep EXCEPT !.pc = "blob", !.file = 0]
    BY <1>6 DEF CollectRow
  <2>2. sweep' \in Sweep /\ sweep'.pc # "row"
    BY <1>2, <2>1 DEF Sweep, IdleSweep
  <2>3. files' \subseteq FileIds
    BY <1>6 DEF CollectRow, TypeOK
  <2>4. TypeOK' /\ FilesNamed'
    BY <1>6, <2>2, <2>3 DEF CollectRow, TypeOK, FilesNamed
  <2> QED BY <1>1, <2>4
<1>7. CASE FinishSweep
  <2>1. TypeOK' /\ FilesNamed'
    BY <1>2, <1>7 DEF FinishSweep, TypeOK, FilesNamed, IdleSweep
  <2> QED BY <1>1, <2>1
<1> QED BY <1>3, <1>4, <1>5, <1>6, <1>7 DEF SweepStep

\* Starting a release, by a request that deletes an attachment or an owner.
StartRelease(d) ==
  (\E r \in refs : StartDeleteAttachment(d, r)) \/ (\E o \in owners : StartDeleteOwner(d, o))

LEMMA TypeStartRelease ==
  ASSUME TypeInv, NEW d \in Deleters, StartRelease(d)
  PROVE  TypeInv'
<1> USE DEF TypeInv
<1>1. OnlyRelease(d) /\ rel'[d].pc \in {"next", "list"} /\ d \in Releasers
  BY StartAttachmentEffect, StartOwnerEffect DEF StartRelease, Releasers
<1>2. UNCHANGED <<files, sha, refCount, refs, owners, blobs, lock, up, sweep,
                  nextFile, nextRef, faults, gcMode>>
  BY DEF StartRelease, StartDeleteAttachment, StartDeleteOwner
<1>3. Room' /\ UploadsNamed' /\ FilesNamed'
  BY <1>1, <1>2, UploadsUntouched, FilesNamedStays
<1>4. TypeOK'
  BY <1>1, <1>2 DEF TypeOK, OnlyRelease
<1> QED BY <1>3, <1>4

LEMMA TypeFault ==
  ASSUME TypeInv, Busy \/ (\E u \in Uploaders : UploadFails(u)) \/ Crash
  PROVE  TypeInv'
<1> USE DEF TypeInv
<1>1. /\ faults' \in 0..MaxFaults
      /\ lock' \in {lock, None}
      /\ UNCHANGED <<files, sha, refCount, refs, owners, blobs, nextFile, nextRef, gcMode>>
  BY Bounds DEF Busy, UploadFails, Crash, TypeOK
<1>2. ASSUME NEW u \in Uploaders, up[u].pc # "idle", up' = [up EXCEPT ![u] = IdleUpload],
             UNCHANGED <<rel, sweep>>
      PROVE  TypeInv'
  <2>1. OnlyUpload(u) /\ up'[u].pc = "idle"
    BY <1>2, EndEffect
  <2>2. Room' /\ UploadsNamed'
    BY <1>1, <1>2, <2>1, RoomEnds, UploadsNamedStays
  <2>3. TypeOK' /\ FilesNamed'
    BY <1>1, <1>2, <2>1 DEF TypeOK, FilesNamed, OnlyUpload
  <2> QED BY <2>2, <2>3
<1>3. ASSUME NEW d \in Releasers, GoesOn(d), UNCHANGED <<up, sweep>>
      PROVE  TypeInv'
  <2>1. OnlyRelease(d) /\ rel'[d].pc \notin {"tx", "blob", "row"}
    BY <1>3 DEF GoesOn, IdleRelease
  <2>2. Room' /\ UploadsNamed' /\ FilesNamed'
    BY <1>1, <1>3, <2>1, UploadsUntouched, FilesNamedStays
  <2>3. TypeOK'
    BY <1>1, <1>3, <2>1 DEF TypeOK, OnlyRelease
  <2> QED BY <2>2, <2>3
<1>4. ASSUME sweep' = IdleSweep, UNCHANGED <<up, rel>> PROVE TypeInv'
  <2>1. Room' /\ UploadsNamed'
    BY <1>1, <1>4, UploadsUntouched
  <2>2. TypeOK' /\ FilesNamed'
    BY <1>1, <1>4 DEF TypeOK, FilesNamed, IdleSweep, Sweep
  <2> QED BY <2>1, <2>2
<1>5. CASE Busy
  <2>1. ASSUME NEW u \in Uploaders, up[u].pc = "checked",
               up' = [up EXCEPT ![u] = IdleUpload], UNCHANGED <<rel, sweep>>
        PROVE  TypeInv'
    BY <1>2, <2>1
  <2>2. ASSUME NEW d \in Deleters, rel' = [rel EXCEPT ![d] = IdleRelease],
               UNCHANGED <<up, sweep>>
        PROVE  TypeInv'
    <3>1. d \in Releasers
      BY DEF Releasers
    <3>2. GoesOn(d)
      BY <2>2, <3>1, ReleaseRecord, Replaced DEF GoesOn
    <3> QED BY <1>3, <2>2, <3>1, <3>2
  <2>3. ASSUME rel' = [rel EXCEPT ![Sweeper].pc = "next", ![Sweeper].ref = 0,
                                  ![Sweeper].file = 0], UNCHANGED <<up, sweep>>
        PROVE  TypeInv'
    <3>1. Sweeper \in Releasers
      BY DEF Releasers
    <3> QED BY <1>3, <2>3, <3>1, BusySweeperEffect
  <2> QED BY <1>4, <1>5, <2>1, <2>2, <2>3 DEF Busy
<1>6. ASSUME NEW u \in Uploaders, UploadFails(u) PROVE TypeInv'
  BY <1>2, <1>6 DEF UploadFails
<1>7. CASE Crash
  <2>1. \A u \in Uploaders : up'[u] = IdleUpload
    BY <1>7 DEF Crash
  <2>2. \A d \in Releasers : rel'[d] = IdleRelease
    BY <1>7 DEF Crash
  <2>3. InFlight' = {}
    BY <2>1 DEF InFlight, IdleUpload
  <2>4. Room'
    BY <1>1, <2>3, InFlightForgotten, Bounds DEF TypeOK, Room
  <2>5. UploadsNamed' /\ FilesNamed'
    BY <1>7, <2>1, <2>2 DEF Crash, UploadsNamed, FilesNamed, IdleUpload, IdleRelease, IdleSweep
  <2>6. IdleUpload \in Upload /\ IdleRelease \in Release /\ IdleSweep \in Sweep
    BY DEF IdleUpload, Upload, IdleRelease, Release, IdleSweep, Sweep
  <2>7. TypeOK'
    BY <1>1, <1>7, <2>6 DEF Crash, TypeOK
  <2> QED BY <2>4, <2>5, <2>7
<1> QED BY <1>5, <1>6, <1>7

\* What a step is.
LEMMA Steps ==
  ASSUME Next
  PROVE  \/ \E u \in Uploaders, o \in Owners, c \in Contents : StartUpload(u, o, c)
         \/ \E u \in Uploaders : UploadStep(u)
         \/ \E d \in Deleters : StartRelease(d)
         \/ \E d \in Releasers : ReleaseStep(d)
         \/ SweepStep
         \/ Busy \/ (\E u \in Uploaders : UploadFails(u)) \/ Crash
BY Zenon DEF Next, StartRelease

LEMMA TypeNext == TypeInv /\ [Next]_vars => TypeInv'
<1> SUFFICES ASSUME TypeInv, [Next]_vars PROVE TypeInv'
  OBVIOUS
<1>1. CASE UNCHANGED vars
  <2>1. Room' /\ UploadsNamed'
    BY <1>1, UploadsUntouched DEF vars
  <2>2. TypeOK' /\ FilesNamed'
    BY <1>1 DEF vars, TypeInv, TypeOK, FilesNamed
  <2> QED BY <2>1, <2>2 DEF TypeInv
<1>2. CASE Next
  BY <1>2, Steps, TypeStart, TypeUpload, TypeStartRelease, TypeRelease, TypeSweep, TypeFault
<1> QED BY <1>1, <1>2

LEMMA TypeAlways == Spec => []TypeInv
<1>1. Init => TypeInv
  BY TypeInit
<1>2. TypeInv /\ [Next]_vars => TypeInv'
  BY TypeNext
<1> QED BY <1>1, <1>2, PTL DEF Spec

\* Every handler, row and object stays well-formed, and the tables never need
\* an id beyond the bounds, for any number of uploads and releases at once.
THEOREM TypeCorrect == Spec => []TypeOK
<1>1. TypeInv => TypeOK
  BY DEF TypeInv
<1> QED BY <1>1, TypeAlways, PTL

----------------------------------------------------------------------------
(* Second layer: the rows.  The upload that holds the write lock knows what *)
(* the `files` table says of its content until it commits.                 *)

UploadHoldsLock == \A u \in Uploaders : lock = u <=> up[u].pc \in {"put", "commit"}

FilesBelow == \A f \in files : f < nextFile

UploadKnowsRow ==
  \A u \in Uploaders :
    /\ up[u].pc \in {"accepted", "checked", "put"} => up[u].file = 0
    /\ up[u].pc \in {"put", "commit"} /\ up[u].file = 0 => RowsOf(up[u].content) = {}
    /\ up[u].pc = "commit" /\ up[u].file # 0 => up[u].file \in RowsOf(up[u].content)

RowsInv ==
  /\ UploadHoldsLock /\ FilesBelow /\ UploadKnowsRow
  /\ OneRowPerContent /\ NoDanglingReference

LEMMA RowsInit == Init => RowsInv
BY Actors
DEF Init, RowsInv, UploadHoldsLock, FilesBelow, UploadKnowsRow, OneRowPerContent,
    NoDanglingReference, IdleUpload

\* Rows leave the table only while no upload holds the lock, and never with a
\* reference to them.
LEMMA RowsShrink ==
  ASSUME TypeInv, RowsInv,
         files' \subseteq files, lock = None \/ files' = files,
         \A r \in refs' : r \in refs /\ r.file \in files',
         UNCHANGED <<sha, up, lock, nextFile>>
  PROVE  RowsInv'
<1> USE DEF RowsInv
<1>1. UploadHoldsLock' /\ FilesBelow' /\ OneRowPerContent' /\ NoDanglingReference'
  BY DEF UploadHoldsLock, FilesBelow, OneRowPerContent, NoDanglingReference
<1>2. UploadKnowsRow'
  <2>1. CASE files' = files
    BY <2>1 DEF UploadKnowsRow, RowsOf
  <2>2. CASE lock = None
    <3>1. \A u \in Uploaders : up[u].pc \notin {"put", "commit"}
      BY <2>2, Actors DEF UploadHoldsLock
    <3> QED BY <3>1 DEF UploadKnowsRow
  <2> QED BY <2>1, <2>2
<1> QED BY <1>1, <1>2

\* An upload without the lock moves, or ends and gives the lock back.
LEMMA RowsUpload ==
  ASSUME TypeInv, RowsInv, NEW u \in Uploaders, OnlyUpload(u),
         up'[u].pc \in {"idle", "accepted", "checked"},
         up'[u].pc # "idle" => up'[u].file = 0,
         lock' = IF up[u].pc \in {"put", "commit"} THEN None ELSE lock,
         UNCHANGED <<files, sha, refs, nextFile>>
  PROVE  RowsInv'
<1> USE DEF RowsInv
<1>1. FilesBelow' /\ OneRowPerContent' /\ NoDanglingReference'
  BY DEF FilesBelow, OneRowPerContent, NoDanglingReference
<1>2. UploadKnowsRow'
  BY DEF UploadKnowsRow, OnlyUpload, RowsOf
<1>3. UploadHoldsLock'
  BY Actors DEF UploadHoldsLock, OnlyUpload
<1> QED BY <1>1, <1>2, <1>3

LEMMA RowsUploadStep ==
  ASSUME TypeInv, RowsInv, NEW u \in Uploaders, UploadStep(u)
  PROVE  RowsInv'
<1> USE DEF RowsInv
<1>0. TypeOK
  BY DEF TypeInv
<1>1. CASE CheckLimit(u)
  <2>1. /\ OnlyUpload(u) /\ up[u].pc = "accepted"
        /\ up'[u].pc = "idle" \/ (up'[u].pc = "checked" /\ up'[u].file = up[u].file)
    BY <1>0, <1>1, CheckEffect DEF IdleUpload
  <2>2. up[u].file = 0
    BY <2>1 DEF UploadKnowsRow
  <2> QED BY <1>1, <2>1, <2>2, RowsUpload DEF CheckLimit
<1>2. CASE BeginUpload(u)
  <2>1. /\ OnlyUpload(u) /\ up[u].pc = "checked" /\ up'[u].content = up[u].content
        /\ \/ up'[u].pc = "commit" /\ up'[u].file \in RowsOf(up[u].content)
           \/ /\ up'[u].pc = "put" /\ up'[u].file = up[u].file
              /\ RowsOf(up[u].content) = {}
    BY <1>0, <1>2, BeginEffect
  <2>2. /\ up[u].file = 0 /\ 0 \notin RowsOf(up[u].content)
    BY <1>0, <2>1 DEF UploadKnowsRow, TypeOK, RowsOf, FileIds
  <2>3. lock = None /\ lock' = u /\ UNCHANGED <<files, sha, refs, nextFile>>
    BY <1>2 DEF BeginUpload, LockFree
  <2>4. FilesBelow' /\ OneRowPerContent' /\ NoDanglingReference'
    BY <2>3 DEF FilesBelow, OneRowPerContent, NoDanglingReference
  <2>5. UploadHoldsLock'
    BY <2>1, <2>3, Actors DEF UploadHoldsLock, OnlyUpload
  <2>6. UploadKnowsRow'
    BY <2>1, <2>2, <2>3 DEF UploadKnowsRow, OnlyUpload, RowsOf
  <2> QED BY <2>4, <2>5, <2>6
<1>3. CASE PutBlob(u)
  <2>1. /\ OnlyUpload(u) /\ up[u].pc = "put" /\ up'[u].pc = "commit"
        /\ up'[u].content = up[u].content /\ up'[u].file = up[u].file
    BY <1>0, <1>3, PutEffect
  <2>2. UNCHANGED <<files, sha, refs, nextFile, lock>>
    BY <1>3 DEF PutBlob
  <2>3. FilesBelow' /\ OneRowPerContent' /\ NoDanglingReference'
    BY <2>2 DEF FilesBelow, OneRowPerContent, NoDanglingReference
  <2>4. UploadHoldsLock'
    BY <2>1, <2>2 DEF UploadHoldsLock, OnlyUpload
  <2>5. UploadKnowsRow'
    BY <2>1, <2>2 DEF UploadKnowsRow, OnlyUpload, RowsOf
  <2> QED BY <2>3, <2>4, <2>5
<1>4. CASE CommitDedupe(u)
  <2>1. /\ OnlyUpload(u) /\ up'[u].pc = "idle" /\ up[u].pc = "commit" /\ up[u].file # 0
        /\ lock' = None /\ UNCHANGED <<files, sha, nextFile>>
    BY <1>0, <1>4, EndEffect DEF CommitDedupe
  <2>2. up[u].file \in files
    BY <2>1 DEF UploadKnowsRow, RowsOf
  <2>3. NoDanglingReference'
    BY <1>4, <2>1, <2>2 DEF CommitDedupe, NoDanglingReference
  <2>4. FilesBelow' /\ OneRowPerContent'
    BY <2>1 DEF FilesBelow, OneRowPerContent
  <2>5. UploadHoldsLock'
    BY <2>1, Actors DEF UploadHoldsLock, OnlyUpload
  <2>6. UploadKnowsRow'
    BY <2>1 DEF UploadKnowsRow, OnlyUpload, RowsOf
  <2> QED BY <2>3, <2>4, <2>5, <2>6
<1>5. CASE CommitNew(u)
  <2>1. /\ OnlyUpload(u) /\ up'[u].pc = "idle" /\ up[u].pc = "commit" /\ up[u].file = 0
        /\ lock' = None /\ files' = files \cup {nextFile} /\ nextFile' = nextFile + 1
        /\ sha' = [sha EXCEPT ![nextFile] = up[u].content]
        /\ refs' = refs \cup {[id |-> nextRef, file |-> nextFile, owner |-> up[u].owner]}
    BY <1>0, <1>5, EndEffect DEF CommitNew
  <2>2. /\ nextFile \in Nat /\ sha \in [FileIds -> Contents \cup {None}]
        /\ files \subseteq FileIds /\ FileIds \subseteq Nat
    BY <1>0 DEF TypeOK, FileIds
  <2>3. nextFile \notin files /\ \A f \in files : sha'[f] = sha[f]
    BY <2>1, <2>2 DEF FilesBelow
  <2>4. NoDanglingReference'
    BY <2>1 DEF NoDanglingReference
  <2>5. FilesBelow'
    BY <2>1, <2>2 DEF FilesBelow
  <2>6. UploadHoldsLock'
    BY <2>1, Actors DEF UploadHoldsLock, OnlyUpload
  <2>7. UploadKnowsRow'
    <3>1. \A v \in Uploaders : up'[v].pc \notin {"put", "commit"}
      BY <2>1, Actors, <2>6 DEF UploadHoldsLock
    <3> QED BY <2>1, <3>1 DEF UploadKnowsRow, OnlyUpload
  <2>8. OneRowPerContent'
    <3>1. \A f \in files : sha[f] # up[u].content
      BY <2>1 DEF UploadKnowsRow, RowsOf
    <3>2. nextFile \in FileIds => sha'[nextFile] = up[u].content
      BY <2>1, <2>2
    <3>3. nextFile \in FileIds
      BY <1>5, TypeUpload, <2>1 DEF UploadStep, TypeInv, TypeOK
    <3> QED BY <2>1, <2>3, <3>1, <3>2, <3>3 DEF OneRowPerContent
  <2> QED BY <2>4, <2>5, <2>6, <2>7, <2>8
<1> QED BY <1>1, <1>2, <1>3, <1>4, <1>5 DEF UploadStep

\* No step of a release or of the sweeper adds a row, a reference or an upload.
LEMMA ReleasesRemove ==
  ASSUME TypeInv, RowsInv,
         \/ \E d \in Releasers : ReleaseStep(d)
         \/ \E d \in Deleters : StartRelease(d)
         \/ SweepStep
  PROVE  /\ files' \subseteq files /\ (lock = None \/ files' = files)
         /\ \A r \in refs' : r \in refs /\ r.file \in files'
         /\ UNCHANGED <<sha, up, lock, nextFile>>
<1>1. \A r \in refs : r.file \in files
  BY DEF RowsInv, NoDanglingReference
<1>2. CASE \E d \in Releasers : SyncDeleteRow(d)
  BY <1>1, <1>2 DEF SyncDeleteRow, LockFree, Deletable, RefsTo
<1>3. CASE CollectRow
  BY <1>1, <1>3 DEF CollectRow, LockFree, Deletable, RefsTo
<1>4. CASE \E d \in Releasers : ReleaseTx(d)
  BY <1>1, <1>4 DEF ReleaseTx
<1>5. CASE \E d \in Releasers : ListByOwner(d) \/ FinishRelease(d) \/ SyncDeleteBlob(d)
                                  \/ (\E i \in RefIds : ReadReference(d, i))
  BY <1>1, <1>5 DEF ListByOwner, FinishRelease, SyncDeleteBlob, ReadReference
<1>6. CASE \E d \in Deleters : StartRelease(d)
  BY <1>1, <1>6 DEF StartRelease, StartDeleteAttachment, StartDeleteOwner
<1>7. CASE \/ StartSweep \/ ListUnreferenced \/ FinishSweep
           \/ \E f \in FileIds : CollectBlob(f)
  BY <1>1, <1>7 DEF StartSweep, ListUnreferenced, FinishSweep, CollectBlob
<1> QED BY <1>2, <1>3, <1>4, <1>5, <1>6, <1>7 DEF ReleaseStep, SweepStep

LEMMA RowsNext == TypeInv /\ RowsInv /\ [Next]_vars => RowsInv'
<1> SUFFICES ASSUME TypeInv, RowsInv, [Next]_vars PROVE RowsInv'
  OBVIOUS
<1>0. TypeOK
  BY DEF TypeInv
<1>1. CASE UNCHANGED vars
  BY <1>1 DEF vars, RowsInv, UploadHoldsLock, FilesBelow, UploadKnowsRow, RowsOf,
              OneRowPerContent, NoDanglingReference
<1>2. ASSUME NEW u \in Uploaders, NEW o \in Owners, NEW c \in Contents,
             StartUpload(u, o, c)
      PROVE  RowsInv'
  <2>1. OnlyUpload(u) /\ up[u].pc = "idle" /\ up'[u].pc = "accepted" /\ up'[u].file = 0
    BY <1>0, <1>2, StartEffect
  <2> QED BY <1>2, <2>1, RowsUpload DEF StartUpload
<1>3. ASSUME NEW u \in Uploaders, UploadStep(u) PROVE RowsInv'
  BY <1>3, RowsUploadStep
<1>4. CASE \/ \E d \in Releasers : ReleaseStep(d)
           \/ \E d \in Deleters : StartRelease(d)
           \/ SweepStep
  BY <1>4, ReleasesRemove, RowsShrink
<1>5. CASE Busy
  <2>1. UNCHANGED <<files, sha, refs, lock, nextFile>>
    BY <1>5 DEF Busy
  <2>2. CASE up' = up
    <3>1. \A r \in refs' : r \in refs /\ r.file \in files'
      BY <2>1 DEF RowsInv, NoDanglingReference
    <3> QED BY <2>1, <2>2, <3>1, RowsShrink
  <2>3. CASE up' # up
    <3>1. PICK u \in Uploaders : up[u].pc = "checked" /\ up' = [up EXCEPT ![u] = IdleUpload]
      BY <1>5, <2>3 DEF Busy
    <3>2. OnlyUpload(u) /\ up'[u].pc = "idle"
      BY <1>0, <3>1, EndEffect
    <3> QED BY <2>1, <3>1, <3>2, RowsUpload
  <2> QED BY <2>2, <2>3
<1>6. ASSUME NEW u \in Uploaders, UploadFails(u) PROVE RowsInv'
  <2>1. up[u].pc \in {"put", "commit"} /\ up' = [up EXCEPT ![u] = IdleUpload]
        /\ lock' = None /\ UNCHANGED <<files, sha, refs, nextFile>>
    BY <1>6 DEF UploadFails
  <2>2. OnlyUpload(u) /\ up'[u].pc = "idle"
    BY <1>0, <2>1, EndEffect
  <2> QED BY <2>1, <2>2, RowsUpload
<1>7. CASE Crash
  <2>1. /\ lock' = None /\ UNCHANGED <<files, sha, refs, nextFile>>
        /\ \A u \in Uploaders : up'[u].pc = "idle"
    BY <1>7 DEF Crash, IdleUpload
  <2>2. FilesBelow' /\ OneRowPerContent' /\ NoDanglingReference'
    BY <2>1 DEF RowsInv, FilesBelow, OneRowPerContent, NoDanglingReference
  <2>3. UploadHoldsLock' /\ UploadKnowsRow'
    BY <2>1, Actors DEF UploadHoldsLock, UploadKnowsRow
  <2> QED BY <2>2, <2>3 DEF RowsInv
<1> QED BY <1>1, <1>2, <1>3, <1>4, <1>5, <1>6, <1>7, Steps

LEMMA RowsAlways == Spec => [](TypeInv /\ RowsInv)
<1>1. Init => RowsInv
  BY RowsInit
<1>2. TypeInv /\ RowsInv /\ [Next]_vars => RowsInv'
  BY RowsNext
<1> QED BY <1>1, <1>2, TypeAlways, PTL DEF Spec

\* No interleaving of uploads, releases, sweeps and crashes leaves an attachment
\* without its `files` row, even with an upload that dedupes onto a row the
\* sweeper has listed.
THEOREM ReferencesResolve == Spec => []NoDanglingReference
<1>1. RowsInv => NoDanglingReference
  BY DEF RowsInv
<1> QED BY <1>1, RowsAlways, PTL

\* However many uploads of the same bytes arrive at once, they share one row:
\* the lookup and the insert are under one write lock, although the storage
\* driver is awaited between them.
THEOREM ContentStoredOnce == Spec => []OneRowPerContent
<1>1. RowsInv => OneRowPerContent
  BY DEF RowsInv
<1> QED BY <1>1, RowsAlways, PTL

----------------------------------------------------------------------------
(* Third layer: the references.  Their ids are never used again, so a       *)
(* release that has read one still names that one and no other.            *)

RefIdsInv ==
  /\ IsFiniteSet(refs)
  /\ \A r \in refs : r.id < nextRef
  /\ \A r, s \in refs : r.id = s.id => r = s

ReleaseKnowsRef ==
  \A d \in Releasers :
    rel[d].pc = "tx" => /\ rel[d].ref < nextRef
                        /\ \A r \in refs : r.id = rel[d].ref => r.file = rel[d].file

CountInv == RefIdsInv /\ ReleaseKnowsRef /\ NeverOvercounted

LEMMA CountInit == Init => CountInv
BY FS_EmptySet DEF Init, CountInv, RefIdsInv, ReleaseKnowsRef, NeverOvercounted, IdleRelease

LEMMA RefsToFinite ==
  ASSUME RefIdsInv, NEW f
  PROVE  IsFiniteSet(RefsTo(f)) /\ Cardinality(RefsTo(f)) \in Nat
BY FS_Subset, FS_CardinalityType DEF RefIdsInv, RefsTo

\* Steps that leave references and counts alone.
Still ==
  /\ files' \subseteq files /\ UNCHANGED <<refs, refCount, nextRef>>
  /\ \A d \in Releasers :
       \/ rel'[d] = rel[d]
       \/ rel'[d].pc # "tx"
       \/ \E r \in refs : rel'[d].ref = r.id /\ rel'[d].file = r.file

\* A new reference to f comes with one more count of f.
Grows(f, o) ==
  /\ refs' = refs \cup {[id |-> nextRef, file |-> f, owner |-> o]}
  /\ nextRef' = nextRef + 1
  /\ files' \subseteq files \cup {f}
  /\ f \in files => refCount' = [refCount EXCEPT ![f] = @ + 1]
  /\ f \notin files => refCount' = [refCount EXCEPT ![f] = 1]
  /\ UNCHANGED rel

CountStep ==
  \/ Still
  \/ \E f \in FileIds, o \in Owners : Grows(f, o)
  \/ \E d \in Releasers : ReleaseTx(d)

LEMMA CountsKept ==
  ASSUME CountInv, Still
  PROVE  CountInv'
<1> USE DEF Still
<1>1. RefIdsInv' /\ NeverOvercounted'
  BY DEF CountInv, RefIdsInv, NeverOvercounted, RefsTo
<1>2. ReleaseKnowsRef'
  BY DEF CountInv, RefIdsInv, ReleaseKnowsRef
<1> QED BY <1>1, <1>2 DEF CountInv

LEMMA CountGrows ==
  ASSUME TypeOK, CountInv, NEW f \in FileIds, NEW o \in Owners, Grows(f, o)
  PROVE  CountInv'
<1> USE DEF Grows
<1> DEFINE n == [id |-> nextRef, file |-> f, owner |-> o]
<1> USE DEF CountInv
<1>1. nextRef \in Nat /\ \A r \in refs : r.id \in Nat
  BY ReferenceFields DEF TypeOK, RefIds
<1>2. n.id = nextRef /\ n.file = f /\ n \notin refs
  BY <1>1 DEF RefIdsInv
<1> HIDE DEF n
<1>3. refs' = refs \cup {n}
  BY DEF n
<1>4. RefIdsInv'
  <2>1. IsFiniteSet(refs')
    BY <1>3, FS_AddElement DEF RefIdsInv
  <2>2. \A r \in refs' : r.id < nextRef'
    BY <1>1, <1>2, <1>3 DEF RefIdsInv
  <2>3. \A r, s \in refs' : r.id = s.id => r = s
    BY <1>1, <1>2, <1>3 DEF RefIdsInv
  <2> QED BY <2>1, <2>2, <2>3 DEF RefIdsInv
<1>5. ReleaseKnowsRef'
  <2> SUFFICES ASSUME NEW d \in Releasers, rel[d].pc = "tx"
               PROVE  /\ rel[d].ref < nextRef'
                      /\ \A r \in refs' : r.id = rel[d].ref => r.file = rel[d].file
    BY DEF ReleaseKnowsRef
  <2>1. rel[d].ref < nextRef
    BY DEF ReleaseKnowsRef
  <2>2. rel[d].ref \in Nat
    BY DEF TypeOK, Release, RefIds
  <2> QED BY <1>1, <1>2, <1>3, <2>1, <2>2 DEF ReleaseKnowsRef
<1>6. NeverOvercounted'
  <2> SUFFICES ASSUME NEW g \in files'
               PROVE  refCount'[g] <= Cardinality(RefsTo(g)')
    BY DEF NeverOvercounted
  <2>1. g \in FileIds /\ refCount \in [FileIds -> Nat]
    BY DEF TypeOK
  <2>2. CASE g = f
    <3>1. RefsTo(g)' = RefsTo(f) \cup {n} /\ n \notin RefsTo(f)
      BY <1>2, <1>3, <2>2 DEF RefsTo
    <3>2. Cardinality(RefsTo(g)') = Cardinality(RefsTo(f)) + 1 /\ Cardinality(RefsTo(f)) \in Nat
      BY <3>1, RefsToFinite, FS_AddElement
    <3>3. f \in files => refCount[f] <= Cardinality(RefsTo(f))
      BY DEF NeverOvercounted
    <3>4. CASE f \in files
      BY <2>1, <2>2, <3>2, <3>3, <3>4
    <3>5. CASE f \notin files
      BY <2>1, <2>2, <3>2, <3>5
    <3> QED BY <3>4, <3>5
  <2>3. CASE g # f
    <3>1. RefsTo(g)' = RefsTo(g)
      BY <1>2, <1>3, <2>3 DEF RefsTo
    <3>2. refCount'[g] = refCount[g] /\ g \in files
      BY <2>1, <2>3
    <3> QED BY <3>1, <3>2 DEF NeverOvercounted
  <2> QED BY <2>2, <2>3
<1> QED BY <1>4, <1>5, <1>6

\* The release transaction takes at most the reference it has read, and counts
\* one less of its file even when that reference was already gone.
LEMMA CountShrinks ==
  ASSUME TypeInv, CountInv, NEW d \in Releasers, ReleaseTx(d)
  PROVE  CountInv'
<1> USE DEF CountInv
<1>0. TypeOK
  BY DEF TypeInv
<1> DEFINE f == rel[d].file
<1>1. /\ refs' = {r \in refs : r.id # rel[d].ref} /\ rel[d].pc = "tx"
      /\ files' = files /\ nextRef' = nextRef
  BY DEF ReleaseTx
<1>2. \A g \in files : refCount'[g] = IF g = f THEN Decremented(refCount[g])
                                               ELSE refCount[g]
  BY <1>0 DEF ReleaseTx, TypeOK
<1>3. RefIdsInv'
  BY <1>1, FS_Subset DEF RefIdsInv
<1>4. ReleaseKnowsRef'
  <2>1. OnlyRelease(d) /\ rel'[d].pc # "tx"
    BY <1>0, TxEffect
  <2> QED BY <1>1, <2>1 DEF ReleaseKnowsRef, OnlyRelease
<1>5. NeverOvercounted'
  <2> SUFFICES ASSUME NEW g \in files
               PROVE  refCount'[g] <= Cardinality(RefsTo(g)')
    BY <1>1 DEF NeverOvercounted
  <2>1. refCount[g] <= Cardinality(RefsTo(g)) /\ refCount[g] \in Nat
    BY <1>0 DEF NeverOvercounted, TypeOK
  <2>2. IsFiniteSet(RefsTo(g)) /\ Cardinality(RefsTo(g)) \in Nat
    BY RefsToFinite
  <2>3. CASE RefsTo(g)' = RefsTo(g)
    BY <1>2, <2>1, <2>2, <2>3 DEF Decremented
  <2>4. CASE RefsTo(g)' # RefsTo(g)
    <3>1. PICK r \in refs : r.file = g /\ r.id = rel[d].ref
      BY <1>1, <2>4 DEF RefsTo
    <3>2. g = f
      BY <1>1, <3>1 DEF ReleaseKnowsRef
    <3>3. RefsTo(g)' = RefsTo(g) \ {r}
      BY <1>1, <3>1 DEF RefsTo, RefIdsInv
    <3>4. r \in RefsTo(g)
      BY <3>1 DEF RefsTo
    <3>5. Cardinality(RefsTo(g)') = Cardinality(RefsTo(g)) - 1
          /\ IsFiniteSet(RefsTo(g) \ {r})
      BY <2>2, <3>3, <3>4, FS_RemoveElement
    <3>6. Cardinality(RefsTo(g)') \in Nat
      BY <3>3, <3>5, FS_CardinalityType
    <3> QED BY <1>2, <2>1, <2>2, <3>2, <3>5, <3>6 DEF Decremented
  <2> QED BY <2>3, <2>4
<1> QED BY <1>3, <1>4, <1>5

LEMMA CountUpload ==
  ASSUME TypeInv, RowsInv, NEW u \in Uploaders, UploadStep(u)
  PROVE  CountStep
<1>0. TypeOK
  BY DEF TypeInv
<1>1. CASE CheckLimit(u) \/ BeginUpload(u) \/ PutBlob(u)
  BY <1>1 DEF CheckLimit, BeginUpload, PutBlob, Still, CountStep
<1>2. CASE CommitDedupe(u)
  <2>1. /\ up[u].pc = "commit" /\ up[u].file # 0
        /\ UNCHANGED <<files, rel>>
    BY <1>2 DEF CommitDedupe
  <2>2. CASE UNCHANGED <<refCount, refs, nextRef>>
    BY <2>1, <2>2 DEF Still, CountStep
  <2>3. CASE /\ refCount' = [refCount EXCEPT ![up[u].file] = @ + 1]
             /\ refs' = refs \cup {[id |-> nextRef, file |-> up[u].file,
                                    owner |-> up[u].owner]}
             /\ nextRef' = nextRef + 1
    <3>1. up[u].file \in files /\ up[u].file \in FileIds
      BY <1>0, <2>1 DEF RowsInv, UploadKnowsRow, RowsOf, TypeOK
    <3>2. up[u].owner \in Owners
      BY <2>1 DEF TypeInv, UploadsNamed
    <3> QED BY <1>0, <2>1, <2>3, <3>1, <3>2 DEF Grows, CountStep
  <2> QED BY <1>2, <2>2, <2>3 DEF CommitDedupe
<1>3. CASE CommitNew(u)
  <2>1. /\ up[u].pc = "commit" /\ files' = files \cup {nextFile}
        /\ refCount' = [refCount EXCEPT ![nextFile] = 1]
        /\ refs' = refs \cup {[id |-> nextRef, file |-> nextFile, owner |-> up[u].owner]}
        /\ nextRef' = nextRef + 1 /\ UNCHANGED rel
    BY <1>3 DEF CommitNew
  <2>2. up[u].owner \in Owners
    BY <2>1 DEF TypeInv, UploadsNamed
  <2>3. nextFile \in FileIds
    BY <1>3, <2>1, TypeUpload DEF UploadStep, TypeInv, TypeOK
  <2>4. nextFile \notin files
    BY <2>3 DEF RowsInv, FilesBelow, FileIds
  <2> QED BY <1>0, <2>1, <2>2, <2>3, <2>4 DEF Grows, CountStep
<1> QED BY <1>1, <1>2, <1>3 DEF UploadStep

\* Every step keeps references and counts, adds one to both, or is a release.
LEMMA CountSteps ==
  ASSUME TypeInv, RowsInv, [Next]_vars
  PROVE  CountStep
<1>0. TypeOK
  BY DEF TypeInv
<1>1. CASE UNCHANGED vars
  BY <1>1 DEF vars, Still, CountStep
<1>2. CASE \E u \in Uploaders, o \in Owners, c \in Contents : StartUpload(u, o, c)
  BY <1>2 DEF StartUpload, Still, CountStep
<1>3. CASE \E u \in Uploaders : UploadStep(u)
  BY <1>3, CountUpload
<1>4. ASSUME NEW d \in Deleters, StartRelease(d) PROVE CountStep
  <2>1. OnlyRelease(d) /\ rel'[d].pc # "tx" /\ d \in Releasers
    BY <1>0, <1>4, StartAttachmentEffect, StartOwnerEffect DEF StartRelease, Releasers
  <2>2. UNCHANGED <<files, refs, refCount, nextRef>>
    <3>1. CASE \E r \in refs : StartDeleteAttachment(d, r)
      BY <3>1 DEF StartDeleteAttachment
    <3>2. CASE \E o \in owners : StartDeleteOwner(d, o)
      BY <3>2 DEF StartDeleteOwner
    <3> QED BY <1>4, <3>1, <3>2 DEF StartRelease
  <2> QED BY <2>1, <2>2 DEF OnlyRelease, Still, CountStep
<1>5. ASSUME NEW d \in Releasers, ReleaseStep(d) PROVE CountStep
  <2>1. CASE ListByOwner(d)
    BY <1>0, <2>1, ListEffect DEF ListByOwner, OnlyRelease, Still, CountStep
  <2>2. CASE FinishRelease(d)
    <3>1. UNCHANGED <<files, refs, refCount, nextRef>>
      BY <2>2 DEF FinishRelease
    <3>2. OnlyRelease(d) /\ rel'[d].pc # "tx"
      BY <1>0, <2>2, FinishEffect DEF GoesOn, IdleRelease
    <3> QED BY <3>1, <3>2 DEF OnlyRelease, Still, CountStep
  <2>3. ASSUME NEW i \in RefIds, ReadReference(d, i) PROVE CountStep
    <3>1. UNCHANGED <<files, refs, refCount, nextRef>>
      BY <2>3 DEF ReadReference
    <3>2. /\ OnlyRelease(d)
          /\ \/ rel'[d].pc = "next"
             \/ \E r \in refs : rel'[d].ref = r.id /\ rel'[d].file = r.file
      BY <1>0, <2>3, ReadEffect
    <3> QED BY <3>1, <3>2 DEF OnlyRelease, Still, CountStep
  <2>4. CASE ReleaseTx(d)
    BY <2>4 DEF CountStep
  <2>5. CASE SyncDeleteBlob(d)
    BY <1>0, <2>5, BlobEffect DEF SyncDeleteBlob, OnlyRelease, Still, CountStep
  <2>6. CASE SyncDeleteRow(d)
    <3>1. files' \subseteq files /\ UNCHANGED <<refs, refCount, nextRef>>
      BY <2>6 DEF SyncDeleteRow
    <3>2. OnlyRelease(d) /\ rel'[d].pc # "tx"
      BY <1>0, <2>6, RowEffect DEF GoesOn, IdleRelease
    <3> QED BY <3>1, <3>2 DEF OnlyRelease, Still, CountStep
  <2> QED BY <1>5, <2>1, <2>2, <2>3, <2>4, <2>5, <2>6 DEF ReleaseStep
<1>6. CASE SweepStep
  <2>1. files' \subseteq files /\ UNCHANGED <<refs, refCount, nextRef>>
    BY <1>6 DEF SweepStep, StartSweep, ListUnreferenced, CollectBlob, CollectRow, FinishSweep
  <2>2. CASE rel' = rel
    BY <2>1, <2>2 DEF Still, CountStep
  <2>3. CASE rel' # rel
    <3>1. StartSweep
      BY <1>6, <2>3 DEF SweepStep, ListUnreferenced, CollectBlob, CollectRow, FinishSweep
    <3> QED BY <1>0, <2>1, <3>1, SweepEffect DEF OnlyRelease, Still, CountStep
  <2> QED BY <2>2, <2>3
<1>7. CASE Busy \/ (\E u \in Uploaders : UploadFails(u)) \/ Crash
  <2>1. UNCHANGED <<files, refs, refCount, nextRef>>
    BY <1>7 DEF Busy, UploadFails, Crash
  <2>2. CASE rel' = rel
    BY <2>1, <2>2 DEF Still, CountStep
  <2>3. CASE Crash
    <3>1. \A d \in Releasers : rel'[d].pc = "idle"
      BY <2>3 DEF Crash, IdleRelease
    <3> QED BY <2>1, <3>1 DEF Still, CountStep
  <2>4. CASE Busy /\ rel' # rel
    <3>1. PICK d \in Releasers : GoesOn(d)
      BY <1>0, <2>4, BusySweeperEffect, ReleaseRecord, Replaced DEF Busy, GoesOn, Releasers
    <3> QED BY <2>1, <3>1 DEF GoesOn, OnlyRelease, IdleRelease, Still, CountStep
  <2> QED BY <1>7, <2>2, <2>3, <2>4 DEF UploadFails
<1> QED BY <1>1, <1>2, <1>3, <1>4, <1>5, <1>6, <1>7, Steps

LEMMA CountNext == TypeInv /\ RowsInv /\ CountInv /\ [Next]_vars => CountInv'
BY CountSteps, CountsKept, CountGrows, CountShrinks DEF CountStep, TypeInv

LEMMA CountAlways == Spec => [](TypeInv /\ RowsInv /\ CountInv)
<1>1. Init => CountInv
  BY CountInit
<1>2. TypeInv /\ RowsInv /\ CountInv /\ [Next]_vars => CountInv'
  BY CountNext
<1> QED BY <1>1, <1>2, RowsAlways, PTL DEF Spec

\* A file that nothing refers to always reads ref_count = 0, so the sweeper's
\* listing can find it: releases that overlap may lose counts, never invent one.
THEOREM CountsNeverExceed == Spec => []NeverOvercounted
<1>1. CountInv => NeverOvercounted
  BY DEF CountInv
<1> QED BY <1>1, CountAlways, PTL

----------------------------------------------------------------------------
(* Fourth layer: the attachment limit.  An upload that has passed the check *)
(* holds a claim until it commits or fails; references and claims of an     *)
(* owner together stay within the bound.                                    *)

Claims(o) ==
  {u \in Uploaders : up[u].owner = o /\ up[u].pc \in {"checked", "put", "commit"}}

LimitInv ==
  \A o \in Owners :
    Cardinality(RefsOf(o)) + Cardinality(Claims(o))
      <= MaxAttachments + Cardinality(Uploaders) - 1

LEMMA ClaimsFinite ==
  ASSUME NEW o
  PROVE  /\ IsFiniteSet(Claims(o)) /\ Cardinality(Claims(o)) \in Nat
         /\ Cardinality(Claims(o)) <= Cardinality(Uploaders)
         /\ Cardinality(Uploaders) \in Nat
BY Actors, FS_Subset, FS_CardinalityType DEF Claims

LEMMA ClaimsFiniteNext ==
  ASSUME NEW o
  PROVE  /\ IsFiniteSet(Claims(o)') /\ Cardinality(Claims(o)') \in Nat
         /\ Cardinality(Claims(o)') <= Cardinality(Uploaders)
BY Actors, FS_Subset, FS_CardinalityType DEF Claims

LEMMA RefsOfFinite ==
  ASSUME CountInv, NEW o
  PROVE  IsFiniteSet(RefsOf(o)) /\ Cardinality(RefsOf(o)) \in Nat
BY FS_Subset, FS_CardinalityType DEF CountInv, RefIdsInv, RefsOf

LEMMA LimitInit == Init => LimitInv
<1> SUFFICES ASSUME Init, NEW o \in Owners
             PROVE  Cardinality(RefsOf(o)) + Cardinality(Claims(o))
                      <= MaxAttachments + Cardinality(Uploaders) - 1
  BY DEF LimitInv
<1>1. RefsOf(o) = {} /\ Claims(o) = {}
  BY DEF Init, RefsOf, Claims, IdleUpload
<1>2. Cardinality(RefsOf(o)) = 0 /\ Cardinality(Claims(o)) = 0
  BY <1>1, FS_EmptySet
<1> QED BY <1>2, ClaimsFinite, Bounds

\* An owner whose references and claims only get fewer stays within its bound.
LEMMA LimitKept ==
  ASSUME CountInv, LimitInv, NEW o \in Owners,
         RefsOf(o)' \subseteq RefsOf(o), Claims(o)' \subseteq Claims(o)
  PROVE  Cardinality(RefsOf(o)') + Cardinality(Claims(o)')
           <= MaxAttachments + Cardinality(Uploaders) - 1
<1>1. /\ Cardinality(RefsOf(o)') <= Cardinality(RefsOf(o))
      /\ Cardinality(RefsOf(o)') \in Nat /\ Cardinality(RefsOf(o)) \in Nat
  BY RefsOfFinite, FS_Subset, FS_CardinalityType
<1>2. /\ Cardinality(Claims(o)') <= Cardinality(Claims(o))
      /\ Cardinality(Claims(o)') \in Nat /\ Cardinality(Claims(o)) \in Nat
  BY ClaimsFinite, FS_Subset, FS_CardinalityType
<1>3. Cardinality(Uploaders) \in Nat
  BY ClaimsFinite
<1> QED BY <1>1, <1>2, <1>3, Bounds DEF LimitInv

LEMMA LimitKeptByAll ==
  ASSUME CountInv, LimitInv, refs' \subseteq refs,
         \A u \in Uploaders :
           \/ up'[u] = up[u]
           \/ up'[u].pc \in {"idle", "accepted"}
           \/ /\ up[u].pc \in {"checked", "put", "commit"}
              /\ up'[u].owner = up[u].owner
  PROVE  LimitInv'
<1> SUFFICES ASSUME NEW o \in Owners
             PROVE  Cardinality(RefsOf(o)') + Cardinality(Claims(o)')
                      <= MaxAttachments + Cardinality(Uploaders) - 1
  BY DEF LimitInv
<1>1. RefsOf(o)' \subseteq RefsOf(o)
  BY DEF RefsOf
<1>2. Claims(o)' \subseteq Claims(o)
  BY DEF Claims
<1> QED BY <1>1, <1>2, LimitKept

\* Passing the check adds a claim to an owner that is below its limit.
LEMMA LimitCheck ==
  ASSUME TypeOK, CountInv, LimitInv, NEW u \in Uploaders, CheckLimit(u)
  PROVE  LimitInv'
<1>0. refs' = refs
  BY DEF CheckLimit
<1>1. /\ OnlyUpload(u)
      /\ \/ up'[u].pc = "idle"
         \/ UnderLimit(up[u].owner) /\ up'[u].owner = up[u].owner
  BY CheckEffect DEF IdleUpload
<1> SUFFICES ASSUME NEW o \in Owners
             PROVE  Cardinality(RefsOf(o)') + Cardinality(Claims(o)')
                      <= MaxAttachments + Cardinality(Uploaders) - 1
  BY DEF LimitInv
<1>2. RefsOf(o)' = RefsOf(o)
  BY <1>0 DEF RefsOf
<1>3. CASE Claims(o)' \subseteq Claims(o)
  BY <1>2, <1>3, LimitKept
<1>4. CASE ~(Claims(o)' \subseteq Claims(o))
  <2>1. UnderLimit(o)
    BY <1>1, <1>4 DEF Claims, OnlyUpload
  <2>2. /\ Cardinality(RefsOf(o)) < MaxAttachments
        /\ Cardinality(RefsOf(o)) \in Nat
    BY <2>1, RefsOfFinite DEF UnderLimit
  <2>3. /\ Cardinality(Claims(o)') <= Cardinality(Uploaders)
        /\ Cardinality(Claims(o)') \in Nat /\ Cardinality(Uploaders) \in Nat
    BY ClaimsFinite, ClaimsFiniteNext
  <2> QED BY <1>2, <2>2, <2>3, Bounds
<1> QED BY <1>3, <1>4

\* Committing turns a claim into a reference.
LEMMA LimitCommit ==
  ASSUME TypeOK, CountInv, LimitInv, NEW u \in Uploaders, OnlyUpload(u),
         up[u].pc = "commit", up'[u].pc = "idle", NEW r,
         r.owner = up[u].owner, refs' \subseteq refs \cup {r}
  PROVE  LimitInv'
<1> SUFFICES ASSUME NEW o \in Owners
             PROVE  Cardinality(RefsOf(o)') + Cardinality(Claims(o)')
                      <= MaxAttachments + Cardinality(Uploaders) - 1
  BY DEF LimitInv
<1>1. CASE o # up[u].owner
  <2>1. RefsOf(o)' \subseteq RefsOf(o)
    BY <1>1 DEF RefsOf
  <2>2. Claims(o)' \subseteq Claims(o)
    BY DEF Claims, OnlyUpload
  <2> QED BY <2>1, <2>2, LimitKept
<1>2. CASE o = up[u].owner
  <2>1. u \in Claims(o) /\ Claims(o)' = Claims(o) \ {u}
    BY <1>2 DEF Claims, OnlyUpload
  <2>2. /\ Cardinality(Claims(o)') = Cardinality(Claims(o)) - 1
        /\ Cardinality(Claims(o)) \in Nat
    BY <2>1, ClaimsFinite, FS_RemoveElement
  <2>3. RefsOf(o)' \subseteq RefsOf(o) \cup {r}
    BY DEF RefsOf
  <2>4. /\ IsFiniteSet(RefsOf(o) \cup {r})
        /\ Cardinality(RefsOf(o) \cup {r}) <= Cardinality(RefsOf(o)) + 1
        /\ Cardinality(RefsOf(o)) \in Nat
    <3>1. IsFiniteSet(RefsOf(o)) /\ Cardinality(RefsOf(o)) \in Nat
      BY RefsOfFinite
    <3> DEFINE S == RefsOf(o)
    <3> HIDE DEF S
    <3>2. /\ IsFiniteSet(S \cup {r})
          /\ Cardinality(S \cup {r}) = IF r \in S THEN Cardinality(S)
                                                ELSE Cardinality(S) + 1
      BY <3>1, FS_AddElement DEF S
    <3>3. Cardinality(S) \in Nat
      BY <3>1 DEF S
    <3>4. Cardinality(S \cup {r}) <= Cardinality(S) + 1
      BY <3>2, <3>3
    <3> QED BY <3>1, <3>2, <3>4 DEF S
  <2>5. /\ Cardinality(RefsOf(o)') <= Cardinality(RefsOf(o) \cup {r})
        /\ Cardinality(RefsOf(o)') \in Nat
        /\ Cardinality(RefsOf(o) \cup {r}) \in Nat
    BY <2>3, <2>4, FS_Subset, FS_CardinalityType
  <2>6. /\ Cardinality(RefsOf(o)) + Cardinality(Claims(o))
             <= MaxAttachments + Cardinality(Uploaders) - 1
        /\ Cardinality(Uploaders) \in Nat
    BY ClaimsFinite DEF LimitInv
  <2> QED BY <2>2, <2>4, <2>5, <2>6, Bounds
<1> QED BY <1>1, <1>2

LEMMA LimitNext ==
  TypeInv /\ RowsInv /\ CountInv /\ LimitInv /\ [Next]_vars => LimitInv'
<1> SUFFICES ASSUME TypeInv, RowsInv, CountInv, LimitInv, [Next]_vars PROVE LimitInv'
  OBVIOUS
<1>0. TypeOK
  BY DEF TypeInv
<1>1. CASE UNCHANGED vars
  BY <1>1, LimitKeptByAll DEF vars
<1>2. ASSUME NEW u \in Uploaders, NEW o \in Owners, NEW c \in Contents,
             StartUpload(u, o, c)
      PROVE  LimitInv'
  <2>1. OnlyUpload(u) /\ up'[u].pc = "accepted"
    BY <1>0, <1>2, StartEffect
  <2>2. refs' = refs
    BY <1>2 DEF StartUpload
  <2> QED BY <2>1, <2>2, LimitKeptByAll DEF OnlyUpload
<1>3. ASSUME NEW u \in Uploaders, UploadStep(u) PROVE LimitInv'
  <2>1. CASE CheckLimit(u)
    BY <1>0, <2>1, LimitCheck
  <2>2. CASE BeginUpload(u) \/ PutBlob(u)
    <3>1. /\ OnlyUpload(u) /\ up[u].pc \in {"checked", "put"}
          /\ up'[u].owner = up[u].owner
      BY <1>0, <2>2, BeginEffect, PutEffect
    <3>2. refs' = refs
      BY <2>2 DEF BeginUpload, PutBlob
    <3> QED BY <3>1, <3>2, LimitKeptByAll DEF OnlyUpload
  <2>3. CASE CommitDedupe(u) \/ CommitNew(u)
    <3>1. up[u].pc = "commit" /\ up' = [up EXCEPT ![u] = IdleUpload]
      BY <2>3 DEF CommitDedupe, CommitNew
    <3>2. OnlyUpload(u) /\ up'[u].pc = "idle"
      BY <1>0, <3>1, EndEffect
    <3>3. \E f : refs' \subseteq refs \cup {[id |-> nextRef, file |-> f,
                                             owner |-> up[u].owner]}
      BY <2>3 DEF CommitDedupe, CommitNew
    <3>4. PICK r : r.owner = up[u].owner /\ refs' \subseteq refs \cup {r}
      BY <3>3
    <3> QED BY <1>0, <3>1, <3>2, <3>4, LimitCommit
  <2> QED BY <1>3, <2>1, <2>2, <2>3 DEF UploadStep
<1>4. CASE \/ \E d \in Releasers : ReleaseStep(d)
           \/ \E d \in Deleters : StartRelease(d)
           \/ SweepStep
  <2>1. refs' \subseteq refs /\ up' = up
    BY <1>4, ReleasesRemove
  <2> QED BY <2>1, LimitKeptByAll
<1>5. CASE Busy \/ (\E u \in Uploaders : UploadFails(u)) \/ Crash
  <2>1. refs' = refs
    BY <1>5 DEF Busy, UploadFails, Crash
  <2>2. \A u \in Uploaders : up'[u] = up[u] \/ up'[u].pc = "idle"
    <3>1. CASE up' = up
      BY <3>1
    <3>2. CASE \E u \in Uploaders : up' = [up EXCEPT ![u] = IdleUpload]
      BY <1>0, <3>2, EndEffect DEF OnlyUpload
    <3>3. CASE Crash
      BY <3>3 DEF Crash, IdleUpload
    <3> QED BY <1>5, <3>1, <3>2, <3>3 DEF Busy, UploadFails
  <2> QED BY <2>1, <2>2, LimitKeptByAll
<1> QED BY <1>1, <1>2, <1>3, <1>4, <1>5, Steps

\* The limit is read outside the upload's transaction; however uploads queue for
\* the lock, an owner gets at most one attachment too many per further upload
\* in flight.
THEOREM LimitOverrunBounded == Spec => []OverrunBounded
<1>1. Init => LimitInv
  BY LimitInit
<1>2. TypeInv /\ RowsInv /\ CountInv /\ LimitInv /\ [Next]_vars => LimitInv'
  BY LimitNext
<1>3. CountInv /\ LimitInv => OverrunBounded
  <2> SUFFICES ASSUME CountInv, LimitInv, NEW o \in Owners
               PROVE  Cardinality(RefsOf(o)) <= MaxAttachments + Cardinality(Uploaders) - 1
    BY DEF OverrunBounded
  <2> QED BY RefsOfFinite, ClaimsFinite, Bounds DEF LimitInv
<1> QED BY <1>1, <1>2, <1>3, CountAlways, PTL DEF Spec

----------------------------------------------------------------------------
(* Fifth layer: the sweeper releases orphans only.  An id it has listed     *)
(* stays an orphan's: owners do not come back and ids are not used again.   *)

Gone(i) == \A r \in refs : r.id = i => r.owner \in Comments \ owners

SweeperInv ==
  /\ rel[Sweeper].pc # "list"
  /\ \A i \in rel[Sweeper].todo : i < nextRef /\ Gone(i)
  /\ rel[Sweeper].pc = "tx" => Gone(rel[Sweeper].ref)

LEMMA SweeperInit == Init => SweeperInv
BY DEF Init, SweeperInv, Gone, Releasers, IdleRelease

\* What any step may do to references and owners.
LEMMA RefsMove ==
  ASSUME TypeInv, [Next]_vars
  PROVE  /\ owners' \subseteq owners
         /\ nextRef' \in {nextRef, nextRef + 1}
         /\ \A r \in refs' : r \in refs \/ r.id = nextRef
         /\ refs \subseteq refs' \/ \E d \in Releasers : ReleaseTx(d)
<1>1. CASE UNCHANGED vars
  BY <1>1 DEF vars
<1>2. CASE \E u \in Uploaders, o \in Owners, c \in Contents : StartUpload(u, o, c)
  BY <1>2 DEF StartUpload
<1>3. ASSUME NEW u \in Uploaders, UploadStep(u)
      PROVE  /\ owners' = owners /\ nextRef' \in {nextRef, nextRef + 1}
             /\ \A r \in refs' : r \in refs \/ r.id = nextRef
             /\ refs \subseteq refs'
  BY <1>3 DEF UploadStep, CheckLimit, BeginUpload, PutBlob, CommitDedupe, CommitNew
<1>4. CASE \/ \E d \in Deleters : StartRelease(d)
           \/ SweepStep
  BY <1>4 DEF StartRelease, StartDeleteAttachment, StartDeleteOwner, SweepStep,
              StartSweep, ListUnreferenced, CollectBlob, CollectRow, FinishSweep
<1>5. CASE \E d \in Releasers : ReleaseStep(d)
  BY <1>5 DEF ReleaseStep, ListByOwner, FinishRelease, ReadReference, ReleaseTx,
              SyncDeleteBlob, SyncDeleteRow
<1>6. CASE Busy \/ (\E u \in Uploaders : UploadFails(u)) \/ Crash
  BY <1>6 DEF Busy, UploadFails, Crash
<1> QED BY <1>1, <1>2, <1>3, <1>4, <1>5, <1>6, Steps

LEMMA GoneStays ==
  ASSUME TypeInv, [Next]_vars, NEW i \in Nat, i < nextRef, Gone(i)
  PROVE  Gone(i)' /\ i < nextRef'
<1>1. nextRef \in Nat
  BY DEF TypeInv, TypeOK
<1>2. /\ owners' \subseteq owners /\ nextRef' \in {nextRef, nextRef + 1}
      /\ \A r \in refs' : r \in refs \/ r.id = nextRef
  BY RefsMove
<1> QED BY <1>1, <1>2 DEF Gone

\* How one release moves: it is forgotten, goes on with its own list, or begins
\* with references it finds in the tables as they are.
Begins(d) ==
  /\ UNCHANGED <<refs, owners, nextRef>>
  /\ \/ /\ d = Sweeper /\ rel'[d].pc = "next" /\ rel'[d].owner = None
        /\ rel'[d].todo = {r.id : r \in Orphans}
     \/ /\ d \in Deleters /\ rel'[d].pc = "list" /\ rel'[d].owner \in owners
        /\ rel'[d].todo = {}
     \/ /\ d \in Deleters /\ rel'[d].pc = "next"
        /\ \E r \in refs : r.owner \in owners /\ rel'[d].todo = {r.id}
     \/ /\ rel[d].pc = "list" /\ rel'[d].pc = "next" /\ rel'[d].owner = rel[d].owner
        /\ rel'[d].todo = {r.id : r \in RefsOf(rel[d].owner)}

Continues(d) ==
  /\ rel'[d].pc # "list" /\ rel'[d].owner = rel[d].owner
  /\ rel'[d].todo \subseteq rel[d].todo
  /\ rel'[d].pc = "tx" => rel'[d].ref \in rel[d].todo

Moves(d) == OnlyRelease(d) /\ (rel'[d] = IdleRelease \/ Begins(d) \/ Continues(d))

LEMMA GoesOnMoves ==
  ASSUME NEW d \in Releasers, GoesOn(d)
  PROVE  Moves(d)
BY DEF GoesOn, Moves, Continues

LEMMA ReleaseStepMoves ==
  ASSUME TypeOK, NEW d \in Releasers, ReleaseStep(d)
  PROVE  Moves(d)
<1>1. CASE ListByOwner(d)
  <2>1. UNCHANGED <<refs, owners, nextRef>>
    BY <1>1 DEF ListByOwner
  <2> QED BY <1>1, <2>1, ListEffect DEF Moves, Begins
<1>2. CASE FinishRelease(d) \/ SyncDeleteRow(d)
  BY <1>2, FinishEffect, RowEffect, GoesOnMoves
<1>3. CASE \E i \in RefIds : ReadReference(d, i)
  BY <1>3, ReadEffect DEF Moves, Continues
<1>4. CASE ReleaseTx(d)
  BY <1>4, TxEffect DEF Moves, Continues
<1>5. CASE SyncDeleteBlob(d)
  BY <1>5, BlobEffect DEF Moves, Continues
<1> QED BY <1>1, <1>2, <1>3, <1>4, <1>5 DEF ReleaseStep

LEMMA ReleasesMove ==
  ASSUME TypeInv, [Next]_vars
  PROVE  \/ rel' = rel
         \/ \A d \in Releasers : rel'[d] = IdleRelease
         \/ \E d \in Releasers : Moves(d)
<1>0. TypeOK /\ Sweeper \in Releasers
  BY DEF TypeInv, Releasers
<1>1. ASSUME NEW d \in Deleters, StartRelease(d) PROVE Moves(d) /\ d \in Releasers
  <2>1. d \in Releasers
    BY DEF Releasers
  <2>2. ASSUME NEW r \in refs, StartDeleteAttachment(d, r) PROVE Moves(d)
    <3>1. UNCHANGED <<refs, owners, nextRef>> /\ r.owner \in owners
      BY <2>2 DEF StartDeleteAttachment
    <3> QED BY <1>0, <2>1, <2>2, <3>1, StartAttachmentEffect DEF Moves, Begins
  <2>3. ASSUME NEW o \in owners, StartDeleteOwner(d, o) PROVE Moves(d)
    <3>1. UNCHANGED <<refs, owners, nextRef>>
      BY <2>3 DEF StartDeleteOwner
    <3> QED BY <1>0, <2>1, <2>3, <3>1, StartOwnerEffect DEF Moves, Begins
  <2> QED BY <1>1, <2>1, <2>2, <2>3 DEF StartRelease
<1>2. CASE \E d \in Releasers : ReleaseStep(d)
  BY <1>0, <1>2, ReleaseStepMoves
<1>3. CASE StartSweep
  <2>1. UNCHANGED <<refs, owners, nextRef>>
    BY <1>3 DEF StartSweep
  <2> QED BY <1>0, <1>3, <2>1, SweepEffect DEF Moves, Begins
<1>4. CASE Busy /\ rel' # rel
  <2>1. PICK d \in Releasers : GoesOn(d)
    BY <1>0, <1>4, BusySweeperEffect, ReleaseRecord, Replaced DEF Busy, GoesOn, Releasers
  <2> QED BY <2>1, GoesOnMoves
<1>5. CASE Crash
  BY <1>5 DEF Crash
<1>6. CASE UNCHANGED vars
  BY <1>6 DEF vars
<1>7. ASSUME NEW u \in Uploaders, NEW o \in Owners, NEW c \in Contents, StartUpload(u, o, c)
      PROVE  rel' = rel
  BY <1>7 DEF StartUpload
<1>8. ASSUME NEW u \in Uploaders, UploadFails(u) PROVE rel' = rel
  BY <1>8 DEF UploadFails
<1>9. ASSUME NEW u \in Uploaders, UploadStep(u) PROVE rel' = rel
  BY <1>9 DEF UploadStep, CheckLimit, BeginUpload, PutBlob, CommitDedupe, CommitNew
<1>10. CASE ListUnreferenced \/ (\E f \in FileIds : CollectBlob(f)) \/ CollectRow \/ FinishSweep
  BY <1>10 DEF ListUnreferenced, CollectBlob, CollectRow, FinishSweep
<1> QED BY <1>1, <1>2, <1>3, <1>4, <1>5, <1>6, <1>7, <1>8, <1>9, <1>10, Steps DEF SweepStep

\* What that says of one release among the others.
LEMMA OneMoves ==
  ASSUME TypeInv, [Next]_vars, NEW d \in Releasers
  PROVE  rel'[d] = rel[d] \/ rel'[d] = IdleRelease \/ Begins(d) \/ Continues(d)
<1>1. ASSUME NEW e \in Releasers, Moves(e)
      PROVE  rel'[d] = rel[d] \/ rel'[d] = IdleRelease \/ Begins(d) \/ Continues(d)
  BY <1>1 DEF Moves, OnlyRelease
<1> QED BY <1>1, ReleasesMove

LEMMA SweeperNext == TypeInv /\ RowsInv /\ CountInv /\ SweeperInv /\ [Next]_vars => SweeperInv'
<1> SUFFICES ASSUME TypeInv, CountInv, SweeperInv, [Next]_vars PROVE SweeperInv'
  OBVIOUS
<1>0. TypeOK /\ Sweeper \in Releasers
  BY DEF TypeInv, Releasers
<1>1. \A i \in rel[Sweeper].todo : i \in Nat /\ i < nextRef /\ Gone(i)
  BY <1>0, ReleaseRecord DEF SweeperInv, RefIds
<1>2. \A i \in rel[Sweeper].todo : Gone(i)' /\ i < nextRef'
  BY <1>1, GoneStays
<1>3. CASE rel'[Sweeper] = rel[Sweeper]
  <2>1. rel[Sweeper].pc = "tx" => Gone(rel[Sweeper].ref)'
    <3> SUFFICES ASSUME rel[Sweeper].pc = "tx" PROVE Gone(rel[Sweeper].ref)'
      OBVIOUS
    <3> DEFINE j == rel[Sweeper].ref
    <3>1. j \in Nat
      BY <1>0 DEF TypeOK, Release, RefIds
    <3>2. j < nextRef /\ Gone(j)
      BY <1>0 DEF SweeperInv, CountInv, ReleaseKnowsRef
    <3>3. PICK i \in Nat : i = j
      BY <3>1
    <3>4. Gone(i)'
      BY <3>2, <3>3, GoneStays
    <3>5. rel[Sweeper].ref' = i
      BY <1>3, <3>3
    <3> QED BY <3>3, <3>4, <3>5 DEF Gone
  <2>2. rel[Sweeper].pc # "list"
    BY DEF SweeperInv
  <2> QED BY <1>2, <1>3, <2>1, <2>2 DEF SweeperInv, Gone
<1>4. CASE rel'[Sweeper] = IdleRelease
  BY <1>4 DEF SweeperInv, IdleRelease
<1>5. CASE Continues(Sweeper)
  BY <1>2, <1>5 DEF Continues, SweeperInv, Gone
<1>6. CASE Begins(Sweeper)
  BY <1>6, Actors DEF Begins, SweeperInv, Gone, Orphans, CountInv, RefIdsInv
<1> QED BY <1>0, <1>3, <1>4, <1>5, <1>6, OneMoves

\* The sweep never takes an attachment from a live owner, and nothing but a
\* request or the sweep takes one at all.
THEOREM ReleasesAreAskedFor == Spec => OnlyAskedOrOrphaned
<1>1. Init => SweeperInv
  BY SweeperInit
<1>2. TypeInv /\ RowsInv /\ CountInv /\ SweeperInv /\ [Next]_vars => SweeperInv'
  BY SweeperNext
<1>3. TypeInv /\ SweeperInv /\ [Next]_vars
        => [\A r \in refs \ refs' :
              \/ r.owner \in Comments \ owners
              \/ \E d \in Deleters : rel[d].pc = "tx" /\ rel[d].ref = r.id]_vars
  <2> SUFFICES ASSUME TypeInv, SweeperInv, [Next]_vars, NEW r \in refs \ refs'
               PROVE  \/ r.owner \in Comments \ owners
                      \/ \E d \in Deleters : rel[d].pc = "tx" /\ rel[d].ref = r.id
    OBVIOUS
  <2>1. PICK d \in Releasers : ReleaseTx(d)
    BY RefsMove
  <2>2. rel[d].pc = "tx" /\ rel[d].ref = r.id
    BY <2>1 DEF ReleaseTx
  <2>3. CASE d = Sweeper
    BY <2>2, <2>3 DEF SweeperInv, Gone
  <2>4. CASE d \in Deleters
    BY <2>2, <2>4
  <2> QED BY <2>3, <2>4 DEF Releasers
<1> QED BY <1>1, <1>2, <1>3, CountAlways, PTL DEF Spec, OnlyAskedOrOrphaned

----------------------------------------------------------------------------
(* Sixth layer: the objects.  Whoever is about to delete a row has deleted  *)
(* its object, and no upload writes that object again while the row exists. *)

FilesSeen ==
  /\ \A d \in Releasers : rel[d].pc \in {"tx", "blob", "row"} => rel[d].file < nextFile
  /\ \A f \in sweep.todo : f < nextFile
  /\ sweep.pc = "row" => sweep.file < nextFile

RowsLast ==
  /\ \A d \in Releasers :
       rel[d].pc = "row" /\ rel[d].file \in files => sha[rel[d].file] \notin blobs
  /\ sweep.pc = "row" /\ sweep.file \in files => sha[sweep.file] \notin blobs

BlobInv == FilesSeen /\ (faults = 0 => RowsLast) /\ NoOrphanBlob

LEMMA BlobInit == Init => BlobInv
BY DEF Init, BlobInv, FilesSeen, RowsLast, NoOrphanBlob, IdleRelease, IdleSweep

\* The releases and the sweep, as far as the sixth layer sees them: what they
\* name they have named before, or find in the tables.
LEMMA FilesSeenStays ==
  ASSUME TypeInv, RowsInv, FilesSeen, nextFile' \in {nextFile, nextFile + 1},
         \A d \in Releasers :
           \/ rel'[d] = rel[d]
           \/ rel'[d].pc \notin {"tx", "blob", "row"}
           \/ rel[d].pc \in {"tx", "blob", "row"} /\ rel'[d].file = rel[d].file
           \/ rel'[d].file \in files,
         sweep'.todo \subseteq sweep.todo \/ sweep'.todo \subseteq files,
         \/ sweep' = sweep
         \/ sweep'.pc # "row"
         \/ sweep'.file \in sweep.todo
  PROVE  FilesSeen'
<1>1. nextFile \in Nat /\ FileIds \subseteq Nat /\ files \subseteq FileIds
  BY DEF TypeInv, TypeOK, FileIds
<1>2. \A d \in Releasers : rel[d].pc \in {"tx", "blob", "row"} => rel[d].file \in Nat
  BY <1>1 DEF TypeInv, FilesNamed
<1>3. sweep.todo \subseteq Nat /\ (sweep.pc = "row" => sweep.file \in Nat)
  BY <1>1 DEF TypeInv, TypeOK, FilesNamed, Sweep
<1>4. \A f \in files : f < nextFile
  BY DEF RowsInv, FilesBelow
<1>5. \A n \in Nat : n < nextFile => n < nextFile'
  BY <1>1
<1>6. \A d \in Releasers :
        rel'[d].pc \in {"tx", "blob", "row"} => rel'[d].file < nextFile'
  BY <1>1, <1>2, <1>4, <1>5 DEF FilesSeen
<1>7. \A f \in sweep'.todo : f < nextFile'
  BY <1>1, <1>3, <1>4, <1>5 DEF FilesSeen
<1>8. sweep'.pc = "row" => sweep'.file < nextFile'
  BY <1>3, <1>5 DEF FilesSeen
<1> QED BY <1>6, <1>7, <1>8 DEF FilesSeen

\* Every step of an upload keeps the sixth layer.
LEMMA BlobUpload ==
  ASSUME TypeInv, RowsInv, BlobInv, NEW u \in Uploaders, UploadStep(u)
  PROVE  BlobInv'
<1> USE DEF BlobInv
<1>0. TypeOK
  BY DEF TypeInv
<1>1. UNCHANGED <<rel, sweep, faults>> /\ nextFile' \in {nextFile, nextFile + 1}
  BY DEF UploadStep, CheckLimit, BeginUpload, PutBlob, CommitDedupe, CommitNew
<1>2. FilesSeen'
  BY <1>1, FilesSeenStays
<1>3. CASE CheckLimit(u)
  <2>1. OnlyUpload(u) /\ up[u].pc = "accepted"
    BY <1>0, <1>3, CheckEffect
  <2>2. UNCHANGED <<files, sha, blobs, lock>>
    BY <1>3 DEF CheckLimit
  <2>3. NoOrphanBlob'
    BY <1>1, <2>1, <2>2 DEF NoOrphanBlob, RowsOf, OnlyUpload
  <2> QED BY <1>1, <1>2, <2>2, <2>3 DEF RowsLast
<1>4. CASE BeginUpload(u)
  <2>1. lock = None /\ UNCHANGED <<files, sha, blobs>>
    BY <1>4 DEF BeginUpload, LockFree
  <2>2. NoOrphanBlob'
    BY <1>1, <2>1, Actors DEF NoOrphanBlob, RowsOf
  <2> QED BY <1>1, <1>2, <2>1, <2>2 DEF RowsLast
<1>5. CASE PutBlob(u)
  <2>1. /\ OnlyUpload(u) /\ up[u].pc = "put" /\ up'[u].pc = "commit"
        /\ up'[u].content = up[u].content
    BY <1>0, <1>5, PutEffect
  <2>2. lock = u /\ RowsOf(up[u].content) = {}
    BY <2>1 DEF RowsInv, UploadHoldsLock, UploadKnowsRow
  <2>3. blobs' = blobs \cup {up[u].content} /\ UNCHANGED <<files, sha, lock>>
    BY <1>5 DEF PutBlob
  <2>4. faults = 0 => RowsLast'
    BY <1>1, <2>2, <2>3 DEF RowsLast, RowsOf
  <2>5. NoOrphanBlob'
    BY <1>1, <2>1, <2>2, <2>3 DEF NoOrphanBlob, RowsOf
  <2> QED BY <1>1, <1>2, <2>4, <2>5
<1>6. CASE CommitDedupe(u)
  <2>1. up[u].pc = "commit" /\ up[u].file # 0 /\ UNCHANGED <<files, sha, blobs>>
    BY <1>6 DEF CommitDedupe
  <2>2. lock = u /\ RowsOf(up[u].content) # {}
    BY <2>1 DEF RowsInv, UploadHoldsLock, UploadKnowsRow
  <2>3. NoOrphanBlob'
    BY <1>1, <2>1, <2>2 DEF NoOrphanBlob, RowsOf
  <2> QED BY <1>1, <1>2, <2>1, <2>3 DEF RowsLast
<1>7. CASE CommitNew(u)
  <2>1. /\ up[u].pc = "commit" /\ up[u].file = 0
        /\ files' = files \cup {nextFile} /\ blobs' = blobs
        /\ sha' = [sha EXCEPT ![nextFile] = up[u].content]
    BY <1>7 DEF CommitNew
  <2>2. lock = u
    BY <2>1 DEF RowsInv, UploadHoldsLock
  <2>3. nextFile \in FileIds
    BY <1>7, <2>1, TypeUpload DEF UploadStep, TypeInv, TypeOK
  <2>4. /\ sha'[nextFile] = up[u].content
        /\ \A f \in files : f # nextFile /\ sha'[f] = sha[f]
    BY <1>0, <2>1, <2>3 DEF TypeOK, RowsInv, FilesBelow, FileIds
  <2>5. /\ \A d \in Releasers : rel[d].pc = "row" => rel[d].file # nextFile
        /\ sweep.pc = "row" => sweep.file # nextFile
    BY <2>3 DEF FilesSeen, FileIds
  <2>6. faults = 0 => RowsLast'
    BY <1>1, <2>1, <2>4, <2>5 DEF RowsLast
  <2>7. NoOrphanBlob'
    <3> SUFFICES ASSUME faults = 0, NEW c \in blobs PROVE RowsOf(c)' # {}
      BY <1>1, <2>1 DEF NoOrphanBlob
    <3>1. CASE RowsOf(c) # {}
      BY <2>1, <2>4, <3>1 DEF RowsOf
    <3>2. CASE c = up[u].content
      BY <2>1, <2>4, <3>2 DEF RowsOf
    <3> QED BY <2>2, <3>1, <3>2 DEF NoOrphanBlob
  <2> QED BY <1>1, <1>2, <2>6, <2>7
<1> QED BY <1>3, <1>4, <1>5, <1>6, <1>7 DEF UploadStep

\* A step that deletes no row and no object.
LEMMA BlobQuiet ==
  ASSUME TypeInv, RowsInv, BlobInv, FilesSeen',
         UNCHANGED <<files, sha, blobs, lock, up, faults>>,
         \A d \in Releasers : rel'[d] = rel[d] \/ rel'[d].pc # "row",
         sweep' = sweep \/ sweep'.pc # "row"
  PROVE  BlobInv'
<1>1. NoOrphanBlob'
  BY DEF BlobInv, NoOrphanBlob, RowsOf
<1>2. faults' = 0 => RowsLast'
  BY DEF BlobInv, RowsLast
<1> QED BY <1>1, <1>2 DEF BlobInv

\* Deleting an object before its row ...
LEMMA BlobDeleted ==
  ASSUME TypeInv, BlobInv, FilesSeen', NEW c, DeleteObject(c),
         UNCHANGED <<files, sha, lock, up>>,
         \A d \in Releasers :
           \/ rel'[d] = rel[d]
           \/ rel'[d].pc = "row" => sha[rel'[d].file] = c,
         sweep' = sweep \/ (sweep'.pc = "row" => sha[sweep'.file] = c)
  PROVE  BlobInv'
<1>1. CASE faults' # 0
  BY <1>1 DEF BlobInv, NoOrphanBlob
<1>2. CASE faults' = 0
  <2>1. faults = 0 /\ blobs' = blobs \ {c}
    BY <1>2 DEF DeleteObject, TypeInv, TypeOK
  <2>2. NoOrphanBlob'
    BY <2>1 DEF BlobInv, NoOrphanBlob, RowsOf
  <2>3. RowsLast'
    BY <2>1 DEF BlobInv, RowsLast
  <2> QED BY <2>2, <2>3 DEF BlobInv
<1> QED BY <1>1, <1>2

\* ... and the row of an object that is gone.
LEMMA BlobRowDeleted ==
  ASSUME TypeInv, BlobInv, FilesSeen', NEW f,
         files' = files \/ files' = files \ {f},
         faults = 0 /\ f \in files => sha[f] \notin blobs,
         UNCHANGED <<sha, blobs, lock, up, faults>>,
         \A d \in Releasers : rel'[d] = rel[d] \/ rel'[d].pc # "row",
         sweep' = sweep \/ sweep'.pc # "row"
  PROVE  BlobInv'
<1>1. NoOrphanBlob'
  BY DEF BlobInv, NoOrphanBlob, RowsOf
<1>2. faults' = 0 => RowsLast'
  BY DEF BlobInv, RowsLast
<1> QED BY <1>1, <1>2 DEF BlobInv

LEMMA BlobRelease ==
  ASSUME TypeInv, RowsInv, BlobInv, NEW d \in Releasers, ReleaseStep(d)
  PROVE  BlobInv'
<1>0. TypeOK
  BY DEF TypeInv
<1>1. UNCHANGED <<sha, lock, up, sweep, nextFile>>
  BY DEF ReleaseStep, ListByOwner, FinishRelease, ReadReference, ReleaseTx,
     SyncDeleteBlob, SyncDeleteRow
<1>2. ASSUME OnlyRelease(d),
             \/ rel'[d].pc \notin {"tx", "blob", "row"}
             \/ rel[d].pc \in {"tx", "blob", "row"} /\ rel'[d].file = rel[d].file
             \/ rel'[d].file \in files
      PROVE  FilesSeen'
  BY <1>1, <1>2, FilesSeenStays DEF BlobInv, OnlyRelease
<1>3. ASSUME OnlyRelease(d), rel'[d].pc # "row", FilesSeen',
             UNCHANGED <<files, blobs, faults>>
      PROVE  BlobInv'
  BY <1>1, <1>3, BlobQuiet DEF OnlyRelease
<1>4. CASE ListByOwner(d)
  <2>1. OnlyRelease(d) /\ rel'[d].pc = "next"
    BY <1>0, <1>4, ListEffect
  <2>2. UNCHANGED <<files, blobs, faults>>
    BY <1>4 DEF ListByOwner
  <2> QED BY <1>2, <1>3, <2>1, <2>2
<1>5. CASE FinishRelease(d)
  <2>1. OnlyRelease(d) /\ rel'[d].pc \notin {"tx", "blob", "row"}
    BY <1>0, <1>5, FinishEffect DEF GoesOn, IdleRelease
  <2>2. UNCHANGED <<files, blobs, faults>>
    BY <1>5 DEF FinishRelease
  <2> QED BY <1>2, <1>3, <2>1, <2>2
<1>6. ASSUME NEW i \in RefIds, ReadReference(d, i) PROVE BlobInv'
  <2>1. /\ OnlyRelease(d)
        /\ rel'[d].pc = "next" \/ (rel'[d].pc = "tx" /\ rel'[d].file \in files)
    BY <1>0, <1>6, ReadEffect DEF RowsInv, NoDanglingReference
  <2>2. UNCHANGED <<files, blobs, faults>>
    BY <1>6 DEF ReadReference
  <2> QED BY <1>2, <1>3, <2>1, <2>2
<1>7. CASE ReleaseTx(d)
  <2>1. /\ OnlyRelease(d) /\ rel[d].pc = "tx"
        /\ rel'[d].pc = "next" \/ (rel'[d].pc = "blob" /\ rel'[d].file = rel[d].file)
    BY <1>0, <1>7, TxEffect
  <2>2. UNCHANGED <<files, blobs, faults>>
    BY <1>7 DEF ReleaseTx
  <2> QED BY <1>2, <1>3, <2>1, <2>2
<1>8. CASE SyncDeleteBlob(d)
  <2>1. /\ OnlyRelease(d) /\ rel[d].pc = "blob" /\ rel'[d].pc = "row"
        /\ rel'[d].file = rel[d].file
    BY <1>0, <1>8, BlobEffect
  <2>2. DeleteObject(sha[rel[d].file]) /\ UNCHANGED files
    BY <1>8 DEF SyncDeleteBlob
  <2>3. FilesSeen'
    BY <1>2, <2>1
  <2> QED BY <1>1, <2>1, <2>2, <2>3, BlobDeleted DEF OnlyRelease
<1>9. CASE SyncDeleteRow(d)
  <2>1. /\ OnlyRelease(d) /\ rel[d].pc = "row"
        /\ rel'[d].pc \notin {"tx", "blob", "row"}
    BY <1>0, <1>9, RowEffect DEF GoesOn, IdleRelease
  <2>2. /\ files' = files \/ files' = files \ {rel[d].file}
        /\ UNCHANGED <<blobs, faults>>
    BY <1>9 DEF SyncDeleteRow
  <2>3. faults = 0 /\ rel[d].file \in files => sha[rel[d].file] \notin blobs
    BY <2>1 DEF BlobInv, RowsLast
  <2>4. FilesSeen'
    BY <1>2, <2>1
  <2> QED BY <1>1, <2>1, <2>2, <2>3, <2>4, BlobRowDeleted DEF OnlyRelease
<1> QED BY <1>4, <1>5, <1>6, <1>7, <1>8, <1>9 DEF ReleaseStep

LEMMA BlobSweep ==
  ASSUME TypeInv, RowsInv, BlobInv, SweepStep
  PROVE  BlobInv'
<1>0. TypeOK /\ sweep \in Sweep
  BY DEF TypeInv, TypeOK
<1>1. UNCHANGED <<sha, lock, up, nextFile>>
  BY DEF SweepStep, StartSweep, ListUnreferenced, CollectBlob, CollectRow, FinishSweep
<1>2. CASE StartSweep
  <2>1. OnlyRelease(Sweeper) /\ rel'[Sweeper].pc = "next"
    BY <1>0, <1>2, SweepEffect
  <2>2. UNCHANGED <<files, blobs, faults>> /\ sweep'.pc = "orphans"
        /\ sweep'.todo = sweep.todo
    BY <1>0, <1>2 DEF StartSweep, Sweep
  <2>3. FilesSeen'
    BY <1>1, <2>1, <2>2, FilesSeenStays DEF BlobInv, OnlyRelease
  <2> QED BY <1>1, <2>1, <2>2, <2>3, BlobQuiet DEF OnlyRelease
<1>3. CASE ListUnreferenced
  <2> DEFINE drained == {f \in files : refCount[f] = 0}
  <2>1. drained \subseteq files
    OBVIOUS
  <2>2. sweep' = [sweep EXCEPT !.pc = "blob", !.todo = drained]
        /\ UNCHANGED <<files, blobs, faults, rel>>
    BY <1>3 DEF ListUnreferenced
  <2> HIDE DEF drained
  <2>3. sweep'.pc = "blob" /\ sweep'.todo \subseteq files
    BY <1>0, <2>1, <2>2 DEF Sweep
  <2>4. FilesSeen'
    BY <1>1, <2>2, <2>3, FilesSeenStays DEF BlobInv
  <2> QED BY <1>1, <2>2, <2>3, <2>4, BlobQuiet
<1>4. ASSUME NEW f \in FileIds, CollectBlob(f) PROVE BlobInv'
  <2>1. /\ f \in sweep.todo /\ DeleteObject(sha[f]) /\ UNCHANGED <<files, rel>>
        /\ sweep'.file = f /\ sweep'.todo \subseteq sweep.todo
    BY <1>4 DEF CollectBlob
  <2>2. FilesSeen'
    BY <1>1, <2>1, FilesSeenStays DEF BlobInv
  <2> QED BY <1>1, <2>1, <2>2, BlobDeleted
<1>5. CASE CollectRow
  <2>1. /\ sweep.pc = "row" /\ UNCHANGED <<blobs, rel, faults>>
        /\ files' = files \/ files' = files \ {sweep.file}
        /\ sweep' = IdleSweep \/ sweep' = [sweep EXCEPT !.pc = "blob", !.file = 0]
    BY <1>5 DEF CollectRow
  <2>2. sweep'.pc # "row" /\ sweep'.todo \subseteq sweep.todo
    <3>1. CASE sweep' = IdleSweep
      BY <3>1 DEF IdleSweep
    <3>2. CASE sweep' = [sweep EXCEPT !.pc = "blob", !.file = 0]
      BY <1>0, <3>2 DEF Sweep
    <3> QED BY <2>1, <3>1, <3>2
  <2>3. faults = 0 /\ sweep.file \in files => sha[sweep.file] \notin blobs
    BY <2>1 DEF BlobInv, RowsLast
  <2>4. FilesSeen'
    BY <1>1, <2>1, <2>2, FilesSeenStays DEF BlobInv
  <2> QED BY <1>1, <2>1, <2>2, <2>3, <2>4, BlobRowDeleted
<1>6. CASE FinishSweep
  <2>1. /\ sweep'.pc # "row" /\ sweep'.todo \subseteq sweep.todo
        /\ UNCHANGED <<files, blobs, faults, rel>>
    BY <1>6 DEF FinishSweep, IdleSweep
  <2>2. FilesSeen'
    BY <1>1, <2>1, FilesSeenStays DEF BlobInv
  <2> QED BY <1>1, <2>1, <2>2, BlobQuiet
<1> QED BY <1>2, <1>3, <1>4, <1>5, <1>6 DEF SweepStep

LEMMA BlobFault ==
  ASSUME TypeInv, RowsInv, BlobInv,
         Busy \/ (\E u \in Uploaders : UploadFails(u)) \/ Crash
  PROVE  BlobInv'
<1>0. TypeOK /\ sweep \in Sweep
  BY DEF TypeInv, TypeOK
<1>1. faults' = faults + 1 /\ faults \in Nat /\ nextFile' = nextFile
  BY Bounds DEF TypeInv, TypeOK, Busy, UploadFails, Crash
<1>2. \A d \in Releasers : rel'[d] = rel[d] \/ rel'[d].pc \notin {"tx", "blob", "row"}
  <2>1. CASE rel' = rel
    BY <2>1
  <2>2. CASE Crash
    BY <2>2 DEF Crash, IdleRelease
  <2>3. CASE Busy /\ rel' # rel
    <3>1. PICK d \in Releasers : GoesOn(d)
      BY <1>0, <2>3, BusySweeperEffect, ReleaseRecord, Replaced DEF Busy, GoesOn, Releasers
    <3> QED BY <3>1 DEF GoesOn, OnlyRelease, IdleRelease
  <2> QED BY <2>1, <2>2, <2>3 DEF UploadFails
<1>3. sweep' = sweep \/ sweep' = IdleSweep
  BY DEF Busy, UploadFails, Crash
<1>4. FilesSeen'
  <2>1. sweep' = sweep \/ (sweep'.pc # "row" /\ sweep'.todo = {})
    BY <1>3 DEF IdleSweep
  <2> QED BY <1>1, <1>2, <2>1, FilesSeenStays DEF BlobInv
<1> QED BY <1>1, <1>4 DEF BlobInv, NoOrphanBlob

LEMMA BlobNext == TypeInv /\ RowsInv /\ BlobInv /\ [Next]_vars => BlobInv'
<1> SUFFICES ASSUME TypeInv, RowsInv, BlobInv, [Next]_vars PROVE BlobInv'
  OBVIOUS
<1>0. TypeOK
  BY DEF TypeInv
<1>1. CASE UNCHANGED vars
  BY <1>1 DEF vars, BlobInv, FilesSeen, RowsLast, NoOrphanBlob, RowsOf
<1>2. ASSUME NEW u \in Uploaders, NEW o \in Owners, NEW c \in Contents,
             StartUpload(u, o, c)
      PROVE  BlobInv'
  <2>1. OnlyUpload(u) /\ up[u].pc = "idle"
    BY <1>0, <1>2, StartEffect
  <2>2. UNCHANGED <<files, sha, blobs, lock, rel, sweep, faults, nextFile>>
    BY <1>2 DEF StartUpload
  <2>3. FilesSeen' /\ (faults' = 0 => RowsLast')
    BY <2>2 DEF BlobInv, FilesSeen, RowsLast
  <2>4. NoOrphanBlob'
    BY <2>1, <2>2 DEF BlobInv, NoOrphanBlob, RowsOf, OnlyUpload
  <2> QED BY <2>3, <2>4 DEF BlobInv
<1>3. ASSUME NEW d \in Deleters, StartRelease(d) PROVE BlobInv'
  <2>1. OnlyRelease(d) /\ rel'[d].pc \in {"next", "list"}
    BY <1>0, <1>3, StartAttachmentEffect, StartOwnerEffect DEF StartRelease, Releasers
  <2>2. UNCHANGED <<files, sha, blobs, lock, up, sweep, faults, nextFile>>
    BY <1>3 DEF StartRelease, StartDeleteAttachment, StartDeleteOwner
  <2>3. FilesSeen'
    BY <2>1, <2>2, FilesSeenStays DEF BlobInv, OnlyRelease
  <2> QED BY <2>1, <2>2, <2>3, BlobQuiet DEF OnlyRelease
<1> QED BY <1>1, <1>2, <1>3, BlobUpload, BlobRelease, BlobSweep, BlobFault, Steps

\* As long as nothing fails, every stored object has a row that leads to it, or
\* the upload that is about to insert one: nothing is lost to the sweeper.
THEOREM ObjectsHaveRows == Spec => []NoOrphanBlob
<1>1. Init => BlobInv
  BY BlobInit
<1>2. TypeInv /\ RowsInv /\ BlobInv /\ [Next]_vars => BlobInv'
  BY BlobNext
<1>3. BlobInv => NoOrphanBlob
  BY DEF BlobInv
<1> QED BY <1>1, <1>2, <1>3, RowsAlways, PTL DEF Spec
----------------------------------------------------------------------------
(* Seventh layer: exact counts.  A count is lost only when two releases have *)
(* read one reference: the second finds it gone and decrements all the same. *)
(* While releases are Apart, each finds the reference it has read.           *)

Apart ==
  \A d, e \in Releasers :
    rel[d].pc = "tx" /\ rel[e].pc = "tx" /\ rel[d].ref = rel[e].ref => d = e

ReleaseFindsRef == \A d \in Releasers : rel[d].pc = "tx" => \E r \in refs : r.id = rel[d].ref

ExactInv == ReleaseFindsRef /\ RefCountExact

LEMMA ExactInit == Init => ExactInv
BY DEF Init, ExactInv, ReleaseFindsRef, RefCountExact, IdleRelease

LEMMA ExactKept ==
  ASSUME ExactInv, Still
  PROVE  ExactInv'
<1>1. RefCountExact'
  BY DEF ExactInv, Still, RefCountExact, RefsTo
<1>2. ReleaseFindsRef'
  BY DEF ExactInv, Still, ReleaseFindsRef
<1> QED BY <1>1, <1>2 DEF ExactInv

LEMMA ExactGrows ==
  ASSUME TypeOK, RowsInv, CountInv, ExactInv, NEW f \in FileIds, NEW o \in Owners, Grows(f, o)
  PROVE  ExactInv'
<1> DEFINE n == [id |-> nextRef, file |-> f, owner |-> o]
<1> USE DEF CountInv, Grows
<1>1. nextRef \in Nat /\ \A r \in refs : r.id \in Nat
  BY ReferenceFields DEF TypeOK, RefIds
<1>2. n.id = nextRef /\ n.file = f /\ n \notin refs
  BY <1>1 DEF RefIdsInv
<1> HIDE DEF n
<1>3. refs' = refs \cup {n} /\ rel' = rel
  BY DEF n
<1>4. ReleaseFindsRef'
  BY <1>3 DEF ExactInv, ReleaseFindsRef
<1>5. RefCountExact'
  <2> SUFFICES ASSUME NEW g \in files'
               PROVE  refCount'[g] = Cardinality(RefsTo(g)')
    BY DEF RefCountExact
  <2>1. g \in FileIds /\ refCount \in [FileIds -> Nat]
    BY DEF TypeOK
  <2>2. CASE g = f
    <3>1. RefsTo(g)' = RefsTo(f) \cup {n} /\ n \notin RefsTo(f)
      BY <1>2, <1>3, <2>2 DEF RefsTo
    <3>2. Cardinality(RefsTo(g)') = Cardinality(RefsTo(f)) + 1
      BY <3>1, RefsToFinite, FS_AddElement
    <3>3. CASE f \in files
      BY <2>1, <2>2, <3>2, <3>3 DEF ExactInv, RefCountExact
    <3>4. CASE f \notin files
      <4>1. RefsTo(f) = {}
        BY <3>4 DEF RowsInv, NoDanglingReference, RefsTo
      <4> QED BY <2>1, <2>2, <3>2, <3>4, <4>1, FS_EmptySet
    <3> QED BY <3>3, <3>4
  <2>3. CASE g # f
    <3>1. RefsTo(g)' = RefsTo(g)
      BY <1>2, <1>3, <2>3 DEF RefsTo
    <3>2. refCount'[g] = refCount[g] /\ g \in files
      BY <2>1, <2>3
    <3> QED BY <3>1, <3>2 DEF ExactInv, RefCountExact
  <2> QED BY <2>2, <2>3
<1> QED BY <1>4, <1>5 DEF ExactInv

LEMMA ExactShrinks ==
  ASSUME TypeOK, CountInv, ExactInv, Apart, NEW d \in Releasers, ReleaseTx(d)
  PROVE  ExactInv'
<1>1. /\ refs' = {r \in refs : r.id # rel[d].ref} /\ rel[d].pc = "tx" /\ files' = files
  BY DEF ReleaseTx
<1>2. PICK r \in refs : r.id = rel[d].ref
  BY <1>1 DEF ExactInv, ReleaseFindsRef
<1>3. r.file = rel[d].file /\ refs' = refs \ {r}
  BY <1>1, <1>2 DEF CountInv, RefIdsInv, ReleaseKnowsRef
<1>4. \A g \in files : refCount'[g] = IF g = r.file THEN Decremented(refCount[g])
                                                    ELSE refCount[g]
  BY <1>3 DEF ReleaseTx, TypeOK
<1>5. ReleaseFindsRef'
  <2>1. OnlyRelease(d) /\ rel'[d].pc # "tx"
    BY TxEffect
  <2> SUFFICES ASSUME NEW e \in Releasers, rel'[e].pc = "tx"
               PROVE  \E s \in refs' : s.id = rel'[e].ref
    BY DEF ReleaseFindsRef
  <2>2. e # d /\ rel'[e] = rel[e]
    BY <2>1 DEF OnlyRelease
  <2>3. PICK s \in refs : s.id = rel[e].ref
    BY <2>2 DEF ExactInv, ReleaseFindsRef
  <2>4. s # r
    BY <1>1, <1>2, <2>2, <2>3 DEF Apart
  <2> QED BY <1>3, <2>2, <2>3, <2>4
<1>6. RefCountExact'
  <2> SUFFICES ASSUME NEW g \in files
               PROVE  refCount'[g] = Cardinality(RefsTo(g)')
    BY <1>1 DEF RefCountExact
  <2>1. refCount[g] = Cardinality(RefsTo(g)) /\ refCount[g] \in Nat
    BY DEF ExactInv, RefCountExact, TypeOK
  <2>2. CASE g = r.file
    <3>1. RefsTo(g)' = RefsTo(g) \ {r} /\ r \in RefsTo(g)
      BY <1>3, <2>2 DEF RefsTo
    <3>2. /\ Cardinality(RefsTo(g)') = Cardinality(RefsTo(g)) - 1
          /\ IsFiniteSet(RefsTo(g) \ {r})
      BY <3>1, RefsToFinite, FS_RemoveElement DEF CountInv
    <3>3. Cardinality(RefsTo(g)') \in Nat
      BY <3>1, <3>2, FS_CardinalityType
    <3> QED BY <1>4, <2>1, <2>2, <3>2, <3>3 DEF Decremented
  <2>3. CASE g # r.file
    <3>1. RefsTo(g)' = RefsTo(g)
      BY <1>3, <2>3 DEF RefsTo
    <3> QED BY <1>4, <2>1, <2>3, <3>1
  <2> QED BY <2>2, <2>3
<1> QED BY <1>5, <1>6 DEF ExactInv

LEMMA ExactNext ==
  TypeInv /\ RowsInv /\ CountInv /\ ExactInv /\ Apart /\ [Next]_vars => ExactInv'
BY CountSteps, ExactKept, ExactGrows, ExactShrinks DEF CountStep, TypeInv

\* ref_count is the number of references, for any number of requests, uploads,
\* sweeps and crashes, unless two releases of one reference overlap.
THEOREM CountsExactApart == Spec /\ []Apart => []RefCountExact
<1>1. Init => ExactInv
  BY ExactInit
<1>2. TypeInv /\ RowsInv /\ CountInv /\ ExactInv /\ Apart /\ [Next]_vars => ExactInv'
  BY ExactNext
<1>3. ExactInv => RefCountExact
  BY DEF ExactInv
<1> QED BY <1>1, <1>2, <1>3, CountAlways, PTL DEF Spec
(* With one request at a time the releases stay apart by themselves: it is   *)
(* asked for references of owners a route still finds, the sweeper only      *)
(* takes those of owners that are gone.                                      *)

OneRequest == \A d, e \in Deleters : d = e

Asked(i) == i < nextRef /\ \A r \in refs : r.id = i => r.owner \in owners

OfLiveOwner(d) ==
  /\ rel[d].pc = "list" => rel[d].owner \in owners
  /\ \A i \in rel[d].todo : Asked(i)
  /\ rel[d].pc = "tx" => Asked(rel[d].ref)

RequestInv == rel[Sweeper].owner = None /\ \A d \in Deleters : OfLiveOwner(d)

LEMMA RequestInit == Init => RequestInv
BY DEF Init, RequestInv, OfLiveOwner, Releasers, IdleRelease

LEMMA StaysApart ==
  ASSUME OneRequest, SweeperInv, RequestInv, ReleaseFindsRef
  PROVE  Apart
<1>1. ASSUME NEW d \in Deleters, rel[d].pc = "tx", rel[Sweeper].pc = "tx",
             rel[d].ref = rel[Sweeper].ref
      PROVE  FALSE
  <2>1. PICK r \in refs : r.id = rel[d].ref
    BY <1>1 DEF ReleaseFindsRef, Releasers
  <2> QED BY <1>1, <2>1 DEF SweeperInv, RequestInv, OfLiveOwner, Gone, Asked
<1> QED BY <1>1 DEF Apart, OneRequest, Releasers

\* An owner disappears only when the one request has finished.
LEMMA OwnersStay ==
  ASSUME TypeInv, OneRequest, RequestInv, [Next]_vars, NEW d \in Deleters
  PROVE  owners' = owners \/ rel'[d] = IdleRelease
<1>0. TypeOK
  BY DEF TypeInv
<1>1. ASSUME NEW e \in Releasers, FinishRelease(e)
      PROVE  owners' = owners \/ rel'[d] = IdleRelease
  <2>1. CASE e = Sweeper
    <3>1. owners' = owners \ {None}
      BY <1>1, <2>1 DEF FinishRelease, RequestInv
    <3> QED BY <1>0, <3>1, Actors DEF TypeOK, Owners
  <2>2. CASE e # Sweeper
    <3>1. e = d
      BY <2>2 DEF OneRequest, Releasers
    <3> QED BY <1>0, <1>1, <3>1 DEF FinishRelease, TypeOK
  <2> QED BY <2>1, <2>2
<1>2. CASE UNCHANGED vars
  BY <1>2 DEF vars
<1>3. CASE \E u \in Uploaders, o \in Owners, c \in Contents : StartUpload(u, o, c)
  BY <1>3 DEF StartUpload
<1>4. ASSUME NEW u \in Uploaders, UploadStep(u) PROVE owners' = owners
  BY <1>4 DEF UploadStep, CheckLimit, BeginUpload, PutBlob, CommitDedupe, CommitNew
<1>5. ASSUME NEW e \in Deleters, StartRelease(e) PROVE owners' = owners
  <2>1. CASE \E r \in refs : StartDeleteAttachment(e, r)
    BY <2>1 DEF StartDeleteAttachment
  <2>2. CASE \E o \in owners : StartDeleteOwner(e, o)
    BY <2>2 DEF StartDeleteOwner
  <2> QED BY <1>5, <2>1, <2>2 DEF StartRelease
<1>6. ASSUME NEW e \in Releasers, ReleaseStep(e), ~FinishRelease(e) PROVE owners' = owners
  <2>1. CASE ReleaseTx(e)
    BY <2>1 DEF ReleaseTx
  <2>2. CASE ~ReleaseTx(e)
    <3>1. CASE ListByOwner(e) \/ SyncDeleteBlob(e) \/ SyncDeleteRow(e)
      BY <3>1 DEF ListByOwner, SyncDeleteBlob, SyncDeleteRow
    <3>2. CASE \E i \in RefIds : ReadReference(e, i)
      BY <3>2 DEF ReadReference
    <3> QED BY <1>6, <2>2, <3>1, <3>2 DEF ReleaseStep
  <2> QED BY <2>1, <2>2
<1>7. CASE SweepStep
  BY <1>7 DEF SweepStep, StartSweep, ListUnreferenced, CollectBlob, CollectRow, FinishSweep
<1>8. CASE Busy \/ (\E u \in Uploaders : UploadFails(u)) \/ Crash
  BY <1>8 DEF Busy, UploadFails, Crash
<1> QED BY <1>1, <1>2, <1>3, <1>4, <1>5, <1>6, <1>7, <1>8, Steps

LEMMA AskedStays ==
  ASSUME TypeInv, [Next]_vars, owners' = owners, NEW i \in Nat, Asked(i)
  PROVE  Asked(i)'
<1>1. nextRef \in Nat
  BY DEF TypeInv, TypeOK
<1>2. /\ nextRef' \in {nextRef, nextRef + 1}
      /\ \A r \in refs' : r \in refs \/ r.id = nextRef
  BY RefsMove
<1> QED BY <1>1, <1>2 DEF Asked

LEMMA RequestKept ==
  ASSUME TypeInv, CountInv, RequestInv, [Next]_vars, NEW d \in Deleters,
         owners' = owners, rel'[d] # IdleRelease
  PROVE  OfLiveOwner(d)'
<1>0. TypeOK /\ d \in Releasers /\ d # Sweeper /\ OfLiveOwner(d)
  BY Actors DEF TypeInv, Releasers, RequestInv
<1>1. \A i \in rel[d].todo : i \in Nat /\ Asked(i)
  BY <1>0, ReleaseRecord DEF OfLiveOwner, RefIds
<1>2. \A i \in rel[d].todo : Asked(i)'
  BY <1>1, AskedStays
<1>3. CASE rel'[d] = rel[d]
  <2>1. ASSUME rel[d].pc = "tx", NEW j, j = rel[d].ref PROVE Asked(j)'
    <3>1. j \in Nat /\ Asked(j)
      BY <1>0, <2>1 DEF OfLiveOwner, TypeOK, Release, RefIds
    <3> QED BY <3>1, AskedStays
  <2> QED BY <1>0, <1>2, <1>3, <2>1 DEF OfLiveOwner, Asked
<1>4. CASE Continues(d)
  BY <1>2, <1>4 DEF Continues, OfLiveOwner, Asked
<1>5. CASE Begins(d)
  <2>1. UNCHANGED <<refs, owners, nextRef>>
    BY <1>5 DEF Begins
  <2>2. \A r \in refs : r.owner \in owners => Asked(r.id)
    BY DEF CountInv, RefIdsInv, Asked
  <2>3. \A i : Asked(i) => Asked(i)'
    BY <2>1 DEF Asked
  <2>4. rel'[d].pc \in {"list", "next"} /\ (rel'[d].pc = "list" => rel'[d].owner \in owners')
    BY <1>0, <1>5, <2>1 DEF Begins
  <2>5. \A i \in rel'[d].todo : \E r \in refs : r.id = i /\ r.owner \in owners
    BY <1>0, <1>5 DEF Begins, RefsOf, OfLiveOwner
  <2> QED BY <2>2, <2>3, <2>4, <2>5 DEF OfLiveOwner
<1> QED BY <1>0, <1>3, <1>4, <1>5, OneMoves

LEMMA RequestNext ==
  TypeInv /\ CountInv /\ OneRequest /\ RequestInv /\ [Next]_vars => RequestInv'
<1> SUFFICES ASSUME TypeInv, CountInv, OneRequest, RequestInv, [Next]_vars
             PROVE  RequestInv'
  OBVIOUS
<1>0. Sweeper \in Releasers /\ Sweeper \notin Deleters
  BY Actors DEF Releasers
<1>1. rel'[Sweeper].owner = None
  <2>1. rel[Sweeper].owner = None
    BY DEF RequestInv
  <2> QED BY <1>0, <2>1, OneMoves DEF Begins, Continues, IdleRelease
<1>2. ASSUME NEW d \in Deleters PROVE OfLiveOwner(d)'
  <2>1. CASE rel'[d] = IdleRelease
    BY <2>1 DEF IdleRelease, OfLiveOwner
  <2>2. CASE rel'[d] # IdleRelease
    BY <2>2, OwnersStay, RequestKept
  <2> QED BY <2>1, <2>2
<1> QED BY <1>1, <1>2 DEF RequestInv

\* One request at a time, with the sweeper, uploads, crashes and DB_BUSY around
\* it: ref_count is exactly the number of references.
THEOREM CountsExactForOne == ASSUME OneRequest PROVE Spec => []RefCountExact
<1>1. Init => SweeperInv /\ RequestInv /\ ExactInv
  BY SweeperInit, RequestInit, ExactInit
<1>2. TypeInv /\ RowsInv /\ CountInv /\ SweeperInv /\ RequestInv /\ ExactInv /\ [Next]_vars
        => SweeperInv' /\ RequestInv' /\ ExactInv'
  BY SweeperNext, RequestNext, ExactNext, StaysApart DEF ExactInv
<1>3. ExactInv => RefCountExact
  BY DEF ExactInv
<1> QED BY <1>1, <1>2, <1>3, CountAlways, PTL DEF Spec
=============================================================================
