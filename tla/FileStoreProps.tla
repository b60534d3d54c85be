--------------------------- MODULE FileStoreProps ---------------------------
(***************************************************************************)
(* What the file module promises, over the state machine of FileStore.     *)
(***************************************************************************)
EXTENDS FileStore

\* Every attachment names a `files` row that exists, whatever the sweeper, the
\* sync delete and the uploads that dedupe onto that row do in between.
NoDanglingReference == \A r \in refs : r.file \in files

\* ref_count never exceeds the number of references: a file nothing refers to
\* always shows up in the sweeper's `ref_count = 0` listing.  It must survive
\* rolled-back duplicates, crashes and two requests releasing one reference.
NeverOvercounted == \A f \in files : refCount[f] <= Cardinality(RefsTo(f))

\* ref_count is the number of references, as the schema says it is.
RefCountExact == \A f \in files : refCount[f] = Cardinality(RefsTo(f))

\* The attachment count is read before the transaction, so concurrent uploads
\* may exceed the limit, but only by one each, and never by sitting in a queue
\* while others are refused.
OverrunBounded ==
  \A o \in Owners :
    Cardinality(RefsOf(o)) <= MaxAttachments + Cardinality(Uploaders) - 1

\* Unless something failed, a stored object always has a row that leads to it,
\* except while the upload that wrote it is still in its transaction.
NoOrphanBlob ==
  faults = 0 =>
    \A c \in blobs :
      \/ RowsOf(c) # {}
      \/ \E u \in Uploaders : lock = u /\ up[u].pc = "commit" /\ up[u].content = c

\* A content has one row at most: the upload that inserts it has looked it up
\* under the same lock.
OneRowPerContent == \A f, g \in files : sha[f] = sha[g] => f = g

\* Whoever downloads an attachment finds its bytes.
LiveBlobPresent == \A r \in refs : sha[r.file] \in blobs

\* A reference disappears only because a request asked for it or because its
\* comment is gone: the sweep never releases an attachment of a live owner.
OnlyAskedOrOrphaned ==
  [][\A r \in refs \ refs' :
       \/ r.owner \in Comments \ owners
       \/ \E d \in Deleters : rel[d].pc = "tx" /\ rel[d].ref = r.id]_vars

\* In async mode a file that nothing refers to is collected, or referred to again.
EventuallyCollected ==
  \A f \in FileIds :
    f \in files /\ RefsTo(f) = {} ~> f \notin files \/ RefsTo(f) # {}

\* In async mode an attachment whose comment is gone is released, even when it
\* was uploaded while the comment was being deleted.
OrphansReleased ==
  \A i \in RefIds : (\E r \in refs : r.id = i /\ r.owner \in Comments \ owners) ~> (\A r \in refs : r.id # i)
==============================================================================
