--------------------------- MODULE EncryptionProps ---------------------------
(***************************************************************************)
(* What init, rotation and unlock must keep true of the files and meta.db. *)
(***************************************************************************)
EXTENDS Encryption

\* A live handle is on app.db as it is now, and its DEK fits: no handle survives
\* the file it was opened on being renamed away.
HandleFits == handle # None => disk["app"].key = handle

\* The server serves requests only from a database that the recorded DEK opens,
\* so no restart can shut out what it acknowledges: changing the master key does
\* not change the DEK.
ServedDekRecorded == handle # None => \E m \in meta : m.dek = handle

\* Nothing but a master change with an outdated DEK breaks that: no order of
\* failures, crashes and stale unlocks around init and rotation does.
ServesRecorded == ~overwritten => ServedDekRecorded

\* Every write acknowledged since init is in a file that the recorded DEK opens,
\* whatever fails or crashes in the middle of a rotation.
RecordedCopy ==
  ~overwritten =>
    \A w \in committed \ {0} : \E p \in Paths, m \in meta :
      disk[p].key = m.dek /\ w \in disk[p].rows

\* No rename or unlink of init and rotation removes the last file with a row.
NothingErased == \A w \in committed : \E p \in Paths : w \in disk[p].rows

\* Unless something failed, app.db holds everything, under the recorded DEK,
\* whenever no operation is running: init migrates what was there before.
QuietlyCurrent ==
  faults = 0 /\ ~busy /\ ~overwritten =>
    \A m \in meta : disk["app"].key = m.dek /\ committed \subseteq disk["app"].rows

\* The recorded DEK opens app.db whenever no operation is running: a rotation
\* that fails is undone or carried through.
RecordedDekOpens ==
  ~busy /\ ~overwritten => \A m \in meta : disk["app"].key \in {None, m.dek}

\* The operation latch is always released.
EveryOperationEnds == busy ~> ~busy
==============================================================================
