---------------------------- MODULE WriteLockProps ----------------------------
(***************************************************************************)
(* What the write lock guarantees to the handlers that write.              *)
(***************************************************************************)
EXTENDS WriteLock

\* SQLite never sees two writers of this process: one task at most is between
\* taking the lock and handing it on.
OneWriter == \A c, d \in Tasks : Owns(c) /\ Owns(d) => c = d

\* The lock is held exactly while somebody owns it or has just been handed it,
\* and nobody waits for a free lock: it is never stranded on a waiter that gave
\* up, with the queue stuck behind.
NeverStranded ==
  /\ held <=> \E c \in Tasks : Owns(c)
  /\ queue # <<>> => held

\* The queue holds exactly the waiting tasks, and each of them has its timer.
QueueIsWaiters ==
  /\ \A c \in Tasks : pc[c] = "queued" <=> \E i \in 1..Len(queue) : queue[i] = c
  /\ timer = {c \in Tasks : pc[c] = "queued"}

\* A write is refused only while the transaction it belongs to owns the lock,
\* so work that outlives its transaction writes normally.
RefusedOnlyInside ==
  [][\A c \in Tasks :
       answer[c] # "refused" /\ answer'[c] = "refused" => Owns(scope[c])]_vars

\* Every write gets its answer, even one awaited by the transaction that blocks it.
EverybodyAnswered == \A c \in Tasks : pc[c] # "idle" ~> pc[c] = "idle"

\* The writers form one line in order of arrival, the owner at its head.
Line == IF held THEN <<CHOOSE c \in Tasks : Owns(c)>> \o queue ELSE <<>>

Fair == INSTANCE FairLock WITH line <- Line

\* The lock implements FairLock: nobody overtakes, and giving up disturbs nobody.
ImplementsFairLock == Fair!FairSpec
==============================================================================
