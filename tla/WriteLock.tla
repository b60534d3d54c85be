------------------------------ MODULE WriteLock ------------------------------
(***************************************************************************)
(* The in-process lock that serialises database writes (class WriteLock,   *)
(* gateWrites, and the `transaction` of the handle it returns).            *)
(*                                                                         *)
(* A task is a piece of asynchronous work that writes: one statement (or   *)
(* batch) or one transaction at a time.  A transaction's body may start    *)
(* other tasks; they inherit its async context, in which the outer handle  *)
(* refuses writes for as long as the transaction is open.                  *)
(* A step is what runs between two awaits.  Reads do not appear.           *)
(***************************************************************************)
EXTENDS Naturals, Sequences

CONSTANTS
  Tasks,
  None    \* no task

ASSUME NoneIsNoTask == None \notin Tasks

Kinds   == {"statement", "transaction"}
Answers == {"none", "done", "busy", "refused"}

VARIABLES
  held,    \* WriteLock.#held
  queue,   \* WriteLock.#queue, each entry standing for its task's `turn`
  timer,   \* tasks whose wait timer is armed
  pc,      \* where each task is
  kind,    \* what it writes
  scope,   \* the open transaction whose async context it runs in
  awaits,  \* the task a transaction body is waiting for
  answer   \* outcome of its last write

vars == <<held, queue, timer, pc, kind, scope, awaits, answer>>

TypeOK ==
  /\ held \in BOOLEAN
  /\ queue \in Seq(Tasks)
  /\ \A i, j \in 1..Len(queue) : queue[i] = queue[j] => i = j
  /\ timer \subseteq Tasks
  /\ pc \in [Tasks -> {"idle", "queued", "granted", "running", "leaving"}]
  /\ kind \in [Tasks -> Kinds]
  /\ scope \in [Tasks -> Tasks \cup {None}]
  /\ awaits \in [Tasks -> Tasks \cup {None}]
  /\ answer \in [Tasks -> Answers]

Init ==
  /\ held = FALSE
  /\ queue = <<>>
  /\ timer = {}
  /\ pc = [c \in Tasks |-> "idle"]
  /\ kind = [c \in Tasks |-> "statement"]
  /\ scope = [c \in Tasks |-> None]
  /\ awaits = [c \in Tasks |-> None]
  /\ answer = [c \in Tasks |-> "none"]

Owns(c) == pc[c] \in {"granted", "running", "leaving"}

\* A transaction body that is executing, and not waiting for another task.
InBody(t) == pc[t] = "running" /\ kind[t] = "transaction" /\ awaits[t] = None

----------------------------------------------------------------------------
(* WriteLock *)

Without(s, i) == SubSeq(s, 1, i - 1) \o SubSeq(s, i + 1, Len(s))

\* The queue without a task that gave up.
StillQueued(c) == queue
WithoutLast(c) == IF queue = <<>> THEN <<>> ELSE SubSeq(queue, 1, Len(queue) - 1)
LeavesQueue(c) == LET i == CHOOSE n \in 1..Len(queue) : queue[n] = c
                  IN  Without(queue, i)

\* A queued task arms a timer.
NoTimer(c)  == timer
ArmTimer(c) == timer \cup {c}

\* run, up to its first await.
Enter(c) ==
  IF held
  THEN /\ queue' = Append(queue, c)
       /\ timer' = ArmTimer(c)
       /\ pc' = [pc EXCEPT ![c] = "queued"]
       /\ UNCHANGED held
  ELSE /\ held' = TRUE
       /\ pc' = [pc EXCEPT ![c] = "running"]
       /\ UNCHANGED <<queue, timer>>

\* Its promise resolved: run goes on and calls fn.
Resume(c) ==
  /\ pc[c] = "granted"
  /\ held' = TRUE
  /\ pc' = [pc EXCEPT ![c] = "running"]
  /\ UNCHANGED <<queue, timer, kind, scope, awaits, answer>>

\* Whoever waits for a task goes on once the task has its answer.
Answered(c) == awaits' = [t \in Tasks |-> IF awaits[t] = c THEN None ELSE awaits[t]]

\* turn resolves the wait of the next task; a settled promise stays as it is.
Turn(c) == IF pc[c] = "queued" THEN "granted" ELSE pc[c]

\* run's finally: the lock goes to the next waiter, or is free.
LastInFirstOut(c) ==
  IF queue = <<>>
  THEN held' = FALSE /\ pc' = [pc EXCEPT ![c] = "idle"] /\ UNCHANGED <<queue, timer>>
  ELSE LET next == queue[Len(queue)] IN
       /\ pc' = [pc EXCEPT ![c] = "idle", ![next] = Turn(next)]
       /\ queue' = SubSeq(queue, 1, Len(queue) - 1)
       /\ timer' = timer \ {next}
       /\ UNCHANGED held
FreedAndHandedOver(c) ==
  /\ held' = FALSE
  /\ IF queue = <<>>
     THEN pc' = [pc EXCEPT ![c] = "idle"] /\ UNCHANGED <<queue, timer>>
     ELSE /\ pc' = [pc EXCEPT ![c] = "idle", ![Head(queue)] = Turn(Head(queue))]
          /\ queue' = Tail(queue)
          /\ timer' = timer \ {Head(queue)}
HandOver(c) ==
  IF queue = <<>>
  THEN held' = FALSE /\ pc' = [pc EXCEPT ![c] = "idle"] /\ UNCHANGED <<queue, timer>>
  ELSE /\ pc' = [pc EXCEPT ![c] = "idle", ![Head(queue)] = Turn(Head(queue))]
       /\ queue' = Tail(queue)
       /\ timer' = timer \ {Head(queue)}
       /\ UNCHANGED held

Release(c) ==
  /\ pc[c] = "leaving"
  /\ HandOver(c)
  /\ answer' = [answer EXCEPT ![c] = "done"]
  /\ Answered(c)
  /\ UNCHANGED <<kind, scope>>

\* The wait timer fires: 503 DB_BUSY.
TimeOut(c) ==
  /\ c \in timer
  /\ queue' = LeavesQueue(c)
  /\ timer' = timer \ {c}
  /\ pc' = [pc EXCEPT ![c] = "idle"]
  /\ answer' = [answer EXCEPT ![c] = "busy"]
  /\ Answered(c)
  /\ UNCHANGED <<held, kind, scope>>

----------------------------------------------------------------------------
(* The gated handle *)

\* inOpenTransaction
InOpenTransaction(c) == scope[c] # None

\* execute of a definite write, batch, executeMultiple, migrate.
Write(c) ==
  /\ pc[c] = "idle"
  /\ IF InOpenTransaction(c)
     THEN /\ answer' = [answer EXCEPT ![c] = "refused"]
          /\ UNCHANGED <<held, queue, timer, pc, kind>>
     ELSE /\ kind' = [kind EXCEPT ![c] = "statement"]
          /\ answer' = [answer EXCEPT ![c] = "none"]
          /\ Enter(c)
  /\ UNCHANGED <<scope, awaits>>

\* transaction, which is not refused inside another one.
Transaction(c) ==
  /\ pc[c] = "idle"
  /\ kind' = [kind EXCEPT ![c] = "transaction"]
  /\ answer' = [answer EXCEPT ![c] = "none"]
  /\ Enter(c)
  /\ UNCHANGED <<scope, awaits>>

\* A transaction body starts work it does not await ...
Spawn(t, c) ==
  /\ InBody(t)
  /\ pc[c] = "idle"
  /\ c # t
  /\ scope[c] = None
  /\ scope' = [scope EXCEPT ![c] = t]
  /\ UNCHANGED <<held, queue, timer, pc, kind, awaits, answer>>

\* ... or awaits a transaction on the outer handle.
NestedTransaction(t, c) ==
  /\ InBody(t)
  /\ pc[c] = "idle"
  /\ c # t
  /\ scope[c] \in {None, t}
  /\ scope' = [scope EXCEPT ![c] = t]
  /\ awaits' = [awaits EXCEPT ![t] = c]
  /\ kind' = [kind EXCEPT ![c] = "transaction"]
  /\ answer' = [answer EXCEPT ![c] = "none"]
  /\ Enter(c)

\* The statement returns, or the transaction commits or rolls back; its scope
\* is closed before the lock is released.
ScopeStaysOpen(c) == scope
CloseScope(c) == [d \in Tasks |-> IF scope[d] = c THEN None ELSE scope[d]]

End(c) ==
  /\ pc[c] = "running"
  /\ awaits[c] = None
  /\ pc' = [pc EXCEPT ![c] = "leaving"]
  /\ scope' = CloseScope(c)
  /\ UNCHANGED <<held, queue, timer, kind, awaits, answer>>

----------------------------------------------------------------------------

Next ==
  \/ \E c \in Tasks : Write(c) \/ Transaction(c)
  \/ \E t, c \in Tasks : Spawn(t, c) \/ NestedTransaction(t, c)
  \/ \E c \in Tasks : Resume(c) \/ End(c) \/ Release(c) \/ TimeOut(c)

Spec == Init /\ [][Next]_vars

(* Promises settle, statements return, transaction bodies that wait for    *)
(* nobody end, and timers fire.  Nobody has to write.                      *)
Fairness ==
  \A c \in Tasks :
    WF_vars(Resume(c)) /\ WF_vars(Release(c)) /\ WF_vars(TimeOut(c)) /\ SF_vars(End(c))

FairSpec == Spec /\ Fairness
==============================================================================
