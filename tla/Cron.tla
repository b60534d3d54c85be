--------------------------------- MODULE Cron ---------------------------------
(***************************************************************************)
(* The cron scheduler in its process: the `cron_jobs` and `cron_job_logs`  *)
(* rows, the in-process timers (cronbake, external), the runs, the admin   *)
(* routes that change jobs, the hot swap of the database handle, and the   *)
(* ordered shutdown of index.ts.                                           *)
(*                                                                         *)
(* A step is what runs between two awaits.  A statement on a handle that   *)
(* was closed fails; on an open one a write may fail with DB_BUSY, a read  *)
(* does not fail.                                                          *)
(*                                                                         *)
(* The two background sweeps are here for the shutdown, which waits for    *)
(* them: a sweep runs or not, and may take for ever (its blob driver may). *)
(*                                                                         *)
(* Left out: cron expressions and action configurations, the listing       *)
(* routes, audit events, the 1000-row cap of log-cleanup; the runs that    *)
(* `runOnStartup` would start outside of `inFlight` (no action of the      *)
(* repository sets it); the lode watcher, whose stop awaits nothing.  One  *)
(* process at a time: the PID lock, which is taken after startCron has     *)
(* reaped, is not modelled.                                                *)
(***************************************************************************)
EXTENDS Naturals, FiniteSets

CONSTANTS
  Name,      \* job names
  Default,   \* names seeded at start: log-cleanup
  Janitor,   \* names of jobs that run soft-delete-cleanup
  Admin,     \* admin requests in flight
  Runner,    \* runs in flight, scheduled or triggered
  Sweeps,    \* the background sweeps that are configured
  None,      \* no row, no timer, no scheduler
  Threshold, \* maxConsecutiveFailures
  CronModes, \* values CRON_ENABLED may have at a start
  MaxId, MaxLog, MaxOpen, MaxBoot, MaxFaults \* bounds on ids, logs, handles, starts, faults

ASSUME Parameters ==
  /\ Default \subseteq Name
  /\ \A m, n \in Default : m = n  \* one action has a defaultCron
  /\ Janitor \subseteq Name
  /\ Sweeps \subseteq {"audit-retention", "file-gc"}
  /\ Threshold \in Nat
  /\ CronModes \subseteq BOOLEAN
  /\ MaxId \in Nat /\ MaxLog \in Nat /\ MaxOpen \in Nat /\ MaxBoot \in Nat /\ MaxFaults \in Nat
  /\ None \notin Nat
  /\ None \notin [id : Nat, enabled : BOOLEAN, deleted : BOOLEAN]
  /\ None \notin [id : Nat, handle : Nat, paused : BOOLEAN]

VARIABLES
  job,      \* the cron_jobs row of a name (the name is unique, deleted rows included), or None
  logs,     \* the cron_job_logs rows
  ids,      \* cron_jobs ids handed out
  started,  \* cron_job_logs rows inserted so far
  phase,    \* of the process
  boot,     \* number of this process
  faults,   \* statements and actions that failed by themselves, and crashes
  handle,   \* number of the live database handle in its process
  sched,    \* the handle startCron closed over, or None while no scheduler runs
  timer,    \* the timer of a name and the row and handle its callback closed over, or None
  run,      \* the runs
  adm,      \* the admin requests
  sweeping, \* the sweeps in progress
  draining, \* runs stopCron waits for
  hurried,  \* history: a fatal error or a deadline cut the shutdown short
  stranded, \* history: logs that could not be finalised, by this process
  reaped,   \* history: this process reaped the logs of earlier ones
  raced     \* history: names on which two changes overlapped in this process

rows  == <<job, logs, ids, started>>
ghost == <<hurried, stranded, reaped, raced>>
vars  == <<rows, phase, boot, faults, handle, sched, timer, run, adm, sweeping, draining, ghost>>

NoRun   == [pc |-> "idle"]
NoAdmin == [pc |-> "idle"]

Live(n)    == job[n] # None /\ ~job[n].deleted
Ticking(n) == timer[n] # None /\ ~timer[n].paused
Open(h)    == h = handle /\ phase \notin {"closed", "down"}
InFlight   == {r \in Runner : run[r].pc # "idle"}
Changing(n) ==
  \/ \E a \in Admin : adm[a].pc # "idle" /\ adm[a].name = n
  \/ \E r \in Runner : run[r].pc \in {"pausing", "detaching"} /\ run[r].name = n

\* A statement fails for free on a closed handle; on an open one it is a fault.
Fault    == faults < MaxFaults /\ faults' = faults + 1
Fails(h) == IF Open(h) THEN Fault ELSE UNCHANGED faults

\* HTTP requests in flight: admin changes and manual runs.
Quiet ==
  /\ \A a \in Admin : adm[a].pc = "idle"
  /\ \A r \in InFlight : ~run[r].manual

Init ==
  /\ job = [n \in Name |-> None]
  /\ logs = {}
  /\ ids = 0
  /\ started = 0
  /\ phase = "down"
  /\ boot = 0
  /\ faults = 0
  /\ handle = 0
  /\ sched = None
  /\ timer = [n \in Name |-> None]
  /\ run = [r \in Runner |-> NoRun]
  /\ adm = [a \in Admin |-> NoAdmin]
  /\ sweeping = {}
  /\ draining = {}
  /\ hurried = FALSE
  /\ stranded = {}
  /\ reaped = FALSE
  /\ raced = {}

-----------------------------------------------------------------------------
(* startCron, in a new process *)

\* Mutant: the start does not reap.
NotReaped(ls) == ls

\* A process that died in the middle of a run left the log running.
Reaped(ls) == {[l EXCEPT !.status = IF @ = "running" THEN "failed" ELSE @] : l \in ls}

\* ensureDefaultJobs: a row that was deleted but not purged keeps the name taken.
Seeds == {n \in Default : job[n] = None}

\* The reap and the seeding may each fail; startCron logs it and goes on.
StartCron(on, reap, seed) ==
  LET new == IF on /\ seed THEN Seeds ELSE {}
      row(n) == IF n \in new THEN [id |-> ids + 1, enabled |-> TRUE, deleted |-> FALSE] ELSE job[n]
  IN  /\ job' = [n \in Name |-> row(n)]
      /\ ids' = IF new = {} THEN ids ELSE ids + 1
      /\ logs' = IF on /\ reap THEN Reaped(logs) ELSE logs
      /\ sched' = IF on THEN 0 ELSE None
      /\ timer' = [n \in Name |->
                     IF on /\ row(n) # None /\ row(n).enabled /\ ~row(n).deleted
                       THEN [id |-> row(n).id, handle |-> 0, paused |-> FALSE]
                       ELSE None]
      /\ reaped' = (on /\ reap)

Boot ==
  /\ phase = "down"
  /\ boot < MaxBoot
  /\ \E on \in CronModes, reap, seed \in BOOLEAN :
       /\ on \/ (reap /\ seed)
       /\ StartCron(on, reap, seed)
       /\ IF reap /\ seed THEN UNCHANGED faults ELSE Fault
  /\ phase' = "up"
  /\ boot' = boot + 1
  /\ UNCHANGED <<started, handle, run, adm, sweeping, draining, hurried, stranded, raced>>

\* A DEK rotation opens a new handle and closes the previous one.  buildFullApp
\* calls startCron with the new one, which is a no-op while a scheduler runs.
HotSwap ==
  /\ phase = "up"
  /\ boot + handle < MaxOpen
  /\ handle' = handle + 1
  /\ UNCHANGED <<rows, phase, boot, faults, sched, timer, run, adm, sweeping, draining, ghost>>

-----------------------------------------------------------------------------
(* executeTask *)

Begin(r, n, id, h, manual) ==
  run' = [run EXCEPT ![r] =
            [pc |-> "inserting", name |-> n, id |-> id, handle |-> h, log |-> 0,
             manual |-> manual, timed |-> ~manual]]

\* The timer fires; overrunProtection skips a tick while its own run executes.
Tick(r, n) ==
  /\ phase \notin {"closed", "down"}
  /\ started < MaxLog
  /\ run[r] = NoRun
  /\ Ticking(n)
  /\ \A q \in InFlight : ~(run[q].name = n /\ run[q].timed)
  /\ Begin(r, n, timer[n].id, timer[n].handle, FALSE)
  /\ UNCHANGED <<rows, phase, boot, faults, handle, sched, timer, adm, sweeping, draining, ghost>>

\* The trigger route: any live job, whether or not it is running already.
Trigger(r, n) ==
  /\ phase = "up"
  /\ started < MaxLog
  /\ run[r] = NoRun
  /\ Live(n)
  /\ Begin(r, n, job[n].id, handle, TRUE)
  /\ UNCHANGED <<rows, phase, boot, faults, handle, sched, timer, adm, sweeping, draining, ghost>>

Goto(r, pc) == run' = [run EXCEPT ![r].pc = pc] /\ UNCHANGED draining

\* The promise settles: awaitInFlightJobs no longer waits for it.
Finish(r) == run' = [run EXCEPT ![r] = NoRun] /\ draining' = draining \ {r}

Exists(id) == \E n \in Name : job[n] # None /\ job[n].id = id

\* The log row references the job, so a purged job cannot be logged.
InsertLog(r) ==
  /\ run[r].pc = "inserting"
  /\ Open(run[r].handle)
  /\ Exists(run[r].id)
  /\ logs' = logs \cup {[at |-> started + 1, job |-> run[r].id, status |-> "running", boot |-> boot]}
  /\ started' = started + 1
  /\ run' = [run EXCEPT ![r].pc = "executing", ![r].log = started + 1]
  /\ UNCHANGED <<job, ids, phase, boot, faults, handle, sched, timer, adm, sweeping, draining, ghost>>

\* Outside of any try: the promise rejects and nothing is logged.
InsertLogFails(r) ==
  /\ run[r].pc = "inserting"
  /\ IF Exists(run[r].id) THEN Fails(run[r].handle) ELSE UNCHANGED faults
  /\ Finish(r)
  /\ UNCHANGED <<rows, phase, boot, handle, sched, timer, adm, sweeping, ghost>>

\* soft-delete-cleanup purges the deleted jobs; the foreign key takes their logs.
Purged(deleted) == [n \in Name |-> IF n \in deleted THEN None ELSE job[n]]

\* log-cleanup purges the logs of deleted jobs.
Trimmed(deleted) == {l \in logs : \A n \in deleted : l.job # job[n].id}

\* The action succeeds.
Work(r) ==
  LET deleted == {n \in Name : job[n] # None /\ job[n].deleted}
      purges  == run[r].name \in Janitor
      trims   == run[r].name \in Janitor \cup Default
  IN  /\ run[r].pc = "executing"
      /\ trims => Open(run[r].handle)
      /\ job' = IF purges THEN Purged(deleted) ELSE job
      /\ logs' = IF trims THEN Trimmed(deleted) ELSE logs
      /\ Goto(r, "succeeding")
      /\ UNCHANGED <<ids, started, phase, boot, faults, handle, sched, timer, adm, sweeping, ghost>>

WorkFails(r) ==
  /\ run[r].pc = "executing"
  /\ Fault \/ (~Open(run[r].handle) /\ UNCHANGED faults)
  /\ Goto(r, "failing")
  /\ UNCHANGED <<rows, phase, boot, handle, sched, timer, adm, sweeping, ghost>>

Finalised(at, status) == {[l EXCEPT !.status = IF l.at = at THEN status ELSE @] : l \in logs}

LogSuccess(r) ==
  /\ run[r].pc = "succeeding"
  /\ Open(run[r].handle)
  /\ logs' = Finalised(run[r].log, "success")
  /\ Finish(r)
  /\ UNCHANGED <<job, ids, started, phase, boot, faults, handle, sched, timer, adm, sweeping, ghost>>

\* The failed update lands in the same catch as a failed action.
LogSuccessFails(r) ==
  /\ run[r].pc = "succeeding"
  /\ Fails(run[r].handle)
  /\ Goto(r, "failing")
  /\ UNCHANGED <<rows, phase, boot, handle, sched, timer, adm, sweeping, ghost>>

LogFailure(r) ==
  /\ run[r].pc = "failing"
  /\ Open(run[r].handle)
  /\ logs' = Finalised(run[r].log, "failed")
  /\ Goto(r, "judging")
  /\ UNCHANGED <<job, ids, started, phase, boot, faults, handle, sched, timer, adm, sweeping, ghost>>

\* The catch itself throws: the row stays running.
LogFailureFails(r) ==
  /\ run[r].pc = "failing"
  /\ Fails(run[r].handle)
  /\ Finish(r)
  /\ stranded' = stranded \cup {run[r].log}
  /\ UNCHANGED <<rows, phase, boot, handle, sched, timer, adm, sweeping, hurried, reaped, raced>>

\* maybeAutoPause: the latest `Threshold` finished runs all failed.
Finished(id) == {l \in logs : l.job = id /\ l.status # "running"}
Latest(id) == {l \in Finished(id) : Cardinality({m \in Finished(id) : m.at > l.at}) < Threshold}
Streak(id) ==
  /\ Threshold > 0
  /\ Cardinality(Latest(id)) = Threshold
  /\ \A l \in Latest(id) : l.status = "failed"

\* A read on a closed handle throws, which the caller catches.
Judge(r) ==
  /\ run[r].pc = "judging"
  /\ IF Open(run[r].handle) /\ Streak(run[r].id)
       THEN /\ Goto(r, "pausing")
            /\ raced' = IF Changing(run[r].name) THEN raced \cup {run[r].name} ELSE raced
       ELSE Finish(r) /\ UNCHANGED raced
  /\ UNCHANGED <<rows, phase, boot, faults, handle, sched, timer, adm, sweeping, hurried, stranded, reaped>>

AutoPause(r) ==
  /\ run[r].pc = "pausing"
  /\ Open(run[r].handle)
  /\ job' = [n \in Name |-> IF job[n] # None /\ job[n].id = run[r].id
                              THEN [job[n] EXCEPT !.enabled = FALSE] ELSE job[n]]
  /\ Goto(r, "detaching")
  /\ UNCHANGED <<logs, ids, started, phase, boot, faults, handle, sched, timer, adm, sweeping, ghost>>

AutoPauseFails(r) ==
  /\ run[r].pc = "pausing"
  /\ Fails(run[r].handle)
  /\ Finish(r)
  /\ UNCHANGED <<rows, phase, boot, handle, sched, timer, adm, sweeping, ghost>>

\* Mutant: the timer goes on.
StillTicking(n) == timer

\* onAutoPause: the timer is found by name.
Paused(n) == [timer EXCEPT ![n] = IF @ = None THEN None ELSE [@ EXCEPT !.paused = TRUE]]

DetachPaused(r) ==
  /\ run[r].pc = "detaching"
  /\ timer' = Paused(run[r].name)
  /\ Finish(r)
  /\ UNCHANGED <<rows, phase, boot, faults, handle, sched, adm, sweeping, ghost>>

-----------------------------------------------------------------------------
(* The admin routes *)

Accepting == phase = "up"

\* Each route first looks the live job up; only `create` wants none.
Request(a, op, n) ==
  /\ Accepting
  /\ adm[a] = NoAdmin
  /\ IF op = "create" THEN ~Live(n) /\ ids < MaxId ELSE Live(n)
  /\ adm' = [adm EXCEPT ![a] =
               [pc |-> IF op = "create" THEN "insert" ELSE "update", op |-> op, name |-> n,
                id |-> IF op = "create" THEN 0 ELSE job[n].id, handle |-> handle, new |-> None]]
  /\ raced' = IF Changing(n) THEN raced \cup {n} ELSE raced
  /\ UNCHANGED <<rows, phase, boot, faults, handle, sched, timer, run, sweeping, draining, hurried, stranded, reaped>>

\* The name is unique over deleted rows as well.
InsertJob(a) ==
  LET n == adm[a].name
  IN  /\ adm[a].pc = "insert"
      /\ Open(adm[a].handle)
      /\ job[n] = None
      /\ job' = [job EXCEPT ![n] = [id |-> ids + 1, enabled |-> TRUE, deleted |-> FALSE]]
      /\ ids' = ids + 1
      /\ adm' = [adm EXCEPT ![a].pc = "sync"]
      /\ UNCHANGED <<logs, started, phase, boot, faults, handle, sched, timer, run, sweeping, draining, ghost>>

Updated(op, r) ==
  CASE op = "delete" -> [r EXCEPT !.deleted = TRUE, !.enabled = FALSE]
    [] op = "pause"  -> [r EXCEPT !.enabled = FALSE]
    [] op = "resume" -> [r EXCEPT !.enabled = TRUE]

\* By id, whether or not the row was deleted meanwhile.
UpdateJob(a) ==
  LET n == adm[a].name
  IN  /\ adm[a].pc = "update"
      /\ Open(adm[a].handle)
      /\ job' = [job EXCEPT ![n] = IF @ # None /\ @.id = adm[a].id THEN Updated(adm[a].op, @) ELSE @]
      /\ adm' = [adm EXCEPT ![a].pc = IF adm[a].op = "resume" THEN "sync" ELSE "detach"]
      /\ UNCHANGED <<logs, ids, started, phase, boot, faults, handle, sched, timer, run, sweeping, draining, ghost>>

\* DB_BUSY, a closed handle, a name that is taken: the request answers an error.
WriteFails(a) ==
  /\ adm[a].pc \in {"insert", "update"}
  /\ IF adm[a].pc = "insert" /\ job[adm[a].name] # None THEN UNCHANGED faults ELSE Fails(adm[a].handle)
  /\ adm' = [adm EXCEPT ![a] = NoAdmin]
  /\ UNCHANGED <<rows, phase, boot, handle, sched, timer, run, sweeping, draining, ghost>>

\* A timer that is removed forgets the run it started.
Orphaned(n) ==
  [r \in Runner |-> IF run[r].pc # "idle" /\ run[r].name = n THEN [run[r] EXCEPT !.timed = FALSE] ELSE run[r]]

\* syncJobInternal: the timer goes, then the row is read with the scheduler's own
\* handle; on a closed one the read throws and the timer stays away.
RemoveTimer(n) == [timer EXCEPT ![n] = None]

SyncRemove(a) ==
  LET n == adm[a].name
  IN  /\ adm[a].pc = "sync"
      /\ IF sched = None
           THEN UNCHANGED <<timer, run>> /\ adm' = [adm EXCEPT ![a] = NoAdmin]
           ELSE /\ timer' = RemoveTimer(n)
                /\ run' = Orphaned(n)
                /\ adm' = [adm EXCEPT ![a] =
                             IF Open(sched) /\ Live(n) /\ job[n].enabled
                               THEN [@ EXCEPT !.pc = "add", !.new = [id |-> job[n].id, handle |-> sched, paused |-> FALSE]]
                               ELSE NoAdmin]
      /\ UNCHANGED <<rows, phase, boot, faults, handle, sched, sweeping, draining, ghost>>

\* registerJob and bake.  cronbake may refuse or replace a name it has already.
SyncAdd(a) ==
  LET n == adm[a].name
  IN  /\ adm[a].pc = "add"
      /\ \/ timer' = [timer EXCEPT ![n] = adm[a].new] /\ run' = Orphaned(n)
         \/ timer[n] # None /\ UNCHANGED <<timer, run>>
      /\ adm' = [adm EXCEPT ![a] = NoAdmin]
      /\ UNCHANGED <<rows, phase, boot, faults, handle, sched, sweeping, draining, ghost>>

\* The end of delete and pause.
Detach(a) ==
  LET n == adm[a].name
  IN  /\ adm[a].pc = "detach"
      /\ timer' = IF adm[a].op = "delete" THEN RemoveTimer(n) ELSE Paused(n)
      /\ run' = IF adm[a].op = "delete" THEN Orphaned(n) ELSE run
      /\ adm' = [adm EXCEPT ![a] = NoAdmin]
      /\ UNCHANGED <<rows, phase, boot, faults, handle, sched, sweeping, draining, ghost>>

-----------------------------------------------------------------------------
(* The sweeps *)

\* The timer of a sweep ticks until the shutdown stops it.
Scheduled(s) == phase \in {"up", "http"} \/ (s = "file-gc" /\ phase = "retention")

\* Runs of one sweep never overlap.
StartSweep(s) ==
  /\ Scheduled(s)
  /\ s \notin sweeping
  /\ sweeping' = sweeping \cup {s}
  /\ UNCHANGED <<rows, phase, boot, faults, handle, sched, timer, run, adm, draining, ghost>>

EndSweep(s) ==
  /\ s \in sweeping
  /\ sweeping' = sweeping \ {s}
  /\ UNCHANGED <<rows, phase, boot, faults, handle, sched, timer, run, adm, draining, ghost>>

-----------------------------------------------------------------------------
(* closeServices *)

\* SIGTERM or SIGINT: stop accepting and drain; a fatal error does not wait.
Signal(fatal) ==
  /\ phase = "up"
  /\ phase' = "http"
  /\ hurried' = fatal
  /\ IF fatal THEN Fault ELSE UNCHANGED faults
  /\ UNCHANGED <<rows, boot, handle, sched, timer, run, adm, sweeping, draining, stranded, reaped, raced>>

\* drainHttpServer gives up after 25 s; the handlers it abandons keep running.
HttpDeadline ==
  /\ phase = "http"
  /\ ~Quiet
  /\ hurried' = TRUE
  /\ UNCHANGED <<rows, phase, boot, faults, handle, sched, timer, run, adm, sweeping, draining, stranded, reaped, raced>>

\* The server has stopped: the sweeps are next.
StopHttp ==
  /\ phase = "http"
  /\ Quiet \/ hurried
  /\ phase' = "retention"
  /\ UNCHANGED <<rows, boot, faults, handle, sched, timer, run, adm, sweeping, draining, ghost>>

\* The audit sweep is stopped; one in progress is waited for, with no deadline, a
\* fatal error or not.
StopRetention ==
  /\ phase = "retention"
  /\ "audit-retention" \notin sweeping
  /\ phase' = "filegc"
  /\ UNCHANGED <<rows, boot, faults, handle, sched, timer, run, adm, sweeping, draining, ghost>>

\* Mutant: only the runs that a registered timer knows of.
TimedOnly == IF sched = None THEN {} ELSE {r \in InFlight : run[r].timed}

\* The snapshot of awaitInFlightJobs.
ToDrain == IF sched = None THEN {} ELSE InFlight

\* The file GC sweep has been waited for in the same way.  stopCron detaches the
\* timers, then waits for the runs in flight.
Detached == [n \in Name |-> None]

StopCron ==
  /\ phase = "filegc"
  /\ "file-gc" \notin sweeping
  /\ timer' = IF sched = None THEN timer ELSE Detached
  /\ draining' = ToDrain
  /\ phase' = "drain"
  /\ UNCHANGED <<rows, boot, faults, handle, sched, run, adm, sweeping, ghost>>

Drained ==
  /\ phase = "drain"
  /\ draining = {}
  /\ phase' = "flush"
  /\ sched' = None
  /\ UNCHANGED <<rows, boot, faults, handle, timer, run, adm, sweeping, draining, ghost>>

\* Mutant: the limit only counts once nothing is left.
DeadlineWhenDrained ==
  /\ phase = "drain"
  /\ draining = {}
  /\ hurried' = TRUE
  /\ UNCHANGED <<rows, phase, boot, faults, handle, sched, timer, run, adm, sweeping, draining, stranded, reaped, raced>>

\* awaitInFlightJobs waits 20 s at most.
DrainDeadline ==
  /\ phase = "drain"
  /\ draining # {}
  /\ draining' = {}
  /\ hurried' = TRUE
  /\ UNCHANGED <<rows, phase, boot, faults, handle, sched, timer, run, adm, sweeping, stranded, reaped, raced>>

CloseDb ==
  /\ phase = "flush"
  /\ phase' = "closed"
  /\ UNCHANGED <<rows, boot, faults, handle, sched, timer, run, adm, sweeping, draining, ghost>>

\* What the process held in memory is gone.
Gone ==
  /\ phase' = "down"
  /\ sched' = None
  /\ timer' = [n \in Name |-> None]
  /\ run' = [r \in Runner |-> NoRun]
  /\ adm' = [a \in Admin |-> NoAdmin]
  /\ sweeping' = {}
  /\ draining' = {}
  /\ handle' = 0
  /\ hurried' = FALSE
  /\ stranded' = {}
  /\ reaped' = FALSE
  /\ raced' = {}
  /\ UNCHANGED <<rows, boot>>

Exit  == phase = "closed" /\ Gone /\ UNCHANGED faults
Crash == phase # "down" /\ Fault /\ Gone

-----------------------------------------------------------------------------

RunStep(r) ==
  \/ InsertLog(r) \/ InsertLogFails(r) \/ Work(r) \/ WorkFails(r) \/ LogSuccess(r) \/ LogSuccessFails(r)
  \/ LogFailure(r) \/ LogFailureFails(r) \/ Judge(r) \/ AutoPause(r) \/ AutoPauseFails(r) \/ DetachPaused(r)

AdminStep(a) ==
  InsertJob(a) \/ UpdateJob(a) \/ WriteFails(a) \/ SyncRemove(a) \/ SyncAdd(a) \/ Detach(a)

SweepStep(s) == StartSweep(s) \/ EndSweep(s)

Shutdown ==
  HttpDeadline \/ StopHttp \/ StopRetention \/ StopCron \/ Drained \/ DrainDeadline \/ CloseDb \/ Exit

Next ==
  \/ Boot \/ HotSwap \/ Shutdown \/ Crash
  \/ \E fatal \in BOOLEAN : Signal(fatal)
  \/ \E r \in Runner, n \in Name : Tick(r, n) \/ Trigger(r, n)
  \/ \E r \in Runner : RunStep(r)
  \/ \E a \in Admin, op \in {"create", "delete", "pause", "resume"}, n \in Name : Request(a, op, n)
  \/ \E a \in Admin : AdminStep(a)
  \/ \E s \in Sweeps : SweepStep(s)

\* Only the shutdown is driven by the process itself: its timers fire, its awaits
\* come back.  Nothing is assumed of jobs, requests and sweeps, which may hang.
Fairness == WF_vars(Shutdown)

Spec == Init /\ [][Next]_vars /\ Fairness
=============================================================================
