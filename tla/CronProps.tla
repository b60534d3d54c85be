------------------------------ MODULE CronProps ------------------------------
(* What the scheduler and the shutdown promise, whatever the interleaving. *)
EXTENDS Cron

\* A timer ticks exactly for the live, enabled jobs, and for the row that is there
\* now, once nothing is changing the job.  What can upset it is two overlapping
\* changes of one name (syncJob removes, awaits and adds), or a hot swap, after
\* which the scheduler reads through a closed handle.
TimersAgree ==
  (phase = "up" /\ sched # None /\ sched = handle) =>
    \A n \in Name \ raced : ~Changing(n) =>
      /\ Ticking(n) <=> (Live(n) /\ job[n].enabled)
      /\ Ticking(n) => timer[n].id = job[n].id

\* A run that is logged as running is running, unless its last write failed in
\* this very process: what earlier processes left behind was reaped.
RunningIsInFlight ==
  (sched # None /\ reaped) =>
    \A l \in logs : l.status = "running" =>
      l.boot = boot /\ (l.at \in stranded \/ \E r \in InFlight : run[r].log = l.at)

\* The database closes under nobody: under no sweep, whatever happens, for a sweep
\* that is cut off can leave the file malformed (gc.ts:54-58), and, unless the
\* shutdown was cut short, under no request and no run (index.ts, executor.ts).
NothingUnderClosedDb ==
  phase \in {"flush", "closed"} =>
    /\ sweeping = {}
    /\ ~hurried => Quiet /\ InFlight = {}

\* A shutdown ends, however long jobs and requests take: each wait for them has a
\* deadline.  The waits for the sweeps have none, so each sweep has to end.
ShutdownEnds ==
  (\A s \in Sweeps : []<>(s \notin sweeping)) => (phase = "http" ~> phase = "down")
=============================================================================
