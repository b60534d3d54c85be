------------------------------- MODULE CronProof -------------------------------
(***************************************************************************)
(* Proofs that timers follow the rows, that no run is lost in "running"    *)
(* and that the database closes under nobody, for any numbers of jobs,     *)
(* runs, admin requests, processes and hot swaps.                          *)
(***************************************************************************)
EXTENDS CronProps, FiniteSetTheorems, TLAPS

Row   == [id : Nat, enabled : BOOLEAN, deleted : BOOLEAN]
Timer == [id : Nat, handle : Nat, paused : BOOLEAN]
Log   == [at : Nat, job : Nat, status : {"running", "success", "failed"}, boot : Nat]

Run == [pc : {"inserting", "executing", "succeeding", "failing", "judging", "pausing", "detaching"},
        name : Name, id : Nat, handle : Nat, log : Nat, manual : BOOLEAN, timed : BOOLEAN]

Change == [pc : {"insert", "update", "sync", "add", "detach"},
           op : {"create", "delete", "pause", "resume"},
           name : Name, id : Nat, handle : Nat, new : Timer \cup {None}]

\* Rows, timers, runs and requests are well-formed, and a request that reached a
\* step is one the step is for.
TypeInv ==
  /\ job \in [Name -> Row \cup {None}]
  /\ logs \in SUBSET Log
  /\ ids \in Nat /\ started \in Nat /\ boot \in Nat /\ faults \in Nat /\ handle \in Nat
  /\ phase \in {"up", "http", "retention", "filegc", "drain", "flush", "closed", "down"}
  /\ sched \in Nat \cup {None}
  /\ timer \in [Name -> Timer \cup {None}]
  /\ run \in [Runner -> Run \cup {NoRun}]
  /\ adm \in [Admin -> Change \cup {NoAdmin}]
  /\ \A a \in Admin :
       /\ adm[a].pc = "update" => adm[a].op \in {"delete", "pause", "resume"}
       /\ adm[a].pc = "detach" => adm[a].op \in {"delete", "pause"}
       /\ adm[a].pc = "add" => adm[a].new \in Timer
  /\ sweeping \in SUBSET Sweeps
  /\ draining \in SUBSET Runner
  /\ hurried \in BOOLEAN
  /\ stranded \in SUBSET Nat
  /\ reaped \in BOOLEAN
  /\ raced \in SUBSET Name

-----------------------------------------------------------------------------
(* Types *)

\* A row, a timer, a run and a request are told from nothing.
LEMMA Kinds ==
  ASSUME TypeInv
  PROVE  /\ \A n \in Name : /\ job[n] # None => job[n] \in Row
                            /\ timer[n] # None => timer[n] \in Timer
         /\ \A r \in Runner : /\ run[r].pc = "idle" <=> run[r] = NoRun
                              /\ run[r].pc # "idle" <=> run[r] \in Run
         /\ \A a \in Admin : /\ adm[a].pc = "idle" <=> adm[a] = NoAdmin
                             /\ adm[a].pc # "idle" <=> adm[a] \in Change
<1>1. \A n \in Name : job[n] \in Row \cup {None} /\ timer[n] \in Timer \cup {None}
  BY DEF TypeInv
<1>2. \A r \in Runner : run[r] \in Run \cup {NoRun}
  BY DEF TypeInv
<1>3. \A a \in Admin : adm[a] \in Change \cup {NoAdmin}
  BY DEF TypeInv
<1> QED BY <1>1, <1>2, <1>3 DEF NoRun, NoAdmin, Run, Change

LEMMA InitTypes == Init => TypeInv
<1> SUFFICES ASSUME Init PROVE TypeInv
  OBVIOUS
<1>1. hurried \in BOOLEAN /\ reaped \in BOOLEAN
  BY Zenon DEF Init
<1>2. /\ job \in [Name -> Row \cup {None}] /\ timer \in [Name -> Timer \cup {None}]
      /\ run \in [Runner -> Run \cup {NoRun}] /\ adm \in [Admin -> Change \cup {NoAdmin}]
  BY DEF Init
<1>3. \A a \in Admin : adm[a].pc = "idle"
  BY DEF Init, NoAdmin
<1>4. /\ logs \in SUBSET Log /\ sched \in Nat \cup {None}
      /\ draining \in SUBSET Runner /\ stranded \in SUBSET Nat /\ raced \in SUBSET Name
      /\ phase = "down" /\ sweeping \in SUBSET Sweeps
      /\ ids \in Nat /\ started \in Nat /\ boot \in Nat /\ faults \in Nat /\ handle \in Nat
  BY DEF Init
<1> QED BY <1>1, <1>2, <1>3, <1>4 DEF TypeInv

LEMMA StartTypes ==
  ASSUME TypeInv, NEW on \in BOOLEAN, NEW reap \in BOOLEAN, NEW seed \in BOOLEAN,
         StartCron(on, reap, seed)
  PROVE  /\ job' \in [Name -> Row \cup {None}]
         /\ logs' \in SUBSET Log
         /\ ids' \in Nat
         /\ sched' \in Nat \cup {None}
         /\ timer' \in [Name -> Timer \cup {None}]
         /\ reaped' \in BOOLEAN
<1> DEFINE new    == IF on /\ seed THEN Seeds ELSE {}
           row(n) == IF n \in new THEN [id |-> ids + 1, enabled |-> TRUE, deleted |-> FALSE] ELSE job[n]
<1>1. \A n \in Name : row(n) \in Row \cup {None} /\ (row(n) # None => row(n) \in Row)
  BY Kinds DEF TypeInv, Row
<1>2. /\ job' = [n \in Name |-> row(n)]
      /\ ids' = IF new = {} THEN ids ELSE ids + 1
      /\ logs' = IF on /\ reap THEN Reaped(logs) ELSE logs
      /\ sched' = IF on THEN 0 ELSE None
      /\ timer' = [n \in Name |->
                     IF on /\ row(n) # None /\ row(n).enabled /\ ~row(n).deleted
                       THEN [id |-> row(n).id, handle |-> 0, paused |-> FALSE]
                       ELSE None]
      /\ reaped' = (on /\ reap)
  BY DEF StartCron
<1> HIDE DEF row
<1>3. Reaped(logs) \in SUBSET Log
  BY DEF TypeInv, Reaped, Log
<1>4. timer' \in [Name -> Timer \cup {None}]
  BY <1>1, <1>2 DEF Timer, Row
<1>5. job' \in [Name -> Row \cup {None}] /\ ids' \in Nat
  BY <1>1, <1>2 DEF TypeInv
<1> QED BY <1>2, <1>3, <1>4, <1>5 DEF TypeInv

LEMMA FaultTypes ==
  ASSUME TypeInv, NEW h
  PROVE  /\ Fault => faults' \in Nat
         /\ Fails(h) => faults' \in Nat
BY DEF TypeInv, Fault, Fails

LEMMA BootTypes == TypeInv /\ Boot => TypeInv'
<1> SUFFICES ASSUME TypeInv, Boot PROVE TypeInv'
  OBVIOUS
<1>1. PICK on \in CronModes, reap, seed \in BOOLEAN :
        StartCron(on, reap, seed) /\ (IF reap /\ seed THEN UNCHANGED faults ELSE Fault)
  BY DEF Boot
<1>2. on \in BOOLEAN
  BY Parameters
<1>3. faults' \in Nat
  BY <1>1, FaultTypes DEF TypeInv
<1> QED BY <1>1, <1>2, <1>3, StartTypes DEF Boot, TypeInv

LEMMA PhaseTypes ==
  ASSUME TypeInv, HotSwap \/ Shutdown \/ Crash \/ \E fatal \in BOOLEAN : Signal(fatal)
  PROVE  TypeInv'
<1>1. CASE HotSwap
  BY <1>1 DEF HotSwap, rows, ghost, TypeInv
<1>2. CASE HttpDeadline
  BY <1>2 DEF HttpDeadline, rows, TypeInv
<1>9. CASE StopHttp \/ StopRetention
  BY <1>9 DEF StopHttp, StopRetention, rows, ghost, TypeInv
<1>3. CASE StopCron
  <2>1. timer' \in [Name -> Timer \cup {None}]
    BY <1>3 DEF StopCron, Detached, TypeInv
  <2>2. draining' \in SUBSET Runner
    BY <1>3 DEF StopCron, ToDrain, InFlight
  <2> QED BY <1>3, <2>1, <2>2 DEF StopCron, rows, ghost, TypeInv
<1>4. CASE Drained
  BY <1>4 DEF Drained, rows, ghost, TypeInv
<1>5. CASE DrainDeadline
  BY <1>5 DEF DrainDeadline, rows, TypeInv
<1>6. CASE CloseDb
  BY <1>6 DEF CloseDb, rows, ghost, TypeInv
<1>7. CASE Gone /\ faults' \in Nat
  <2>1. \A a \in Admin : adm'[a].pc = "idle"
    BY <1>7 DEF Gone, NoAdmin
  <2>2. /\ timer' \in [Name -> Timer \cup {None}]
        /\ run' \in [Runner -> Run \cup {NoRun}] /\ adm' \in [Admin -> Change \cup {NoAdmin}]
    BY <1>7 DEF Gone
  <2>3. hurried' \in BOOLEAN /\ reaped' \in BOOLEAN
    BY <1>7, Zenon DEF Gone
  <2> QED BY <1>7, <2>1, <2>2, <2>3 DEF Gone, rows, TypeInv
<1>8. ASSUME NEW fatal \in BOOLEAN, Signal(fatal)
      PROVE  TypeInv'
  BY <1>8, FaultTypes DEF Signal, rows, TypeInv
<1> QED BY <1>1, <1>2, <1>3, <1>4, <1>5, <1>6, <1>7, <1>8, <1>9, FaultTypes DEF Shutdown, Exit, Crash, TypeInv

LEMMA SweepTypes ==
  ASSUME TypeInv, NEW s \in Sweeps, SweepStep(s)
  PROVE  TypeInv'
BY DEF SweepStep, StartSweep, EndSweep, rows, ghost, TypeInv

\* Runs and requests that go on or end are still runs and requests.
LEMMA RunMoves ==
  ASSUME TypeInv, NEW r \in Runner
  PROVE  /\ \A pc : Goto(r, pc) => draining' = draining
         /\ Finish(r) => run' \in [Runner -> Run \cup {NoRun}] /\ draining' \in SUBSET Runner
         /\ \A pc \in {"executing", "succeeding", "failing", "judging", "pausing", "detaching"} :
              Goto(r, pc) /\ run[r].pc # "idle" => run' \in [Runner -> Run \cup {NoRun}]
<1>1. Finish(r) => run' \in [Runner -> Run \cup {NoRun}] /\ draining' \in SUBSET Runner
  BY DEF Finish, TypeInv
<1>2. ASSUME NEW pc \in {"executing", "succeeding", "failing", "judging", "pausing", "detaching"},
             Goto(r, pc), run[r].pc # "idle"
      PROVE  run' \in [Runner -> Run \cup {NoRun}]
  <2>1. run[r] \in Run
    BY <1>2, Kinds
  <2>2. [run[r] EXCEPT !.pc = pc] \in Run
    BY <2>1 DEF Run
  <2> QED BY <1>2, <2>2 DEF Goto, TypeInv
<1> QED BY <1>1, <1>2 DEF Goto

LEMMA BeginTypes ==
  ASSUME TypeInv, NEW r \in Runner, NEW n \in Name, Tick(r, n) \/ Trigger(r, n)
  PROVE  TypeInv'
<1>1. \A id \in Nat, h \in Nat, manual \in BOOLEAN :
        Begin(r, n, id, h, manual) => run' \in [Runner -> Run \cup {NoRun}]
  BY DEF Begin, TypeInv, Run
<1>2. CASE Tick(r, n)
  <2>1. timer[n].id \in Nat /\ timer[n].handle \in Nat
    BY <1>2, Kinds DEF Tick, Ticking, Timer
  <2> QED BY <1>1, <1>2, <2>1 DEF Tick, rows, ghost, TypeInv
<1>3. CASE Trigger(r, n)
  <2>1. job[n].id \in Nat
    BY <1>3, Kinds DEF Trigger, Live, Row
  <2> QED BY <1>1, <1>3, <2>1 DEF Trigger, rows, ghost, TypeInv
<1> QED BY <1>2, <1>3

LEMMA LogTypes ==
  ASSUME TypeInv
  PROVE  /\ \A at : Finalised(at, "success") \in SUBSET Log /\ Finalised(at, "failed") \in SUBSET Log
         /\ \A deleted : Trimmed(deleted) \in SUBSET Log
BY DEF TypeInv, Finalised, Trimmed, Log

LEMMA RunTypes ==
  ASSUME TypeInv, NEW r \in Runner, RunStep(r)
  PROVE  TypeInv'
<1>1. CASE InsertLog(r)
  <2>1. run[r] \in Run
    BY <1>1, Kinds DEF InsertLog
  <2>6. started + 1 \in Nat
    BY DEF TypeInv
  <2>2. [run[r] EXCEPT !.pc = "executing", !.log = started + 1] \in Run
    BY <2>1, <2>6 DEF Run
  <2>3. run' = [run EXCEPT ![r] = [run[r] EXCEPT !.pc = "executing", !.log = started + 1]]
    BY <1>1, <2>1 DEF InsertLog, TypeInv, Run
  <2>4. run' \in [Runner -> Run \cup {NoRun}]
    BY <2>2, <2>3 DEF TypeInv
  <2>5. logs' \in SUBSET Log
    BY <1>1, <2>1 DEF InsertLog, TypeInv, Run, Log
  <2> QED BY <1>1, <2>4, <2>5 DEF InsertLog, ghost, TypeInv
<1>2. CASE InsertLogFails(r)
  BY <1>2, RunMoves, FaultTypes DEF InsertLogFails, rows, ghost, TypeInv
<1>3. CASE Work(r)
  <2>1. job' \in [Name -> Row \cup {None}]
    BY <1>3 DEF Work, Purged, TypeInv
  <2>2. logs' \in SUBSET Log
    BY <1>3, LogTypes DEF Work, TypeInv
  <2> QED BY <1>3, <2>1, <2>2, RunMoves DEF Work, ghost, TypeInv
<1>4. CASE WorkFails(r)
  BY <1>4, RunMoves, FaultTypes DEF WorkFails, rows, ghost, TypeInv
<1>5. CASE LogSuccess(r)
  BY <1>5, RunMoves, LogTypes DEF LogSuccess, ghost, TypeInv
<1>6. CASE LogSuccessFails(r)
  BY <1>6, RunMoves, FaultTypes DEF LogSuccessFails, rows, ghost, TypeInv
<1>7. CASE LogFailure(r)
  BY <1>7, RunMoves, LogTypes DEF LogFailure, ghost, TypeInv
<1>8. CASE LogFailureFails(r)
  <2>1. run[r].log \in Nat
    BY <1>8, Kinds DEF LogFailureFails, Run
  <2> QED BY <1>8, <2>1, RunMoves, FaultTypes DEF LogFailureFails, rows, TypeInv
<1>9. CASE Judge(r)
  <2>1. run[r].name \in Name
    BY <1>9, Kinds DEF Judge, Run
  <2>2. raced' \in SUBSET Name
    BY <1>9, <2>1 DEF Judge, TypeInv
  <2>3. run' \in [Runner -> Run \cup {NoRun}] /\ draining' \in SUBSET Runner
    BY <1>9, RunMoves DEF Judge, TypeInv
  <2> QED BY <1>9, <2>2, <2>3 DEF Judge, rows, TypeInv
<1>10. CASE AutoPause(r)
  <2>1. \A n \in Name : job[n] # None => [job[n] EXCEPT !.enabled = FALSE] \in Row
    BY Kinds DEF Row
  <2>2. job' \in [Name -> Row \cup {None}]
    BY <1>10, <2>1 DEF AutoPause, TypeInv
  <2> QED BY <1>10, <2>2, RunMoves DEF AutoPause, ghost, TypeInv
<1>11. CASE AutoPauseFails(r)
  BY <1>11, RunMoves, FaultTypes DEF AutoPauseFails, rows, ghost, TypeInv
<1>12. CASE DetachPaused(r)
  <2>1. \A n \in Name : timer[n] # None => [timer[n] EXCEPT !.paused = TRUE] \in Timer
    BY Kinds DEF Timer
  <2>2. timer' \in [Name -> Timer \cup {None}]
    BY <1>12, <2>1 DEF DetachPaused, Paused, TypeInv
  <2> QED BY <1>12, <2>2, RunMoves DEF DetachPaused, rows, ghost, TypeInv
<1> QED BY <1>1, <1>2, <1>3, <1>4, <1>5, <1>6, <1>7, <1>8, <1>9, <1>10, <1>11, <1>12 DEF RunStep

\* A request that goes on with its name and id is still a request.
LEMMA ChangeMoves ==
  ASSUME TypeInv, NEW a \in Admin, adm[a].pc # "idle",
         NEW pc \in {"insert", "update", "sync", "add", "detach"}
  PROVE  [adm[a] EXCEPT !.pc = pc] \in Change
BY Kinds DEF Change

\* What replaces one request in TypeInv.
LEMMA ChangeTypes ==
  ASSUME TypeInv, NEW a \in Admin, NEW c,
         c \in Change \cup {NoAdmin},
         c.pc = "update" => c.op \in {"delete", "pause", "resume"},
         c.pc = "detach" => c.op \in {"delete", "pause"},
         c.pc = "add" => c.new \in Timer,
         adm' = [adm EXCEPT ![a] = c]
  PROVE  /\ adm' \in [Admin -> Change \cup {NoAdmin}]
         /\ \A b \in Admin :
              /\ adm'[b].pc = "update" => adm'[b].op \in {"delete", "pause", "resume"}
              /\ adm'[b].pc = "detach" => adm'[b].op \in {"delete", "pause"}
              /\ adm'[b].pc = "add" => adm'[b].new \in Timer
<1>1. adm \in [Admin -> Change \cup {NoAdmin}]
  BY DEF TypeInv
<1>2. \A b \in Admin : adm'[b] = IF b = a THEN c ELSE adm[b]
  BY <1>1
<1> QED BY <1>1, <1>2 DEF TypeInv

LEMMA IdleAdmin == NoAdmin.pc = "idle"
BY DEF NoAdmin

LEMMA RequestTypes ==
  ASSUME TypeInv, NEW a \in Admin, NEW op \in {"create", "delete", "pause", "resume"}, NEW n \in Name,
         Request(a, op, n)
  PROVE  TypeInv'
<1> DEFINE c == [pc |-> IF op = "create" THEN "insert" ELSE "update", op |-> op, name |-> n,
                 id |-> IF op = "create" THEN 0 ELSE job[n].id, handle |-> handle, new |-> None]
<1>1. op # "create" => job[n].id \in Nat
  BY Kinds DEF Request, Live, Row
<1>2. /\ c \in Change
      /\ c.pc = "update" => c.op \in {"delete", "pause", "resume"}
      /\ c.pc # "detach" /\ c.pc # "add"
  BY <1>1 DEF Change, TypeInv
<1>3. adm' = [adm EXCEPT ![a] = c]
  BY DEF Request
<1> HIDE DEF c
<1>4. /\ adm' \in [Admin -> Change \cup {NoAdmin}]
      /\ \A b \in Admin :
           /\ adm'[b].pc = "update" => adm'[b].op \in {"delete", "pause", "resume"}
           /\ adm'[b].pc = "detach" => adm'[b].op \in {"delete", "pause"}
           /\ adm'[b].pc = "add" => adm'[b].new \in Timer
  BY <1>2, <1>3, ChangeTypes
<1>5. raced' \in SUBSET Name
  BY DEF Request, TypeInv
<1> QED BY <1>4, <1>5 DEF Request, rows, TypeInv

LEMMA TimerTypes ==
  ASSUME TypeInv, NEW n \in Name
  PROVE  /\ RemoveTimer(n) \in [Name -> Timer \cup {None}]
         /\ Paused(n) \in [Name -> Timer \cup {None}]
         /\ Orphaned(n) \in [Runner -> Run \cup {NoRun}]
<1>1. RemoveTimer(n) \in [Name -> Timer \cup {None}]
  BY DEF TypeInv, RemoveTimer
<1>2. \A m \in Name : timer[m] # None => [timer[m] EXCEPT !.paused = TRUE] \in Timer
  BY Kinds DEF Timer
<1>3. Paused(n) \in [Name -> Timer \cup {None}]
  BY <1>2 DEF Paused, TypeInv
<1>4. \A r \in Runner : run[r].pc # "idle" => [run[r] EXCEPT !.timed = FALSE] \in Run
  BY Kinds DEF Run
<1>5. Orphaned(n) \in [Runner -> Run \cup {NoRun}]
  BY <1>4 DEF Orphaned, TypeInv
<1> QED BY <1>1, <1>3, <1>5

LEMMA AdminTypes ==
  ASSUME TypeInv, NEW a \in Admin, AdminStep(a)
  PROVE  TypeInv'
<1>1. adm[a].pc # "idle" /\ adm[a] \in Change /\ adm[a].name \in Name
  BY Kinds DEF AdminStep, InsertJob, UpdateJob, WriteFails, SyncRemove, SyncAdd, Detach, Change
<1>2. ASSUME adm' = [adm EXCEPT ![a] = NoAdmin]
      PROVE  /\ adm' \in [Admin -> Change \cup {NoAdmin}]
             /\ \A b \in Admin :
                  /\ adm'[b].pc = "update" => adm'[b].op \in {"delete", "pause", "resume"}
                  /\ adm'[b].pc = "detach" => adm'[b].op \in {"delete", "pause"}
                  /\ adm'[b].pc = "add" => adm'[b].new \in Timer
  BY <1>2, ChangeTypes, IdleAdmin
<1>3. CASE InsertJob(a)
  <2> DEFINE c == [adm[a] EXCEPT !.pc = "sync"]
  <2>1. adm' = [adm EXCEPT ![a] = c]
    BY <1>3 DEF InsertJob, TypeInv
  <2>2. c \in Change /\ c.pc = "sync"
    BY <1>1, ChangeMoves DEF Change
  <2> HIDE DEF c
  <2>3. /\ adm' \in [Admin -> Change \cup {NoAdmin}]
        /\ \A b \in Admin :
             /\ adm'[b].pc = "update" => adm'[b].op \in {"delete", "pause", "resume"}
             /\ adm'[b].pc = "detach" => adm'[b].op \in {"delete", "pause"}
             /\ adm'[b].pc = "add" => adm'[b].new \in Timer
    BY <2>1, <2>2, ChangeTypes
  <2>4. [id |-> ids + 1, enabled |-> TRUE, deleted |-> FALSE] \in Row /\ ids + 1 \in Nat
    BY DEF Row, TypeInv
  <2>5. job' \in [Name -> Row \cup {None}] /\ ids' \in Nat
    BY <1>1, <1>3, <2>4 DEF InsertJob, TypeInv
  <2> QED BY <1>3, <2>3, <2>5 DEF InsertJob, ghost, TypeInv
<1>4. CASE UpdateJob(a)
  <2> DEFINE c == [adm[a] EXCEPT !.pc = IF adm[a].op = "resume" THEN "sync" ELSE "detach"]
  <2>1. adm' = [adm EXCEPT ![a] = c]
    BY <1>4 DEF UpdateJob, TypeInv
  <2>6. adm[a].op \in {"delete", "pause", "resume"}
    BY <1>4 DEF UpdateJob, TypeInv
  <2>2. c \in Change /\ (c.pc = "detach" => c.op \in {"delete", "pause"}) /\ c.pc \in {"sync", "detach"}
    BY <1>1, <2>6 DEF Change
  <2> HIDE DEF c
  <2>3. /\ adm' \in [Admin -> Change \cup {NoAdmin}]
        /\ \A b \in Admin :
             /\ adm'[b].pc = "update" => adm'[b].op \in {"delete", "pause", "resume"}
             /\ adm'[b].pc = "detach" => adm'[b].op \in {"delete", "pause"}
             /\ adm'[b].pc = "add" => adm'[b].new \in Timer
    BY <2>1, <2>2, ChangeTypes
  <2>4. \A n \in Name : job[n] # None => Updated(adm[a].op, job[n]) \in Row
    BY <2>6, Kinds DEF Row, Updated
  <2>5. job' \in [Name -> Row \cup {None}]
    BY <1>1, <1>4, <2>4 DEF UpdateJob, TypeInv
  <2> QED BY <1>4, <2>3, <2>5 DEF UpdateJob, ghost, TypeInv
<1>5. CASE WriteFails(a)
  <2>1. faults' \in Nat
    BY <1>5, FaultTypes DEF WriteFails, TypeInv
  <2> QED BY <1>2, <1>5, <2>1 DEF WriteFails, rows, ghost, TypeInv
<1>6. CASE SyncRemove(a)
  <2> DEFINE n == adm[a].name
             t == [id |-> job[n].id, handle |-> sched, paused |-> FALSE]
             c == [adm[a] EXCEPT !.pc = "add", !.new = t]
  <2>1. CASE sched = None
    BY <1>2, <1>6, <2>1 DEF SyncRemove, rows, ghost, TypeInv
  <2>2. CASE sched # None /\ ~(Open(sched) /\ Live(n) /\ job[n].enabled)
    <3>1. adm' = [adm EXCEPT ![a] = NoAdmin]
      BY <1>6, <2>2 DEF SyncRemove
    <3> QED BY <1>1, <1>2, <1>6, <2>2, <3>1, TimerTypes DEF SyncRemove, rows, ghost, TypeInv
  <2>3. CASE sched # None /\ Live(n) /\ Open(sched) /\ job[n].enabled
    <3>1. job[n].id \in Nat /\ sched \in Nat
      BY <1>1, <2>3, Kinds DEF Live, Row, TypeInv
    <3>2. t \in Timer
      BY <3>1 DEF Timer
    <3>3. c \in Change /\ c.pc = "add" /\ c.new \in Timer
      <4> HIDE DEF t
      <4> QED BY <1>1, <3>2 DEF Change
    <3>4. adm' = [adm EXCEPT ![a] = c]
      BY <1>6, <2>3 DEF SyncRemove, TypeInv
    <3> HIDE DEF c
    <3>5. /\ adm' \in [Admin -> Change \cup {NoAdmin}]
          /\ \A b \in Admin :
               /\ adm'[b].pc = "update" => adm'[b].op \in {"delete", "pause", "resume"}
               /\ adm'[b].pc = "detach" => adm'[b].op \in {"delete", "pause"}
               /\ adm'[b].pc = "add" => adm'[b].new \in Timer
      BY <3>3, <3>4, ChangeTypes
    <3> QED BY <1>1, <1>6, <2>3, <3>5, TimerTypes DEF SyncRemove, rows, ghost, TypeInv
  <2> QED BY <2>1, <2>2, <2>3
<1>7. CASE SyncAdd(a)
  <2>1. adm[a].new \in Timer
    BY <1>7 DEF SyncAdd, TypeInv
  <2>2. timer' \in [Name -> Timer \cup {None}] /\ run' \in [Runner -> Run \cup {NoRun}]
    BY <1>1, <1>7, <2>1, TimerTypes DEF SyncAdd, TypeInv
  <2>3. adm' = [adm EXCEPT ![a] = NoAdmin]
    BY <1>7 DEF SyncAdd
  <2> QED BY <1>2, <1>7, <2>2, <2>3 DEF SyncAdd, rows, ghost, TypeInv
<1>8. CASE Detach(a)
  <2>1. timer' \in [Name -> Timer \cup {None}] /\ run' \in [Runner -> Run \cup {NoRun}]
    BY <1>1, <1>8, TimerTypes DEF Detach, TypeInv
  <2>2. adm' = [adm EXCEPT ![a] = NoAdmin]
    BY <1>8 DEF Detach
  <2> QED BY <1>2, <1>8, <2>1, <2>2 DEF Detach, rows, ghost, TypeInv
<1> QED BY <1>3, <1>4, <1>5, <1>6, <1>7, <1>8 DEF AdminStep

LEMMA StutterTypes == TypeInv /\ UNCHANGED vars => TypeInv'
BY DEF TypeInv, vars, rows, ghost

LEMMA NextTypes == TypeInv /\ [Next]_vars => TypeInv'
<1> SUFFICES ASSUME TypeInv, Next PROVE TypeInv'
  BY StutterTypes
<1>1. CASE Boot
  BY <1>1, BootTypes
<1>2. CASE HotSwap \/ Shutdown \/ Crash \/ \E fatal \in BOOLEAN : Signal(fatal)
  BY <1>2, PhaseTypes
<1>3. CASE \E r \in Runner, n \in Name : Tick(r, n) \/ Trigger(r, n)
  BY <1>3, BeginTypes
<1>4. CASE \E r \in Runner : RunStep(r)
  BY <1>4, RunTypes
<1>5. CASE \E a \in Admin, op \in {"create", "delete", "pause", "resume"}, n \in Name : Request(a, op, n)
  BY <1>5, RequestTypes
<1>6. CASE \E a \in Admin : AdminStep(a)
  BY <1>6, AdminTypes
<1>7. CASE \E s \in Sweeps : SweepStep(s)
  BY <1>7, SweepTypes
<1> QED BY <1>1, <1>2, <1>3, <1>4, <1>5, <1>6, <1>7 DEF Next

-----------------------------------------------------------------------------
(* What a step of a run and of a request leaves alone *)

\* A run keeps what it was started with until it ends; timers may stop, rows be
\* paused or purged.
LEMMA RunEffect ==
  ASSUME TypeInv, NEW r \in Runner, RunStep(r)
  PROVE  /\ run[r].pc # "idle"
         /\ \A q \in Runner \ {r} : run'[q] = run[q]
         /\ \/ run'[r] = NoRun
            \/ /\ run'[r].pc # "idle"
               /\ run'[r].name = run[r].name /\ run'[r].id = run[r].id
               /\ run'[r].handle = run[r].handle /\ run'[r].manual = run[r].manual
         /\ \/ draining' = draining
            \/ run'[r] = NoRun /\ draining' = draining \ {r}
         /\ \A n \in Name : \/ timer'[n] = timer[n]
                            \/ /\ timer[n] # None /\ timer'[n] # None
                               /\ timer'[n].id = timer[n].id /\ timer'[n].handle = timer[n].handle
                               /\ timer'[n].paused
         /\ UNCHANGED <<ids, phase, boot, handle, sched, sweeping, adm, hurried, reaped>>
<1>1. run[r].pc # "idle" /\ run[r] \in Run
  BY Kinds DEF RunStep, InsertLog, InsertLogFails, Work, WorkFails, LogSuccess, LogSuccessFails,
               LogFailure, LogFailureFails, Judge, AutoPause, AutoPauseFails, DetachPaused
<1>2. UNCHANGED <<ids, phase, boot, handle, sched, sweeping, adm, hurried, reaped>>
  BY DEF RunStep, InsertLog, InsertLogFails, Work, WorkFails, LogSuccess, LogSuccessFails,
         LogFailure, LogFailureFails, Judge, AutoPause, AutoPauseFails, DetachPaused, rows, ghost
<1>3. \A n \in Name : \/ timer'[n] = timer[n]
                      \/ /\ timer[n] # None /\ timer'[n] # None
                         /\ timer'[n].id = timer[n].id /\ timer'[n].handle = timer[n].handle
                         /\ timer'[n].paused
  <2>1. CASE DetachPaused(r)
    <3>1. timer' = Paused(run[r].name)
      BY <2>1 DEF DetachPaused
    <3>2. \A n \in Name : timer[n] # None =>
            /\ [timer[n] EXCEPT !.paused = TRUE] \in Timer
            /\ [timer[n] EXCEPT !.paused = TRUE].id = timer[n].id
            /\ [timer[n] EXCEPT !.paused = TRUE].handle = timer[n].handle
            /\ [timer[n] EXCEPT !.paused = TRUE].paused
      BY Kinds DEF Timer
    <3>3. \A n \in Name : timer'[n] = timer[n] \/
            (n = run[r].name /\ timer[n] # None /\ timer'[n] = [timer[n] EXCEPT !.paused = TRUE])
      BY <3>1 DEF Paused, TypeInv
    <3>4. None \notin Timer
      BY Parameters DEF Timer
    <3>5. \A n \in Name : timer[n] # None => [timer[n] EXCEPT !.paused = TRUE] # None
      BY <3>2, <3>4
    <3> QED BY <3>2, <3>3, <3>5, Zenon
  <2>2. CASE ~DetachPaused(r)
    BY <2>2 DEF RunStep, InsertLog, InsertLogFails, Work, WorkFails, LogSuccess, LogSuccessFails,
                LogFailure, LogFailureFails, Judge, AutoPause, AutoPauseFails
  <2> QED BY <2>1, <2>2
<1>4. Finish(r) \/ (\E pc \in {"executing", "succeeding", "failing", "judging", "pausing", "detaching"} : Goto(r, pc))
        \/ (draining' = draining /\ run' = [run EXCEPT ![r] = [run[r] EXCEPT !.pc = "executing", !.log = started + 1]])
  <2>1. CASE InsertLog(r)
    <3>1. run' = [run EXCEPT ![r] = [run[r] EXCEPT !.pc = "executing", !.log = started + 1]]
      BY <1>1, <2>1 DEF InsertLog, TypeInv, Run
    <3> QED BY <2>1, <3>1 DEF InsertLog
  <2>2. CASE ~InsertLog(r)
    BY <2>2 DEF RunStep, InsertLogFails, Work, WorkFails, LogSuccess, LogSuccessFails,
                LogFailure, LogFailureFails, Judge, AutoPause, AutoPauseFails, DetachPaused
  <2> QED BY <2>1, <2>2
<1>5. run \in [Runner -> Run \cup {NoRun}]
  BY DEF TypeInv
<1>6. CASE Finish(r)
  BY <1>1, <1>2, <1>3, <1>5, <1>6 DEF Finish
<1>7. ASSUME NEW pc \in {"executing", "succeeding", "failing", "judging", "pausing", "detaching"}, Goto(r, pc)
      PROVE  /\ draining' = draining
             /\ \A q \in Runner \ {r} : run'[q] = run[q]
             /\ run'[r].pc # "idle"
             /\ run'[r].name = run[r].name /\ run'[r].id = run[r].id
             /\ run'[r].handle = run[r].handle /\ run'[r].manual = run[r].manual
  BY <1>1, <1>5, <1>7 DEF Goto, Run
<1>8. ASSUME draining' = draining,
             run' = [run EXCEPT ![r] = [run[r] EXCEPT !.pc = "executing", !.log = started + 1]]
      PROVE  /\ \A q \in Runner \ {r} : run'[q] = run[q]
             /\ run'[r].pc # "idle"
             /\ run'[r].name = run[r].name /\ run'[r].id = run[r].id
             /\ run'[r].handle = run[r].handle /\ run'[r].manual = run[r].manual
  BY <1>1, <1>5, <1>8 DEF Run
<1> QED BY <1>1, <1>2, <1>3, <1>4, <1>6, <1>7, <1>8

\* A request keeps what it was sent with until it ends, and no run ends with it.
LEMMA AdminEffect ==
  ASSUME TypeInv, NEW a \in Admin, AdminStep(a)
  PROVE  /\ adm[a].pc # "idle" /\ adm[a] \in Change
         /\ \A b \in Admin \ {a} : adm'[b] = adm[b]
         /\ \/ adm'[a] = NoAdmin
            \/ /\ adm'[a].pc \in {"sync", "add", "detach"}
               /\ adm'[a].name = adm[a].name /\ adm'[a].id = adm[a].id /\ adm'[a].op = adm[a].op
         /\ \A r \in Runner :
              \/ run'[r] = run[r]
              \/ /\ run[r].pc # "idle" /\ run'[r].pc = run[r].pc
                 /\ run'[r].name = run[r].name /\ run'[r].id = run[r].id /\ run'[r].log = run[r].log
                 /\ run'[r].handle = run[r].handle /\ run'[r].manual = run[r].manual
         /\ \A n \in Name \ {adm[a].name} : job'[n] = job[n] /\ timer'[n] = timer[n]
         /\ UNCHANGED <<logs, started, phase, boot, handle, sched, sweeping, draining, hurried, stranded, reaped, raced>>
<1>1. adm[a].pc # "idle" /\ adm[a] \in Change /\ adm[a].name \in Name
  BY Kinds DEF AdminStep, InsertJob, UpdateJob, WriteFails, SyncRemove, SyncAdd, Detach, Change
<1>2. UNCHANGED <<logs, started, phase, boot, handle, sched, sweeping, draining, hurried, stranded, reaped, raced>>
  BY DEF AdminStep, InsertJob, UpdateJob, WriteFails, SyncRemove, SyncAdd, Detach, rows, ghost
<1>3. \A n \in Name \ {adm[a].name} : job'[n] = job[n]
  BY <1>1 DEF AdminStep, InsertJob, UpdateJob, WriteFails, SyncRemove, SyncAdd, Detach, rows, TypeInv
<1>4. \A n \in Name \ {adm[a].name} : timer'[n] = timer[n]
  BY <1>1 DEF AdminStep, InsertJob, UpdateJob, WriteFails, SyncRemove, SyncAdd, Detach, rows, TypeInv,
         RemoveTimer, Paused
<1>5. run' = run \/ run' = Orphaned(adm[a].name)
  BY DEF AdminStep, InsertJob, UpdateJob, WriteFails, SyncRemove, SyncAdd, Detach
<1>6. \A r \in Runner :
        \/ run'[r] = run[r]
        \/ /\ run[r].pc # "idle" /\ run'[r].pc = run[r].pc
           /\ run'[r].name = run[r].name /\ run'[r].id = run[r].id /\ run'[r].log = run[r].log
           /\ run'[r].handle = run[r].handle /\ run'[r].manual = run[r].manual
  <2> SUFFICES ASSUME NEW r \in Runner, run' = Orphaned(adm[a].name), run[r].pc # "idle"
               PROVE  \/ run'[r] = run[r]
                      \/ /\ run[r].pc # "idle" /\ run'[r].pc = run[r].pc
                         /\ run'[r].name = run[r].name /\ run'[r].id = run[r].id /\ run'[r].log = run[r].log
                         /\ run'[r].handle = run[r].handle /\ run'[r].manual = run[r].manual
    BY <1>5 DEF Orphaned
  <2>1. run[r] \in Run
    BY Kinds
  <2>2. run'[r] = run[r] \/ run'[r] = [run[r] EXCEPT !.timed = FALSE]
    BY DEF Orphaned
  <2> QED BY <2>1, <2>2 DEF Run
<1>7. \/ adm' = [adm EXCEPT ![a] = NoAdmin]
      \/ adm' = [adm EXCEPT ![a] = [adm[a] EXCEPT !.pc = "sync"]]
      \/ adm' = [adm EXCEPT ![a] = [adm[a] EXCEPT !.pc = "detach"]]
      \/ adm' = [adm EXCEPT ![a] = [adm[a] EXCEPT !.pc = "add",
                    !.new = [id |-> job[adm[a].name].id, handle |-> sched, paused |-> FALSE]]]
  BY DEF AdminStep, InsertJob, UpdateJob, WriteFails, SyncRemove, SyncAdd, Detach
<1>8. adm \in [Admin -> Change \cup {NoAdmin}]
  BY DEF TypeInv
<1>9. \A b \in Admin \ {a} : adm'[b] = adm[b]
  BY <1>7, <1>8
<1>10. \/ adm'[a] = NoAdmin
       \/ /\ adm'[a].pc \in {"sync", "add", "detach"}
          /\ adm'[a].name = adm[a].name /\ adm'[a].id = adm[a].id /\ adm'[a].op = adm[a].op
  <2> DEFINE t == [id |-> job[adm[a].name].id, handle |-> sched, paused |-> FALSE]
  <2>1. \/ adm'[a] = NoAdmin
        \/ adm'[a] = [adm[a] EXCEPT !.pc = "sync"]
        \/ adm'[a] = [adm[a] EXCEPT !.pc = "detach"]
        \/ adm'[a] = [adm[a] EXCEPT !.pc = "add", !.new = t]
    BY <1>7, <1>8, Zenon
  <2> HIDE DEF t
  <2> QED BY <1>1, <2>1 DEF Change
<1> QED BY <1>1, <1>2, <1>3, <1>4, <1>6, <1>9, <1>10

\* A sweep does nothing here but go on and end.
LEMMA SweepEffect ==
  ASSUME NEW s \in Sweeps, SweepStep(s)
  PROVE  UNCHANGED <<rows, phase, boot, faults, handle, sched, timer, run, adm, draining, ghost>>
BY DEF SweepStep, StartSweep, EndSweep

-----------------------------------------------------------------------------
(* The shutdown *)

\* A process that is down has nothing in memory.
DownInv ==
  phase = "down" =>
    /\ \A a \in Admin : adm[a].pc = "idle"
    /\ \A r \in Runner : run[r].pc = "idle"
    /\ \A n \in Name : timer[n] = None
    /\ raced = {} /\ stranded = {}

\* Without a scheduler no timer ticks, so the runs in flight are requests; once
\* the timers are gone and the requests answered, only runs the drain waits for
\* are left, and then none.  A sweep that was waited for does not start again.
CloseInv ==
  /\ phase \in {"up", "http", "retention", "filegc"} /\ sched = None =>
       /\ \A n \in Name : timer[n] = None
       /\ \A r \in Runner : run[r].pc # "idle" => run[r].manual
       /\ \A a \in Admin : adm[a].pc # "add"
  /\ phase \in {"drain", "flush", "closed"} /\ ~hurried =>
       /\ Quiet
       /\ \A n \in Name : timer[n] = None
       /\ InFlight \subseteq (IF phase = "drain" THEN draining ELSE {})
  /\ phase \in {"retention", "filegc"} /\ ~hurried => Quiet
  /\ phase \in {"filegc", "drain", "flush", "closed"} => "audit-retention" \notin sweeping
  /\ phase \in {"drain", "flush", "closed"} => "file-gc" \notin sweeping

LEMMA InitClose == Init => DownInv /\ CloseInv
BY DEF Init, DownInv, CloseInv, NoRun, NoAdmin

\* While no timer is there, none appears; the requests stay requests.
LEMMA RunClose ==
  ASSUME TypeInv, DownInv, CloseInv, NEW r \in Runner, RunStep(r)
  PROVE  DownInv' /\ CloseInv'
<1>1. DownInv'
  BY RunEffect DEF DownInv
<1>2. \A q \in Runner : run'[q].pc # "idle" => run[q].pc # "idle" /\ run'[q].manual = run[q].manual
  BY RunEffect DEF NoRun
<1>3. InFlight' \subseteq InFlight
  BY <1>2 DEF InFlight
<1>4. Quiet => Quiet'
  BY <1>2, RunEffect DEF Quiet, InFlight
<1>5. InFlight \subseteq draining => InFlight' \subseteq draining'
  <2>1. run'[r] = NoRun => r \notin InFlight'
    BY DEF InFlight, NoRun
  <2> QED BY <1>3, <2>1, RunEffect
<1>6. (\A n \in Name : timer[n] = None) => (\A n \in Name : timer'[n] = None)
  BY RunEffect
<1> QED BY <1>1, <1>2, <1>3, <1>4, <1>5, <1>6, RunEffect DEF CloseInv

LEMMA AdminClose ==
  ASSUME TypeInv, DownInv, CloseInv, NEW a \in Admin, AdminStep(a)
  PROVE  DownInv' /\ CloseInv'
<1>1. adm[a].pc # "idle" /\ adm[a].name \in Name
  BY AdminEffect DEF Change
<1>2. phase # "down" /\ ~(phase \in {"retention", "filegc", "drain", "flush", "closed"} /\ ~hurried)
  BY <1>1 DEF DownInv, CloseInv, Quiet
<1>3. CASE phase \in {"up", "http", "retention", "filegc"} /\ sched = None
  <2>1. adm[a].pc # "add"
    BY <1>3 DEF CloseInv
  <2>2. \A n \in Name : timer'[n] = None
    <3>1. InsertJob(a) \/ UpdateJob(a) \/ WriteFails(a) \/ SyncRemove(a) => timer' = timer
      BY <1>3 DEF InsertJob, UpdateJob, WriteFails, SyncRemove
    <3>2. Detach(a) => timer' = RemoveTimer(adm[a].name) \/ timer' = Paused(adm[a].name)
      BY DEF Detach
    <3>3. \A n \in Name : timer[n] = None
      BY <1>3 DEF CloseInv
    <3>4. ~SyncAdd(a)
      BY <2>1 DEF SyncAdd
    <3> QED BY <1>1, <3>1, <3>2, <3>3, <3>4 DEF AdminStep, RemoveTimer, Paused, TypeInv
  <2>3. \A q \in Runner : run'[q].pc # "idle" => run'[q].manual
    BY <1>3, AdminEffect DEF CloseInv
  <2>4. \A b \in Admin : adm'[b].pc # "add"
    <3>1. adm'[a].pc # "add"
      <4>1. adm[a] \in Change /\ adm \in [Admin -> Change \cup {NoAdmin}]
        BY AdminEffect DEF TypeInv
      <4>2. \A pc \in {"sync", "detach"} : [adm[a] EXCEPT !.pc = pc].pc # "add"
        BY <4>1 DEF Change
      <4>3. \/ adm' = [adm EXCEPT ![a] = NoAdmin]
            \/ \E pc \in {"sync", "detach"} : adm' = [adm EXCEPT ![a] = [adm[a] EXCEPT !.pc = pc]]
        BY <1>3, <2>1 DEF AdminStep, InsertJob, UpdateJob, WriteFails, SyncRemove, SyncAdd, Detach
      <4> QED BY <4>1, <4>2, <4>3, IdleAdmin
    <3> QED BY <1>3, <3>1, AdminEffect DEF CloseInv
  <2> QED BY <1>2, <1>3, <2>2, <2>3, <2>4, AdminEffect DEF DownInv, CloseInv
<1>4. CASE ~(phase \in {"up", "http", "retention", "filegc"} /\ sched = None)
  BY <1>2, <1>4, AdminEffect DEF DownInv, CloseInv
<1> QED BY <1>3, <1>4

LEMMA PhaseClose ==
  ASSUME TypeInv, DownInv, CloseInv, Boot \/ HotSwap \/ Shutdown \/ Crash \/ \E fatal \in BOOLEAN : Signal(fatal)
  PROVE  DownInv' /\ CloseInv'
<1>1. CASE Boot
  <2>1. PICK on \in CronModes, reap, seed \in BOOLEAN : StartCron(on, reap, seed)
    BY <1>1 DEF Boot
  <2>2. sched' = None => ~on
    BY <2>1, Parameters DEF StartCron
  <2>3. sched' = None => \A n \in Name : timer'[n] = None
    BY <2>1, <2>2 DEF StartCron
  <2>4. \A r \in Runner : run'[r].pc = "idle"
    BY <1>1 DEF Boot, DownInv
  <2>5. \A a \in Admin : adm'[a].pc = "idle"
    BY <1>1 DEF Boot, DownInv
  <2> QED BY <1>1, <2>3, <2>4, <2>5 DEF Boot, DownInv, CloseInv
<1>2. CASE HotSwap
  BY <1>2 DEF HotSwap, DownInv, CloseInv, Quiet, InFlight, rows, ghost
<1>3. CASE HttpDeadline
  BY <1>3 DEF HttpDeadline, DownInv, CloseInv, Quiet, InFlight, rows
<1>10. CASE StopHttp \/ StopRetention
  BY <1>10 DEF StopHttp, StopRetention, DownInv, CloseInv, Quiet, InFlight, rows, ghost
<1>4. CASE StopCron
  <2>1. \A n \in Name : timer'[n] = None
    BY <1>4 DEF StopCron, Detached, CloseInv
  <2>2. ~hurried => Quiet
    BY <1>4 DEF StopCron, CloseInv
  <2>3. Quiet => InFlight \subseteq draining'
    BY <1>4 DEF StopCron, ToDrain, CloseInv, Quiet, InFlight
  <2>4. InFlight' = InFlight /\ Quiet' = Quiet /\ hurried' = hurried /\ phase' = "drain"
    BY <1>4 DEF StopCron, InFlight, Quiet, ghost
  <2>5. "audit-retention" \notin sweeping' /\ "file-gc" \notin sweeping'
    BY <1>4 DEF StopCron, CloseInv
  <2> QED BY <2>1, <2>2, <2>3, <2>4, <2>5 DEF DownInv, CloseInv
<1>5. CASE Drained
  BY <1>5 DEF Drained, DownInv, CloseInv, Quiet, InFlight, rows, ghost
<1>6. CASE DrainDeadline
  BY <1>6 DEF DrainDeadline, DownInv, CloseInv, Quiet, InFlight, rows
<1>7. CASE CloseDb
  BY <1>7 DEF CloseDb, DownInv, CloseInv, Quiet, InFlight, rows, ghost
<1>8. CASE Gone
  BY <1>8 DEF Gone, DownInv, CloseInv, NoRun, NoAdmin
<1>9. ASSUME NEW fatal \in BOOLEAN, Signal(fatal)
      PROVE  DownInv' /\ CloseInv'
  BY <1>9 DEF Signal, DownInv, CloseInv, rows
<1> QED BY <1>1, <1>2, <1>3, <1>4, <1>5, <1>6, <1>7, <1>8, <1>9, <1>10 DEF Shutdown, Exit, Crash

LEMMA StartClose ==
  ASSUME TypeInv, DownInv, CloseInv, NEW r \in Runner, NEW n \in Name, Tick(r, n) \/ Trigger(r, n)
  PROVE  DownInv' /\ CloseInv'
<1>1. \A q \in Runner \ {r} : run'[q] = run[q]
  BY DEF Tick, Trigger, Begin, TypeInv
<1>2. CASE Tick(r, n)
  <2>1. timer[n] # None
    BY <1>2 DEF Tick, Ticking
  <2>2. phase \notin {"closed", "down"}
    BY <1>2 DEF Tick
  <2>3. phase \in {"up", "http", "retention", "filegc"} => sched # None
    BY <2>1 DEF CloseInv
  <2>4. phase \in {"drain", "flush", "closed"} => hurried
    BY <2>1 DEF CloseInv
  <2>5. UNCHANGED <<phase, sched, hurried, adm, sweeping>>
    BY <1>2 DEF Tick, ghost
  <2>6. ~run'[r].manual
    BY <1>2 DEF Tick, Begin, TypeInv
  <2>7. Quiet => Quiet'
    BY <1>1, <2>5, <2>6 DEF Quiet, InFlight
  <2> QED BY <2>2, <2>3, <2>4, <2>5, <2>7 DEF DownInv, CloseInv
<1>3. CASE Trigger(r, n)
  <2>1. run'[r].manual
    BY <1>3 DEF Trigger, Begin, TypeInv
  <2> QED BY <1>1, <1>3, <2>1 DEF Trigger, DownInv, CloseInv
<1> QED BY <1>2, <1>3

LEMMA RequestClose ==
  ASSUME TypeInv, DownInv, CloseInv, NEW a \in Admin, NEW op \in {"create", "delete", "pause", "resume"},
         NEW n \in Name, Request(a, op, n)
  PROVE  DownInv' /\ CloseInv'
<1>1. adm'[a].pc # "add" /\ \A b \in Admin \ {a} : adm'[b] = adm[b]
  BY DEF Request, TypeInv
<1> QED BY <1>1 DEF Request, Accepting, DownInv, CloseInv

LEMMA SweepClose ==
  ASSUME TypeInv, DownInv, CloseInv, NEW s \in Sweeps, SweepStep(s)
  PROVE  DownInv' /\ CloseInv'
BY DEF SweepStep, StartSweep, EndSweep, Scheduled, DownInv, CloseInv, Quiet, InFlight, rows, ghost

LEMMA NextClose == TypeInv /\ DownInv /\ CloseInv /\ [Next]_vars => DownInv' /\ CloseInv'
<1> SUFFICES ASSUME TypeInv, DownInv, CloseInv, [Next]_vars PROVE DownInv' /\ CloseInv'
  OBVIOUS
<1>1. CASE Boot \/ HotSwap \/ Shutdown \/ Crash \/ \E fatal \in BOOLEAN : Signal(fatal)
  BY <1>1, PhaseClose
<1>2. CASE \E r \in Runner, n \in Name : Tick(r, n) \/ Trigger(r, n)
  BY <1>2, StartClose
<1>3. CASE \E r \in Runner : RunStep(r)
  BY <1>3, RunClose
<1>4. CASE \E a \in Admin, op \in {"create", "delete", "pause", "resume"}, n \in Name : Request(a, op, n)
  BY <1>4, RequestClose
<1>5. CASE \E a \in Admin : AdminStep(a)
  BY <1>5, AdminClose
<1>6. CASE UNCHANGED vars
  BY <1>6 DEF vars, rows, ghost, DownInv, CloseInv, Quiet, InFlight
<1>7. CASE \E s \in Sweeps : SweepStep(s)
  BY <1>7, SweepClose
<1> QED BY <1>1, <1>2, <1>3, <1>4, <1>5, <1>6, <1>7 DEF Next

-----------------------------------------------------------------------------
(* The logs *)

\* What a run past its last write has left behind is not running.
Settled(r) == \A l \in logs : l.at = run[r].log => l.status # "running"

Accounted(l) == l.at \in stranded \/ \E r \in InFlight : run[r].log = l.at

\* Logs are numbered in the order they are inserted, a run knows its own once it
\* has inserted it, and what runs in a process that reaped has a run.
LogInv ==
  /\ \A l \in logs : 0 < l.at /\ l.at <= started
  /\ \A r \in Runner :
       /\ run[r].pc = "inserting" => run[r].log = 0
       /\ run[r].pc # "idle" => run[r].log <= started
       /\ run[r].pc \in {"judging", "pausing", "detaching"} => Settled(r)
  /\ reaped => \A l \in logs : l.status = "running" => l.boot = boot /\ Accounted(l)

LEMMA InitLogs == Init => LogInv
BY DEF Init, LogInv, NoRun

\* A step to the next point of a run, which at most drops logs.
LEMMA MovesOn ==
  ASSUME TypeInv, LogInv, NEW r \in Runner,
         NEW pc \in {"succeeding", "failing", "judging", "pausing", "detaching"},
         run[r].pc \notin {"idle", "inserting"}, Goto(r, pc),
         logs' \subseteq logs,
         pc \in {"judging", "pausing", "detaching"} => Settled(r),
         UNCHANGED <<started, boot, stranded, reaped>>
  PROVE  LogInv'
<1>1. run[r] \in Run /\ run \in [Runner -> Run \cup {NoRun}]
  BY Kinds DEF TypeInv
<1>2. \A q \in Runner : run'[q].log = run[q].log /\ (run'[q].pc # "idle" <=> run[q].pc # "idle")
  BY <1>1 DEF Goto, Run
<1>3. run'[r].pc = pc /\ \A q \in Runner \ {r} : run'[q] = run[q]
  BY <1>1 DEF Goto, Run
<1>4. \A q \in Runner : Settled(q) => Settled(q)'
  BY <1>2 DEF Settled
<1>5. \A l \in logs : Accounted(l) => Accounted(l)'
  BY <1>2 DEF Accounted, InFlight
<1> QED BY <1>2, <1>3, <1>4, <1>5 DEF LogInv

\* A run that ends leaves a log that is finished or known to be stranded, or none.
LEMMA Ends ==
  ASSUME TypeInv, LogInv, NEW r \in Runner, run[r].pc # "idle", Finish(r),
         logs' = logs,
         run[r].pc = "inserting" \/ Settled(r) \/ run[r].log \in stranded',
         stranded \subseteq stranded',
         UNCHANGED <<started, boot, reaped>>
  PROVE  LogInv'
<1>1. \A q \in Runner \ {r} : run'[q] = run[q]
  BY DEF Finish, TypeInv
<1>2. run'[r].pc = "idle"
  BY DEF Finish, TypeInv, NoRun
<1>3. \A q \in Runner \ {r} : Settled(q) => Settled(q)'
  BY <1>1 DEF Settled
<1>4. ASSUME NEW l \in logs, l.status = "running", Accounted(l)
      PROVE  Accounted(l)'
  <2>1. CASE l.at \in stranded
    BY <2>1 DEF Accounted
  <2>2. CASE \E q \in InFlight : run[q].log = l.at
    <3>1. PICK q \in InFlight : run[q].log = l.at
      BY <2>2
    <3>2. CASE q # r
      BY <1>1, <3>1, <3>2 DEF Accounted, InFlight
    <3>3. CASE q = r
      <4>1. run[r].pc # "inserting"
        BY <3>1, <3>3 DEF LogInv
      <4>2. ~Settled(r)
        BY <1>4, <3>1, <3>3 DEF Settled
      <4> QED BY <3>1, <3>3, <4>1, <4>2 DEF Accounted
    <3> QED BY <3>2, <3>3
  <2> QED BY <1>4, <2>1, <2>2 DEF Accounted
<1> QED BY <1>1, <1>2, <1>3, <1>4 DEF LogInv

LEMMA InsertLogs ==
  ASSUME TypeInv, LogInv, NEW r \in Runner, InsertLog(r)
  PROVE  LogInv'
<1>0. PICK new : new = [at |-> started + 1, job |-> run[r].id, status |-> "running", boot |-> boot]
  OBVIOUS
<1>1. run[r] \in Run /\ run \in [Runner -> Run \cup {NoRun}] /\ started \in Nat
  BY Kinds DEF InsertLog, TypeInv
<1>2. /\ run' = [run EXCEPT ![r] = [run[r] EXCEPT !.pc = "executing", !.log = started + 1]]
      /\ logs' = logs \cup {new} /\ started' = started + 1
      /\ UNCHANGED <<boot, stranded, reaped>>
  BY <1>0, <1>1 DEF InsertLog, Run, ghost
<1>3. run'[r].pc = "executing" /\ run'[r].log = started + 1 /\ \A q \in Runner \ {r} : run'[q] = run[q]
  BY <1>1, <1>2 DEF Run
<1>4. new.at = started + 1 /\ new.boot = boot
  BY <1>0
<1>5. \A l \in logs : l.at \in Nat /\ l.at <= started /\ 0 < l.at
  BY DEF LogInv, TypeInv, Log
<1>6. \A q \in Runner \ {r} : run[q].pc # "idle" => run[q].log \in Nat /\ run[q].log <= started
  BY Kinds DEF LogInv, Run
<1>7. \A q \in Runner \ {r} : run[q].pc # "idle" /\ Settled(q) => Settled(q)'
  BY <1>1, <1>2, <1>3, <1>4, <1>6 DEF Settled
<1>8. \A l \in logs : l.status = "running" /\ Accounted(l) => Accounted(l)'
  <2>1. run[r].log = 0 /\ run[r].pc = "inserting"
    BY DEF InsertLog, LogInv
  <2> QED BY <1>2, <1>3, <1>5, <2>1 DEF Accounted, InFlight
<1>9. Accounted(new)'
  BY <1>2, <1>3, <1>4 DEF Accounted, InFlight
<1> QED BY <1>1, <1>2, <1>3, <1>4, <1>5, <1>6, <1>7, <1>8, <1>9 DEF LogInv

\* The last write of a run settles its log and leaves the others as they are.
LEMMA FinalEffect ==
  ASSUME TypeInv, NEW at, NEW status \in {"success", "failed"}
  PROVE  \A m \in Finalised(at, status) :
           \E l \in logs : /\ m.at = l.at /\ m.boot = l.boot /\ m.job = l.job
                           /\ m.status = "running" => m = l
                           /\ m.at = at => m.status # "running"
BY DEF TypeInv, Log, Finalised

LEMMA FinalLogs ==
  ASSUME TypeInv, LogInv, NEW r \in Runner, LogSuccess(r) \/ LogFailure(r)
  PROVE  LogInv'
<1>1. run[r] \in Run /\ run \in [Runner -> Run \cup {NoRun}] /\ run[r].pc \in {"succeeding", "failing"}
  BY Kinds DEF LogSuccess, LogFailure, TypeInv
<1>2. /\ \A m \in logs' :
           \E l \in logs : /\ m.at = l.at /\ m.boot = l.boot /\ m.job = l.job
                           /\ m.status = "running" => m = l
                           /\ m.at = run[r].log => m.status # "running"
      /\ UNCHANGED <<started, boot, stranded, reaped>>
  BY FinalEffect DEF LogSuccess, LogFailure, ghost
<1>3. \A q \in Runner \ {r} : run'[q] = run[q]
  BY <1>1 DEF LogSuccess, LogFailure, Finish, Goto
<1>4. run'[r].pc = "idle" \/ (run'[r].pc = "judging" /\ run'[r].log = run[r].log)
  BY <1>1 DEF LogSuccess, LogFailure, Finish, Goto, NoRun, Run
<1>5. \A q \in Runner \ {r} : Settled(q) => Settled(q)'
  BY <1>2, <1>3 DEF Settled
<1>6. run'[r].pc = "judging" => Settled(r)'
  BY <1>2, <1>4 DEF Settled
<1>7. ASSUME NEW m \in logs', m.status = "running", m \in logs, Accounted(m), m.at # run[r].log
      PROVE  Accounted(m)'
  BY <1>2, <1>3, <1>7 DEF Accounted, InFlight
<1>8. reaped => \A m \in logs' : m.status = "running" => m.boot = boot /\ Accounted(m)'
  BY <1>2, <1>7 DEF LogInv
<1>9. \A m \in logs' : 0 < m.at /\ m.at <= started
  BY <1>2 DEF LogInv
<1> QED BY <1>1, <1>2, <1>3, <1>4, <1>5, <1>6, <1>8, <1>9 DEF LogInv

LEMMA RunLogs ==
  ASSUME TypeInv, LogInv, NEW r \in Runner, RunStep(r)
  PROVE  LogInv'
<1>1. CASE InsertLog(r)
  BY <1>1, InsertLogs
<1>2. CASE InsertLogFails(r)
  BY <1>2, Ends DEF InsertLogFails, rows, ghost
<1>3. CASE Work(r)
  <2>1. logs' \subseteq logs
    BY <1>3 DEF Work, Trimmed
  <2> QED BY <1>3, <2>1, MovesOn DEF Work, ghost
<1>4. CASE WorkFails(r)
  BY <1>4, MovesOn DEF WorkFails, rows, ghost
<1>5. CASE LogSuccess(r) \/ LogFailure(r)
  BY <1>5, FinalLogs
<1>6. CASE LogSuccessFails(r)
  BY <1>6, MovesOn DEF LogSuccessFails, rows, ghost
<1>7. CASE LogFailureFails(r)
  BY <1>7, Ends DEF LogFailureFails, rows
<1>8. CASE Judge(r)
  <2>1. Settled(r) /\ run[r].pc = "judging"
    BY <1>8 DEF Judge, LogInv
  <2> QED BY <1>8, <2>1, Ends, MovesOn DEF Judge, rows
<1>9. CASE AutoPause(r)
  <2>1. Settled(r) /\ run[r].pc = "pausing"
    BY <1>9 DEF AutoPause, LogInv
  <2> QED BY <1>9, <2>1, MovesOn DEF AutoPause, ghost
<1>10. CASE AutoPauseFails(r) \/ DetachPaused(r)
  <2>1. Settled(r) /\ run[r].pc \in {"pausing", "detaching"}
    BY <1>10 DEF AutoPauseFails, DetachPaused, LogInv
  <2> QED BY <1>10, <2>1, Ends DEF AutoPauseFails, DetachPaused, rows, ghost
<1> QED BY <1>1, <1>2, <1>3, <1>4, <1>5, <1>6, <1>7, <1>8, <1>9, <1>10 DEF RunStep

\* Nothing else touches a log but the reaping of a new process.
LEMMA OtherLogs ==
  ASSUME TypeInv, LogInv, logs' \subseteq logs, UNCHANGED <<started, boot, stranded, reaped>>,
         \A r \in Runner : \/ run'[r].pc = run[r].pc /\ run'[r].log = run[r].log
                           \/ run[r].pc = "idle" /\ run'[r].pc = "inserting" /\ run'[r].log = 0
  PROVE  LogInv'
<1>1. \A r \in Runner : run'[r].pc \in {"judging", "pausing", "detaching"} /\ Settled(r) => Settled(r)'
  BY DEF Settled
<1>2. \A l \in logs : Accounted(l) => Accounted(l)'
  BY DEF Accounted, InFlight
<1>3. started \in Nat
  BY DEF TypeInv
<1> QED BY <1>1, <1>2, <1>3 DEF LogInv

LEMMA BootLogs ==
  ASSUME TypeInv, DownInv, LogInv, Boot
  PROVE  LogInv'
<1>1. PICK on \in CronModes, reap, seed \in BOOLEAN : StartCron(on, reap, seed)
  BY DEF Boot
<1>2. logs' = (IF on /\ reap THEN Reaped(logs) ELSE logs) /\ reaped' = (on /\ reap)
  BY <1>1 DEF StartCron
<1>3. \A m \in Reaped(logs) : m.status # "running" /\ \E l \in logs : m.at = l.at
  BY DEF Reaped, TypeInv, Log
<1>4. \A r \in Runner : run'[r].pc = "idle"
  BY DEF Boot, DownInv
<1>5. started' = started
  BY DEF Boot
<1> QED BY <1>2, <1>3, <1>4, <1>5 DEF LogInv

LEMMA NextLogs == TypeInv /\ DownInv /\ LogInv /\ [Next]_vars => LogInv'
<1> SUFFICES ASSUME TypeInv, DownInv, LogInv, [Next]_vars PROVE LogInv'
  OBVIOUS
<1>1. CASE Boot
  BY <1>1, BootLogs
<1>2. CASE HotSwap \/ HttpDeadline \/ StopHttp \/ StopRetention \/ StopCron \/ Drained \/ DrainDeadline \/ CloseDb
             \/ \E fatal \in BOOLEAN : Signal(fatal)
  <2>1. UNCHANGED <<logs, started, boot, stranded, reaped, run>>
    BY <1>2 DEF HotSwap, HttpDeadline, StopHttp, StopRetention, StopCron, Drained, DrainDeadline, CloseDb, Signal, rows, ghost
  <2> QED BY <2>1, OtherLogs
<1>3. CASE Gone
  <2>1. \A r \in Runner : run'[r].pc = "idle"
    BY <1>3 DEF Gone, NoRun
  <2> QED BY <1>3, <2>1 DEF Gone, rows, LogInv
<1>4. ASSUME NEW r \in Runner, NEW n \in Name, Tick(r, n) \/ Trigger(r, n)
      PROVE  LogInv'
  <2>1. UNCHANGED <<logs, started, boot, stranded, reaped>>
    BY <1>4 DEF Tick, Trigger, rows, ghost
  <2>2. \A q \in Runner \ {r} : run'[q] = run[q]
    BY <1>4 DEF Tick, Trigger, Begin, TypeInv
  <2>3. run[r].pc = "idle" /\ run'[r].pc = "inserting" /\ run'[r].log = 0
    BY <1>4 DEF Tick, Trigger, Begin, TypeInv, NoRun
  <2> QED BY <2>1, <2>2, <2>3, OtherLogs
<1>5. CASE \E r \in Runner : RunStep(r)
  BY <1>5, RunLogs
<1>6. ASSUME NEW a \in Admin, NEW op \in {"create", "delete", "pause", "resume"}, NEW n \in Name, Request(a, op, n)
      PROVE  LogInv'
  BY <1>6, OtherLogs DEF Request, rows
<1>7. ASSUME NEW a \in Admin, AdminStep(a)
      PROVE  LogInv'
  BY <1>7, AdminEffect, OtherLogs
<1>8. CASE UNCHANGED vars \/ \E s \in Sweeps : SweepStep(s)
  BY <1>8, SweepEffect, OtherLogs DEF vars, rows, ghost
<1> QED BY <1>1, <1>2, <1>3, <1>4, <1>5, <1>6, <1>7, <1>8 DEF Next, Shutdown, Exit, Crash

-----------------------------------------------------------------------------
(* Rows and their ids *)

\* No row of another name has the id, and none will get it.
Own(n, id) == id <= ids /\ \A m \in Name : job[m] # None /\ job[m].id = id => m = n

\* An id belongs to one name, whoever remembers it, and a log to a row that is there.
IdInv ==
  /\ \A n \in Name : /\ job[n] # None => Own(n, job[n].id)
                     /\ timer[n] # None => Own(n, timer[n].id)
  /\ \A r \in Runner : run[r].pc # "idle" => Own(run[r].name, run[r].id)
  /\ \A a \in Admin : adm[a].pc = "add" => Own(adm[a].name, adm[a].new.id)
  /\ \A l \in logs : Exists(l.job)

-----------------------------------------------------------------------------
(* Timers and rows *)

OnIt(a, n)     == adm[a].pc # "idle" /\ adm[a].name = n
PausesIt(r, n) == run[r].pc \in {"pausing", "detaching"} /\ run[r].name = n

\* One change of the name at a time.
Solo(n) ==
  /\ \A a, b \in Admin : OnIt(a, n) /\ OnIt(b, n) => a = b
  /\ \A r, q \in Runner : PausesIt(r, n) /\ PausesIt(q, n) => r = q
  /\ \A a \in Admin, r \in Runner : ~(OnIt(a, n) /\ PausesIt(r, n))

SoloInv == \A n \in Name \ raced : Solo(n)

Stable == phase = "up" /\ sched # None /\ sched = handle

Enabled(n) == Live(n) /\ job[n].enabled
Agrees(n)  == (Ticking(n) <=> Enabled(n)) /\ (Ticking(n) => timer[n].id = job[n].id)

\* What a change in progress knows: the row and the timer agree until it writes;
\* then the timer is about to be stopped, rebuilt or added.
InChange(n) ==
  /\ \A a \in Admin : OnIt(a, n) =>
       /\ adm[a].pc = "insert" => Agrees(n) /\ ~Live(n)
       /\ adm[a].pc = "update" => Agrees(n) /\ Live(n) /\ job[n].id = adm[a].id
       /\ adm[a].pc = "detach" => ~Enabled(n)
       /\ adm[a].pc = "add" => /\ timer[n] = None /\ Enabled(n)
                               /\ adm[a].new.id = job[n].id /\ ~adm[a].new.paused
  /\ \A r \in Runner : PausesIt(r, n) =>
       /\ run[r].pc = "pausing" => Agrees(n) /\ (job[n] # None => job[n].id = run[r].id)
       /\ run[r].pc = "detaching" => ~Enabled(n)

SyncInv ==
  /\ sched # None => sched <= handle
  /\ Stable => \A n \in Name \ raced : InChange(n) /\ (~Changing(n) => Agrees(n))

-----------------------------------------------------------------------------
(* Ids stay with their names *)

LEMMA InitIds == Init => IdInv
BY DEF Init, IdInv, NoRun, NoAdmin

\* Rows go, or come with the next id; whoever remembers an id remembered it before,
\* or takes it from a row that is there.
LEMMA IdsKept ==
  ASSUME TypeInv, IdInv,
         ids' = ids \/ ids' = ids + 1,
         \A m \in Name : job'[m] # None =>
           \/ job[m] # None /\ job'[m].id = job[m].id
           \/ /\ ids' = ids + 1 /\ job'[m].id = ids + 1
              /\ \A k \in Name : job'[k] # None /\ job'[k].id = ids + 1 => k = m,
         \A n \in Name : timer'[n] # None =>
           \/ timer[n] # None /\ timer'[n].id = timer[n].id
           \/ job'[n] # None /\ timer'[n].id = job'[n].id
           \/ \E a \in Admin : adm[a].pc = "add" /\ adm[a].name = n /\ timer'[n].id = adm[a].new.id,
         \A r \in Runner : run'[r].pc # "idle" =>
           \/ run[r].pc # "idle" /\ run'[r].name = run[r].name /\ run'[r].id = run[r].id
           \/ /\ run'[r].name \in Name /\ timer[run'[r].name] # None
              /\ run'[r].id = timer[run'[r].name].id
           \/ /\ run'[r].name \in Name /\ job[run'[r].name] # None
              /\ run'[r].id = job[run'[r].name].id,
         \A a \in Admin : adm'[a].pc = "add" =>
           \/ adm[a].pc = "add" /\ adm'[a] = adm[a]
           \/ /\ adm'[a].name \in Name /\ job[adm'[a].name] # None
              /\ adm'[a].new.id = job[adm'[a].name].id,
         \A l \in logs' : \E n \in Name : job'[n] # None /\ job'[n].id = l.job
  PROVE  IdInv'
<1> DEFINE Kept(n, id) == id <= ids' /\ \A m \in Name : job'[m] # None /\ job'[m].id = id => m = n
<1>1. ids \in Nat /\ (\A n \in Name : job[n] # None => job[n].id \in Nat)
  BY Kinds DEF TypeInv, Row
<1>2. ASSUME NEW n, NEW id \in Nat, Own(n, id)
      PROVE  Kept(n, id)
  BY <1>1, <1>2 DEF Own
<1>3. /\ \A n \in Name : job[n] # None => Kept(n, job[n].id)
      /\ \A n \in Name : timer[n] # None => Kept(n, timer[n].id)
      /\ \A r \in Runner : run[r].pc # "idle" => Kept(run[r].name, run[r].id)
      /\ \A a \in Admin : adm[a].pc = "add" => Kept(adm[a].name, adm[a].new.id)
  <2> HIDE DEF Kept
  <2>1. \A a \in Admin : adm[a].pc = "add" => adm[a].new.id \in Nat
    BY DEF TypeInv, Timer
  <2> QED BY <1>2, <2>1, Kinds DEF IdInv, Row, Timer, Run
<1>4. \A n \in Name : job'[n] # None => Kept(n, job'[n].id)
  <2>1. ASSUME NEW n \in Name, job'[n] # None, ids' = ids + 1, job'[n].id = ids + 1,
               \A k \in Name : job'[k] # None /\ job'[k].id = ids + 1 => k = n
        PROVE  Kept(n, job'[n].id)
    BY <1>1, <2>1
  <2> HIDE DEF Kept
  <2> QED BY <1>3, <2>1
<1>5. \A n \in Name : timer'[n] # None => Kept(n, timer'[n].id)
  <2> HIDE DEF Kept
  <2> QED BY <1>3, <1>4
<1>6. \A r \in Runner : run'[r].pc # "idle" => Kept(run'[r].name, run'[r].id)
  <2> HIDE DEF Kept
  <2> QED BY <1>3
<1>7. \A a \in Admin : adm'[a].pc = "add" => Kept(adm'[a].name, adm'[a].new.id)
  <2> HIDE DEF Kept
  <2> QED BY <1>3
<1> QED BY <1>4, <1>5, <1>6, <1>7 DEF IdInv, Own, Exists

LEMMA BootIds ==
  ASSUME TypeInv, DownInv, IdInv, Boot
  PROVE  IdInv'
<1>1. PICK on \in CronModes, reap, seed \in BOOLEAN : StartCron(on, reap, seed)
  BY DEF Boot
<1> DEFINE new    == IF on /\ seed THEN Seeds ELSE {}
           row(n) == IF n \in new THEN [id |-> ids + 1, enabled |-> TRUE, deleted |-> FALSE] ELSE job[n]
<1>2. /\ job' = [n \in Name |-> row(n)]
      /\ ids' = IF new = {} THEN ids ELSE ids + 1
      /\ logs' = IF on /\ reap THEN Reaped(logs) ELSE logs
      /\ timer' = [n \in Name |->
                     IF on /\ row(n) # None /\ row(n).enabled /\ ~row(n).deleted
                       THEN [id |-> row(n).id, handle |-> 0, paused |-> FALSE]
                       ELSE None]
  BY <1>1 DEF StartCron
<1>3. /\ new \subseteq Name
      /\ \A m, n \in new : m = n
      /\ \A n \in new : job[n] = None
  BY Parameters DEF Seeds
<1>4. \A m \in Name : /\ m \in new => ids' = ids + 1 /\ job'[m].id = ids + 1
                      /\ m \notin new => job'[m] = job[m]
  BY <1>2
<1>5. \A n \in Name : timer'[n] # None => job'[n] # None /\ timer'[n].id = job'[n].id
  BY <1>2
<1> HIDE DEF new, row
<1>6. ids' = ids \/ ids' = ids + 1
  BY <1>2
<1>7. \A n \in Name : job[n] # None => job'[n] = job[n] /\ job[n].id \in Nat /\ job[n].id <= ids
  BY <1>3, <1>4, Kinds DEF IdInv, Own, Row
<1>8. \A m \in Name : job'[m] # None =>
        \/ job[m] # None /\ job'[m].id = job[m].id
        \/ /\ ids' = ids + 1 /\ job'[m].id = ids + 1
           /\ \A k \in Name : job'[k] # None /\ job'[k].id = ids + 1 => k = m
  <2>1. ids \in Nat
    BY DEF TypeInv
  <2> QED BY <1>3, <1>4, <1>7, <2>1
<1>9. \A l \in logs' : \E k \in logs : l.job = k.job
  BY <1>2 DEF Reaped, TypeInv, Log
<1>10. \A l \in logs' : \E n \in Name : job'[n] # None /\ job'[n].id = l.job
  BY <1>7, <1>9 DEF IdInv, Exists
<1>11. (\A r \in Runner : run'[r].pc = "idle") /\ (\A a \in Admin : adm'[a].pc = "idle")
  BY DEF Boot, DownInv
<1> QED BY <1>5, <1>6, <1>8, <1>10, <1>11, IdsKept

LEMMA PhaseIds ==
  ASSUME TypeInv, IdInv, HotSwap \/ Shutdown \/ Crash \/ \E fatal \in BOOLEAN : Signal(fatal)
  PROVE  IdInv'
<1>1. UNCHANGED <<job, ids, logs>>
  BY DEF HotSwap, Shutdown, HttpDeadline, StopHttp, StopRetention, StopCron, Drained, DrainDeadline, CloseDb, Exit, Crash, Gone, Signal, rows
<1>2. \A n \in Name : timer'[n] # None => timer'[n] = timer[n]
  BY DEF HotSwap, Shutdown, HttpDeadline, StopHttp, StopRetention, StopCron, Drained, DrainDeadline, CloseDb, Exit, Crash, Gone, Signal, Detached
<1>3. \A r \in Runner : run'[r].pc # "idle" => run'[r] = run[r]
  BY DEF HotSwap, Shutdown, HttpDeadline, StopHttp, StopRetention, StopCron, Drained, DrainDeadline, CloseDb, Exit, Crash, Gone, Signal, NoRun
<1>4. \A a \in Admin : adm'[a].pc # "idle" => adm'[a] = adm[a]
  BY DEF HotSwap, Shutdown, HttpDeadline, StopHttp, StopRetention, StopCron, Drained, DrainDeadline, CloseDb, Exit, Crash, Gone, Signal, NoAdmin
<1>5. \A l \in logs : \E n \in Name : job[n] # None /\ job[n].id = l.job
  BY DEF IdInv, Exists
<1> QED BY <1>1, <1>2, <1>3, <1>4, <1>5, IdsKept

LEMMA StartIds ==
  ASSUME TypeInv, IdInv, NEW r \in Runner, NEW n \in Name, Tick(r, n) \/ Trigger(r, n)
  PROVE  IdInv'
<1>1. UNCHANGED <<job, ids, logs, timer, adm>>
  BY DEF Tick, Trigger, rows
<1>2. \A q \in Runner \ {r} : run'[q] = run[q]
  BY DEF Tick, Trigger, Begin, TypeInv
<1>3. /\ run'[r].name = n
      /\ \/ timer[n] # None /\ run'[r].id = timer[n].id
         \/ job[n] # None /\ run'[r].id = job[n].id
  BY DEF Tick, Trigger, Begin, TypeInv, Ticking, Live
<1>5. \A l \in logs : \E m \in Name : job[m] # None /\ job[m].id = l.job
  BY DEF IdInv, Exists
<1> QED BY <1>1, <1>2, <1>3, <1>5, IdsKept

\* Only the purge removes rows, and the logs of the removed rows with them.
LEMMA RunRows ==
  ASSUME TypeInv, IdInv, NEW r \in Runner, RunStep(r)
  PROVE  /\ \A m \in Name : job'[m] # None => job[m] # None /\ job'[m].id = job[m].id
         /\ \A l \in logs' : \E n \in Name : job'[n] # None /\ job'[n].id = l.job
<1>1. \A l \in logs : \E n \in Name : job[n] # None /\ job[n].id = l.job
  BY DEF IdInv, Exists
<1>2. CASE InsertLog(r)
  <2>1. \E n \in Name : job[n] # None /\ job[n].id = run[r].id
    BY <1>2 DEF InsertLog, Exists
  <2> QED BY <1>1, <1>2, <2>1 DEF InsertLog
<1>3. CASE Work(r)
  <2> DEFINE deleted == {n \in Name : job[n] # None /\ job[n].deleted}
             purges  == run[r].name \in Janitor
             trims   == run[r].name \in Janitor \cup Default
  <2>1. job' = (IF purges THEN Purged(deleted) ELSE job) /\ logs' = (IF trims THEN Trimmed(deleted) ELSE logs)
    BY <1>3 DEF Work
  <2>2. CASE purges
    <3>1. job' = Purged(deleted) /\ logs' = Trimmed(deleted)
      BY <2>1, <2>2
    <3> HIDE DEF deleted
    <3>2. \A m \in Name : job'[m] = IF m \in deleted THEN None ELSE job[m]
      BY <3>1 DEF Purged
    <3>3. \A l \in logs' : l \in logs /\ \A n \in deleted : l.job # job[n].id
      BY <3>1 DEF Trimmed
    <3> QED BY <1>1, <3>2, <3>3
  <2>3. CASE ~purges
    <3>1. job' = job /\ logs' \subseteq logs
      BY <2>1, <2>3 DEF Trimmed
    <3> QED BY <1>1, <3>1
  <2> QED BY <2>2, <2>3
<1>4. CASE LogSuccess(r) \/ LogFailure(r)
  <2>1. job' = job /\ \A m \in logs' : \E l \in logs : m.job = l.job
    BY <1>4, FinalEffect DEF LogSuccess, LogFailure
  <2> QED BY <1>1, <2>1
<1>5. CASE AutoPause(r)
  <2>1. \A m \in Name : job[m] # None => [job[m] EXCEPT !.enabled = FALSE].id = job[m].id
                                        /\ [job[m] EXCEPT !.enabled = FALSE] \in Row
    BY Kinds DEF Row
  <2>2. \A m \in Name : job'[m] = job[m] \/ (job[m] # None /\ job'[m] = [job[m] EXCEPT !.enabled = FALSE])
    BY <1>5 DEF AutoPause
  <2>3. logs' = logs /\ None \notin Row
    BY <1>5, Parameters DEF AutoPause, Row
  <2>4. \A m \in Name : /\ job'[m] # None => job[m] # None /\ job'[m].id = job[m].id
                        /\ job[m] # None => job'[m] # None
    BY <2>1, <2>2, <2>3
  <2> QED BY <1>1, <2>3, <2>4
<1>6. CASE ~(InsertLog(r) \/ Work(r) \/ LogSuccess(r) \/ LogFailure(r) \/ AutoPause(r))
  <2>1. job' = job /\ logs' = logs
    BY <1>6 DEF RunStep, InsertLogFails, WorkFails, LogSuccessFails, LogFailureFails, Judge,
                AutoPauseFails, DetachPaused, rows
  <2> QED BY <1>1, <2>1
<1> QED BY <1>2, <1>3, <1>4, <1>5, <1>6

LEMMA RunIds ==
  ASSUME TypeInv, IdInv, NEW r \in Runner, RunStep(r)
  PROVE  IdInv'
<1>1. \A q \in Runner : run'[q].pc # "idle" =>
        run[q].pc # "idle" /\ run'[q].name = run[q].name /\ run'[q].id = run[q].id
  BY RunEffect DEF NoRun
<1>2. \A n \in Name : timer'[n] # None => timer[n] # None /\ timer'[n].id = timer[n].id
  BY RunEffect
<1>3. ids' = ids /\ adm' = adm
  BY RunEffect
<1> QED BY <1>1, <1>2, <1>3, RunRows, IdsKept

LEMMA RequestIds ==
  ASSUME TypeInv, IdInv, NEW a \in Admin, NEW op \in {"create", "delete", "pause", "resume"},
         NEW n \in Name, Request(a, op, n)
  PROVE  IdInv'
<1>1. adm'[a].pc # "add" /\ \A b \in Admin \ {a} : adm'[b] = adm[b]
  BY DEF Request, TypeInv
<1>2. UNCHANGED <<job, ids, logs, timer, run>>
  BY DEF Request, rows
<1>5. \A l \in logs : \E m \in Name : job[m] # None /\ job[m].id = l.job
  BY DEF IdInv, Exists
<1> QED BY <1>1, <1>2, <1>5, IdsKept

\* What a request does to the row and the timer of its name.
LEMMA AdminRows ==
  ASSUME TypeInv, NEW a \in Admin, AdminStep(a), NEW n, n = adm[a].name
  PROVE  /\ n \in Name
         /\ \/ /\ adm[a].pc = "insert" /\ adm'[a].pc = "sync" /\ UNCHANGED timer
               /\ job[n] = None /\ job'[n] = [id |-> ids + 1, enabled |-> TRUE, deleted |-> FALSE]
               /\ ids' = ids + 1
            \/ /\ adm[a].pc = "update" /\ UNCHANGED <<ids, timer>>
               /\ adm'[a].pc = IF adm[a].op = "resume" THEN "sync" ELSE "detach"
               /\ job'[n] = IF job[n] # None /\ job[n].id = adm[a].id THEN Updated(adm[a].op, job[n]) ELSE job[n]
            \/ /\ adm[a].pc \in {"insert", "update"} /\ adm'[a] = NoAdmin /\ UNCHANGED <<job, ids, timer>>
            \/ /\ adm[a].pc = "sync" /\ UNCHANGED <<job, ids>>
               /\ \/ adm'[a] = NoAdmin /\ sched = None /\ UNCHANGED timer
                  \/ /\ adm'[a] = NoAdmin /\ timer'[n] = None
                     /\ ~(Open(sched) /\ Enabled(n))
                  \/ /\ adm'[a].pc = "add" /\ timer'[n] = None /\ Enabled(n)
                     /\ adm'[a].new = [id |-> job[n].id, handle |-> sched, paused |-> FALSE]
            \/ /\ adm[a].pc = "add" /\ adm'[a] = NoAdmin /\ UNCHANGED <<job, ids>>
               /\ timer'[n] = adm[a].new \/ (timer[n] # None /\ UNCHANGED timer)
            \/ /\ adm[a].pc = "detach" /\ adm'[a] = NoAdmin /\ UNCHANGED <<job, ids>>
               /\ \/ timer'[n] = None
                  \/ timer[n] # None /\ timer'[n] = [timer[n] EXCEPT !.paused = TRUE]
<1>1. adm[a] \in Change /\ n \in Name /\ adm \in [Admin -> Change \cup {NoAdmin}]
  BY AdminEffect DEF Change, TypeInv
<1>2. job \in [Name -> Row \cup {None}] /\ timer \in [Name -> Timer \cup {None}]
  BY DEF TypeInv
<1>3. \A pc \in {"sync", "detach"} : [adm[a] EXCEPT !.pc = pc].pc = pc
  BY <1>1 DEF Change
<1>4. CASE InsertJob(a)
  <2>1. adm' = [adm EXCEPT ![a] = [adm[a] EXCEPT !.pc = "sync"]]
    BY <1>4 DEF InsertJob
  <2>2. adm'[a].pc = "sync"
    BY <1>1, <1>3, <2>1
  <2> QED BY <1>1, <1>2, <1>4, <2>2 DEF InsertJob
<1>5. CASE UpdateJob(a)
  <2>1. adm' = [adm EXCEPT ![a] = [adm[a] EXCEPT !.pc = IF adm[a].op = "resume" THEN "sync" ELSE "detach"]]
    BY <1>5 DEF UpdateJob
  <2>2. adm'[a].pc = IF adm[a].op = "resume" THEN "sync" ELSE "detach"
    BY <1>1, <1>3, <2>1
  <2>3. job'[n] = IF job[n] # None /\ job[n].id = adm[a].id THEN Updated(adm[a].op, job[n]) ELSE job[n]
    BY <1>1, <1>2, <1>5 DEF UpdateJob
  <2> QED BY <1>1, <1>5, <2>2, <2>3 DEF UpdateJob
<1>6. CASE WriteFails(a)
  BY <1>1, <1>6 DEF WriteFails, rows
<1>7. CASE SyncRemove(a)
  <2> DEFINE t == [id |-> job[n].id, handle |-> sched, paused |-> FALSE]
  <2>1. CASE sched = None
    BY <1>1, <1>7, <2>1 DEF SyncRemove, rows
  <2>2. CASE sched # None /\ ~(Open(sched) /\ Live(n) /\ job[n].enabled)
    BY <1>1, <1>2, <1>7, <2>2 DEF SyncRemove, rows, RemoveTimer, Enabled
  <2>3. CASE sched # None /\ Open(sched) /\ Live(n) /\ job[n].enabled
    <3>1. adm' = [adm EXCEPT ![a] = [adm[a] EXCEPT !.pc = "add", !.new = t]]
      BY <1>7, <2>3 DEF SyncRemove
    <3>2. adm'[a].pc = "add" /\ adm'[a].new = t
      <4> HIDE DEF t
      <4> QED BY <1>1, <3>1 DEF Change
    <3>3. timer'[n] = None
      BY <1>1, <1>2, <1>7, <2>3 DEF SyncRemove, RemoveTimer
    <3> QED BY <1>1, <1>7, <2>3, <3>2, <3>3 DEF SyncRemove, rows, Enabled
  <2> QED BY <2>1, <2>2, <2>3
<1>8. CASE SyncAdd(a)
  BY <1>1, <1>2, <1>8 DEF SyncAdd, rows
<1>9. CASE Detach(a)
  <2>1. adm'[a] = NoAdmin /\ UNCHANGED <<job, ids>> /\ adm[a].pc = "detach"
    BY <1>1, <1>9 DEF Detach, rows
  <2>2. timer' = RemoveTimer(n) \/ timer' = Paused(n)
    BY <1>9 DEF Detach
  <2>3. timer'[n] = None \/ (timer[n] # None /\ timer'[n] = [timer[n] EXCEPT !.paused = TRUE])
    BY <1>1, <1>2, <2>2 DEF RemoveTimer, Paused
  <2> QED BY <1>1, <2>1, <2>3
<1> QED BY <1>4, <1>5, <1>6, <1>7, <1>8, <1>9 DEF AdminStep

LEMMA UpdatedRow ==
  ASSUME TypeInv, NEW op \in {"delete", "pause", "resume"}, NEW n \in Name, job[n] # None
  PROVE  /\ Updated(op, job[n]) \in Row
         /\ Updated(op, job[n]) # None
         /\ Updated(op, job[n]).id = job[n].id
         /\ op = "delete" => Updated(op, job[n]).deleted
         /\ op = "pause" => ~Updated(op, job[n]).enabled
<1>1. job[n] \in Row /\ None \notin Row
  BY Kinds, Parameters DEF Row
<1>2. CASE op = "delete"
  BY <1>1, <1>2 DEF Updated, Row
<1>3. CASE op = "pause"
  BY <1>1, <1>3 DEF Updated, Row
<1>4. CASE op = "resume"
  BY <1>1, <1>4 DEF Updated, Row
<1> QED BY <1>2, <1>3, <1>4

LEMMA AdminIds ==
  ASSUME TypeInv, IdInv, NEW a \in Admin, AdminStep(a)
  PROVE  IdInv'
<1> DEFINE n == adm[a].name
<1>1. /\ n \in Name
      /\ \A m \in Name \ {n} : job'[m] = job[m] /\ timer'[m] = timer[m]
      /\ \A b \in Admin \ {a} : adm'[b] = adm[b]
      /\ logs' = logs
      /\ \A r \in Runner : run'[r].pc # "idle" =>
           run[r].pc # "idle" /\ run'[r].name = run[r].name /\ run'[r].id = run[r].id
  BY AdminEffect, AdminRows
<1>2. ids \in Nat /\ \A m \in Name : job[m] # None => job[m].id \in Nat /\ job[m].id <= ids
  BY Kinds DEF TypeInv, Row, IdInv, Own
<1>3. \/ ids' = ids /\ job'[n] = job[n]
      \/ ids' = ids /\ job[n] # None /\ job'[n] # None /\ job'[n].id = job[n].id
      \/ ids' = ids + 1 /\ job[n] = None /\ job'[n] # None /\ job'[n].id = ids + 1
  <2>1. adm[a].pc = "update" => adm[a].op \in {"delete", "pause", "resume"}
    BY DEF TypeInv
  <2>2. \A id : [id |-> id, enabled |-> TRUE, deleted |-> FALSE].id = id
    OBVIOUS
  <2>3. [id |-> ids + 1, enabled |-> TRUE, deleted |-> FALSE] # None
    <3>1. [id |-> ids + 1, enabled |-> TRUE, deleted |-> FALSE] \in [id : Nat, enabled : BOOLEAN, deleted : BOOLEAN]
      BY <1>2
    <3> QED BY <3>1, Parameters
  <2>4. \/ /\ adm[a].pc = "insert" /\ ids' = ids + 1 /\ job[n] = None
           /\ job'[n] = [id |-> ids + 1, enabled |-> TRUE, deleted |-> FALSE]
        \/ /\ adm[a].pc = "update" /\ ids' = ids
           /\ job'[n] = IF job[n] # None /\ job[n].id = adm[a].id THEN Updated(adm[a].op, job[n]) ELSE job[n]
        \/ UNCHANGED <<job, ids>>
    BY AdminRows
  <2> HIDE DEF n
  <2>5. ASSUME job[n] # None, adm[a].pc = "update"
        PROVE  Updated(adm[a].op, job[n]) # None /\ Updated(adm[a].op, job[n]).id = job[n].id
    BY <1>1, <2>1, <2>5, UpdatedRow
  <2> QED BY <1>1, <2>2, <2>3, <2>4, <2>5
<1>4. timer'[n] # None => \/ timer[n] # None /\ timer'[n].id = timer[n].id
                          \/ adm[a].pc = "add" /\ timer'[n].id = adm[a].new.id
  <2>1. timer[n] # None => [timer[n] EXCEPT !.paused = TRUE].id = timer[n].id
    BY <1>1, Kinds DEF Timer
  <2> QED BY <2>1, AdminRows
<1>5. adm'[a].pc = "add" => /\ adm'[a].name = n /\ job'[n] = job[n] /\ job[n] # None
                            /\ adm'[a].new.id = job[n].id
  <2>1. adm'[a].pc = "add" => adm'[a].name = n
    BY AdminEffect DEF NoAdmin
  <2>2. adm'[a].pc = "add" =>
          /\ UNCHANGED job /\ Enabled(n)
          /\ adm'[a].new = [id |-> job[n].id, handle |-> sched, paused |-> FALSE]
    BY AdminRows, IdleAdmin
  <2> HIDE DEF n
  <2> QED BY <2>1, <2>2 DEF Enabled, Live
<1> HIDE DEF n
<1>6. \A m \in Name : job'[m] # None =>
        \/ job[m] # None /\ job'[m].id = job[m].id
        \/ /\ ids' = ids + 1 /\ job'[m].id = ids + 1
           /\ \A k \in Name : job'[k] # None /\ job'[k].id = ids + 1 => k = m
  BY <1>1, <1>2, <1>3
<1>7. \A l \in logs' : \E m \in Name : job'[m] # None /\ job'[m].id = l.job
  <2>1. \A l \in logs : \E m \in Name : job[m] # None /\ job[m].id = l.job
    BY DEF IdInv, Exists
  <2>2. \A m \in Name : job[m] # None => job'[m] # None /\ job'[m].id = job[m].id
    BY <1>1, <1>3
  <2> QED BY <1>1, <2>1, <2>2
<1>8. \A m \in Name : timer'[m] # None =>
        \/ timer[m] # None /\ timer'[m].id = timer[m].id
        \/ \E b \in Admin : adm[b].pc = "add" /\ adm[b].name = m /\ timer'[m].id = adm[b].new.id
  BY <1>1, <1>4 DEF n
<1>9. \A b \in Admin : adm'[b].pc = "add" =>
        \/ adm[b].pc = "add" /\ adm'[b] = adm[b]
        \/ /\ adm'[b].name \in Name /\ job[adm'[b].name] # None
           /\ adm'[b].new.id = job[adm'[b].name].id
  BY <1>1, <1>5
<1> QED BY <1>1, <1>3, <1>6, <1>7, <1>8, <1>9, IdsKept

LEMMA NextIds == TypeInv /\ DownInv /\ IdInv /\ [Next]_vars => IdInv'
<1> SUFFICES ASSUME TypeInv, DownInv, IdInv, [Next]_vars PROVE IdInv'
  OBVIOUS
<1>1. CASE Boot
  BY <1>1, BootIds
<1>2. CASE HotSwap \/ Shutdown \/ Crash \/ \E fatal \in BOOLEAN : Signal(fatal)
  BY <1>2, PhaseIds
<1>3. CASE \E r \in Runner, n \in Name : Tick(r, n) \/ Trigger(r, n)
  BY <1>3, StartIds
<1>4. CASE \E r \in Runner : RunStep(r)
  BY <1>4, RunIds
<1>5. CASE \E a \in Admin, op \in {"create", "delete", "pause", "resume"}, n \in Name : Request(a, op, n)
  BY <1>5, RequestIds
<1>6. CASE \E a \in Admin : AdminStep(a)
  BY <1>6, AdminIds
<1>7. CASE UNCHANGED vars \/ \E s \in Sweeps : SweepStep(s)
  <2>1. UNCHANGED <<rows, timer, run, adm>>
    BY <1>7, SweepEffect DEF vars
  <2> QED BY <2>1 DEF rows, IdInv, Own, Exists
<1> QED BY <1>1, <1>2, <1>3, <1>4, <1>5, <1>6, <1>7 DEF Next

-----------------------------------------------------------------------------
(* One change of a name at a time, unless the name is in `raced` *)

LEMMA InitSolo == Init => SoloInv
BY DEF Init, SoloInv, Solo, OnIt, PausesIt, NoRun, NoAdmin

\* Changes may end; one may begin on a name that nothing was changing.
LEMMA SoloKept ==
  ASSUME SoloInv, raced \subseteq raced',
         \A n \in Name \ raced' :
           \/ /\ \A a \in Admin : OnIt(a, n)' => OnIt(a, n)
              /\ \A r \in Runner : PausesIt(r, n)' => PausesIt(r, n)
           \/ /\ ~Changing(n)
              /\ \/ /\ \A a, b \in Admin : OnIt(a, n)' /\ OnIt(b, n)' => a = b
                    /\ \A r \in Runner : PausesIt(r, n)' => PausesIt(r, n)
                 \/ /\ \A r, q \in Runner : PausesIt(r, n)' /\ PausesIt(q, n)' => r = q
                    /\ \A a \in Admin : OnIt(a, n)' => OnIt(a, n)
  PROVE  SoloInv'
<1>1. \A n \in Name \ raced' : Solo(n)
  BY DEF SoloInv
<1>2. \A n : ~Changing(n) => (\A a \in Admin : ~OnIt(a, n)) /\ (\A r \in Runner : ~PausesIt(r, n))
  BY DEF Changing, OnIt, PausesIt
<1>3. \A n \in Name \ raced' :
        /\ \A a, b \in Admin : OnIt(a, n)' /\ OnIt(b, n)' => a = b
        /\ \A r, q \in Runner : PausesIt(r, n)' /\ PausesIt(q, n)' => r = q
        /\ \A a \in Admin, r \in Runner : ~(OnIt(a, n)' /\ PausesIt(r, n)')
  BY <1>1, <1>2 DEF Solo
<1> QED BY <1>3 DEF SoloInv, Solo

\* Where a run comes to pause its job.
LEMMA RunPauses ==
  ASSUME TypeInv, NEW r \in Runner, RunStep(r)
  PROVE  /\ ~Judge(r) => raced' = raced
         /\ run'[r].pc \in {"pausing", "detaching"} =>
              \/ /\ run[r].pc \in {"pausing", "detaching"}
              \/ /\ Judge(r) /\ run'[r].pc = "pausing" /\ Streak(run[r].id)
                 /\ raced' = IF Changing(run[r].name) THEN raced \cup {run[r].name} ELSE raced
<1>1. run \in [Runner -> Run \cup {NoRun}] /\ run[r] \in Run
  BY RunEffect, Kinds DEF TypeInv
<1>2. \A pc : Goto(r, pc) => run'[r].pc = pc
  BY <1>1 DEF Goto, Run
<1>3. Finish(r) => run'[r].pc = "idle"
  BY <1>1 DEF Finish, NoRun
<1>4. InsertLog(r) => run'[r].pc = "executing"
  <2>1. InsertLog(r) => run' = [run EXCEPT ![r] = [run[r] EXCEPT !.pc = "executing", !.log = started + 1]]
    BY <1>1 DEF InsertLog, Run
  <2> QED BY <1>1, <2>1 DEF Run
<1>5. CASE Judge(r)
  BY <1>2, <1>3, <1>5 DEF Judge
<1>6. CASE ~Judge(r)
  BY <1>2, <1>3, <1>4, <1>6 DEF RunStep, InsertLog, InsertLogFails, Work, WorkFails, LogSuccess, LogSuccessFails,
     LogFailure, LogFailureFails, AutoPause, AutoPauseFails, DetachPaused, ghost
<1> QED BY <1>5, <1>6

LEMMA RunSolo ==
  ASSUME TypeInv, SoloInv, NEW r \in Runner, RunStep(r)
  PROVE  SoloInv'
<1> PICK m : m = run[r].name
  OBVIOUS
<1>1. /\ adm' = adm
      /\ \A q \in Runner \ {r} : run'[q] = run[q]
      /\ run'[r].pc # "idle" => run'[r].name = m
  BY RunEffect DEF NoRun
<1>2. raced \subseteq raced'
  BY RunPauses DEF Judge
<1>3. \A n, a : OnIt(a, n)' => OnIt(a, n)
  BY <1>1 DEF OnIt
<1>4. \A n, q : q \in Runner \ {r} => (PausesIt(q, n)' => PausesIt(q, n))
  BY <1>1 DEF PausesIt
<1>5. CASE PausesIt(r, m)' => PausesIt(r, m)
  <2>1. \A n : PausesIt(r, n)' => PausesIt(r, n)
    BY <1>1, <1>5 DEF PausesIt
  <2> QED BY <1>2, <1>3, <1>4, <2>1, SoloKept
<1>6. CASE PausesIt(r, m)' /\ ~PausesIt(r, m)
  <2>1. raced' = IF Changing(m) THEN raced \cup {m} ELSE raced
    BY <1>6, RunPauses DEF PausesIt
  <2>2. \A n \in Name \ raced' : n # m => ~PausesIt(r, n)'
    BY <1>1 DEF PausesIt
  <2>3. m \notin raced' => ~Changing(m)
    BY <2>1
  <2>4. ~Changing(m) => \A q \in Runner : ~PausesIt(q, m)
    BY DEF Changing, PausesIt
  <2>5. m \notin raced' => \A p, q \in Runner : PausesIt(p, m)' /\ PausesIt(q, m)' => p = q
    BY <1>4, <2>3, <2>4
  <2> QED BY <1>2, <1>3, <1>4, <2>2, <2>3, <2>5, SoloKept
<1> QED BY <1>5, <1>6

LEMMA RequestSolo ==
  ASSUME TypeInv, SoloInv, NEW a \in Admin, NEW op \in {"create", "delete", "pause", "resume"},
         NEW m \in Name, Request(a, op, m)
  PROVE  SoloInv'
<1>1. /\ run' = run
      /\ \A b \in Admin \ {a} : adm'[b] = adm[b]
      /\ adm'[a].name = m
      /\ raced' = IF Changing(m) THEN raced \cup {m} ELSE raced
  BY DEF Request, TypeInv
<1>2. \A n, r : PausesIt(r, n)' => PausesIt(r, n)
  BY <1>1 DEF PausesIt
<1>3. \A n, b : b \in Admin \ {a} => (OnIt(b, n)' => OnIt(b, n))
  BY <1>1 DEF OnIt
<1>4. \A n : n # m => ~OnIt(a, n)'
  BY <1>1 DEF OnIt
<1>5. ~Changing(m) => \A b \in Admin : ~OnIt(b, m)
  BY DEF Changing, OnIt
<1>6. m \notin raced' => ~Changing(m) /\ \A b, c \in Admin : OnIt(b, m)' /\ OnIt(c, m)' => b = c
  BY <1>1, <1>3, <1>5
<1> QED BY <1>1, <1>2, <1>3, <1>4, <1>6, SoloKept

LEMMA AdminSolo ==
  ASSUME TypeInv, SoloInv, NEW a \in Admin, AdminStep(a)
  PROVE  SoloInv'
<1>1. /\ raced' = raced
      /\ \A r \in Runner : run'[r] = run[r] \/ (run'[r].pc = run[r].pc /\ run'[r].name = run[r].name)
      /\ \A b \in Admin \ {a} : adm'[b] = adm[b]
      /\ adm[a].pc # "idle"
      /\ adm'[a].pc # "idle" => adm'[a].name = adm[a].name
  BY AdminEffect DEF NoAdmin
<1>2. \A n, r : r \in Runner => (PausesIt(r, n)' => PausesIt(r, n))
  BY <1>1 DEF PausesIt
<1>3. \A n, b : b \in Admin => (OnIt(b, n)' => OnIt(b, n))
  BY <1>1 DEF OnIt
<1> QED BY <1>1, <1>2, <1>3, SoloKept

\* The other steps begin no change.
LEMMA OtherSolo ==
  ASSUME TypeInv, DownInv, SoloInv,
         \/ Boot \/ HotSwap \/ Shutdown \/ Crash \/ UNCHANGED vars
         \/ \E s \in Sweeps : SweepStep(s)
         \/ \E fatal \in BOOLEAN : Signal(fatal)
         \/ \E r \in Runner, n \in Name : Tick(r, n) \/ Trigger(r, n)
  PROVE  SoloInv'
<1>1. CASE Gone
  <2>1. (\A a \in Admin : adm'[a].pc = "idle") /\ (\A r \in Runner : run'[r].pc = "idle")
    BY <1>1 DEF Gone, NoRun, NoAdmin
  <2> QED BY <2>1 DEF SoloInv, Solo, OnIt, PausesIt
<1>2. CASE UNCHANGED <<run, adm, raced>>
  <2>1. \A n, a : OnIt(a, n)' => OnIt(a, n)
    BY <1>2 DEF OnIt
  <2>2. \A n, r : PausesIt(r, n)' => PausesIt(r, n)
    BY <1>2 DEF PausesIt
  <2> QED BY <1>2, <2>1, <2>2, SoloKept
<1>3. ASSUME NEW r \in Runner, NEW n \in Name, Tick(r, n) \/ Trigger(r, n)
      PROVE  SoloInv'
  <2>1. UNCHANGED <<adm, raced>>
    BY <1>3 DEF Tick, Trigger, ghost
  <2>2. (\A q \in Runner \ {r} : run'[q] = run[q]) /\ run'[r].pc = "inserting"
    BY <1>3 DEF Tick, Trigger, Begin, TypeInv
  <2>3. \A k, a : OnIt(a, k)' => OnIt(a, k)
    BY <2>1 DEF OnIt
  <2>4. \A k, q : q \in Runner => (PausesIt(q, k)' => PausesIt(q, k))
    BY <2>2 DEF PausesIt
  <2> QED BY <2>1, <2>3, <2>4, SoloKept
<1>4. CASE \E s \in Sweeps : SweepStep(s)
  BY <1>2, <1>4, SweepEffect DEF ghost
<1> QED BY <1>1, <1>2, <1>3, <1>4 DEF Boot, HotSwap, Shutdown, HttpDeadline, StopHttp, StopRetention, StopCron, Drained, DrainDeadline, CloseDb,
             Exit, Crash, Signal, vars, ghost

LEMMA NextSolo == TypeInv /\ DownInv /\ SoloInv /\ [Next]_vars => SoloInv'
BY OtherSolo, RunSolo, RequestSolo, AdminSolo DEF Next

-----------------------------------------------------------------------------
(* Timers follow the rows *)

LEMMA InitSync == Init => SyncInv
BY DEF Init, SyncInv, Stable

\* Nothing that matters to a name has changed, or its deleted row was purged.
LEMMA Undisturbed ==
  ASSUME NEW n \in Name,
         InChange(n), ~Changing(n) => Agrees(n),
         job'[n] = job[n] \/ (job[n] # None /\ job[n].deleted /\ job'[n] = None),
         timer'[n] = timer[n],
         \A a \in Admin : (OnIt(a, n) \/ OnIt(a, n)') => adm'[a] = adm[a],
         \A r \in Runner : (PausesIt(r, n) \/ PausesIt(r, n)') =>
           run'[r].pc = run[r].pc /\ run'[r].name = run[r].name /\ run'[r].id = run[r].id
  PROVE  InChange(n)' /\ (~Changing(n) => Agrees(n))'
<1>1. /\ \A a \in Admin : OnIt(a, n) <=> OnIt(a, n)'
      /\ \A r \in Runner : PausesIt(r, n) <=> PausesIt(r, n)'
  BY DEF OnIt, PausesIt
<1>2. Changing(n) <=> Changing(n)'
  BY <1>1 DEF Changing, OnIt, PausesIt
<1>3. (Enabled(n) <=> Enabled(n)') /\ (Ticking(n) <=> Ticking(n)') /\ (Agrees(n) => Agrees(n)')
  BY DEF Enabled, Live, Ticking, Agrees
<1>4. InChange(n)'
  <2>1. ASSUME NEW a \in Admin, OnIt(a, n)'
        PROVE  /\ adm'[a].pc = "insert" => Agrees(n)' /\ ~Live(n)'
               /\ adm'[a].pc = "update" => Agrees(n)' /\ Live(n)' /\ job'[n].id = adm'[a].id
               /\ adm'[a].pc = "detach" => ~Enabled(n)'
               /\ adm'[a].pc = "add" => /\ timer'[n] = None /\ Enabled(n)'
                                        /\ adm'[a].new.id = job'[n].id /\ ~adm'[a].new.paused
    BY <1>1, <1>3, <2>1 DEF InChange, Live, Enabled
  <2>2. ASSUME NEW r \in Runner, PausesIt(r, n)'
        PROVE  /\ run'[r].pc = "pausing" => Agrees(n)' /\ (job'[n] # None => job'[n].id = run'[r].id)
               /\ run'[r].pc = "detaching" => ~Enabled(n)'
    BY <1>1, <1>3, <2>2 DEF InChange
  <2> QED BY <2>1, <2>2 DEF InChange
<1> QED BY <1>2, <1>3, <1>4

\* A streak is a streak of some job.
LEMMA StreakExists ==
  ASSUME IdInv, Parameters, NEW id, Streak(id)
  PROVE  Exists(id)
<1>1. Latest(id) # {}
  <2>1. Cardinality({}) = 0
    BY FS_EmptySet
  <2> QED BY <2>1 DEF Streak, Parameters
<1>2. PICK l \in Latest(id) : TRUE
  BY <1>1
<1>3. l \in logs /\ l.job = id
  BY <1>2 DEF Latest, Finished
<1> QED BY <1>3 DEF IdInv

\* The rows a step of a run changes: its own, or deleted ones, which go.
LEMMA RunTouches ==
  ASSUME TypeInv, IdInv, NEW r \in Runner, RunStep(r)
  PROVE  /\ \A n \in Name : ~(n = run[r].name /\ AutoPause(r)) =>
              job'[n] = job[n] \/ (job[n] # None /\ job[n].deleted /\ job'[n] = None)
         /\ \A n \in Name : ~(n = run[r].name /\ DetachPaused(r)) => timer'[n] = timer[n]
<1>1. ASSUME NEW n \in Name, ~(n = run[r].name /\ AutoPause(r))
      PROVE  job'[n] = job[n] \/ (job[n] # None /\ job[n].deleted /\ job'[n] = None)
  <2>1. CASE AutoPause(r)
    <3>1. job'[n] = IF job[n] # None /\ job[n].id = run[r].id THEN [job[n] EXCEPT !.enabled = FALSE] ELSE job[n]
      BY <2>1 DEF AutoPause
    <3>2. Own(run[r].name, run[r].id)
      BY RunEffect DEF IdInv
    <3> QED BY <1>1, <2>1, <3>1, <3>2 DEF Own
  <2>2. CASE Work(r)
    BY <2>2 DEF Work, Purged
  <2>3. CASE ~(AutoPause(r) \/ Work(r))
    BY <2>3 DEF RunStep, InsertLog, InsertLogFails, WorkFails, LogSuccess, LogSuccessFails,
         LogFailure, LogFailureFails, Judge, AutoPauseFails, DetachPaused, rows
  <2> QED BY <2>1, <2>2, <2>3
<1>2. ASSUME NEW n \in Name, ~(n = run[r].name /\ DetachPaused(r))
      PROVE  timer'[n] = timer[n]
  <2>1. CASE DetachPaused(r)
    <3>1. timer' = Paused(run[r].name) /\ n # run[r].name
      BY <1>2, <2>1 DEF DetachPaused
    <3>2. timer \in [Name -> Timer \cup {None}]
      BY DEF TypeInv
    <3> QED BY <3>1, <3>2 DEF Paused
  <2>2. CASE ~DetachPaused(r)
    BY <2>2 DEF RunStep, InsertLog, InsertLogFails, Work, WorkFails, LogSuccess, LogSuccessFails,
         LogFailure, LogFailureFails, Judge, AutoPause, AutoPauseFails
  <2> QED BY <2>1, <2>2
<1> QED BY <1>1, <1>2

\* A run that pauses its job is the only one to change it, unless the name is raced.
LEMMA RunSync ==
  ASSUME TypeInv, IdInv, SoloInv, SyncInv, NEW r \in Runner, RunStep(r)
  PROVE  SyncInv'
<1> PICK m : m = run[r].name
  OBVIOUS
<1>1. /\ UNCHANGED <<phase, sched, handle, adm>>
      /\ run[r].pc # "idle" /\ run[r] \in Run /\ m \in Name
      /\ \A q \in Runner \ {r} : run'[q] = run[q]
      /\ run'[r] = NoRun \/ (run'[r].name = m /\ run'[r].id = run[r].id)
  BY RunEffect, Kinds DEF Run
<1>2. raced \subseteq raced'
  BY RunPauses DEF Judge
<1> SUFFICES ASSUME Stable, NEW n \in Name, n \notin raced'
             PROVE  InChange(n)' /\ (~Changing(n) => Agrees(n))'
  BY <1>1 DEF SyncInv, Stable
<1>3. InChange(n) /\ (~Changing(n) => Agrees(n)) /\ Solo(n)
  BY <1>2 DEF SyncInv, SoloInv
<1>4. CASE /\ job'[n] = job[n] \/ (job[n] # None /\ job[n].deleted /\ job'[n] = None)
           /\ timer'[n] = timer[n]
           /\ ~PausesIt(r, n) /\ ~PausesIt(r, n)'
  BY <1>1, <1>3, <1>4, Undisturbed
<1>5. CASE n # m
  <2>1. ~PausesIt(r, n) /\ ~PausesIt(r, n)'
    BY <1>1, <1>5 DEF PausesIt, NoRun
  <2> QED BY <1>4, <1>5, <2>1, RunTouches
<1>6. CASE n = m /\ ~PausesIt(r, n) /\ ~PausesIt(r, n)'
  <2>1. ~AutoPause(r) /\ ~DetachPaused(r)
    BY <1>6 DEF PausesIt, AutoPause, DetachPaused
  <2> QED BY <1>4, <1>6, <2>1, RunTouches
<1>7. CASE n = m /\ ~PausesIt(r, n) /\ PausesIt(r, n)'
  <2>1. /\ Judge(r) /\ run'[r].pc = "pausing" /\ Streak(run[r].id)
        /\ raced' = IF Changing(m) THEN raced \cup {m} ELSE raced
    BY <1>1, <1>7, RunPauses DEF PausesIt
  <2>2. ~Changing(n) /\ Agrees(n)
    BY <1>3, <1>7, <2>1
  <2>3. UNCHANGED <<job, timer>>
    BY <2>1 DEF Judge, rows
  <2>4. Agrees(n)'
    BY <2>2, <2>3 DEF Agrees, Ticking, Enabled, Live
  <2>5. job[n] # None => job[n].id = run[r].id
    <3>1. PICK k \in Name : job[k] # None /\ job[k].id = run[r].id
      BY <2>1, StreakExists, Parameters DEF Exists
    <3>2. k = n
      BY <1>1, <1>7, <3>1 DEF IdInv, Own
    <3> QED BY <3>1, <3>2
  <2>6. \A a \in Admin : ~OnIt(a, n)'
    BY <1>1, <2>2 DEF Changing, OnIt
  <2>7. \A q \in Runner : PausesIt(q, n)' => q = r
    BY <1>1, <2>2 DEF Changing, PausesIt
  <2>8. Changing(n)'
    BY <1>7 DEF Changing, PausesIt
  <2>9. InChange(n)'
    <3>1. \A q \in Runner : PausesIt(q, n)' =>
            /\ run'[q].pc = "pausing" => Agrees(n)' /\ (job'[n] # None => job'[n].id = run'[q].id)
            /\ run'[q].pc = "detaching" => ~Enabled(n)'
      BY <1>1, <2>1, <2>3, <2>4, <2>5, <2>7, <1>7 DEF PausesIt, NoRun
    <3> QED BY <2>6, <3>1 DEF InChange
  <2> QED BY <2>8, <2>9
<1>8. CASE n = m /\ PausesIt(r, n)
  <2>1. \A a \in Admin : ~OnIt(a, n)'
    BY <1>1, <1>3, <1>8 DEF Solo, OnIt
  <2>2. \A q \in Runner : PausesIt(q, n)' => q = r
    BY <1>1, <1>3, <1>8 DEF Solo, PausesIt
  <2>3. ~(run'[r].pc \in {"pausing", "detaching"}) => ~Changing(n)'
    BY <2>1, <2>2 DEF Changing, OnIt, PausesIt
  <2>4. \/ AutoPause(r) /\ run'[r].pc = "detaching"
        \/ AutoPauseFails(r) /\ run'[r] = NoRun
        \/ DetachPaused(r) /\ run'[r] = NoRun
    <3>1. run \in [Runner -> Run \cup {NoRun}] /\ run[r].pc \in {"pausing", "detaching"}
      BY <1>8 DEF TypeInv, PausesIt
    <3>2. Goto(r, "detaching") => run'[r].pc = "detaching"
      BY <1>1, <3>1 DEF Goto, Run
    <3>3. Finish(r) => run'[r] = NoRun
      BY <3>1 DEF Finish
    <3>4. AutoPause(r) \/ AutoPauseFails(r) \/ DetachPaused(r)
      BY <3>1 DEF RunStep, InsertLog, InsertLogFails, Work, WorkFails, LogSuccess, LogSuccessFails,
           LogFailure, LogFailureFails, Judge
    <3> QED BY <3>2, <3>3, <3>4 DEF AutoPause, AutoPauseFails, DetachPaused
  <2>5. CASE AutoPause(r) /\ run'[r].pc = "detaching"
    <3>1. Changing(n)'
      BY <1>1, <1>8, <2>5 DEF Changing, NoRun
    <3>2. job[n] # None => job[n].id = run[r].id
      BY <1>3, <1>8, <2>5 DEF InChange, AutoPause
    <3>3. job'[n] = IF job[n] # None /\ job[n].id = run[r].id THEN [job[n] EXCEPT !.enabled = FALSE] ELSE job[n]
      BY <2>5 DEF AutoPause
    <3>4. job[n] # None => ~[job[n] EXCEPT !.enabled = FALSE].enabled
      BY Kinds DEF Row
    <3>5. ~Enabled(n)'
      BY <3>2, <3>3, <3>4 DEF Enabled, Live
    <3> QED BY <2>1, <2>2, <2>5, <3>1, <3>5 DEF InChange
  <2>6. CASE AutoPauseFails(r) /\ run'[r] = NoRun
    <3>1. Agrees(n)'
      <4>1. Agrees(n) /\ UNCHANGED <<job, timer>>
        BY <1>3, <1>8, <2>6 DEF InChange, AutoPauseFails, rows
      <4> QED BY <4>1 DEF Agrees, Ticking, Enabled, Live
    <3> QED BY <2>1, <2>2, <2>6, <3>1 DEF InChange, PausesIt, NoRun
  <2>7. CASE DetachPaused(r) /\ run'[r] = NoRun
    <3>1. ~Enabled(n) /\ UNCHANGED job /\ timer' = Paused(n)
      BY <1>3, <1>8, <2>7 DEF InChange, DetachPaused, rows
    <3>2. ~Enabled(n)'
      BY <3>1 DEF Enabled, Live
    <3>3. ~Ticking(n)'
      <4>1. timer \in [Name -> Timer \cup {None}]
        BY DEF TypeInv
      <4>2. timer[n] # None => [timer[n] EXCEPT !.paused = TRUE].paused
        BY <4>1 DEF Timer
      <4>3. timer'[n] = IF timer[n] = None THEN None ELSE [timer[n] EXCEPT !.paused = TRUE]
        <5>1. timer' = Paused(n)
          BY <3>1
        <5> QED BY <4>1, <5>1 DEF Paused
      <4> QED BY <4>2, <4>3 DEF Ticking
    <3> QED BY <2>1, <2>2, <2>7, <3>2, <3>3 DEF InChange, PausesIt, NoRun, Agrees
  <2> QED BY <2>4, <2>5, <2>6, <2>7
<1> QED BY <1>5, <1>6, <1>7, <1>8

LEMMA RequestSync ==
  ASSUME TypeInv, SyncInv, NEW a \in Admin, NEW op \in {"create", "delete", "pause", "resume"},
         NEW m \in Name, Request(a, op, m)
  PROVE  SyncInv'
<1>1. /\ UNCHANGED <<job, timer, run, phase, sched, handle>>
      /\ \A b \in Admin \ {a} : adm'[b] = adm[b]
      /\ adm[a].pc = "idle"
      /\ adm'[a].name = m
      /\ raced' = IF Changing(m) THEN raced \cup {m} ELSE raced
      /\ IF op = "create" THEN ~Live(m) /\ adm'[a].pc = "insert"
                          ELSE Live(m) /\ adm'[a].pc = "update" /\ adm'[a].id = job[m].id
  BY DEF Request, TypeInv, rows, NoAdmin
<1> SUFFICES ASSUME Stable, NEW n \in Name, n \notin raced'
             PROVE  InChange(n)' /\ (~Changing(n) => Agrees(n))'
  BY <1>1 DEF SyncInv, Stable
<1>2. InChange(n) /\ (~Changing(n) => Agrees(n))
  BY <1>1 DEF SyncInv
<1>3. CASE n # m
  <2>1. ~OnIt(a, n) /\ ~OnIt(a, n)'
    BY <1>1, <1>3 DEF OnIt
  <2> QED BY <1>1, <1>2, <2>1, Undisturbed
<1>4. CASE n = m
  <2>1. ~Changing(n) /\ Agrees(n)
    BY <1>1, <1>2, <1>4
  <2>2. Agrees(n)' /\ (Live(n)' <=> Live(n))
    BY <1>1, <2>1 DEF Agrees, Ticking, Enabled, Live
  <2>3. \A b \in Admin : OnIt(b, n)' => b = a
    BY <1>1, <2>1 DEF Changing, OnIt
  <2>4. \A r \in Runner : ~PausesIt(r, n)'
    BY <1>1, <2>1 DEF Changing, PausesIt
  <2>5. \/ adm'[a].pc = "insert" /\ ~Live(n)'
        \/ adm'[a].pc = "update" /\ Live(n)' /\ job'[n].id = adm'[a].id
    BY <1>1, <1>4, <2>2
  <2>6. InChange(n)'
    BY <2>2, <2>3, <2>4, <2>5 DEF InChange
  <2> QED BY <2>2, <2>6
<1> QED BY <1>3, <1>4

\* A request that changes a job goes from agreement to agreement.
LEMMA AdminSync ==
  ASSUME TypeInv, SoloInv, SyncInv, NEW a \in Admin, AdminStep(a)
  PROVE  SyncInv'
<1> PICK m : m = adm[a].name
  OBVIOUS
<1>1. /\ UNCHANGED <<phase, sched, handle, raced>>
      /\ adm[a].pc # "idle"
      /\ \A b \in Admin \ {a} : adm'[b] = adm[b]
      /\ adm'[a] = NoAdmin \/ (adm'[a].name = m /\ adm'[a].id = adm[a].id /\ adm'[a].op = adm[a].op)
      /\ \A n \in Name \ {m} : job'[n] = job[n] /\ timer'[n] = timer[n]
      /\ \A r \in Runner : run'[r].pc = run[r].pc /\ run'[r].name = run[r].name /\ run'[r].id = run[r].id
  BY AdminEffect
<1> SUFFICES ASSUME Stable, NEW n \in Name, n \notin raced
             PROVE  InChange(n)' /\ (~Changing(n) => Agrees(n))'
  BY <1>1 DEF SyncInv, Stable
<1>2. InChange(n) /\ (~Changing(n) => Agrees(n)) /\ Solo(n)
  BY DEF SyncInv, SoloInv
<1>3. CASE n # m
  <2>1. ~OnIt(a, n) /\ ~OnIt(a, n)'
    BY <1>1, <1>3 DEF OnIt, NoAdmin
  <2> QED BY <1>1, <1>2, <1>3, <2>1, Undisturbed
<1>4. CASE n = m
  <2>1. OnIt(a, n)
    BY <1>1, <1>4 DEF OnIt
  <2>2. \A b \in Admin : OnIt(b, n)' => b = a
    BY <1>1, <1>2, <2>1 DEF Solo, OnIt
  <2>3. \A r \in Runner : ~PausesIt(r, n)'
    BY <1>1, <1>2, <2>1 DEF Solo, PausesIt
  <2>4. adm'[a].pc # "idle" => Changing(n)'
    BY <1>1, <1>4, IdleAdmin DEF Changing
  <2>5. ASSUME adm'[a].pc \in {"sync", "detach", "add"},
               adm'[a].pc = "detach" => ~Enabled(n)',
               adm'[a].pc = "add" => /\ timer'[n] = None /\ Enabled(n)'
                                     /\ adm'[a].new.id = job'[n].id /\ ~adm'[a].new.paused
        PROVE  InChange(n)' /\ (~Changing(n) => Agrees(n))'
    BY <2>2, <2>3, <2>4, <2>5 DEF InChange
  <2>6. ASSUME adm'[a] = NoAdmin, Agrees(n)'
        PROVE  InChange(n)' /\ (~Changing(n) => Agrees(n))'
    <3>1. \A b \in Admin : ~OnIt(b, n)'
      BY <2>2, <2>6, IdleAdmin DEF OnIt
    <3> QED BY <2>3, <2>6, <3>1 DEF InChange
  <2>7. CASE adm[a].pc = "insert"
    <3>1. adm'[a].pc = "sync" \/ (adm'[a] = NoAdmin /\ UNCHANGED <<job, timer>>)
      BY <1>4, <2>7, AdminRows
    <3>2. Agrees(n)
      BY <1>2, <2>1, <2>7 DEF InChange
    <3>3. UNCHANGED <<job, timer>> => Agrees(n)'
      BY <3>2 DEF Agrees, Ticking, Enabled, Live
    <3> QED BY <2>5, <2>6, <3>1, <3>3
  <2>8. CASE adm[a].pc = "update"
    <3>1. \/ /\ adm'[a].pc = IF adm[a].op = "resume" THEN "sync" ELSE "detach"
             /\ job'[n] = IF job[n] # None /\ job[n].id = adm[a].id THEN Updated(adm[a].op, job[n]) ELSE job[n]
          \/ adm'[a] = NoAdmin /\ UNCHANGED <<job, timer>>
      BY <1>4, <2>8, AdminRows
    <3>2. Agrees(n) /\ Live(n) /\ job[n].id = adm[a].id
      BY <1>2, <2>1, <2>8 DEF InChange
    <3>3. UNCHANGED <<job, timer>> => Agrees(n)'
      BY <3>2 DEF Agrees, Ticking, Enabled, Live
    <3>4. adm[a].op \in {"delete", "pause", "resume"} /\ job[n] # None
      BY <2>8, <3>2 DEF TypeInv, Live
    <3>5. adm[a].op \in {"delete", "pause"} /\ job'[n] = Updated(adm[a].op, job[n]) => ~Enabled(n)'
      BY <3>4, UpdatedRow DEF Enabled, Live
    <3> QED BY <2>5, <2>6, <3>1, <3>2, <3>3, <3>4, <3>5
  <2>9. CASE adm[a].pc = "sync"
    <3>1. /\ UNCHANGED job
          /\ \/ adm'[a] = NoAdmin /\ sched = None
             \/ adm'[a] = NoAdmin /\ timer'[n] = None /\ ~(Open(sched) /\ Enabled(n))
             \/ /\ adm'[a].pc = "add" /\ timer'[n] = None /\ Enabled(n)
                /\ adm'[a].new = [id |-> job[n].id, handle |-> sched, paused |-> FALSE]
      BY <1>4, <2>9, AdminRows
    <3>2. Open(sched) /\ sched # None
      BY DEF Stable, Open
    <3>3. Enabled(n)' <=> Enabled(n)
      BY <3>1 DEF Enabled, Live
    <3>4. timer'[n] = None /\ ~Enabled(n) => Agrees(n)'
      BY <3>3 DEF Agrees, Ticking
    <3> QED BY <2>5, <2>6, <3>1, <3>2, <3>3, <3>4
  <2>10. CASE adm[a].pc = "add"
    <3>1. adm'[a] = NoAdmin /\ UNCHANGED job /\ (timer'[n] = adm[a].new \/ timer[n] # None)
      BY <1>4, <2>10, AdminRows
    <3>2. timer[n] = None /\ Enabled(n) /\ adm[a].new.id = job[n].id /\ ~adm[a].new.paused
      BY <1>2, <2>1, <2>10 DEF InChange
    <3>3. adm[a].new # None
      BY <2>10, Parameters DEF TypeInv, Timer
    <3>4. Agrees(n)'
      BY <3>1, <3>2, <3>3 DEF Agrees, Ticking, Enabled, Live
    <3> QED BY <2>6, <3>1, <3>4
  <2>11. CASE adm[a].pc = "detach"
    <3>1. /\ adm'[a] = NoAdmin /\ UNCHANGED job
          /\ \/ timer'[n] = None
             \/ timer[n] # None /\ timer'[n] = [timer[n] EXCEPT !.paused = TRUE]
      BY <1>4, <2>11, AdminRows
    <3>2. ~Enabled(n)
      BY <1>2, <2>1, <2>11 DEF InChange
    <3>3. timer[n] # None => [timer[n] EXCEPT !.paused = TRUE].paused
      BY Kinds DEF Timer
    <3>4. Agrees(n)'
      BY <3>1, <3>2, <3>3 DEF Agrees, Ticking, Enabled, Live
    <3> QED BY <2>6, <3>1, <3>4
  <2> QED BY <1>1, <2>7, <2>8, <2>9, <2>10, <2>11, AdminEffect DEF Change
<1> QED BY <1>3, <1>4

\* A start gives every live, enabled job its timer.
LEMMA BootSync ==
  ASSUME TypeInv, DownInv, Boot
  PROVE  SyncInv'
<1>1. PICK on \in CronModes, reap, seed \in BOOLEAN : StartCron(on, reap, seed)
  BY DEF Boot
<1>2. /\ sched' = IF on THEN 0 ELSE None
      /\ \E row \in [Name -> Row \cup {None}] :
           /\ job' = row
           /\ timer' = [n \in Name |->
                          IF on /\ row[n] # None /\ row[n].enabled /\ ~row[n].deleted
                            THEN [id |-> row[n].id, handle |-> 0, paused |-> FALSE]
                            ELSE None]
  <2>1. job' \in [Name -> Row \cup {None}]
    BY BootTypes DEF TypeInv
  <2>2. \A n \in Name : job'[n] = IF n \in (IF on /\ seed THEN Seeds ELSE {})
                                    THEN [id |-> ids + 1, enabled |-> TRUE, deleted |-> FALSE] ELSE job[n]
    BY <1>1 DEF StartCron
  <2>3. timer' = [n \in Name |->
                    IF on /\ job'[n] # None /\ job'[n].enabled /\ ~job'[n].deleted
                      THEN [id |-> job'[n].id, handle |-> 0, paused |-> FALSE] ELSE None]
    BY <1>1, <2>2 DEF StartCron
  <2> QED BY <1>1, <2>1, <2>3 DEF StartCron
<1>3. /\ UNCHANGED <<handle, run, adm>> /\ handle \in Nat /\ phase = "down"
  BY DEF Boot, TypeInv
<1>4. (\A a \in Admin, n \in Name : ~OnIt(a, n)') /\ (\A r \in Runner, n \in Name : ~PausesIt(r, n)')
  BY <1>3 DEF DownInv, OnIt, PausesIt
<1>5. \A n \in Name : InChange(n)'
  BY <1>4 DEF InChange
<1>6. sched' # None => \A n \in Name : Agrees(n)'
  <2> SUFFICES ASSUME on, NEW n \in Name
               PROVE  Agrees(n)'
    BY <1>2
  <2>1. \/ timer'[n] = None /\ ~Enabled(n)'
        \/ timer'[n] = [id |-> job'[n].id, handle |-> 0, paused |-> FALSE] /\ Enabled(n)' /\ job'[n] \in Row
    BY <1>2 DEF Enabled, Live
  <2>2. job'[n] \in Row => [id |-> job'[n].id, handle |-> 0, paused |-> FALSE] \in [id : Nat, handle : Nat, paused : BOOLEAN]
    BY DEF Row
  <2>3. job'[n] \in Row => [id |-> job'[n].id, handle |-> 0, paused |-> FALSE] # None
    BY <2>2, Parameters
  <2>4. \/ ~Ticking(n)' /\ ~Enabled(n)'
        \/ Ticking(n)' /\ Enabled(n)' /\ timer'[n].id = job'[n].id
    BY <2>1, <2>3 DEF Ticking
  <2> QED BY <2>4 DEF Agrees
<1>7. sched' # None => sched' <= handle'
  BY <1>2, <1>3
<1> QED BY <1>5, <1>6, <1>7 DEF SyncInv, Stable

\* No other step comes to a scheduler that reads through the live handle.
LEMMA OtherSync ==
  ASSUME TypeInv, SyncInv,
         \/ HotSwap \/ Shutdown \/ Crash \/ UNCHANGED vars
         \/ \E s \in Sweeps : SweepStep(s)
         \/ \E fatal \in BOOLEAN : Signal(fatal)
         \/ \E r \in Runner, n \in Name : Tick(r, n) \/ Trigger(r, n)
  PROVE  SyncInv'
<1>1. handle \in Nat /\ sched \in Nat \cup {None} /\ (sched # None => sched <= handle)
  BY DEF TypeInv, SyncInv
<1>2. CASE HotSwap
  BY <1>1, <1>2 DEF HotSwap, SyncInv, Stable
<1>3. CASE Shutdown \/ Crash \/ \E fatal \in BOOLEAN : Signal(fatal)
  <2>1. phase' # "up" \/ (phase = "http" /\ phase' = "http")
    BY <1>3 DEF Shutdown, HttpDeadline, StopHttp, StopRetention, StopCron, Drained, DrainDeadline, CloseDb, Exit, Crash, Gone, Signal
  <2>2. sched' = None \/ UNCHANGED <<sched, handle>>
    BY <1>3 DEF Shutdown, HttpDeadline, StopHttp, StopRetention, StopCron, Drained, DrainDeadline, CloseDb, Exit, Crash, Gone, Signal
  <2>3. phase' # "up"
    BY <2>1
  <2> QED BY <1>1, <2>2, <2>3 DEF SyncInv, Stable
<1>4. CASE \/ UNCHANGED vars
           \/ \E s \in Sweeps : SweepStep(s)
           \/ \E r \in Runner, n \in Name : Tick(r, n) \/ Trigger(r, n)
  <2>1. UNCHANGED <<job, timer, adm, phase, sched, handle, raced>>
    BY <1>4, SweepEffect DEF Tick, Trigger, rows, ghost, vars
  <2>2. \A q \in Runner : run'[q] = run[q] \/ (run[q].pc = "idle" /\ run'[q].pc = "inserting")
    <3>1. CASE UNCHANGED vars \/ \E s \in Sweeps : SweepStep(s)
      BY <3>1, SweepEffect DEF vars
    <3>2. ASSUME NEW r \in Runner, NEW n \in Name, Tick(r, n) \/ Trigger(r, n)
          PROVE  \A q \in Runner : run'[q] = run[q] \/ (run[q].pc = "idle" /\ run'[q].pc = "inserting")
      BY <3>2 DEF Tick, Trigger, Begin, TypeInv, NoRun
    <3> QED BY <1>4, <3>1, <3>2
  <2>3. \A n, q : q \in Runner /\ (PausesIt(q, n) \/ PausesIt(q, n)') => run'[q] = run[q]
    BY <2>2 DEF PausesIt
  <2> SUFFICES ASSUME Stable, NEW n \in Name, n \notin raced
               PROVE  InChange(n)' /\ (~Changing(n) => Agrees(n))'
    BY <1>1, <2>1 DEF SyncInv, Stable
  <2>4. InChange(n) /\ (~Changing(n) => Agrees(n))
    BY DEF SyncInv
  <2> QED BY <2>1, <2>3, <2>4, Undisturbed
<1> QED BY <1>2, <1>3, <1>4

LEMMA NextSync == TypeInv /\ DownInv /\ IdInv /\ SoloInv /\ SyncInv /\ [Next]_vars => SyncInv'
BY BootSync, OtherSync, RunSync, RequestSync, AdminSync DEF Next

-----------------------------------------------------------------------------
(* Theorems *)

\* Every variable keeps its type, whatever fails and however often the process
\* restarts or swaps its database handle.
THEOREM CronTypes == Spec => []TypeInv
BY InitTypes, NextTypes, PTL DEF Spec

LEMMA DownAndClose == Spec => [](DownInv /\ CloseInv)
<1>1. DownInv /\ CloseInv /\ TypeInv /\ [Next]_vars => (DownInv /\ CloseInv)'
  BY NextClose
<1> QED BY <1>1, InitClose, CronTypes, PTL DEF Spec

LEMMA Logs == Spec => []LogInv
BY InitLogs, NextLogs, CronTypes, DownAndClose, PTL DEF Spec

LEMMA Sync == Spec => [](IdInv /\ SoloInv /\ SyncInv)
BY InitIds, NextIds, InitSolo, NextSolo, InitSync, NextSync, CronTypes, DownAndClose, PTL DEF Spec

\* A log that says running has its run, unless this very process failed to write
\* its end: in a process that reaped, nothing of an earlier one is left running.
THEOREM RunningRunsAreThere == Spec => []RunningIsInFlight
<1>1. LogInv => RunningIsInFlight
  BY DEF LogInv, RunningIsInFlight, Accounted
<1> QED BY <1>1, Logs, PTL

\* When the database closes at the end of a shutdown, no sweep is in progress, and
\* after a shutdown that was not cut short no request and no run is in flight
\* either, whatever was when the signal came.
THEOREM NobodyUnderTheClose == Spec => []NothingUnderClosedDb
<1>1. TypeInv /\ CloseInv => NothingUnderClosedDb
  <2> SUFFICES ASSUME TypeInv, CloseInv, phase \in {"flush", "closed"}
               PROVE  sweeping = {} /\ (~hurried => Quiet /\ InFlight = {})
    BY DEF NothingUnderClosedDb
  <2>1. sweeping \subseteq {"audit-retention", "file-gc"}
    BY Parameters DEF TypeInv
  <2> QED BY <2>1 DEF CloseInv
<1> QED BY <1>1, CronTypes, DownAndClose, PTL

\* While nothing is changing a job, and no two changes of it have overlapped in
\* this process, its timer ticks exactly if it is live and enabled, for the row
\* that is there; only a hot swap, which leaves the scheduler its closed handle,
\* takes this away.
THEOREM TimersFollowRows == Spec => []TimersAgree
<1>1. SyncInv => TimersAgree
  BY DEF SyncInv, TimersAgree, Stable, Agrees, Enabled
<1> QED BY <1>1, Sync, PTL
=============================================================================
