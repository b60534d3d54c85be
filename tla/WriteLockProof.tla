---------------------------- MODULE WriteLockProof ----------------------------
(***************************************************************************)
(* Proofs that the write lock admits one writer at a time, is never        *)
(* stranded, and serves its waiters as FairLock says, for any set of tasks.*)
(***************************************************************************)
EXTENDS WriteLockProps, SequenceTheorems, TLAPS

\* An open scope belongs to a transaction that is executing.
ScopeIsRunning == \A c \in Tasks : scope[c] # None => pc[scope[c]] = "running"

\* The inductive invariant.
LockInv ==
  /\ TypeOK
  /\ OneWriter
  /\ NeverStranded
  /\ QueueIsWaiters
  /\ ScopeIsRunning

----------------------------------------------------------------------------
(* Sequences without repetition *)

\* Dropping the i-th entry keeps the others, in order.
LEMMA WithoutProperties ==
  ASSUME NEW S, NEW s \in Seq(S), NEW i \in 1..Len(s)
  PROVE  /\ Without(s, i) \in Seq(S)
         /\ Len(Without(s, i)) = Len(s) - 1
         /\ \A j \in 1..(Len(s) - 1) :
              Without(s, i)[j] = IF j < i THEN s[j] ELSE s[j + 1]
<1> DEFINE a == SubSeq(s, 1, i - 1)
           b == SubSeq(s, i + 1, Len(s))
<1>1. Len(s) \in Nat /\ i \in Nat /\ 1 <= i /\ i <= Len(s)
  BY LenProperties
<1>2. a \in Seq(S) /\ Len(a) = i - 1 /\ \A j \in 1..(i - 1) : a[j] = s[j]
  BY <1>1, SubSeqProperties
<1>3. b \in Seq(S) /\ Len(b) = Len(s) - i /\ \A j \in 1..(Len(s) - i) : b[j] = s[i + j]
  BY <1>1, SubSeqProperties
<1>4. /\ a \o b \in Seq(S)
      /\ Len(a \o b) = Len(a) + Len(b)
      /\ \A j \in 1..(Len(a) + Len(b)) : (a \o b)[j] = IF j <= Len(a) THEN a[j] ELSE b[j - Len(a)]
  <2> HIDE DEF a, b
  <2> QED BY <1>2, <1>3, ConcatProperties
<1>5. Len(a) + Len(b) = Len(s) - 1
  BY <1>1, <1>2, <1>3
<1>6. ASSUME NEW j \in 1..(Len(s) - 1)
      PROVE  (a \o b)[j] = IF j < i THEN s[j] ELSE s[j + 1]
  <2> HIDE DEF a, b
  <2>1. CASE j < i
    <3>1. j \in 1..(i - 1) /\ j <= Len(a) /\ j \in 1..(Len(a) + Len(b))
      BY <1>1, <1>2, <1>5, <2>1
    <3> QED BY <1>2, <1>4, <2>1, <3>1
  <2>2. CASE ~(j < i)
    <3>1. /\ j - Len(a) \in 1..(Len(s) - i)
          /\ ~(j <= Len(a))
          /\ i + (j - Len(a)) = j + 1
          /\ j \in 1..(Len(a) + Len(b))
      BY <1>1, <1>2, <1>5, <2>2
    <3>2. (a \o b)[j] = b[j - Len(a)]
      BY <1>4, <3>1
    <3> QED BY <1>3, <2>2, <3>1, <3>2
  <2> QED BY <2>1, <2>2
<1> QED BY <1>4, <1>5, <1>6 DEF Without

\* What the queue becomes when a task gives up: its one entry is gone.
LEMMA LeavesQueueProperties ==
  ASSUME LockInv, NEW c \in Tasks, c \in timer
  PROVE  /\ LeavesQueue(c) \in Seq(Tasks)
         /\ \A i, j \in 1..Len(LeavesQueue(c)) :
              LeavesQueue(c)[i] = LeavesQueue(c)[j] => i = j
         /\ \A d \in Tasks :
              (\E i \in 1..Len(LeavesQueue(c)) : LeavesQueue(c)[i] = d)
              <=> d # c /\ (\E i \in 1..Len(queue) : queue[i] = d)
         /\ \E n \in 1..Len(queue) : queue[n] = c /\ LeavesQueue(c) = Without(queue, n)
<1> DEFINE n == CHOOSE m \in 1..Len(queue) : queue[m] = c
           w == Without(queue, n)
<1>1. queue \in Seq(Tasks) /\ \A i, j \in 1..Len(queue) : queue[i] = queue[j] => i = j
  BY DEF LockInv, TypeOK
<1>2. \E m \in 1..Len(queue) : queue[m] = c
  BY DEF LockInv, QueueIsWaiters
<1>3. n \in 1..Len(queue) /\ queue[n] = c
  BY <1>2
<1>4. LeavesQueue(c) = w
  BY DEF LeavesQueue
<1> HIDE DEF n
<1>5. /\ w \in Seq(Tasks)
      /\ Len(w) = Len(queue) - 1
      /\ \A j \in 1..(Len(queue) - 1) : w[j] = IF j < n THEN queue[j] ELSE queue[j + 1]
  BY <1>1, <1>3, WithoutProperties
<1> HIDE DEF w
<1>6. Len(queue) \in Nat
  BY <1>1, LenProperties
<1>7. ASSUME NEW i \in 1..Len(w), NEW j \in 1..Len(w), w[i] = w[j]
      PROVE  i = j
  BY <1>1, <1>3, <1>5, <1>6, <1>7
<1>8. ASSUME NEW d \in Tasks
      PROVE  (\E i \in 1..Len(w) : w[i] = d)
             <=> d # c /\ (\E i \in 1..Len(queue) : queue[i] = d)
  <2>1. ASSUME NEW i \in 1..Len(w), w[i] = d
        PROVE  d # c /\ \E k \in 1..Len(queue) : queue[k] = d
    <3>1. CASE i < n
      <4>1. i \in 1..Len(queue) /\ queue[i] = d /\ i # n
        BY <1>3, <1>5, <1>6, <2>1, <3>1
      <4> QED BY <1>1, <1>3, <4>1
    <3>2. CASE ~(i < n)
      <4>1. i + 1 \in 1..Len(queue) /\ queue[i + 1] = d /\ i + 1 # n
        BY <1>3, <1>5, <1>6, <2>1, <3>2
      <4> QED BY <1>1, <1>3, <4>1
    <3> QED BY <3>1, <3>2
  <2>2. ASSUME d # c, NEW k \in 1..Len(queue), queue[k] = d
        PROVE  \E i \in 1..Len(w) : w[i] = d
    <3>1. k # n
      BY <1>3, <2>2
    <3>2. CASE k < n
      <4>1. k \in 1..Len(w) /\ w[k] = d
        BY <1>3, <1>5, <1>6, <2>2, <3>2
      <4> QED BY <4>1
    <3>3. CASE n < k
      <4>1. k - 1 \in 1..Len(w) /\ w[k - 1] = d
        BY <1>3, <1>5, <1>6, <2>2, <3>3
      <4> QED BY <4>1
    <3> QED BY <1>3, <1>6, <3>1, <3>2, <3>3
  <2> QED BY <2>1, <2>2
<1> QED BY <1>3, <1>4, <1>5, <1>7, <1>8 DEF w

----------------------------------------------------------------------------
(* The inductive invariant *)

LEMMA InitLock == Init => LockInv
<1> SUFFICES ASSUME Init PROVE LockInv
  OBVIOUS
<1>1. queue = <<>> /\ Len(queue) = 0 /\ queue \in Seq(Tasks)
  BY EmptySeq DEF Init
<1>2. TypeOK
  <2>1. \A i, j \in 1..Len(queue) : queue[i] = queue[j] => i = j
    BY <1>1
  <2> QED BY <1>1, <2>1 DEF Init, TypeOK, Kinds, Answers
<1>3. OneWriter /\ NeverStranded
  BY DEF Init, OneWriter, NeverStranded, Owns
<1>4. QueueIsWaiters
  BY <1>1 DEF Init, QueueIsWaiters
<1>5. ScopeIsRunning
  BY DEF Init, ScopeIsRunning
<1> QED BY <1>2, <1>3, <1>4, <1>5 DEF LockInv

\* Entering either takes a free lock or joins the end of the queue.
LEMMA EnterPreserves ==
  ASSUME LockInv, NEW c \in Tasks, pc[c] = "idle", Enter(c),
         kind' \in [Tasks -> Kinds], answer' \in [Tasks -> Answers],
         scope' \in [Tasks -> Tasks \cup {None}],
         awaits' \in [Tasks -> Tasks \cup {None}],
         \A d \in Tasks : scope'[d] # None => pc[scope'[d]] = "running"
  PROVE  LockInv'
<1> USE DEF LockInv
<1>1. CASE held
  <2>1. /\ queue' = Append(queue, c)
        /\ timer' = timer \cup {c}
        /\ pc' = [pc EXCEPT ![c] = "queued"]
        /\ held' = held
    BY <1>1 DEF Enter, ArmTimer
  <2>2. queue \in Seq(Tasks) /\ Len(queue) \in Nat
    BY LenProperties DEF TypeOK
  <2>3. /\ queue' \in Seq(Tasks)
        /\ Len(queue') = Len(queue) + 1
        /\ \A i \in 1..Len(queue) : queue'[i] = queue[i]
        /\ queue'[Len(queue) + 1] = c
    BY <2>1, <2>2, AppendProperties
  <2>4. \A i \in 1..Len(queue) : queue[i] # c
    BY DEF QueueIsWaiters
  <2>5. \A i, j \in 1..Len(queue') : queue'[i] = queue'[j] => i = j
    BY <2>2, <2>3, <2>4 DEF TypeOK
  <2>6. TypeOK'
    BY <2>1, <2>3, <2>5 DEF TypeOK
  <2>7. OneWriter' /\ NeverStranded'
    BY <1>1, <2>1 DEF OneWriter, NeverStranded, Owns, TypeOK
  <2>8. ASSUME NEW d \in Tasks
        PROVE  (pc[d] = "queued")' <=> \E i \in 1..Len(queue') : queue'[i] = d
    <3>1. CASE d = c
      <4>1. Len(queue) + 1 \in 1..Len(queue')
        BY <2>2, <2>3
      <4> QED BY <2>1, <2>3, <3>1, <4>1 DEF TypeOK
    <3>2. CASE d # c
      <4>1. pc'[d] = pc[d]
        BY <2>1, <3>2 DEF TypeOK
      <4>2. ASSUME NEW i \in 1..Len(queue'), queue'[i] = d
            PROVE  i \in 1..Len(queue) /\ queue[i] = d
        BY <2>2, <2>3, <3>2, <4>2
      <4>3. ASSUME NEW i \in 1..Len(queue), queue[i] = d
            PROVE  i \in 1..Len(queue') /\ queue'[i] = d
        BY <2>2, <2>3, <4>3
      <4> QED BY <4>1, <4>2, <4>3 DEF QueueIsWaiters
    <3> QED BY <3>1, <3>2
  <2>9. (timer = {d \in Tasks : pc[d] = "queued"})'
    BY <2>1 DEF QueueIsWaiters, TypeOK
  <2>10. ScopeIsRunning'
    BY <2>1 DEF ScopeIsRunning, TypeOK
  <2> QED BY <2>6, <2>7, <2>8, <2>9, <2>10 DEF QueueIsWaiters
<1>2. CASE ~held
  <2>1. /\ held' = TRUE
        /\ pc' = [pc EXCEPT ![c] = "running"]
        /\ queue' = queue /\ timer' = timer
    BY <1>2 DEF Enter
  <2>2. \A d \in Tasks : ~Owns(d)
    BY <1>2 DEF NeverStranded
  <2>3. TypeOK'
    BY <2>1 DEF TypeOK
  <2>4. OneWriter' /\ NeverStranded'
    BY <2>1, <2>2 DEF OneWriter, NeverStranded, Owns, TypeOK
  <2>5. QueueIsWaiters'
    BY <2>1 DEF QueueIsWaiters, TypeOK
  <2>6. ScopeIsRunning'
    BY <2>1 DEF ScopeIsRunning, TypeOK
  <2> QED BY <2>3, <2>4, <2>5, <2>6
<1> QED BY <1>1, <1>2

\* Releasing hands the lock to the head of the queue, or frees it.
LEMMA HandOverPreserves ==
  ASSUME LockInv, NEW c \in Tasks, Release(c)
  PROVE  LockInv'
<1> USE DEF LockInv
<1>1. /\ pc[c] = "leaving" /\ HandOver(c)
      /\ scope' = scope /\ kind' = kind
      /\ answer' \in [Tasks -> Answers]
      /\ awaits' \in [Tasks -> Tasks \cup {None}]
  BY DEF Release, Answered, TypeOK, Answers
<1>2. \A d \in Tasks : Owns(d) <=> d = c
  BY <1>1 DEF OneWriter, Owns
<1>3. held
  BY <1>2 DEF NeverStranded
<1>4. \A d \in Tasks : scope[d] # c
  BY <1>1, NoneIsNoTask DEF ScopeIsRunning
<1>5. CASE queue = <<>>
  <2>1. held' = FALSE /\ pc' = [pc EXCEPT ![c] = "idle"] /\ queue' = queue /\ timer' = timer
    BY <1>1, <1>5 DEF HandOver
  <2>2. TypeOK'
    BY <1>1, <2>1 DEF TypeOK
  <2>3. OneWriter' /\ NeverStranded'
    BY <1>2, <1>5, <2>1 DEF OneWriter, NeverStranded, Owns, TypeOK
  <2>4. QueueIsWaiters'
    BY <1>1, <2>1 DEF QueueIsWaiters, TypeOK
  <2>5. ScopeIsRunning'
    BY <1>1, <1>4, <2>1 DEF ScopeIsRunning, TypeOK
  <2> QED BY <2>2, <2>3, <2>4, <2>5
<1>6. CASE queue # <<>>
  <2> DEFINE h == Head(queue)
  <2>1. /\ pc' = [pc EXCEPT ![c] = "idle", ![h] = Turn(h)]
        /\ queue' = Tail(queue) /\ timer' = timer \ {h} /\ held' = held
    BY <1>1, <1>6 DEF HandOver
  <2>2. queue \in Seq(Tasks) /\ Len(queue) \in Nat
    BY LenProperties DEF TypeOK
  <2>3. /\ h \in Tasks /\ h = queue[1] /\ 1 \in 1..Len(queue)
        /\ queue' \in Seq(Tasks)
        /\ Len(queue') = Len(queue) - 1
        /\ \A i \in 1..Len(queue') : queue'[i] = queue[i + 1]
    BY <1>6, <2>1, <2>2, HeadTailProperties, EmptySeq
  <2> HIDE DEF h
  <2>4. pc[h] = "queued" /\ h # c /\ Turn(h) = "granted"
    BY <1>1, <2>3 DEF QueueIsWaiters, Turn
  <2>5. \A d \in Tasks : pc'[d] = IF d = h THEN "granted" ELSE IF d = c THEN "idle" ELSE pc[d]
    BY <2>1, <2>3, <2>4 DEF TypeOK
  <2>6. TypeOK'
    <3>1. \A i, j \in 1..Len(queue') : queue'[i] = queue'[j] => i = j
      BY <2>2, <2>3 DEF TypeOK
    <3>2. pc' \in [Tasks -> {"idle", "queued", "granted", "running", "leaving"}]
      BY <2>1, <2>4 DEF TypeOK
    <3> QED BY <1>1, <2>1, <2>3, <3>1, <3>2 DEF TypeOK
  <2>7. \A d \in Tasks : Owns(d)' <=> d = h
    BY <1>2, <2>4, <2>5 DEF Owns
  <2>8. OneWriter' /\ NeverStranded'
    BY <1>3, <2>1, <2>3, <2>7 DEF OneWriter, NeverStranded
  <2>9. ASSUME NEW d \in Tasks
        PROVE  (pc[d] = "queued")' <=> \E i \in 1..Len(queue') : queue'[i] = d
    <3>1. (pc[d] = "queued")' <=> pc[d] = "queued" /\ d # h
      BY <1>1, <2>4, <2>5
    <3>2. ASSUME NEW i \in 1..Len(queue'), queue'[i] = d
          PROVE  d # h /\ \E j \in 1..Len(queue) : queue[j] = d
      <4>1. i + 1 \in 1..Len(queue) /\ queue[i + 1] = d /\ i + 1 # 1
        BY <2>2, <2>3, <3>2
      <4> QED BY <2>3, <4>1 DEF TypeOK
    <3>3. ASSUME NEW j \in 1..Len(queue), queue[j] = d, d # h
          PROVE  \E i \in 1..Len(queue') : queue'[i] = d
      <4>1. j # 1
        BY <2>3, <3>3
      <4>2. j - 1 \in 1..Len(queue') /\ queue'[j - 1] = d
        BY <2>2, <2>3, <3>3, <4>1
      <4> QED BY <4>2
    <3> QED BY <3>1, <3>2, <3>3 DEF QueueIsWaiters
  <2>10. (timer = {d \in Tasks : pc[d] = "queued"})'
    <3>0. timer = {d \in Tasks : pc[d] = "queued"}
      BY DEF QueueIsWaiters
    <3>1. ASSUME NEW d \in Tasks PROVE d \in timer' <=> pc'[d] = "queued"
      <4>1. d \in timer' <=> pc[d] = "queued" /\ d # h
        BY <2>1, <3>0
      <4>2. pc'[d] = "queued" <=> pc[d] = "queued" /\ d # h
        BY <1>1, <2>5
      <4> QED BY <4>1, <4>2
    <3>2. timer' \subseteq Tasks
      BY <2>6 DEF TypeOK
    <3> QED BY <3>1, <3>2
  <2>11. ScopeIsRunning'
    BY <1>1, <1>4, <2>4, <2>5 DEF ScopeIsRunning, TypeOK
  <2> QED BY <2>6, <2>8, <2>9, <2>10, <2>11 DEF QueueIsWaiters
<1> QED BY <1>5, <1>6

\* Giving up takes the task out of the queue and leaves the owner alone.
LEMMA TimeOutPreserves ==
  ASSUME LockInv, NEW c \in Tasks, TimeOut(c)
  PROVE  LockInv'
<1> USE DEF LockInv
<1>1. /\ c \in timer /\ queue' = LeavesQueue(c) /\ timer' = timer \ {c}
      /\ pc' = [pc EXCEPT ![c] = "idle"]
      /\ held' = held /\ kind' = kind /\ scope' = scope
      /\ answer' \in [Tasks -> Answers]
      /\ awaits' \in [Tasks -> Tasks \cup {None}]
  BY DEF TimeOut, Answered, TypeOK, Answers
<1>2. pc[c] = "queued"
  BY <1>1 DEF QueueIsWaiters
<1>3. /\ queue' \in Seq(Tasks)
      /\ \A i, j \in 1..Len(queue') : queue'[i] = queue'[j] => i = j
      /\ \A d \in Tasks : (\E i \in 1..Len(queue') : queue'[i] = d)
                          <=> d # c /\ (\E i \in 1..Len(queue) : queue[i] = d)
  BY <1>1, LeavesQueueProperties
<1>4. \A d \in Tasks : pc'[d] = IF d = c THEN "idle" ELSE pc[d]
  BY <1>1 DEF TypeOK
<1>5. TypeOK'
  BY <1>1, <1>3 DEF TypeOK
<1>6. \A d \in Tasks : Owns(d)' <=> Owns(d)
  BY <1>2, <1>4 DEF Owns
<1>7. held
  <2>1. \E i \in 1..Len(queue) : queue[i] = c
    BY <1>2 DEF QueueIsWaiters
  <2>2. queue # <<>>
    BY <2>1
  <2> QED BY <2>2 DEF NeverStranded
<1>8. OneWriter' /\ NeverStranded'
  BY <1>1, <1>6, <1>7 DEF OneWriter, NeverStranded
<1>9. QueueIsWaiters'
  BY <1>1, <1>3, <1>4 DEF QueueIsWaiters
<1>10. ScopeIsRunning'
  BY <1>1, <1>2, <1>4 DEF ScopeIsRunning, TypeOK
<1> QED BY <1>5, <1>8, <1>9, <1>10

LEMMA NextLock == LockInv /\ [Next]_vars => LockInv'
<1> SUFFICES ASSUME LockInv, [Next]_vars PROVE LockInv'
  OBVIOUS
<1> USE DEF LockInv
<1>1. ASSUME NEW c \in Tasks, Write(c) PROVE LockInv'
  <2>1. CASE InOpenTransaction(c)
    <3>1. /\ held' = held /\ queue' = queue /\ timer' = timer /\ pc' = pc
          /\ kind' = kind /\ scope' = scope /\ awaits' = awaits
          /\ answer' \in [Tasks -> Answers]
      BY <1>1, <2>1 DEF Write, TypeOK, Answers
    <3> QED BY <3>1 DEF TypeOK, OneWriter, NeverStranded, Owns, QueueIsWaiters, ScopeIsRunning
  <2>2. CASE ~InOpenTransaction(c)
    <3>1. /\ pc[c] = "idle" /\ Enter(c) /\ scope' = scope /\ awaits' = awaits
          /\ kind' \in [Tasks -> Kinds] /\ answer' \in [Tasks -> Answers]
      BY <1>1, <2>2 DEF Write, TypeOK, Kinds, Answers
    <3> QED BY <3>1, EnterPreserves DEF TypeOK, ScopeIsRunning
  <2> QED BY <2>1, <2>2
<1>2. ASSUME NEW c \in Tasks, Transaction(c) PROVE LockInv'
  <2>1. /\ pc[c] = "idle" /\ Enter(c) /\ scope' = scope /\ awaits' = awaits
        /\ kind' \in [Tasks -> Kinds] /\ answer' \in [Tasks -> Answers]
    BY <1>2 DEF Transaction, TypeOK, Kinds, Answers
  <2> QED BY <2>1, EnterPreserves DEF TypeOK, ScopeIsRunning
<1>3. ASSUME NEW t \in Tasks, NEW c \in Tasks, Spawn(t, c) PROVE LockInv'
  <2>1. /\ pc[t] = "running" /\ scope' = [scope EXCEPT ![c] = t]
        /\ held' = held /\ queue' = queue /\ timer' = timer /\ pc' = pc
        /\ kind' = kind /\ awaits' = awaits /\ answer' = answer
    BY <1>3 DEF Spawn, InBody
  <2> QED BY <2>1 DEF TypeOK, OneWriter, NeverStranded, Owns, QueueIsWaiters, ScopeIsRunning
<1>4. ASSUME NEW t \in Tasks, NEW c \in Tasks, NestedTransaction(t, c) PROVE LockInv'
  <2>1. /\ pc[t] = "running" /\ pc[c] = "idle" /\ Enter(c)
        /\ scope' = [scope EXCEPT ![c] = t]
        /\ awaits' \in [Tasks -> Tasks \cup {None}]
        /\ kind' \in [Tasks -> Kinds] /\ answer' \in [Tasks -> Answers]
    BY <1>4 DEF NestedTransaction, InBody, TypeOK, Kinds, Answers
  <2>2. /\ scope' \in [Tasks -> Tasks \cup {None}]
        /\ \A d \in Tasks : scope'[d] # None => pc[scope'[d]] = "running"
    BY <2>1 DEF TypeOK, ScopeIsRunning
  <2> QED BY <2>1, <2>2, EnterPreserves
<1>5. ASSUME NEW c \in Tasks, Resume(c) PROVE LockInv'
  <2>1. /\ pc[c] = "granted" /\ held' = TRUE /\ pc' = [pc EXCEPT ![c] = "running"]
        /\ queue' = queue /\ timer' = timer /\ kind' = kind /\ scope' = scope
        /\ awaits' = awaits /\ answer' = answer
    BY <1>5 DEF Resume
  <2> QED BY <2>1 DEF TypeOK, OneWriter, NeverStranded, Owns, QueueIsWaiters, ScopeIsRunning
<1>6. ASSUME NEW c \in Tasks, End(c) PROVE LockInv'
  <2>1. /\ pc[c] = "running" /\ pc' = [pc EXCEPT ![c] = "leaving"]
        /\ scope' = [d \in Tasks |-> IF scope[d] = c THEN None ELSE scope[d]]
        /\ held' = held /\ queue' = queue /\ timer' = timer
        /\ kind' = kind /\ awaits' = awaits /\ answer' = answer
    BY <1>6 DEF End, CloseScope
  <2>2. TypeOK'
    BY <2>1 DEF TypeOK
  <2>3. OneWriter' /\ NeverStranded' /\ QueueIsWaiters'
    BY <2>1 DEF TypeOK, OneWriter, NeverStranded, Owns, QueueIsWaiters
  <2>4. ScopeIsRunning'
    BY <2>1 DEF TypeOK, ScopeIsRunning
  <2> QED BY <2>2, <2>3, <2>4
<1>7. ASSUME NEW c \in Tasks, Release(c) PROVE LockInv'
  BY <1>7, HandOverPreserves
<1>8. ASSUME NEW c \in Tasks, TimeOut(c) PROVE LockInv'
  BY <1>8, TimeOutPreserves
<1>9. CASE UNCHANGED vars
  BY <1>9 DEF vars, TypeOK, OneWriter, NeverStranded, Owns, QueueIsWaiters, ScopeIsRunning
<1> QED BY <1>1, <1>2, <1>3, <1>4, <1>5, <1>6, <1>7, <1>8, <1>9 DEF Next

\* Every reachable state satisfies the inductive invariant.
THEOREM LockInvariant == Spec => []LockInv
BY InitLock, NextLock, PTL DEF Spec

\* The lock's state is well-formed, and its queue never holds a task twice.
THEOREM LockTypeCorrect == Spec => []TypeOK
BY LockInvariant, PTL DEF LockInv

\* At most one task of this process writes, however many there are, whoever
\* times out and however transactions nest.
THEOREM WritersExclude == Spec => []OneWriter
BY LockInvariant, PTL DEF LockInv

\* The lock is held exactly while a live task owns it, and nobody waits for a
\* free lock.
THEOREM LockNeverStranded == Spec => []NeverStranded
BY LockInvariant, PTL DEF LockInv

\* The queue is the set of waiting tasks, each with its timer.
THEOREM QueueHoldsWaiters == Spec => []QueueIsWaiters
BY LockInvariant, PTL DEF LockInv

\* A write is refused only while its own transaction owns the lock.
THEOREM RefusalsInsideOnly == Spec => RefusedOnlyInside
<1>1. LockInv /\ [Next]_vars =>
        [\A c \in Tasks : answer[c] # "refused" /\ answer'[c] = "refused" => Owns(scope[c])]_vars
  <2> SUFFICES ASSUME LockInv, Next, NEW c \in Tasks,
                      answer[c] # "refused", answer'[c] = "refused"
               PROVE  Owns(scope[c])
    BY DEF vars
  <2>1. PICK d \in Tasks : Write(d)
    <3>1. ASSUME NEW d \in Tasks,
                 Transaction(d) \/ Resume(d) \/ End(d) \/ Release(d) \/ TimeOut(d)
          PROVE  FALSE
      BY <3>1 DEF Transaction, Resume, End, Release, TimeOut, LockInv, TypeOK
    <3>2. ASSUME NEW t \in Tasks, NEW d \in Tasks, Spawn(t, d) \/ NestedTransaction(t, d)
          PROVE  FALSE
      BY <3>2 DEF Spawn, NestedTransaction, LockInv, TypeOK
    <3> QED BY <3>1, <3>2 DEF Next
  <2>2. d = c /\ InOpenTransaction(c)
    BY <2>1 DEF Write, LockInv, TypeOK
  <2> QED BY <2>2 DEF InOpenTransaction, LockInv, ScopeIsRunning, Owns
<1> QED BY <1>1, LockInvariant, PTL DEF Spec, RefusedOnlyInside

----------------------------------------------------------------------------
(* The lock implements FairLock *)

\* Putting x in front of a sequence.
LEMMA Cons ==
  ASSUME NEW S, NEW x \in S, NEW s \in Seq(S)
  PROVE  /\ <<x>> \o s \in Seq(S)
         /\ Len(<<x>> \o s) = Len(s) + 1
         /\ (<<x>> \o s)[1] = x
         /\ \A i \in 1..Len(s) : (<<x>> \o s)[i + 1] = s[i]
         /\ <<x>> \o s # <<>>
<1>1. <<x>> \in Seq(S) /\ Len(<<x>>) = 1 /\ <<x>>[1] = x
  OBVIOUS
<1>2. Len(s) \in Nat
  BY LenProperties
<1>3. /\ <<x>> \o s \in Seq(S)
      /\ Len(<<x>> \o s) = Len(<<x>>) + Len(s)
      /\ \A i \in 1..(Len(<<x>>) + Len(s)) :
           (<<x>> \o s)[i] = IF i <= Len(<<x>>) THEN <<x>>[i] ELSE s[i - Len(<<x>>)]
  BY <1>1, ConcatProperties
<1>4. (<<x>> \o s)[1] = x
  <2>1. 1 \in 1..(Len(<<x>>) + Len(s)) /\ 1 <= Len(<<x>>)
    BY <1>1, <1>2
  <2> QED BY <1>1, <1>3, <2>1
<1>5. ASSUME NEW i \in 1..Len(s) PROVE (<<x>> \o s)[i + 1] = s[i]
  <2>1. /\ i + 1 \in 1..(Len(<<x>>) + Len(s)) /\ ~(i + 1 <= Len(<<x>>))
        /\ (i + 1) - Len(<<x>>) = i
    BY <1>1, <1>2
  <2> QED BY <1>3, <2>1
<1>6. <<x>> \o s # <<>>
  BY <1>1, <1>2, <1>3, EmptySeq
<1> QED BY <1>1, <1>2, <1>3, <1>4, <1>5, <1>6

LEMMA ConsTail ==
  ASSUME NEW S, NEW x \in S, NEW s \in Seq(S)
  PROVE  Tail(<<x>> \o s) = s
<1> DEFINE t == <<x>> \o s
<1>1. t \in Seq(S) /\ Len(t) = Len(s) + 1 /\ t # <<>> /\ \A i \in 1..Len(s) : t[i + 1] = s[i]
  BY Cons
<1> HIDE DEF t
<1>2. /\ Tail(t) \in Seq(S) /\ Len(Tail(t)) = Len(t) - 1
      /\ \A i \in 1..Len(Tail(t)) : Tail(t)[i] = t[i + 1]
  BY <1>1, HeadTailProperties
<1>3. Len(s) \in Nat
  BY LenProperties
<1>4. Len(Tail(t)) = Len(s) /\ \A i \in 1..Len(s) : Tail(t)[i] = s[i]
  BY <1>1, <1>2, <1>3
<1>5. Tail(t) = s
  BY <1>2, <1>4, SeqEqual
<1> QED BY <1>5 DEF t

LEMMA ConsHeadTail ==
  ASSUME NEW S, NEW s \in Seq(S), s # <<>>
  PROVE  <<Head(s)>> \o Tail(s) = s
<1> DEFINE h == Head(s)
           u == Tail(s)
           t == <<h>> \o u
<1>1. Len(s) \in Nat /\ Len(s) # 0 /\ h = s[1]
  BY LenProperties, EmptySeq
<1>2. h \in S /\ u \in Seq(S) /\ Len(u) = Len(s) - 1 /\ \A i \in 1..Len(u) : u[i] = s[i + 1]
  BY HeadTailProperties
<1> HIDE DEF h, u
<1>3. /\ t \in Seq(S) /\ Len(t) = Len(u) + 1 /\ t[1] = h
      /\ \A i \in 1..Len(u) : t[i + 1] = u[i]
  BY <1>2, Cons
<1> HIDE DEF t
<1>4. ASSUME NEW i \in 1..Len(s) PROVE t[i] = s[i]
  <2>1. CASE i = 1
    BY <1>1, <1>3, <2>1
  <2>2. CASE i # 1
    <3>1. i - 1 \in 1..Len(u) /\ (i - 1) + 1 = i
      BY <1>1, <1>2, <2>2
    <3> QED BY <1>2, <1>3, <3>1
  <2> QED BY <2>1, <2>2
<1>5. Len(t) = Len(s)
  BY <1>1, <1>2, <1>3
<1>6. t = s
  BY <1>3, <1>4, <1>5, SeqEqual
<1> QED BY <1>6 DEF t, h, u

LEMMA ConsAppend ==
  ASSUME NEW S, NEW x \in S, NEW s \in Seq(S), NEW y \in S
  PROVE  <<x>> \o Append(s, y) = Append(<<x>> \o s, y)
<1>1. <<x>> \in Seq(S) /\ <<y>> \in Seq(S) /\ <<x>> \o s \in Seq(S)
  BY Cons
<1>2. Append(s, y) = s \o <<y>> /\ Append(<<x>> \o s, y) = (<<x>> \o s) \o <<y>>
  BY <1>1, AppendIsConcat
<1> QED BY <1>1, <1>2, ConcatAssociative

LEMMA ConsWithout ==
  ASSUME NEW S, NEW x \in S, NEW s \in Seq(S), NEW n \in 1..Len(s)
  PROVE  <<x>> \o Without(s, n) = Without(<<x>> \o s, n + 1)
<1> DEFINE w == Without(s, n)
           t == <<x>> \o s
           l == <<x>> \o w
           r == Without(t, n + 1)
<1>1. Len(s) \in Nat /\ n \in Nat /\ 1 <= n /\ n <= Len(s)
  BY LenProperties
<1>2. /\ w \in Seq(S) /\ Len(w) = Len(s) - 1
      /\ \A j \in 1..(Len(s) - 1) : w[j] = IF j < n THEN s[j] ELSE s[j + 1]
  BY WithoutProperties
<1>3. /\ t \in Seq(S) /\ Len(t) = Len(s) + 1 /\ t[1] = x
      /\ \A i \in 1..Len(s) : t[i + 1] = s[i]
  BY Cons
<1> HIDE DEF w, t
<1>4. /\ l \in Seq(S) /\ Len(l) = Len(w) + 1 /\ l[1] = x
      /\ \A i \in 1..Len(w) : l[i + 1] = w[i]
  BY <1>2, Cons
<1>5. n + 1 \in 1..Len(t)
  BY <1>1, <1>3
<1>6. /\ r \in Seq(S) /\ Len(r) = Len(t) - 1
      /\ \A j \in 1..(Len(t) - 1) : r[j] = IF j < n + 1 THEN t[j] ELSE t[j + 1]
  BY <1>3, <1>5, WithoutProperties
<1> HIDE DEF l, r
<1>7. Len(l) = Len(s) /\ Len(r) = Len(s)
  BY <1>1, <1>2, <1>3, <1>4, <1>6
<1>8. ASSUME NEW i \in 1..Len(s) PROVE l[i] = r[i]
  <2>1. CASE i = 1
    <3>1. l[i] = x
      BY <1>4, <2>1
    <3>2. i \in 1..(Len(t) - 1) /\ i < n + 1
      BY <1>1, <1>3, <2>1
    <3>3. r[i] = x
      BY <1>3, <1>6, <2>1, <3>2
    <3> QED BY <3>1, <3>3
  <2>2. CASE i # 1 /\ i < n + 1
    <3>1. /\ i - 1 \in 1..Len(w) /\ (i - 1) + 1 = i /\ i - 1 \in 1..(Len(s) - 1)
          /\ i - 1 < n /\ i - 1 \in 1..Len(s) /\ i \in 1..(Len(t) - 1)
      BY <1>1, <1>2, <1>3, <2>2
    <3>2. l[i] = s[i - 1]
      BY <1>2, <1>4, <3>1
    <3>3. r[i] = s[i - 1]
      BY <1>3, <1>6, <2>2, <3>1
    <3> QED BY <3>2, <3>3
  <2>3. CASE ~(i < n + 1)
    <3>1. /\ i - 1 \in 1..Len(w) /\ (i - 1) + 1 = i /\ i - 1 \in 1..(Len(s) - 1)
          /\ ~(i - 1 < n) /\ i \in 1..(Len(t) - 1)
      BY <1>1, <1>2, <1>3, <2>3
    <3>2. l[i] = s[i]
      BY <1>2, <1>4, <3>1
    <3>3. r[i] = s[i]
      BY <1>3, <1>6, <2>3, <3>1
    <3> QED BY <3>2, <3>3
  <2> QED BY <2>1, <2>2, <2>3
<1>9. l = r
  BY <1>4, <1>6, <1>7, <1>8, SeqEqual
<1> QED BY <1>9 DEF l, r, w, t

\* The line is the owner followed by the queue.
LEMMA OwnerHeadsLine ==
  ASSUME LockInv, NEW c \in Tasks, Owns(c)
  PROVE  Line = <<c>> \o queue
<1>1. held
  BY DEF LockInv, NeverStranded
<1>2. c = CHOOSE d \in Tasks : Owns(d)
  BY DEF LockInv, OneWriter
<1> QED BY <1>1, <1>2 DEF Line

LEMMA OwnerHeadsLineNext ==
  ASSUME LockInv', NEW c \in Tasks, Owns(c)'
  PROVE  Line' = <<c>> \o queue'
<1>1. held'
  BY DEF LockInv, NeverStranded
<1>2. c = CHOOSE d \in Tasks : Owns(d)'
  BY DEF LockInv, OneWriter
<1> QED BY <1>1, <1>2 DEF Line

\* The line is the same after a step that keeps the owner and the queue.
LEMMA SameOwnerSameLine ==
  ASSUME LockInv, LockInv', queue' = queue, held' = held,
         \A c \in Tasks : Owns(c)' <=> Owns(c)
  PROVE  Line' = Line
<1>1. CASE held
  <2>1. PICK c \in Tasks : Owns(c)
    BY <1>1 DEF LockInv, NeverStranded
  <2> QED BY <2>1, OwnerHeadsLine, OwnerHeadsLineNext
<1>2. CASE ~held
  BY <1>2 DEF Line
<1> QED BY <1>1, <1>2

\* Entering is an arrival at the end of the line.
LEMMA EnterArrives ==
  ASSUME LockInv, LockInv', NEW c \in Tasks, pc[c] = "idle", Enter(c)
  PROVE  Fair!Arrive(c)
<1>1. queue \in Seq(Tasks) /\ Len(queue) \in Nat
  BY LenProperties DEF LockInv, TypeOK
<1>2. CASE ~held
  <2>1. Line = <<>> /\ queue' = queue /\ queue = <<>>
    BY <1>2 DEF Line, Enter, LockInv, NeverStranded
  <2>2. Owns(c)'
    BY <1>2 DEF Enter, Owns, LockInv, TypeOK
  <2>3. Line' = <<c>> \o <<>>
    BY <2>1, <2>2, OwnerHeadsLineNext
  <2>4. <<c>> \in Seq(Tasks) /\ <<>> \in Seq(Tasks)
    OBVIOUS
  <2>5. Line' = <<c>> /\ Append(Line, c) = <<>> \o <<c>>
    BY <2>1, <2>3, <2>4, ConcatEmptySeq, AppendIsConcat
  <2>6. Line' = Append(Line, c)
    BY <2>4, <2>5, ConcatEmptySeq
  <2>7. c \notin Fair!Standing
    BY <2>1 DEF Fair!Standing
  <2> QED BY <2>6, <2>7 DEF Fair!Arrive
<1>3. CASE held
  <2>1. queue' = Append(queue, c) /\ pc' = [pc EXCEPT ![c] = "queued"]
    BY <1>3 DEF Enter
  <2>2. PICK o \in Tasks : Owns(o)
    BY <1>3 DEF LockInv, NeverStranded
  <2>3. o # c /\ Owns(o)'
    BY <2>1, <2>2 DEF Owns, LockInv, TypeOK
  <2>4. Line = <<o>> \o queue /\ Line' = <<o>> \o Append(queue, c)
    BY <2>1, <2>2, <2>3, OwnerHeadsLine, OwnerHeadsLineNext
  <2>5. Line' = Append(Line, c)
    BY <1>1, <2>4, ConsAppend
  <2>6. c \notin Fair!Standing
    <3>1. ASSUME NEW i \in 1..Len(Line) PROVE Line[i] # c
      <4>1. /\ Len(Line) = Len(queue) + 1 /\ Line[1] = o
            /\ \A j \in 1..Len(queue) : Line[j + 1] = queue[j]
        BY <1>1, <2>4, Cons
      <4>2. CASE i = 1
        BY <2>3, <4>1, <4>2
      <4>3. CASE i # 1
        <5>1. i - 1 \in 1..Len(queue) /\ (i - 1) + 1 = i
          BY <1>1, <4>1, <4>3
        <5>2. queue[i - 1] # c
          BY <5>1 DEF LockInv, QueueIsWaiters
        <5> QED BY <4>1, <5>1, <5>2
      <4> QED BY <4>2, <4>3
    <3> QED BY <3>1 DEF Fair!Standing
  <2> QED BY <2>5, <2>6 DEF Fair!Arrive
<1> QED BY <1>2, <1>3

\* Releasing takes the owner off the head of the line.
LEMMA ReleaseLeaves ==
  ASSUME LockInv, LockInv', NEW c \in Tasks, Release(c)
  PROVE  Fair!Leave
<1>1. pc[c] = "leaving" /\ HandOver(c) /\ queue \in Seq(Tasks)
  BY DEF Release, LockInv, TypeOK
<1>2. Line = <<c>> \o queue
  BY <1>1, OwnerHeadsLine DEF Owns
<1>3. Line # <<>> /\ Tail(Line) = queue
  BY <1>1, <1>2, Cons, ConsTail
<1>4. CASE queue = <<>>
  BY <1>1, <1>3, <1>4 DEF HandOver, Line, Fair!Leave
<1>5. CASE queue # <<>>
  <2>1. PICK h \in Tasks : h = Head(queue) /\ h = queue[1] /\ 1 \in 1..Len(queue)
    BY <1>1, <1>5, HeadTailProperties, EmptySeq, LenProperties
  <2>2. pc[h] = "queued" /\ h # c
    BY <1>1, <2>1 DEF LockInv, QueueIsWaiters
  <2>3. queue' = Tail(queue) /\ pc' = [pc EXCEPT ![c] = "idle", ![h] = "granted"]
    BY <1>1, <1>5, <2>1, <2>2 DEF HandOver, Turn
  <2>4. queue = <<h>> \o Tail(queue)
    BY <1>1, <1>5, <2>1, ConsHeadTail
  <2>5. Owns(h)'
    BY <2>1, <2>2, <2>3 DEF Owns, LockInv, TypeOK
  <2>6. Line' = <<h>> \o queue'
    BY <2>1, <2>5, OwnerHeadsLineNext
  <2>7. Line' = queue
    BY <2>3, <2>4, <2>6
  <2> QED BY <1>3, <2>7 DEF Fair!Leave
<1> QED BY <1>4, <1>5

\* A timeout removes a waiter from behind the head of the line.
LEMMA TimeOutGivesUp ==
  ASSUME LockInv, LockInv', NEW c \in Tasks, TimeOut(c)
  PROVE  \E i \in 1..Len(Line) : Fair!GiveUp(i)
<1>1. /\ c \in timer /\ queue' = LeavesQueue(c) /\ pc' = [pc EXCEPT ![c] = "idle"]
      /\ queue \in Seq(Tasks) /\ Len(queue) \in Nat
  BY LenProperties DEF TimeOut, LockInv, TypeOK
<1>2. PICK n \in 1..Len(queue) : queue[n] = c /\ LeavesQueue(c) = Without(queue, n)
  BY <1>1, LeavesQueueProperties
<1>3. pc[c] = "queued" /\ held
  <2>1. queue # <<>>
    BY <1>2
  <2> QED BY <1>1, <2>1 DEF LockInv, QueueIsWaiters, NeverStranded
<1>4. PICK o \in Tasks : Owns(o)
  BY <1>3 DEF LockInv, NeverStranded
<1>5. Owns(o)'
  BY <1>1, <1>3, <1>4 DEF Owns, LockInv, TypeOK
<1>6. Line = <<o>> \o queue /\ Line' = <<o>> \o Without(queue, n)
  BY <1>1, <1>2, <1>4, <1>5, OwnerHeadsLine, OwnerHeadsLineNext
<1>7. Line' = Without(Line, n + 1) /\ Len(Line) = Len(queue) + 1
  <2>1. Without(<<o>> \o queue, n + 1) = <<o>> \o Without(queue, n)
    BY <1>1, <1>2, ConsWithout
  <2>2. Len(<<o>> \o queue) = Len(queue) + 1
    BY <1>1, Cons
  <2> QED BY <1>6, <2>1, <2>2
<1>8. n + 1 \in 1..Len(Line) /\ n + 1 > 1
  BY <1>1, <1>7
<1>9. Fair!GiveUp(n + 1)
  BY <1>7, <1>8 DEF Fair!GiveUp, Fair!Without, Without
<1> QED BY <1>8, <1>9

\* For any set of tasks the lock serves its waiters in order of arrival, and a
\* waiter that gives up changes nobody else's place.
THEOREM LockIsFair == Spec => Fair!Spec
<1>1. Init => Fair!Init
  BY DEF Init, Fair!Init, Line
<1>2. LockInv /\ LockInv' /\ [Next]_vars => [Fair!Next]_Line
  <2> SUFFICES ASSUME LockInv, LockInv', [Next]_vars PROVE Fair!Next \/ Line' = Line
    OBVIOUS
  <2>1. ASSUME NEW c \in Tasks, Write(c) PROVE Fair!Next \/ Line' = Line
    <3>1. CASE InOpenTransaction(c)
      <4>1. queue' = queue /\ held' = held /\ pc' = pc
        BY <2>1, <3>1 DEF Write
      <4> QED BY <4>1, SameOwnerSameLine DEF Owns
    <3>2. CASE ~InOpenTransaction(c)
      BY <2>1, <3>2, EnterArrives DEF Write, Fair!Next
    <3> QED BY <3>1, <3>2
  <2>2. ASSUME NEW c \in Tasks, Transaction(c) PROVE Fair!Next
    BY <2>2, EnterArrives DEF Transaction, Fair!Next
  <2>3. ASSUME NEW t \in Tasks, NEW c \in Tasks, Spawn(t, c) PROVE Line' = Line
    <3>1. queue' = queue /\ held' = held /\ pc' = pc
      BY <2>3 DEF Spawn
    <3> QED BY <3>1, SameOwnerSameLine DEF Owns
  <2>4. ASSUME NEW t \in Tasks, NEW c \in Tasks, NestedTransaction(t, c) PROVE Fair!Next
    BY <2>4, EnterArrives DEF NestedTransaction, Fair!Next
  <2>5. ASSUME NEW c \in Tasks, Resume(c) PROVE Line' = Line
    <3>1. /\ queue' = queue /\ held' = TRUE /\ pc[c] = "granted"
          /\ pc' = [pc EXCEPT ![c] = "running"]
      BY <2>5 DEF Resume
    <3>2. held
      BY <3>1 DEF LockInv, NeverStranded, Owns
    <3>3. \A d \in Tasks : Owns(d)' <=> Owns(d)
      BY <3>1 DEF Owns, LockInv, TypeOK
    <3>4. held' = held
      BY <3>1, <3>2 DEF LockInv, TypeOK
    <3> QED BY <3>1, <3>3, <3>4, SameOwnerSameLine
  <2>6. ASSUME NEW c \in Tasks, End(c) PROVE Line' = Line
    <3>1. /\ queue' = queue /\ held' = held /\ pc[c] = "running"
          /\ pc' = [pc EXCEPT ![c] = "leaving"]
      BY <2>6 DEF End
    <3>2. \A d \in Tasks : Owns(d)' <=> Owns(d)
      BY <3>1 DEF Owns, LockInv, TypeOK
    <3> QED BY <3>1, <3>2, SameOwnerSameLine
  <2>7. ASSUME NEW c \in Tasks, Release(c) PROVE Fair!Next
    BY <2>7, ReleaseLeaves DEF Fair!Next
  <2>8. ASSUME NEW c \in Tasks, TimeOut(c) PROVE Fair!Next
    BY <2>8, TimeOutGivesUp DEF Fair!Next
  <2>9. CASE UNCHANGED vars
    <3>1. queue' = queue /\ held' = held /\ pc' = pc
      BY <2>9 DEF vars
    <3> QED BY <3>1, SameOwnerSameLine DEF Owns
  <2> QED BY <2>1, <2>2, <2>3, <2>4, <2>5, <2>6, <2>7, <2>8, <2>9 DEF Next
<1> QED BY <1>1, <1>2, LockInvariant, PTL DEF Spec, Fair!Spec
==============================================================================
