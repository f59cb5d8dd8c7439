--------------------------- MODULE JobQueueProofs ---------------------------
(***************************************************************************)
(* Proofs about JobQueue, for any workers, runs, turns, concurrency and    *)
(* number of crashes and stops: the type invariant, one writer per process *)
(* and run, no job worked on twice, and nothing left behind by a process   *)
(* that is down.                                                           *)
(***************************************************************************)
EXTENDS JobQueue, TLAPS

Taken == {"delivered", "permit", "lock", "work", "ack"}

Unstarted == {"unposted", "posted", "delivered", "permit", "lock"}

\* Each job is on its stream once, the ones beyond what the group has handed
\* out are untouched, and only a task that has begun has started the work.
Once ==
  /\ \A k \in Kinds : \A i \in DOMAIN stream[k] :
       /\ KindOf(stream[k][i]) = k /\ at[stream[k][i]] # "unposted"
       /\ i > given[k] => at[stream[k][i]] = "posted"
  /\ \A k \in Kinds : \A h, i \in DOMAIN stream[k] :
       h # i => stream[k][h] # stream[k][i]
  /\ \A j \in Jobs : starts[j] <= 1 /\ (at[j] \in Unstarted => starts[j] = 0)

\* A taken job belongs to a process that is not down; one that its loop has
\* not received yet, to a process that is still reading.
Placed ==
  \A j \in Jobs : at[j] \in Taken =>
    /\ owner[j] \in Workers /\ up[owner[j]] # "down"
    /\ at[j] = "delivered" => up[owner[j]] = "up"

\* A job that is worked on holds the lock of its run in its process.
Locked == \A j \in Jobs : at[j] = "work" => lock[owner[j]][Target(j)] = j

IInv == TypeOK /\ Once /\ Placed /\ Locked

-----------------------------------------------------------------------------
LEMMA JobFacts ==
  /\ \A j \in Jobs : KindOf(j) \in Kinds /\ Target(j) \in Runs /\ j # NoJob
  /\ Runs \subseteq Jobs /\ Turns \subseteq Jobs
  /\ \A k \in Kinds : Limit(k) \in Nat
  BY QueueAssumption DEF Jobs, KindOf, Kinds, Target, Limit

LEMMA InitHolds == Init => IInv
<1> SUFFICES ASSUME Init PROVE IInv
  OBVIOUS
<1>1. TypeOK
  BY JobFacts, QueueAssumption
     DEF Init, TypeOK, Fresh, Unlocked, Places
<1>2. Once /\ Placed /\ Locked
  BY DEF Init, Once, Placed, Locked, Taken
<1>3. QED
  BY <1>1, <1>2 DEF IInv

-----------------------------------------------------------------------------
(* Type correctness, one step per action.                                  *)

RedisTypeOK ==
  /\ stream \in [Kinds -> Seq(Jobs)]
  /\ group \in [Kinds -> BOOLEAN]
  /\ given \in [Kinds -> Nat] /\ \A k \in Kinds : given[k] <= Len(stream[k])

ProcessTypeOK ==
  /\ up \in [Workers -> {"down", "up", "draining"}]
  /\ permits \in [Workers -> [Kinds -> Nat]]
  /\ lock \in [Workers -> [Runs -> Jobs \cup {NoJob}]]

JobTypeOK ==
  /\ at \in [Jobs -> Places]
  /\ owner \in [Jobs -> Workers \cup {Nobody}]
  /\ starts \in [Jobs -> Nat]
  /\ crashes \in 0..MaxCrashes /\ stops \in 0..MaxStops

LEMMA TypeParts == TypeOK <=> RedisTypeOK /\ ProcessTypeOK /\ JobTypeOK
  BY DEF TypeOK, RedisTypeOK, ProcessTypeOK, JobTypeOK

LEMMA TypeStep == IInv /\ [Next]_vars => TypeOK'
<1> SUFFICES ASSUME IInv, [Next]_vars PROVE TypeOK'
  OBVIOUS
<1>t. RedisTypeOK /\ ProcessTypeOK /\ JobTypeOK
  BY TypeParts DEF IInv
<1> USE DEF redisVars, processVars, jobVars, bounds, TaskOnly
<1>p. {"unposted", "posted", "delivered", "permit", "lock", "work", "ack",
       "over", "stuck"} = Places
  BY DEF Places
<1>o. \A j \in Jobs : at[j] \in Taken => owner[j] \in Workers
  BY DEF IInv, Placed
<1>1. ASSUME NEW j \in Jobs, Post(j) PROVE TypeOK'
  <2>1. RedisTypeOK'
    BY <1>1, <1>t, JobFacts DEF Post, RedisTypeOK
  <2>2. ProcessTypeOK' /\ JobTypeOK'
    BY <1>1, <1>t, <1>p DEF Post, ProcessTypeOK, JobTypeOK
  <2>3. QED
    BY <2>1, <2>2, TypeParts DEF TypeOK, RedisTypeOK, ProcessTypeOK, JobTypeOK
<1>2. ASSUME NEW j \in Jobs, Receive(j) \/ Reject(j) PROVE TypeOK'
  BY <1>2, <1>t, <1>p DEF Receive, Reject, Move, TypeOK, RedisTypeOK,
     ProcessTypeOK, JobTypeOK
<1>3. ASSUME NEW j \in Jobs, Acquire(j) PROVE TypeOK'
  <2>1. owner[j] \in Workers /\ KindOf(j) \in Kinds
    BY <1>3, <1>o, JobFacts DEF Acquire, Move, Taken
  <2>2. permits' \in [Workers -> [Kinds -> Nat]]
    BY <1>3, <1>t, <2>1 DEF Acquire, ProcessTypeOK
  <2>3. QED
    BY <1>3, <1>t, <1>p, <2>2 DEF Acquire, Move, TypeOK, RedisTypeOK,
       ProcessTypeOK, JobTypeOK
<1>4. ASSUME NEW j \in Jobs, Ack(j) PROVE TypeOK'
  <2>1. owner[j] \in Workers /\ KindOf(j) \in Kinds
    BY <1>4, <1>o, JobFacts DEF Ack, Move, Taken
  <2>2. permits' \in [Workers -> [Kinds -> Nat]]
    BY <1>4, <1>t, <2>1 DEF Ack, ProcessTypeOK
  <2>3. QED
    BY <1>4, <1>t, <1>p, <2>2 DEF Ack, Move, TypeOK, RedisTypeOK,
       ProcessTypeOK, JobTypeOK
<1>5. ASSUME NEW j \in Jobs, Begin(j) PROVE TypeOK'
  <2>1. owner[j] \in Workers /\ Target(j) \in Runs
    BY <1>5, <1>o, JobFacts DEF Begin, Move, Taken
  <2>2. lock' \in [Workers -> [Runs -> Jobs \cup {NoJob}]]
    BY <1>5, <1>t, <2>1 DEF Begin, ProcessTypeOK
  <2>3. starts' \in [Jobs -> Nat]
    BY <1>5, <1>t DEF Begin, JobTypeOK
  <2>4. QED
    BY <1>5, <1>t, <1>p, <2>2, <2>3 DEF Begin, Move, TypeOK, RedisTypeOK,
       ProcessTypeOK, JobTypeOK
<1>6. ASSUME NEW j \in Jobs, Finish(j) PROVE TypeOK'
  <2>1. owner[j] \in Workers /\ Target(j) \in Runs
    BY <1>6, <1>o, JobFacts DEF Finish, Move, Taken
  <2>2. lock' \in [Workers -> [Runs -> Jobs \cup {NoJob}]]
    BY <1>6, <1>t, <2>1 DEF Finish, ProcessTypeOK
  <2>3. QED
    BY <1>6, <1>t, <1>p, <2>2 DEF Finish, Move, TypeOK, RedisTypeOK,
       ProcessTypeOK, JobTypeOK
<1>7. ASSUME NEW w \in Workers, Start(w) PROVE TypeOK'
  <2>1. Fresh \in [Kinds -> Nat] /\ Unlocked \in [Runs -> Jobs \cup {NoJob}]
    BY JobFacts DEF Fresh, Unlocked
  <2>2. RedisTypeOK'
    BY <1>7, <1>t DEF Start, EnsureGroups, RedisTypeOK
  <2>3. ProcessTypeOK' /\ JobTypeOK'
    BY <1>7, <1>t, <2>1 DEF Start, ProcessTypeOK, JobTypeOK
  <2>4. QED
    BY <2>2, <2>3 DEF TypeOK, RedisTypeOK, ProcessTypeOK, JobTypeOK
<1>8. ASSUME NEW w \in Workers, Stop(w) PROVE TypeOK'
  <2>1. at' \in [Jobs -> Places] /\ stops' \in 0..MaxStops
    BY <1>8, <1>t, <1>p, QueueAssumption DEF Stop, JobTypeOK
  <2>2. QED
    BY <1>8, <1>t, <2>1 DEF Stop, TypeOK, RedisTypeOK, ProcessTypeOK, JobTypeOK
<1>9. ASSUME NEW w \in Workers, Stopped(w) PROVE TypeOK'
  BY <1>9, <1>t DEF Stopped, TypeOK, RedisTypeOK, ProcessTypeOK, JobTypeOK
<1>10. ASSUME NEW w \in Workers, Crash(w) PROVE TypeOK'
  <2>1. at' \in [Jobs -> Places] /\ crashes' \in 0..MaxCrashes
    BY <1>10, <1>t, <1>p, QueueAssumption DEF Crash, JobTypeOK
  <2>2. QED
    BY <1>10, <1>t, <2>1
       DEF Crash, TypeOK, RedisTypeOK, ProcessTypeOK, JobTypeOK
<1>11. ASSUME NEW w \in Workers, NEW k \in Kinds, Deliver(w, k) PROVE TypeOK'
  <2>1. stream[k][given[k] + 1] \in Jobs
    BY <1>11, <1>t DEF Deliver, RedisTypeOK
  <2>2. RedisTypeOK'
    BY <1>11, <1>t DEF Deliver, RedisTypeOK
  <2>3. at' \in [Jobs -> Places] /\ owner' \in [Jobs -> Workers \cup {Nobody}]
    BY <1>11, <1>t, <1>p, <2>1 DEF Deliver, JobTypeOK
  <2>4. ProcessTypeOK' /\ JobTypeOK'
    BY <1>11, <1>t, <2>3 DEF Deliver, ProcessTypeOK, JobTypeOK
  <2>5. QED
    BY <2>2, <2>4 DEF TypeOK, RedisTypeOK, ProcessTypeOK, JobTypeOK
<1>12. CASE UNCHANGED vars
  BY <1>12, <1>t DEF vars, TypeOK, RedisTypeOK, ProcessTypeOK, JobTypeOK
<1>13. QED
  BY <1>1, <1>2, <1>3, <1>4, <1>5, <1>6, <1>7, <1>8, <1>9, <1>10, <1>11, <1>12
     DEF Next, Task, Process

-----------------------------------------------------------------------------
(* A job is where its action finds it, and goes where its action sends it. *)

\* The moves of a task that is not about to begin its work.
LEMMA TaskMoves ==
  ASSUME at \in [Jobs -> Places], NEW j \in Jobs,
         Receive(j) \/ Acquire(j) \/ Reject(j) \/ Finish(j) \/ Ack(j)
  PROVE  /\ at[j] \in Taken
         /\ at'[j] \in {"permit", "lock", "ack", "over"}
         /\ at'[j] \in Unstarted => at[j] \in Unstarted
         /\ \A i \in Jobs \ {j} : at'[i] = at[i]
         /\ UNCHANGED <<stream, given, up, owner, starts>>
  BY DEF Receive, Acquire, Reject, Finish, Ack, Move, Taken, TaskOnly,
         redisVars, bounds, Unstarted

LEMMA OnceStep == IInv /\ [Next]_vars => Once'
<1> SUFFICES ASSUME IInv, [Next]_vars PROVE Once'
  OBVIOUS
<1> USE DEF Once
<1>t. RedisTypeOK /\ JobTypeOK /\ Once
  BY TypeParts DEF IInv
<1>s. /\ \A k \in Kinds : \A i \in DOMAIN stream[k] : stream[k][i] \in Jobs
      /\ \A k \in Kinds : DOMAIN stream[k] = 1..Len(stream[k])
      /\ \A k \in Kinds : Len(stream[k]) \in Nat /\ given[k] \in Nat
      /\ at \in [Jobs -> Places] /\ starts \in [Jobs -> Nat]
  BY <1>t DEF RedisTypeOK, JobTypeOK
<1>1. ASSUME NEW j \in Jobs, Post(j) PROVE Once'
  <2> DEFINE kind == KindOf(j)
  <2>1. kind \in Kinds /\ at[j] = "unposted" /\ starts[j] = 0
    BY <1>1, <1>t, JobFacts DEF Post, Unstarted
  <2>2. /\ stream' = [stream EXCEPT ![kind] = Append(@, j)]
        /\ at' = [at EXCEPT ![j] = "posted"]
        /\ given' = given /\ starts' = starts
    BY <1>1 DEF Post
  <2>3. \A k \in Kinds : \A i \in DOMAIN stream'[k] :
          \/ i \in DOMAIN stream[k] /\ stream'[k][i] = stream[k][i]
          \/ k = kind /\ i = Len(stream[k]) + 1 /\ stream'[k][i] = j
    BY <1>t, <2>1, <2>2 DEF RedisTypeOK
  <2>4. \A k \in Kinds : \A i \in DOMAIN stream[k] : stream[k][i] # j
    BY <1>t, <1>s, <2>1
  <2>5. \A k \in Kinds : \A i \in DOMAIN stream'[k] :
          /\ KindOf(stream'[k][i]) = k /\ at'[stream'[k][i]] # "unposted"
          /\ i > given'[k] => at'[stream'[k][i]] = "posted"
    BY <1>t, <1>s, <2>2, <2>3, <2>4
  <2>6. \A k \in Kinds : \A h, i \in DOMAIN stream'[k] :
          h # i => stream'[k][h] # stream'[k][i]
    BY <1>t, <2>3, <2>4
  <2>7. \A i \in Jobs : starts'[i] <= 1
                          /\ (at'[i] \in Unstarted => starts'[i] = 0)
    BY <1>t, <1>s, <2>1, <2>2 DEF Unstarted
  <2>8. QED
    BY <2>5, <2>6, <2>7
<1>2. ASSUME NEW j \in Jobs,
             Receive(j) \/ Acquire(j) \/ Reject(j) \/ Finish(j) \/ Ack(j)
      PROVE Once'
  <2>1. /\ at[j] \in Taken /\ at'[j] \in {"permit", "lock", "ack", "over"}
        /\ at'[j] \in Unstarted => at[j] \in Unstarted
        /\ \A i \in Jobs \ {j} : at'[i] = at[i]
        /\ stream' = stream /\ given' = given /\ starts' = starts
    BY <1>2, <1>s, TaskMoves
  <2>2. QED
    BY <1>t, <1>s, <2>1 DEF Taken
<1>3. ASSUME NEW j \in Jobs, Begin(j) PROVE Once'
  <2>1. /\ at[j] = "lock" /\ at'[j] = "work" /\ starts[j] = 0 /\ starts'[j] = 1
        /\ \A i \in Jobs \ {j} : at'[i] = at[i] /\ starts'[i] = starts[i]
        /\ stream' = stream /\ given' = given
    BY <1>3, <1>t, <1>s DEF Begin, Move, redisVars, Unstarted
  <2>2. QED
    BY <1>t, <1>s, <2>1 DEF Unstarted
<1>4. ASSUME NEW w \in Workers, Start(w) PROVE Once'
  <2>1. /\ stream' = stream /\ at' = at /\ starts' = starts
        /\ \A k \in Kinds : given'[k] >= given[k] /\ given'[k] \in Nat
    BY <1>4, <1>t DEF Start, EnsureGroups, jobVars, RedisTypeOK
  <2>2. QED
    BY <1>t, <1>s, <2>1
<1>5. ASSUME NEW w \in Workers, Stop(w) \/ Stopped(w) \/ Crash(w) PROVE Once'
  <2>1. /\ stream' = stream /\ given' = given /\ starts' = starts
        /\ \A i \in Jobs :
             at'[i] = at[i] \/ (at[i] \in Taken /\ at'[i] = "stuck")
    BY <1>5 DEF Stop, Stopped, Crash, redisVars, jobVars,
                InFlight, Taken
  <2>2. QED
    BY <1>t, <1>s, <2>1 DEF Taken, Unstarted
<1>6. ASSUME NEW w \in Workers, NEW kind \in Kinds, Deliver(w, kind) PROVE Once'
  <2> DEFINE n == given[kind] + 1
             j == stream[kind][n]
  <2>1. /\ n \in DOMAIN stream[kind] /\ j \in Jobs /\ at[j] = "posted"
    BY <1>6, <1>t, <1>s DEF Deliver
  <2>2. /\ stream' = stream /\ starts' = starts
        /\ given' = [given EXCEPT ![kind] = n]
        /\ at' = [at EXCEPT ![j] = "delivered"]
    BY <1>6 DEF Deliver
  <2>3. \A k \in Kinds : \A i \in DOMAIN stream[k] :
          stream[k][i] = j => k = kind /\ i = n
    BY <1>t, <2>1
  <2>4. \A k \in Kinds : \A i \in DOMAIN stream[k] :
          /\ at'[stream[k][i]] # "unposted"
          /\ i > given'[k] => at'[stream[k][i]] = "posted"
    BY <1>t, <1>s, <2>1, <2>2, <2>3 DEF RedisTypeOK
  <2>5. \A i \in Jobs : at'[i] \in Unstarted => starts[i] = 0
    BY <1>t, <1>s, <2>1, <2>2 DEF Unstarted
  <2>6. QED
    BY <1>t, <2>2, <2>4, <2>5
<1>7. CASE UNCHANGED vars
  BY <1>7, <1>t DEF vars, redisVars, jobVars
<1>8. QED
  BY <1>1, <1>2, <1>3, <1>4, <1>5, <1>6, <1>7 DEF Next, Task, Process

LEMMA PlacedStep == IInv /\ [Next]_vars => Placed'
<1> SUFFICES ASSUME IInv, [Next]_vars PROVE Placed'
  OBVIOUS
<1> USE DEF Placed
<1>t. /\ JobTypeOK /\ ProcessTypeOK /\ RedisTypeOK /\ Placed
      /\ at \in [Jobs -> Places] /\ owner \in [Jobs -> Workers \cup {Nobody}]
      /\ up \in [Workers -> {"down", "up", "draining"}]
  BY TypeParts DEF IInv, JobTypeOK, ProcessTypeOK
<1>1. ASSUME NEW j \in Jobs, Post(j) PROVE Placed'
  BY <1>1, <1>t DEF Post, processVars, Taken
<1>2. ASSUME NEW j \in Jobs,
             Receive(j) \/ Acquire(j) \/ Reject(j) \/ Finish(j) \/ Ack(j)
      PROVE Placed'
  <2>1. /\ at[j] \in Taken /\ at'[j] # "delivered"
        /\ \A i \in Jobs \ {j} : at'[i] = at[i]
        /\ up' = up /\ owner' = owner
    BY <1>2, <1>t, TaskMoves
  <2>2. QED
    BY <1>t, <2>1 DEF Taken
<1>3. ASSUME NEW j \in Jobs, Begin(j) PROVE Placed'
  BY <1>3, <1>t DEF Begin, Move, Taken
<1>4. ASSUME NEW w \in Workers, Start(w) PROVE Placed'
  BY <1>4, <1>t DEF Start, jobVars
<1>5. ASSUME NEW w \in Workers, Stop(w) PROVE Placed'
  <2>1. /\ owner' = owner /\ up[w] = "up" /\ up' = [up EXCEPT ![w] = "draining"]
        /\ \A i \in Jobs :
             IF owner[i] = w /\ at[i] = "delivered" THEN at'[i] = "stuck"
                                                    ELSE at'[i] = at[i]
    BY <1>5 DEF Stop
  <2>2. QED
    BY <1>t, <2>1 DEF Taken
<1>6. ASSUME NEW w \in Workers, Stopped(w) PROVE Placed'
  <2>1. /\ owner' = owner /\ at' = at
        /\ up[w] = "draining" /\ up' = [up EXCEPT ![w] = "down"]
        /\ \A i \in Jobs :
             owner[i] = w => at[i] \notin {"permit", "lock", "work", "ack"}
    BY <1>6 DEF Stopped, InFlight, jobVars
  <2>2. QED
    BY <1>t, <2>1 DEF Taken
<1>7. ASSUME NEW w \in Workers, Crash(w) PROVE Placed'
  <2>1. /\ owner' = owner /\ up' = [up EXCEPT ![w] = "down"]
        /\ \A i \in Jobs :
             IF owner[i] = w /\ at[i] \in Taken THEN at'[i] = "stuck"
                                                ELSE at'[i] = at[i]
    BY <1>7 DEF Crash, InFlight, Taken
  <2>2. QED
    BY <1>t, <2>1 DEF Taken
<1>8. ASSUME NEW w \in Workers, NEW kind \in Kinds, Deliver(w, kind)
      PROVE Placed'
  <2> DEFINE j == stream[kind][given[kind] + 1]
  <2>1. /\ j \in Jobs /\ up[w] = "up" /\ up' = up
        /\ at' = [at EXCEPT ![j] = "delivered"]
        /\ owner' = [owner EXCEPT ![j] = w]
    BY <1>8, <1>t DEF Deliver, RedisTypeOK, processVars
  <2>2. QED
    BY <1>t, <2>1
<1>9. CASE UNCHANGED vars
  BY <1>9, <1>t DEF vars, processVars, jobVars
<1>10. QED
  BY <1>1, <1>2, <1>3, <1>4, <1>5, <1>6, <1>7, <1>8, <1>9 DEF Next, Task, Process

LEMMA LockedStep == IInv /\ [Next]_vars => Locked'
<1> SUFFICES ASSUME IInv, [Next]_vars PROVE Locked'
  OBVIOUS
<1> USE DEF Locked
<1>t. /\ Placed /\ Locked
      /\ at \in [Jobs -> Places] /\ owner \in [Jobs -> Workers \cup {Nobody}]
      /\ lock \in [Workers -> [Runs -> Jobs \cup {NoJob}]]
      /\ \A j \in Jobs : at[j] \in Taken => owner[j] \in Workers
  BY TypeParts DEF IInv, JobTypeOK, ProcessTypeOK, Placed
<1>1. ASSUME NEW j \in Jobs, Post(j) PROVE Locked'
  BY <1>1, <1>t DEF Post, processVars
<1>2. ASSUME NEW j \in Jobs, Receive(j) \/ Acquire(j) \/ Reject(j) \/ Ack(j)
      PROVE Locked'
  BY <1>2, <1>t DEF Receive, Acquire, Reject, Ack, Move, TaskOnly
<1>3. ASSUME NEW j \in Jobs, Begin(j) PROVE Locked'
  <2>1. /\ owner[j] \in Workers /\ Target(j) \in Runs
        /\ at[j] = "lock" /\ at' = [at EXCEPT ![j] = "work"]
        /\ lock[owner[j]][Target(j)] = NoJob
        /\ lock' = [lock EXCEPT ![owner[j]][Target(j)] = j]
        /\ owner' = owner
    BY <1>3, <1>t, JobFacts DEF Begin, Move, Taken
  <2>2. SUFFICES ASSUME NEW i \in Jobs, at'[i] = "work"
                 PROVE  lock'[owner[i]][Target(i)] = i
    BY <2>1
  <2>3. CASE i = j
    BY <1>t, <2>1, <2>3
  <2>4. CASE i # j
    <3>1. /\ at[i] = "work" /\ lock[owner[i]][Target(i)] = i
          /\ owner[i] \in Workers /\ Target(i) \in Runs /\ i # NoJob
      BY <1>t, <2>1, <2>2, <2>4, JobFacts DEF Taken
    <3>2. QED
      BY <1>t, <2>1, <3>1
  <2>5. QED
    BY <2>3, <2>4
<1>4. ASSUME NEW j \in Jobs, Finish(j) PROVE Locked'
  <2>1. /\ owner[j] \in Workers /\ Target(j) \in Runs
        /\ at[j] = "work" /\ at' = [at EXCEPT ![j] = "ack"]
        /\ lock' = [lock EXCEPT ![owner[j]][Target(j)] = NoJob]
        /\ owner' = owner
    BY <1>4, <1>t, JobFacts DEF Finish, Move, Taken
  <2>2. SUFFICES ASSUME NEW i \in Jobs, at'[i] = "work"
                 PROVE  lock'[owner[i]][Target(i)] = i
    BY <2>1
  <2>3. /\ i # j /\ at[i] = "work" /\ lock[owner[i]][Target(i)] = i
        /\ owner[i] \in Workers /\ Target(i) \in Runs
    BY <1>t, <2>1, <2>2, JobFacts DEF Taken
  <2>4. lock[owner[j]][Target(j)] = j
    BY <1>t, <2>1
  <2>5. QED
    BY <1>t, <2>1, <2>3, <2>4
<1>5. ASSUME NEW w \in Workers, Start(w) PROVE Locked'
  <2>1. /\ up[w] = "down" /\ lock' = [lock EXCEPT ![w] = Unlocked]
        /\ at' = at /\ owner' = owner
    BY <1>5 DEF Start, jobVars
  <2>2. \A i \in Jobs : at[i] = "work" => owner[i] # w /\ owner[i] \in Workers
    BY <1>t, <2>1 DEF Placed, Taken
  <2>3. QED
    BY <1>t, <2>1, <2>2
<1>6. ASSUME NEW w \in Workers, Stop(w) \/ Stopped(w) \/ Crash(w) PROVE Locked'
  BY <1>6, <1>t DEF Stop, Stopped, Crash, jobVars
<1>7. ASSUME NEW w \in Workers, NEW kind \in Kinds, Deliver(w, kind)
      PROVE Locked'
  <2> DEFINE j == stream[kind][given[kind] + 1]
  <2>1. /\ at' = [at EXCEPT ![j] = "delivered"]
        /\ owner' = [owner EXCEPT ![j] = w] /\ lock' = lock
    BY <1>7 DEF Deliver, processVars
  <2> HIDE DEF j
  <2>2. QED
    BY <1>t, <2>1
<1>8. CASE UNCHANGED vars
  BY <1>8, <1>t DEF vars, processVars, jobVars
<1>9. QED
  BY <1>1, <1>2, <1>3, <1>4, <1>5, <1>6, <1>7, <1>8 DEF Next, Task, Process

-----------------------------------------------------------------------------
LEMMA IInvStep == IInv /\ [Next]_vars => IInv'
  BY TypeStep, OnceStep, PlacedStep, LockedStep DEF IInv

\* The streams, groups, processes and tasks keep their types in every step of
\* the queue.
THEOREM QueueTypeCorrect == Spec => []TypeOK
<1>1. IInv => TypeOK
  BY DEF IInv
<1>2. QED
  BY <1>1, InitHolds, IInvStep, PTL DEF Spec

\* Within one process no two jobs ever write the same run: the dict of locks
\* that the two consume loops share is enough, for any number of jobs and any
\* order of stops, crashes and restarts, since a process starts with no task.
THEOREM OneWriterInEachProcess == Spec => []OneWriterPerProcess
<1>1. IInv => OneWriterPerProcess
  <2> SUFFICES ASSUME IInv, NEW i \in Jobs, NEW j \in Jobs,
                      Working(i), Working(j), Target(i) = Target(j),
                      owner[i] = owner[j]
               PROVE  i = j
    BY DEF OneWriterPerProcess
  <2>1. lock[owner[i]][Target(i)] = i /\ lock[owner[j]][Target(j)] = j
    BY DEF IInv, Locked, Working
  <2>2. QED
    BY <2>1
<1>2. QED
  BY <1>1, InitHolds, IInvStep, PTL DEF Spec

\* A job's work is started at most once whatever crashes: the consumer group
\* hands an entry out once, and nobody reads pending entries again.
THEOREM WorkedOnAtMostOnce == Spec => []AtMostOnce
<1>1. IInv => AtMostOnce
  BY DEF IInv, Once, AtMostOnce
<1>2. QED
  BY <1>1, InitHolds, IInvStep, PTL DEF Spec

\* A process that is down owns no task: a stop waits for its tasks, and what a
\* crash cuts off is stuck as a pending entry.
THEOREM NothingIsLeftBehind == Spec => []NothingLeftBehind
<1>1. IInv => NothingLeftBehind
  BY DEF IInv, Placed, Taken, NothingLeftBehind
<1>2. QED
  BY <1>1, InitHolds, IInvStep, PTL DEF Spec
=============================================================================
