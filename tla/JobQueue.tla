------------------------------ MODULE JobQueue ------------------------------
(***************************************************************************)
(* The two job streams, mm:jobs (one pipeline per run) and mm:finetune     *)
(* (any number of turns per run), their consumer groups, and the worker    *)
(* processes that read them.                                               *)
(*                                                                         *)
(* A process runs two consume loops over one event loop.  Each entry gets  *)
(* a task: it takes a permit of its stream's semaphore, then the lock of   *)
(* its run from a dict the two loops share, does the work, and is XACKed.  *)
(* Semaphores, locks and tasks live in the process and die with it; what   *)
(* the group remembers (last-delivered-id, pending entries) lives in       *)
(* Redis.                                                                  *)
(***************************************************************************)
EXTENDS Naturals, Sequences, FiniteSets

CONSTANTS Workers,     \* the worker processes of the deployment
          Runs,        \* a run names its one pipeline job too
          Turns,       \* the fine-tune jobs
          RunOf,       \* the run each turn is about
          Concurrency, \* WORKER_CONCURRENCY
          MaxCrashes,  \* bound on the crashes
          MaxStops,    \* bound on the SIGTERMs
          NoJob,       \* a lock nobody holds
          Nobody       \* the owner of an entry not handed out

Jobs == Runs \cup Turns

Kinds == {"pipeline", "finetune"}

\* cfg.worker_concurrency, and max(1, ...) for the fine-tune semaphore
Limit(kind) == IF kind = "finetune" /\ Concurrency = 0 THEN 1 ELSE Concurrency

KindOf(j) == IF j \in Turns THEN "finetune" ELSE "pipeline"

Target(j) == IF j \in Turns THEN RunOf[j] ELSE j

ASSUME QueueAssumption ==
  /\ Runs \cap Turns = {}
  /\ RunOf \in [Turns -> Runs]
  /\ Concurrency \in Nat
  /\ MaxCrashes \in Nat
  /\ MaxStops \in Nat
  /\ NoJob \notin Jobs
  /\ Nobody \notin Workers

VARIABLES stream,  \* per kind: the jobs XADDed, oldest first
          group,   \* per kind: the consumer group exists
          given,   \* per kind: how many entries the group has handed out
          up,      \* per process: "down", "up" or "draining"
          permits, \* per process and kind: free permits of the semaphore
          lock,    \* per process and run: who holds run_locks[run]
          at,      \* per job: how far it has got
          owner,   \* per job: the process it was handed to
          starts,  \* history: how often each job's work was started
          crashes, stops

redisVars   == <<stream, group, given>>
processVars == <<up, permits, lock>>
jobVars     == <<at, owner>>
bounds      == <<crashes, stops>>
vars == <<redisVars, processVars, jobVars, starts, bounds>>

Fresh == [k \in Kinds |-> Limit(k)]

Unlocked == [r \in Runs |-> NoJob]

-----------------------------------------------------------------------------
Init ==
  /\ stream = [k \in Kinds |-> <<>>]
  /\ group = [k \in Kinds |-> FALSE]
  /\ given = [k \in Kinds |-> 0]
  /\ up = [w \in Workers |-> "down"]
  /\ permits = [w \in Workers |-> Fresh]
  /\ lock = [w \in Workers |-> Unlocked]
  /\ at = [j \in Jobs |-> "unposted"]
  /\ owner = [j \in Jobs |-> Nobody]
  /\ starts = [j \in Jobs |-> 0]
  /\ crashes = 0 /\ stops = 0

\* create_run, or finetune_run for a run that exists: XADD.
Post(j) ==
  /\ at[j] = "unposted"
  /\ at[Target(j)] # "unposted" \/ j \in Runs
  /\ stream' = [stream EXCEPT ![KindOf(j)] = Append(@, j)]
  /\ at' = [at EXCEPT ![j] = "posted"]
  /\ UNCHANGED <<group, given, processVars, owner, starts, bounds>>

-----------------------------------------------------------------------------
(* A process starts, stops, crashes.                                       *)

\* _ensure_group of both loops: XGROUP CREATE ... $ MKSTREAM; a group that
\* exists keeps its place.
EnsureGroups ==
  /\ group' = [k \in Kinds |-> TRUE]
  /\ given' = [k \in Kinds |-> IF group[k] THEN given[k] ELSE Len(stream[k])]

\* A process that takes up the entries pending for it when it starts.
StartReclaims(w) ==
  /\ up[w] = "down"
  /\ up' = [up EXCEPT ![w] = "up"]
  /\ permits' = [permits EXCEPT ![w] = Fresh]
  /\ lock' = [lock EXCEPT ![w] = Unlocked]
  /\ EnsureGroups
  /\ at' = [j \in Jobs |-> IF owner[j] = w /\ at[j] = "stuck"
                           THEN "delivered" ELSE at[j]]
  /\ UNCHANGED <<stream, owner, starts, bounds>>

\* Fresh semaphores, an empty run_locks, no tasks; nobody reads the entries
\* that are pending for this consumer.
Start(w) ==
  /\ up[w] = "down"
  /\ up' = [up EXCEPT ![w] = "up"]
  /\ permits' = [permits EXCEPT ![w] = Fresh]
  /\ lock' = [lock EXCEPT ![w] = Unlocked]
  /\ EnsureGroups
  /\ UNCHANGED <<stream, jobVars, starts, bounds>>

InFlight(w) ==
  {j \in Jobs : owner[j] = w /\ at[j] \in {"permit", "lock", "work", "ack"}}

\* SIGTERM: both consume loops are cancelled, a reply on its way to them with
\* its entries; the tasks in flight are awaited.
Stop(w) ==
  /\ up[w] = "up"
  /\ stops < MaxStops
  /\ stops' = stops + 1
  /\ up' = [up EXCEPT ![w] = "draining"]
  /\ at' = [j \in Jobs |-> IF owner[j] = w /\ at[j] = "delivered"
                           THEN "stuck" ELSE at[j]]
  /\ UNCHANGED <<redisVars, permits, lock, owner, starts, crashes>>

\* Stopping without waiting for the tasks in flight.
StoppedAtOnce(w) ==
  /\ up[w] = "draining"
  /\ up' = [up EXCEPT ![w] = "down"]
  /\ UNCHANGED <<redisVars, permits, lock, jobVars, starts, bounds>>

Stopped(w) ==
  /\ up[w] = "draining"
  /\ InFlight(w) = {}
  /\ up' = [up EXCEPT ![w] = "down"]
  /\ UNCHANGED <<redisVars, permits, lock, jobVars, starts, bounds>>

Crash(w) ==
  /\ up[w] # "down"
  /\ crashes < MaxCrashes
  /\ crashes' = crashes + 1
  /\ up' = [up EXCEPT ![w] = "down"]
  /\ at' = [j \in Jobs |->
              IF j \in InFlight(w) \/ (owner[j] = w /\ at[j] = "delivered")
              THEN "stuck" ELSE at[j]]
  /\ UNCHANGED <<redisVars, permits, lock, owner, starts, stops>>

-----------------------------------------------------------------------------
(* The consume loop and the task of one job.                               *)

\* XREADGROUP ">": Redis hands out the next entry and makes it pending.
Deliver(w, kind) ==
  /\ up[w] = "up" /\ group[kind]
  /\ given[kind] < Len(stream[kind])
  /\ given' = [given EXCEPT ![kind] = @ + 1]
  /\ LET j == stream[kind][given[kind] + 1] IN
       /\ at' = [at EXCEPT ![j] = "delivered"]
       /\ owner' = [owner EXCEPT ![j] = w]
  /\ UNCHANGED <<stream, group, processVars, starts, bounds>>

Move(j, from, to) == at[j] = from /\ at' = [at EXCEPT ![j] = to]

TaskOnly == UNCHANGED <<redisVars, up, owner, starts, bounds>>

\* The loop has the reply: create_task.
Receive(j) ==
  /\ Move(j, "delivered", "permit")
  /\ TaskOnly /\ UNCHANGED <<permits, lock>>

\* A semaphore that lets one task too many in.
AcquireLate(j) ==
  /\ Move(j, "permit", "lock")
  /\ permits' = [permits EXCEPT ![owner[j]][KindOf(j)] = @ - 1]
  /\ TaskOnly /\ UNCHANGED lock

\* async with semaphore
Acquire(j) ==
  /\ Move(j, "permit", "lock")
  /\ permits[owner[j]][KindOf(j)] > 0
  /\ permits' = [permits EXCEPT ![owner[j]][KindOf(j)] = @ - 1]
  /\ TaskOnly /\ UNCHANGED lock

\* The entry does not parse: logged, nothing is emitted, XACK.
Reject(j) ==
  /\ Move(j, "lock", "ack")
  /\ TaskOnly /\ UNCHANGED <<permits, lock>>

\* A process that looks at the run's lock of its own kind of job only.
BeginUnshared(j) ==
  /\ Move(j, "lock", "work")
  /\ lock' = [lock EXCEPT ![owner[j]][Target(j)] = j]
  /\ \/ lock[owner[j]][Target(j)] = NoJob
     \/ KindOf(lock[owner[j]][Target(j)]) # KindOf(j)
  /\ starts' = [starts EXCEPT ![j] = @ + 1]
  /\ UNCHANGED <<redisVars, up, permits, owner, bounds>>

\* A turn whose lock is not released when it returns.
FinishLocked(j) ==
  /\ Move(j, "work", "ack")
  /\ UNCHANGED <<redisVars, processVars, owner, starts, bounds>>

\* async with run_locks.setdefault(run, Lock()): run_pipeline or run_finetune
\* starts.
Begin(j) ==
  /\ Move(j, "lock", "work")
  /\ lock[owner[j]][Target(j)] = NoJob
  /\ lock' = [lock EXCEPT ![owner[j]][Target(j)] = j]
  /\ starts' = [starts EXCEPT ![j] = @ + 1]
  /\ UNCHANGED <<redisVars, up, permits, owner, bounds>>

\* The work ends, well or with an exception that is logged.
Finish(j) ==
  /\ Move(j, "work", "ack")
  /\ lock' = [lock EXCEPT ![owner[j]][Target(j)] = NoJob]
  /\ UNCHANGED <<redisVars, up, permits, owner, starts, bounds>>

\* XACK, then the permit is released.
Ack(j) ==
  /\ Move(j, "ack", "over")
  /\ permits' = [permits EXCEPT ![owner[j]][KindOf(j)] = @ + 1]
  /\ TaskOnly /\ UNCHANGED lock

Task(j) == Receive(j) \/ Acquire(j) \/ Begin(j) \/ Finish(j) \/ Ack(j)

Process(w) == Start(w) \/ Stop(w) \/ Stopped(w) \/ Crash(w)

Next ==
  \/ \E j \in Jobs : Post(j) \/ Task(j) \/ Reject(j)
  \/ \E w \in Workers : Process(w) \/ \E k \in Kinds : Deliver(w, k)

Spec == Init /\ [][Next]_vars

\* The event loop of a process runs some task that can go on, and its consume
\* loops keep reading.  With finitely many jobs that is enough: semaphores and
\* locks are first come first served, so no task is passed over for ever.
FairSpec ==
  Spec /\ \A w \in Workers :
            /\ WF_vars(\E j \in Jobs : owner[j] = w /\ Task(j))
            /\ WF_vars(\E k \in Kinds : Deliver(w, k))

-----------------------------------------------------------------------------
Places == {"unposted", "posted", "delivered", "permit", "lock", "work", "ack",
           "over", "stuck"}

\* Type invariant of the streams, groups, processes and tasks.
TypeOK ==
  /\ stream \in [Kinds -> Seq(Jobs)]
  /\ group \in [Kinds -> BOOLEAN]
  /\ given \in [Kinds -> Nat] /\ \A k \in Kinds : given[k] <= Len(stream[k])
  /\ up \in [Workers -> {"down", "up", "draining"}]
  /\ permits \in [Workers -> [Kinds -> Nat]]
  /\ lock \in [Workers -> [Runs -> Jobs \cup {NoJob}]]
  /\ at \in [Jobs -> Places]
  /\ owner \in [Jobs -> Workers \cup {Nobody}]
  /\ starts \in [Jobs -> Nat]
  /\ crashes \in 0..MaxCrashes /\ stops \in 0..MaxStops

Working(j) == at[j] = "work"

\* Two jobs of one process never write one run's directory at a time, a
\* pipeline and a turn or two turns, whatever was stopped, crashed and
\* started again in between.
OneWriterPerProcess ==
  \A i, j \in Jobs :
     (i # j /\ Working(i) /\ Working(j) /\ Target(i) = Target(j))
        => owner[i] # owner[j]

\* No job is worked on twice, over any number of processes, stops, crashes
\* and restarts: an entry is handed out once.
AtMostOnce == \A j \in Jobs : starts[j] <= 1

\* A process that is down has left no task behind: SIGTERM waits for them,
\* and a job that a crash or a lost reply cut off is stuck, not running.
NothingLeftBehind ==
  \A j \in Jobs : at[j] \in {"delivered", "permit", "lock", "work", "ack"}
                    => owner[j] \in Workers /\ up[owner[j]] # "down"

\* Every job that a process has taken is acknowledged in the end, unless the
\* process stops or crashes: no order of permits and locks blocks for ever.
TakenIsFinished ==
  \A j \in Jobs : (at[j] = "permit") ~> (at[j] \in {"over", "stuck"})

=============================================================================
