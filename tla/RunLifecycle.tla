---------------------------- MODULE RunLifecycle ----------------------------
(***************************************************************************)
(* One run from POST /runs to its final status: create_run and cancel_run  *)
(* in the gateway, the pipeline in a worker, and the gateway's audit task, *)
(* which turns the events of the worker into rows of events_audit and into *)
(* runs.status.                                                            *)
(*                                                                         *)
(* Events that change no status (tokens, logs, outputs, costs) are left    *)
(* out, and emit() is one step: its two Redis calls are EventBus's.  Time  *)
(* passes in ticks; the audit task and the cancel key count them.          *)
(***************************************************************************)
EXTENDS Naturals, Sequences, FiniteSets, SequencesExt

CONSTANTS Stages,   \* stages with a cancellation check in front
          Grace,    \* AUDIT_GRACE_SECS in ticks
          Ttl,      \* CANCEL_KEY_TTL_SECS in ticks
          MaxAge,   \* bound on the ticks after the row was created
          MaxFaults \* bound on the kinds of fault that strike

ASSUME LifecycleAssumption ==
  /\ Stages \in Nat \ {0}
  /\ Grace \in Nat
  /\ Ttl \in Nat \ {0}
  /\ MaxAge \in Nat
  /\ MaxFaults \in Nat

VARIABLES api,    \* how far create_run has got
          row,    \* runs.status
          queued, \* the job is on mm:jobs and no worker has it
          pc,     \* where the worker's coroutine for the run stands
          stage,  \* the stage it is in, or in front of
          events, \* what the worker has XADDed, by kind
          ttl,    \* ticks left of mm:cancel:<run>, 0 when it is not set
          audit,  \* the audit task
          cursor, \* last_id: entries the audit task has taken
          top,    \* entries it has read
          rows,   \* the entries in events_audit
          age,    \* ticks since the row was created
          asked,  \* history: when the first cancel was accepted
          lapsed, \* history: a cancel key has expired
          faults  \* history: the kinds of fault that struck

requestVars == <<api, queued>>
workerVars  == <<pc, stage, events>>
auditVars   == <<audit, cursor, top, rows>>
timeVars    == <<ttl, age, asked, lapsed>>
vars == <<requestVars, row, workerVars, auditVars, timeVars, faults>>

EventKinds == {"start", "error", "success", "failed", "cancelled"}

FaultKinds == {"enqueue", "group", "payload", "get", "emit", "insert",
               "lifecycle", "worker", "gateway"}

\* done.status, or an error, as a value of runs.status
StatusOf(e) ==
  CASE e = "success"            -> "done"
    [] e \in {"failed", "error"} -> "failed"
    [] e = "cancelled"          -> "cancelled"

Terminal == {"done", "failed", "cancelled"}

Ends(e) == e # "start"

Announced == {StatusOf(e) : e \in {k \in ToSet(events) : Ends(k)}}

\* A fault of this kind strikes, within the bound.
Strike(kind) ==
  /\ Cardinality(faults \cup {kind}) <= MaxFaults
  /\ faults' = faults \cup {kind}

-----------------------------------------------------------------------------
Init ==
  /\ api = "none" /\ row = "absent" /\ queued = FALSE
  /\ pc = "idle" /\ stage = 1 /\ events = <<>>
  /\ audit = "none" /\ cursor = 0 /\ top = 0 /\ rows = {}
  /\ ttl = 0 /\ age = 0 /\ asked = "no" /\ lapsed = FALSE
  /\ faults = {}

-----------------------------------------------------------------------------
(* create_run: three steps, each after an await.                           *)

InsertRun ==
  /\ api = "none"
  /\ api' = "inserted"
  /\ row' = "queued"
  /\ UNCHANGED <<queued, workerVars, auditVars, timeVars, faults>>

EnqueueJob ==
  /\ api = "inserted"
  /\ api' = "enqueued"
  /\ queued' = TRUE
  /\ UNCHANGED <<row, workerVars, auditVars, timeVars, faults>>

\* XADD mm:jobs fails: the client gets an error and the row stays.
EnqueueFails ==
  /\ api = "inserted"
  /\ Strike("enqueue")
  /\ api' = "over"
  /\ UNCHANGED <<row, queued, workerVars, auditVars, timeVars>>

\* The job was posted before any worker had created the consumer group, which
\* starts at "$": no XREADGROUP delivers it.
JobNeverDelivered ==
  /\ pc = "idle" /\ queued
  /\ Strike("group")
  /\ queued' = FALSE
  /\ UNCHANGED <<api, row, workerVars, auditVars, timeVars>>

SpawnAudit ==
  /\ api = "enqueued"
  /\ api' = "over"
  /\ audit' = "reading"
  /\ UNCHANGED <<row, queued, workerVars, cursor, top, rows, timeVars, faults>>

\* The gateway dies: create_run goes no further, and no start-up code takes
\* up the audit tasks that were running.
GatewayCrash ==
  /\ api # "none"
  /\ Strike("gateway")
  /\ api' = "over"
  /\ audit' = "exited"
  /\ UNCHANGED <<row, queued, workerVars, cursor, top, rows, timeVars>>

-----------------------------------------------------------------------------
(* cancel_run                                                              *)

ChecksAhead == pc \in {"idle", "check"} \/ (pc \in {"start", "work", "shipped"}
                                            /\ stage < Stages)

\* The row exists: SET mm:cancel:<run> EX ttl NX, 202.
CancelRun ==
  /\ row # "absent"
  /\ ttl = 0 \/ asked = "no"
  /\ ttl' = IF ttl = 0 THEN Ttl ELSE ttl
  /\ asked' = IF asked # "no" THEN asked
              ELSE IF ChecksAhead THEN "early" ELSE "late"
  /\ UNCHANGED <<requestVars, row, workerVars, auditVars, age, lapsed, faults>>

Tick ==
  /\ row # "absent"
  /\ age < MaxAge
  /\ age' = age + 1
  /\ ttl' = IF ttl > 0 THEN ttl - 1 ELSE 0
  /\ lapsed' = (lapsed \/ ttl = 1)
  /\ UNCHANGED <<requestVars, row, workerVars, auditVars, asked, faults>>

-----------------------------------------------------------------------------
(* run_pipeline in a worker                                                *)

Goto(place) == pc' = place /\ UNCHANGED <<stage, events>>

Emit(e, place) ==
  /\ events' = Append(events, e)
  /\ pc' = place
  /\ UNCHANGED stage

ByWorker == UNCHANGED <<requestVars, row, auditVars, timeVars, faults>>

TakeJob ==
  /\ pc = "idle" /\ queued
  /\ queued' = FALSE
  /\ Goto("check")
  /\ UNCHANGED <<api, row, auditVars, timeVars, faults>>

\* The worker takes the job and its ProblemInput rejects what the gateway's
\* accepted (a field too many, an unknown competition): no run_id is known, so
\* no "error" is emitted, and the job is acknowledged.
JobRejected ==
  /\ pc = "idle" /\ queued
  /\ Strike("payload")
  /\ queued' = FALSE
  /\ Goto("gone")
  /\ UNCHANGED <<api, row, auditVars, timeVars>>

\* Checking once, when the job is taken.
CheckWhenTaken ==
  /\ pc = "check"
  /\ Goto(IF ttl > 0 /\ stage = 1 THEN "cancelling" ELSE "start")
  /\ ByWorker

\* check_or_raise in front of a stage.
CheckCancelled ==
  /\ pc = "check"
  /\ Goto(IF ttl > 0 THEN "cancelling" ELSE "start")
  /\ ByWorker

\* The GET raises: is_cancelled answers False.
CheckFails ==
  /\ pc = "check"
  /\ Strike("get")
  /\ Goto("start")
  /\ UNCHANGED <<requestVars, row, auditVars, timeVars>>

StageStart == pc = "start" /\ Emit("start", "work") /\ ByWorker

\* A revision by the searcher, or a rerun of the coder, that cannot be parsed
\* emits "error" and raises AgentError; the review loop catches it and ships
\* the output it already has.
RevisionFails == pc = "work" /\ Emit("error", "shipped") /\ ByWorker

StageDone ==
  /\ pc \in {"work", "shipped"}
  /\ pc' = IF stage < Stages THEN "check" ELSE "finish"
  /\ stage' = IF stage < Stages THEN stage + 1 ELSE stage
  /\ UNCHANGED events
  /\ ByWorker

\* The stage's own call cannot be parsed: "error", then AgentError.
AgentUnparseable == pc = "work" /\ Emit("error", "failing") /\ ByWorker

\* AgentError without an event: the retries of a stream are used up.
AgentFails == pc = "work" /\ Goto("failing") /\ ByWorker

\* Without the "error" of main._process.
AnnouncingInPipeline(e, place) ==
  \/ pc = "finish"     /\ e = "success"   /\ place = "gone"
  \/ pc = "cancelling" /\ e = "cancelled" /\ place = "gone"
  \/ pc = "failing"    /\ e = "error"     /\ place = "erred"
  \/ pc = "erred"      /\ e = "failed"    /\ place = "gone"

\* What run_pipeline announces at its end, and what it does next.
Announcing(e, place) ==
  \/ pc = "finish"     /\ e = "success"   /\ place = "gone"
  \/ pc = "cancelling" /\ e = "cancelled" /\ place = "gone"
  \/ pc = "failing"    /\ e = "error"     /\ place = "erred"
  \/ pc = "erred"      /\ e = "failed"    /\ place = "gone"
  \/ pc = "raised"     /\ e = "error"     /\ place = "gone"

AnnounceOutcome ==
  \E e \in EventKinds, place \in {"gone", "erred"} :
     Announcing(e, place) /\ Emit(e, place) /\ ByWorker

\* An exception other than AgentError leaves run_pipeline.
Raises ==
  /\ pc \in {"start", "work", "shipped", "finish", "cancelling", "failing",
             "erred"}
  /\ Goto("raised")
  /\ ByWorker

\* The XADD of an outcome went through and its reply was lost: the exception
\* leaves run_pipeline all the same.
ReplyLost ==
  \E e \in EventKinds, place \in {"gone", "erred"} :
     /\ pc # "raised"
     /\ Announcing(e, place)
     /\ Emit(e, "raised")
     /\ ByWorker

\* main._process cannot emit its "error" either.
LastEmitFails ==
  /\ pc = "raised"
  /\ Strike("emit")
  /\ Goto("gone")
  /\ UNCHANGED <<requestVars, row, auditVars, timeVars>>

\* The worker dies.  The job stays pending and is never read again.
WorkerCrash ==
  /\ pc \notin {"idle", "gone"}
  /\ Strike("worker")
  /\ Goto("gone")
  /\ UNCHANGED <<requestVars, row, auditVars, timeVars>>

Worker == \/ TakeJob \/ CheckCancelled \/ StageStart \/ RevisionFails
          \/ StageDone \/ AgentUnparseable \/ AgentFails \/ AnnounceOutcome
          \/ Raises \/ ReplyLost

-----------------------------------------------------------------------------
(* The audit task                                                          *)

ByAudit == UNCHANGED <<requestVars, workerVars, timeVars>>

\* XREAD after last_id, at the top of the loop and within the grace.
AuditRead ==
  /\ audit = "reading" /\ cursor = top
  /\ age <= Grace
  /\ top < Len(events)
  /\ top' = Len(events)
  /\ ByAudit /\ UNCHANGED <<row, audit, cursor, rows, faults>>

\* Grace timeout guard, at the top of the loop.
GraceHits ==
  /\ audit = "reading" /\ cursor = top
  /\ age > Grace
  /\ audit' = "exited"
  /\ ByAudit /\ UNCHANGED <<row, cursor, top, rows, faults>>

\* An entry taken without looking whether the batch has one.
TakeEntryBlind == audit = "reading" /\ cursor' = cursor + 1

TakeEntry == audit = "reading" /\ cursor < top /\ cursor' = cursor + 1

InsertAuditRow ==
  /\ TakeEntry
  /\ rows' = rows \cup {cursor + 1}
  /\ audit' = "inserted"
  /\ ByAudit /\ UNCHANGED <<row, top, faults>>

\* The INSERT fails and the lifecycle is applied none the less.
InsertFailsApplies ==
  /\ TakeEntry
  /\ Strike("insert")
  /\ audit' = "inserted"
  /\ ByAudit /\ UNCHANGED <<row, top, rows>>

\* The row is skipped, and with it its lifecycle and the terminal check.
InsertFails ==
  /\ TakeEntry
  /\ Strike("insert")
  /\ ByAudit /\ UNCHANGED <<row, audit, top, rows>>

\* The three UPDATEs, each with its WHERE.
StatusAfter(e) ==
  CASE e = "start" -> IF row = "queued" THEN "running" ELSE row
    [] e = "error" -> IF row # "done" THEN "failed" ELSE row
    [] OTHER       -> StatusOf(e)

\* A task that tails on past an outcome.
KeepReading(e) == "reading"

AfterEntry(e) == IF Ends(e) THEN "exited" ELSE "reading"

ApplyLifecycle ==
  /\ audit = "inserted"
  /\ row' = StatusAfter(events[cursor])
  /\ audit' = AfterEntry(events[cursor])
  /\ ByAudit /\ UNCHANGED <<cursor, top, rows, faults>>

\* The UPDATE fails: logged, and the terminal check follows all the same.
LifecycleFails ==
  /\ audit = "inserted"
  /\ Strike("lifecycle")
  /\ audit' = AfterEntry(events[cursor])
  /\ ByAudit /\ UNCHANGED <<row, cursor, top, rows>>

Audit == AuditRead \/ GraceHits \/ InsertAuditRow \/ ApplyLifecycle

-----------------------------------------------------------------------------
Request == InsertRun \/ EnqueueJob \/ SpawnAudit

Fault == \/ EnqueueFails \/ JobNeverDelivered \/ JobRejected \/ GatewayCrash
         \/ CheckFails \/ LastEmitFails \/ WorkerCrash
         \/ InsertFails \/ LifecycleFails

Next == Request \/ CancelRun \/ Tick \/ Worker \/ Audit \/ Fault

Spec == Init /\ [][Next]_vars

\* create_run, the worker and the audit task keep going; users, time and
\* faults are free.
FairSpec ==
  Spec /\ WF_vars(EnqueueJob) /\ WF_vars(SpawnAudit) /\ WF_vars(Worker)
       /\ WF_vars(Audit)

-----------------------------------------------------------------------------
\* Type invariant of the run's row, job, events, cancel key and audit task.
TypeOK ==
  /\ api \in {"none", "inserted", "enqueued", "over"}
  /\ row \in {"absent", "queued", "running"} \cup Terminal
  /\ queued \in BOOLEAN
  /\ pc \in {"idle", "check", "start", "work", "shipped", "finish", "failing",
             "erred", "cancelling", "raised", "gone"}
  /\ stage \in 1..Stages
  /\ events \in Seq(EventKinds)
  /\ audit \in {"none", "reading", "inserted", "exited"}
  /\ cursor \in 0..top /\ top \in 0..Len(events)
  /\ rows \subseteq 1..cursor
  /\ ttl \in 0..Ttl /\ age \in 0..MaxAge
  /\ asked \in {"no", "early", "late"} /\ lapsed \in BOOLEAN
  /\ faults \subseteq FaultKinds

\* runs.status goes through the states of RunStatus only: an outcome is final
\* whatever the worker emits after it, and it is one the pipeline announced.
Status == INSTANCE RunStatus WITH status <- row, announced <- Announced

RefinesRunStatus == Status!Spec

\* A final status can be explained from events_audit alone: the event that
\* set it is there, and so is everything before it unless an INSERT failed.
OutcomeAudited ==
  row \in Terminal =>
    \E i \in rows : /\ Ends(events[i]) /\ StatusOf(events[i]) = row
                    /\ "insert" \in faults \/ 1..i \subseteq rows

\* A cancel accepted while a boundary check was still to come keeps the run
\* from announcing success, unless the key expired or a GET failed.
EarlyCancelStops ==
  asked = "early" => \/ "success" \notin ToSet(events)
                     \/ lapsed
                     \/ "get" \in faults

\* Every run whose job was enqueued gets its final status within the grace,
\* unless one of the faults nobody repairs struck: a job the consumer group
\* skips or the worker rejects, a failing INSERT or UPDATE of the audit task, a
\* crash of either process, or a worker that cannot emit anything at all.  A
\* failing GET of the cancel key never costs the outcome.
Repaired == faults \subseteq {"get"}

SettlesWithinGrace ==
  (api = "enqueued") ~> (row \in Terminal \/ age > Grace \/ ~ Repaired)

=============================================================================
