------------------------- MODULE RunLifecycleProofs -------------------------
(***************************************************************************)
(* Proofs about RunLifecycle, for any number of stages, any grace and life *)
(* of the cancel key, and any number of faults: the types, the refinement  *)
(* of RunStatus, an outcome that the audit explains, and a cancel in time  *)
(* that is obeyed.                                                         *)
(***************************************************************************)
EXTENDS RunLifecycle, TLAPS

\* The row is there before the audit task, and the task is gone once the row
\* holds an outcome: so no second event can overwrite it.
OneSettles ==
  /\ api = "none" => row = "absent" /\ audit = "none"
  /\ api \in {"inserted", "enqueued"} => row = "queued" /\ audit = "none"
  /\ audit \in {"reading", "inserted"} => row \in {"queued", "running"}

\* An entry whose lifecycle is next has its audit row, and only a failing
\* INSERT leaves an entry out.
Logged ==
  /\ audit = "inserted" => cursor \in rows
  /\ "insert" \notin faults => rows = 1..cursor

\* An effective cancel: in time, its key alive, every GET answered.
Effective == asked = "early" /\ ~ lapsed /\ "get" \notin faults

\* As long as a cancel is effective there is a check ahead, or the run is
\* ending some other way.
Obeyed ==
  /\ "success" \in ToSet(events) => pc \in {"raised", "gone"}
  /\ Effective => /\ ttl > 0
                  /\ "success" \notin ToSet(events)
                  /\ pc # "finish"
                  /\ pc \in {"start", "work", "shipped"} => stage < Stages

IInv == TypeOK /\ OneSettles /\ Logged /\ OutcomeAudited /\ Obeyed

-----------------------------------------------------------------------------
(* What a step may do to the event stream and to the row.                  *)

\* The stream only grows: what was on it stays where it was.
LEMMA EmitFacts ==
  ASSUME events \in Seq(EventKinds), NEW e \in EventKinds, NEW place,
         Emit(e, place)
  PROVE  /\ events' \in Seq(EventKinds) /\ Len(events') = Len(events) + 1
         /\ \A i \in 1..Len(events) : events'[i] = events[i]
         /\ ToSet(events') = ToSet(events) \cup {e}
<1>1. events' = Append(events, e)
  BY DEF Emit
<1>2. /\ events' \in Seq(EventKinds) /\ Len(events') = Len(events) + 1
      /\ \A i \in 1..Len(events) : events'[i] = events[i]
      /\ events'[Len(events) + 1] = e
  BY <1>1
<1>3. DOMAIN events = 1..Len(events) /\ DOMAIN events' = 1..Len(events')
  BY <1>2
<1>4. \A i \in DOMAIN events' : i \in DOMAIN events \/ i = Len(events) + 1
  BY <1>2, <1>3
<1>5. ToSet(events') \subseteq ToSet(events) \cup {e}
  BY <1>2, <1>3, <1>4 DEF ToSet
<1>6. ToSet(events) \cup {e} \subseteq ToSet(events')
  BY <1>2, <1>3 DEF ToSet
<1>7. QED
  BY <1>2, <1>5, <1>6

\* A step of the worker that emits, or one that does not.
Silent ==
  pc' \in {"check", "start", "work", "shipped", "finish", "failing", "erred",
           "cancelling", "raised", "gone"} /\ UNCHANGED events

Emits ==
  \E e \in EventKinds : Emit(e, pc') /\ pc' \in {"work", "shipped", "failing", "erred",
                                                 "raised", "gone"}

LEMMA WorkerMoves ==
  ASSUME TypeOK,
         Worker \/ JobRejected \/ CheckFails \/ LastEmitFails \/ WorkerCrash
  PROVE  /\ Silent \/ Emits
         /\ UNCHANGED <<api, row, auditVars, timeVars>>
         /\ stage' \in 1..Stages /\ queued' \in BOOLEAN
         /\ faults \subseteq faults' /\ faults' \subseteq FaultKinds
<1> USE DEF ByWorker, requestVars, auditVars, timeVars, EventKinds, Goto, Silent,
        Emits
<1>1. CASE TakeJob
  BY <1>1 DEF TakeJob, TypeOK
<1>2. CASE CheckCancelled \/ Raises \/ AgentFails
  BY <1>2 DEF CheckCancelled, Raises, AgentFails, TypeOK
<1>3. CASE StageStart
  BY <1>3 DEF StageStart, Emit, TypeOK
<1>4. CASE RevisionFails \/ AgentUnparseable
  BY <1>4 DEF RevisionFails, AgentUnparseable, Emit, TypeOK
<1>5. CASE StageDone
  BY <1>5, LifecycleAssumption DEF StageDone, TypeOK
<1>6. CASE AnnounceOutcome
  BY <1>6 DEF AnnounceOutcome, Emit, TypeOK
<1>7. CASE ReplyLost
  BY <1>7 DEF ReplyLost, Emit, TypeOK
<1>8. CASE JobRejected \/ CheckFails \/ LastEmitFails \/ WorkerCrash
  BY <1>8 DEF JobRejected, CheckFails, LastEmitFails, WorkerCrash, Strike,
              FaultKinds, TypeOK
<1>9. QED
  BY <1>1, <1>2, <1>3, <1>4, <1>5, <1>6, <1>7, <1>8 DEF Worker

OfWorker ==
  Worker \/ JobRejected \/ CheckFails \/ LastEmitFails \/ WorkerCrash

\* Whatever happens, entries stay where they are and faults are not forgotten.
LEMMA StreamGrows ==
  ASSUME TypeOK, [Next]_vars
  PROVE  /\ events' \in Seq(EventKinds) /\ Len(events) <= Len(events')
         /\ \A i \in 1..Len(events) : events'[i] = events[i]
         /\ faults \subseteq faults'
<1> USE DEF TypeOK
<1>1. CASE OfWorker
  <2>1. CASE Silent
    BY <1>1, <2>1, WorkerMoves DEF OfWorker, Silent
  <2>2. CASE Emits
    <3>1. PICK e \in EventKinds : Emit(e, pc')
      BY <2>2 DEF Emits
    <3>2. QED
      BY <1>1, <3>1, EmitFacts, WorkerMoves DEF OfWorker
  <2>3. QED
    BY <1>1, <2>1, <2>2, WorkerMoves DEF OfWorker
<1>2. CASE ~ OfWorker
  <2>1. UNCHANGED events /\ faults \subseteq faults'
    BY <1>2 DEF Next, Request, Audit, Fault, OfWorker, InsertRun, EnqueueJob,
                SpawnAudit, CancelRun, Tick, AuditRead, GraceHits, InsertAuditRow,
                ApplyLifecycle, EnqueueFails, JobNeverDelivered,
                GatewayCrash, InsertFails,
                LifecycleFails, TakeEntry, Strike, ByAudit, vars, workerVars
  <2>2. QED
    BY <2>1
<1>3. QED
  BY <1>1, <1>2

-----------------------------------------------------------------------------
(* The five parts of the invariant, one lemma each.                        *)

\* With Logged, ApplyLifecycle reads an entry that is on the stream.
LEMMA CursorOnStream ==
  ASSUME TypeOK, Logged, audit = "inserted"
  PROVE  cursor \in 1..Len(events) /\ events[cursor] \in EventKinds
BY DEF TypeOK, Logged

LEMMA StatusAfterType ==
  ASSUME NEW e \in EventKinds, row \in {"absent", "queued", "running"} \cup Terminal
  PROVE  StatusAfter(e) \in {"absent", "queued", "running"} \cup Terminal
BY DEF EventKinds, StatusAfter, StatusOf, Terminal

LEMMA TypeStep ==
  ASSUME TypeOK, Logged, [Next]_vars
  PROVE  TypeOK'
<1> USE LifecycleAssumption DEF TypeOK, requestVars, workerVars, auditVars,
        timeVars
<1>1. CASE OfWorker
  <2>1. pc' \in {"idle", "check", "start", "work", "shipped", "finish", "failing",
                 "erred", "cancelling", "raised", "gone"}
    BY <1>1, WorkerMoves DEF OfWorker, Silent, Emits
  <2>2. /\ events' \in Seq(EventKinds) /\ Len(events) <= Len(events')
        /\ Len(events') \in Nat
    BY StreamGrows
  <2>3. /\ UNCHANGED <<api, row, audit, cursor, top, rows, ttl, age, asked, lapsed>>
        /\ stage' \in 1..Stages /\ queued' \in BOOLEAN /\ faults' \subseteq FaultKinds
    BY <1>1, WorkerMoves DEF OfWorker
  <2>4. cursor' \in 0..top' /\ top' \in 0..Len(events')
    BY <2>2, <2>3
  <2>5. QED
    BY <2>1, <2>2, <2>3, <2>4
<1>2. CASE Request
  BY <1>2 DEF Request, InsertRun, EnqueueJob, SpawnAudit
<1>3. CASE CancelRun \/ Tick
  <2>1. ttl' \in 0..Ttl /\ age' \in 0..MaxAge
    BY <1>3 DEF CancelRun, Tick
  <2>2. asked' \in {"no", "early", "late"} /\ lapsed' \in BOOLEAN
    BY <1>3 DEF CancelRun, Tick
  <2>3. QED
    BY <1>3, <2>1, <2>2 DEF CancelRun, Tick
<1>4. CASE AuditRead \/ GraceHits \/ InsertAuditRow
  <2>1. cursor' \in 0..top' /\ top' \in 0..Len(events) /\ rows' \subseteq 1..cursor'
    <3>1. CASE AuditRead
      <4>1. Len(events) \in Nat /\ top' = Len(events) /\ UNCHANGED <<cursor, rows>>
        BY <3>1 DEF AuditRead
      <4>2. QED
        BY <4>1
    <3>2. CASE GraceHits
      BY <3>2 DEF GraceHits
    <3>3. CASE InsertAuditRow
      BY <3>3 DEF InsertAuditRow, TakeEntry
    <3>4. QED
      BY <1>4, <3>1, <3>2, <3>3
  <2>2. audit' \in {"reading", "inserted", "exited"} /\ UNCHANGED <<row, faults>>
    BY <1>4 DEF AuditRead, GraceHits, InsertAuditRow
  <2>3. ByAudit
    BY <1>4 DEF AuditRead, GraceHits, InsertAuditRow
  <2>4. QED
    BY <2>1, <2>2, <2>3 DEF ByAudit
<1>5. CASE ApplyLifecycle
  <2>1. row' \in {"absent", "queued", "running"} \cup Terminal
    BY <1>5, CursorOnStream, StatusAfterType DEF ApplyLifecycle
  <2>2. audit' \in {"reading", "exited"}
    BY <1>5 DEF ApplyLifecycle, AfterEntry
  <2>3. QED
    BY <1>5, <2>1, <2>2 DEF ApplyLifecycle, ByAudit
<1>6. CASE EnqueueFails \/ JobNeverDelivered \/ GatewayCrash
  BY <1>6 DEF EnqueueFails, JobNeverDelivered, GatewayCrash, Strike, FaultKinds
<1>7. CASE InsertFails
  BY <1>7 DEF InsertFails, TakeEntry, Strike, FaultKinds, ByAudit
<1>8. CASE LifecycleFails
  BY <1>8 DEF LifecycleFails, AfterEntry, Strike, FaultKinds, ByAudit
<1>9. CASE UNCHANGED vars
  BY <1>9 DEF vars
<1>10. QED
  BY <1>1, <1>2, <1>3, <1>4, <1>5, <1>6, <1>7, <1>8, <1>9
  DEF Next, OfWorker, Audit, Fault

LEMMA OneSettlesStep ==
  ASSUME TypeOK, Logged, OneSettles, [Next]_vars
  PROVE  OneSettles'
<1> USE DEF OneSettles, requestVars, auditVars
<1>1. CASE OfWorker
  BY <1>1, WorkerMoves DEF OfWorker
<1>2. CASE Request
  BY <1>2 DEF Request, InsertRun, EnqueueJob, SpawnAudit
<1>3. CASE CancelRun \/ Tick
  BY <1>3 DEF CancelRun, Tick
<1>4. CASE AuditRead \/ GraceHits \/ InsertAuditRow
  BY <1>4 DEF AuditRead, GraceHits, InsertAuditRow, TakeEntry, ByAudit
<1>5. CASE ApplyLifecycle
  <2>1. events[cursor] \in EventKinds
    BY <1>5, CursorOnStream DEF ApplyLifecycle
  <2>2. CASE events[cursor] = "start"
    BY <1>5, <2>2 DEF ApplyLifecycle, ByAudit, StatusAfter, AfterEntry, Ends
  <2>3. CASE events[cursor] # "start"
    <3>1. audit' = "exited" /\ UNCHANGED api
      BY <1>5, <2>3 DEF ApplyLifecycle, ByAudit, AfterEntry, Ends
    <3>2. api \notin {"none", "inserted", "enqueued"}
      BY <1>5 DEF ApplyLifecycle
    <3>3. QED
      BY <3>1, <3>2
  <2>4. QED
    BY <2>2, <2>3
<1>6. CASE EnqueueFails \/ JobNeverDelivered \/ GatewayCrash
  BY <1>6 DEF EnqueueFails, JobNeverDelivered, GatewayCrash
<1>7. CASE InsertFails
  BY <1>7 DEF InsertFails, TakeEntry, ByAudit
<1>8. CASE LifecycleFails
  BY <1>8 DEF LifecycleFails, AfterEntry, ByAudit
<1>9. CASE UNCHANGED vars
  BY <1>9 DEF vars
<1>10. QED
  BY <1>1, <1>2, <1>3, <1>4, <1>5, <1>6, <1>7, <1>8, <1>9
  DEF Next, OfWorker, Audit, Fault

LEMMA LoggedStep ==
  ASSUME TypeOK, Logged, [Next]_vars
  PROVE  Logged'
<1> USE DEF Logged, auditVars
<1>1. CASE OfWorker
  BY <1>1, WorkerMoves DEF OfWorker
<1>2. CASE Request
  BY <1>2 DEF Request, InsertRun, EnqueueJob, SpawnAudit
<1>3. CASE CancelRun \/ Tick
  BY <1>3 DEF CancelRun, Tick
<1>4. CASE AuditRead \/ GraceHits
  BY <1>4 DEF AuditRead, GraceHits
<1>5. CASE InsertAuditRow
  <2>1. cursor \in Nat
    BY DEF TypeOK
  <2>2. QED
    BY <1>5, <2>1 DEF InsertAuditRow, TakeEntry
<1>6. CASE ApplyLifecycle
  BY <1>6 DEF ApplyLifecycle, AfterEntry
<1>7. CASE EnqueueFails \/ JobNeverDelivered \/ GatewayCrash
  BY <1>7 DEF EnqueueFails, JobNeverDelivered, GatewayCrash, Strike
<1>8. CASE InsertFails
  BY <1>8 DEF InsertFails, TakeEntry, Strike
<1>9. CASE LifecycleFails
  BY <1>9 DEF LifecycleFails, AfterEntry, Strike
<1>10. CASE UNCHANGED vars
  BY <1>10 DEF vars
<1>11. QED
  BY <1>1, <1>2, <1>3, <1>4, <1>5, <1>6, <1>7, <1>8, <1>9, <1>10
  DEF Next, OfWorker, Request, Audit, Fault

\* The audit task only adds rows.
LEMMA RowsGrow ==
  ASSUME TypeOK, [Next]_vars
  PROVE  rows \subseteq rows'
<1>1. CASE OfWorker
  BY <1>1, WorkerMoves DEF OfWorker, auditVars
<1>2. CASE ~ OfWorker
  BY <1>2 DEF Next, Request, Audit, Fault, OfWorker, InsertRun, EnqueueJob,
              SpawnAudit, CancelRun, Tick, AuditRead, GraceHits, InsertAuditRow,
              ApplyLifecycle, EnqueueFails, JobNeverDelivered,
                GatewayCrash, InsertFails,
              LifecycleFails, vars, auditVars
<1>3. QED
  BY <1>1, <1>2

\* Only two steps write runs.status.
LEMMA RowMoves ==
  ASSUME TypeOK, [Next]_vars, row' # row
  PROVE  InsertRun \/ ApplyLifecycle
<1>1. CASE OfWorker
  BY <1>1, WorkerMoves DEF OfWorker
<1>2. CASE ~ OfWorker
  BY <1>2 DEF Next, Request, Audit, Fault, OfWorker, EnqueueJob,
              SpawnAudit, CancelRun, Tick, AuditRead, GraceHits, InsertAuditRow,
              EnqueueFails, JobNeverDelivered, GatewayCrash, InsertFails, LifecycleFails, vars
<1>3. QED
  BY <1>1, <1>2

\* What explains a status: an entry of events_audit, and those before it.
Explains(i) == /\ Ends(events[i]) /\ StatusOf(events[i]) = row
               /\ "insert" \in faults \/ 1..i \subseteq rows

\* An outcome is set from the entry under the cursor.
LEMMA SettledBy ==
  ASSUME TypeOK, Logged, OneSettles, ApplyLifecycle, row' \in Terminal
  PROVE  Ends(events[cursor]) /\ StatusOf(events[cursor]) = row'
<1>1. row \in {"queued", "running"} /\ row' = StatusAfter(events[cursor])
  BY DEF OneSettles, ApplyLifecycle
<1>2. row \notin Terminal
  BY <1>1 DEF Terminal
<1>3. events[cursor] # "start"
  BY <1>1, <1>2 DEF StatusAfter, Terminal
<1>4. CASE events[cursor] = "error"
  <2>1. row' = "failed"
    BY <1>1, <1>4 DEF StatusAfter
  <2>2. StatusOf("error") = "failed"
    BY DEF StatusOf
  <2>3. QED
    BY <1>4, <2>1, <2>2 DEF Ends
<1>5. CASE events[cursor] # "error"
  BY <1>1, <1>3, <1>5 DEF StatusAfter, Ends
<1>6. QED
  BY <1>4, <1>5

LEMMA AuditedStep ==
  ASSUME TypeOK, Logged, OneSettles, OutcomeAudited, [Next]_vars
  PROVE  OutcomeAudited'
<1> SUFFICES ASSUME row' \in Terminal
             PROVE  \E i \in rows' : Explains(i)'
  BY DEF OutcomeAudited, Explains
<1>1. rows \subseteq 1..Len(events)
  BY DEF TypeOK
<1>2. CASE ApplyLifecycle
  <2>1. Ends(events[cursor]) /\ StatusOf(events[cursor]) = row'
    BY <1>2, SettledBy
  <2>2. cursor \in rows' /\ UNCHANGED <<events, rows, faults>>
    BY <1>2 DEF ApplyLifecycle, Logged, ByAudit, workerVars
  <2>3. "insert" \in faults \/ 1..cursor \subseteq rows
    BY DEF Logged
  <2>4. /\ Ends(events'[cursor]) /\ StatusOf(events'[cursor]) = row'
        /\ "insert" \in faults' \/ 1..cursor \subseteq rows'
    BY <2>1, <2>2, <2>3
  <2>5. QED
    BY <2>2, <2>4 DEF Explains
<1>3. CASE ~ ApplyLifecycle
  <2>1. row' = row
    BY <1>3, RowMoves DEF InsertRun, Terminal
  <2>2. PICK i \in rows : Explains(i)
    BY <2>1 DEF OutcomeAudited, Explains
  <2>3. events'[i] = events[i] /\ i \in rows'
    BY <1>1, <2>2, StreamGrows, RowsGrow
  <2>4. "insert" \in faults' \/ 1..i \subseteq rows'
    BY <2>2, StreamGrows, RowsGrow DEF Explains
  <2>5. QED
    BY <2>1, <2>2, <2>3, <2>4 DEF Explains
<1>4. QED
  BY <1>2, <1>3

LEMMA InsertedOnce ==
  ASSUME NEW e \in EventKinds, NEW place, events \in Seq(EventKinds), Emit(e, place)
  PROVE  "success" \in ToSet(events') <=> e = "success" \/ "success" \in ToSet(events)
BY EmitFacts

\* A cancel that is effective after a step was effective before it, or was
\* accepted by the step.
LEMMA StillEffective ==
  ASSUME TypeOK, [Next]_vars, Effective', ~ CancelRun
  PROVE  Effective
<1>1. faults \subseteq faults'
  BY StreamGrows
<1>2. asked' = asked /\ (lapsed => lapsed')
  <2>1. CASE OfWorker
    BY <2>1, WorkerMoves DEF OfWorker, timeVars
  <2>2. CASE Tick
    BY <2>2 DEF Tick
  <2>3. CASE ~ OfWorker /\ ~ Tick
    BY <2>3 DEF Next, Request, Audit, Fault, OfWorker, InsertRun, EnqueueJob,
                SpawnAudit, AuditRead, GraceHits, InsertAuditRow,
                ApplyLifecycle, EnqueueFails, JobNeverDelivered,
                GatewayCrash, InsertFails,
                LifecycleFails, ByAudit, vars, timeVars
  <2>4. QED
    BY <2>1, <2>2, <2>3
<1>3. QED
  BY <1>1, <1>2 DEF Effective

LEMMA ObeyedStep ==
  ASSUME TypeOK, Obeyed, [Next]_vars
  PROVE  Obeyed'
<1> DEFINE Doomed == /\ ttl > 0
                     /\ "success" \notin ToSet(events)
                     /\ pc # "finish"
                     /\ pc \in {"start", "work", "shipped"} => stage < Stages
           Announced1 == "success" \in ToSet(events) => pc \in {"raised", "gone"}
<1> SUFFICES Announced1' /\ (Effective' => Doomed')
  BY DEF Obeyed
<1>0. Announced1 /\ (Effective => Doomed)
  BY DEF Obeyed
<1>1. CASE OfWorker
  <2>1. UNCHANGED ttl /\ (Effective' => Effective)
    BY <1>1, WorkerMoves, StillEffective DEF OfWorker, timeVars, CancelRun, Effective
  <2>2. CASE StageStart \/ RevisionFails \/ AgentUnparseable
    <3>1. PICK e \in {"start", "error"}, place \in {"work", "shipped", "failing"} :
             /\ Emit(e, place) /\ pc \in {"start", "work"}
             /\ place \in {"work", "shipped"} => pc \in {"start", "work"}
      BY <2>2 DEF StageStart, RevisionFails, AgentUnparseable
    <3>2. "success" \in ToSet(events') <=> "success" \in ToSet(events)
      BY <3>1, InsertedOnce DEF EventKinds, TypeOK
    <3>3. pc' = place /\ stage' = stage
      BY <3>1 DEF Emit
    <3>4. QED
      BY <1>0, <2>1, <3>1, <3>2, <3>3
  <2>3. CASE TakeJob \/ CheckCancelled \/ AgentFails \/ Raises
    BY <1>0, <2>1, <2>3 DEF TakeJob, CheckCancelled, AgentFails, Raises, Goto
  <2>4. CASE StageDone
    BY <1>0, <2>1, <2>4 DEF StageDone
  <2>5. CASE AnnounceOutcome \/ ReplyLost
    <3>1. PICK e \in EventKinds, place \in {"gone", "erred", "raised"} :
             /\ Emit(e, place) /\ (e = "success" => pc = "finish")
             /\ (e = "success" => place # "erred") /\ pc # "gone"
             /\ (pc = "raised" => place # "erred")
      BY <2>5 DEF AnnounceOutcome, ReplyLost, Announcing
    <3>2. "success" \in ToSet(events') <=> e = "success" \/ "success" \in ToSet(events)
      BY <3>1, InsertedOnce DEF TypeOK
    <3>3. pc' = place
      BY <3>1 DEF Emit
    <3>4. QED
      BY <1>0, <2>1, <3>1, <3>2, <3>3
  <2>6. CASE CheckFails
    BY <1>0, <2>6 DEF CheckFails, Goto, Strike, Effective
  <2>7. CASE JobRejected \/ LastEmitFails \/ WorkerCrash
    BY <1>0, <2>1, <2>7 DEF JobRejected, LastEmitFails, WorkerCrash, Goto
  <2>8. QED
    BY <1>1, <2>2, <2>3, <2>4, <2>5, <2>6, <2>7 DEF OfWorker, Worker
<1>2. CASE CancelRun
  <2>1. ttl' > 0
    BY <1>2, LifecycleAssumption DEF CancelRun, TypeOK
  <2>2. UNCHANGED <<pc, stage, events, lapsed, faults>>
    BY <1>2 DEF CancelRun, workerVars
  <2>3. asked' = "early" /\ asked # "early" => ChecksAhead
    BY <1>2 DEF CancelRun
  <2>4. CASE asked = "early"
    BY <1>0, <2>1, <2>2, <2>4 DEF Effective
  <2>5. CASE asked # "early"
    BY <1>0, <2>1, <2>2, <2>3, <2>5 DEF Effective, ChecksAhead
  <2>6. QED
    BY <2>4, <2>5
<1>3. CASE Tick
  <2>1. UNCHANGED <<pc, stage, events>> /\ (lapsed' \/ ttl # 1)
    BY <1>3 DEF Tick, workerVars
  <2>2. Effective' => ttl' > 0
    BY <1>0, <1>3, <2>1, StillEffective DEF Tick, CancelRun, TypeOK, Effective
  <2>3. Effective' => Effective
    BY <1>3 DEF Tick, Effective
  <2>4. QED
    BY <1>0, <2>1, <2>2, <2>3
<1>4. CASE ~ (OfWorker \/ CancelRun \/ Tick)
  <2>1. UNCHANGED <<pc, stage, events, ttl>>
    BY <1>4 DEF Next, Request, Audit, Fault, OfWorker, InsertRun, EnqueueJob,
                SpawnAudit, AuditRead, GraceHits, InsertAuditRow,
                ApplyLifecycle, EnqueueFails, JobNeverDelivered,
                GatewayCrash, InsertFails,
                LifecycleFails, TakeEntry, ByAudit, vars, workerVars, timeVars
  <2>2. Effective' => Effective
    BY <1>4, StillEffective
  <2>3. QED
    BY <1>0, <2>1, <2>2
<1>5. QED
  BY <1>1, <1>2, <1>3, <1>4

-----------------------------------------------------------------------------
(* The theorems.                                                           *)

LEMMA InvInit == Init => IInv
<1> SUFFICES ASSUME Init PROVE IInv
  OBVIOUS
<1>1. TypeOK
  <2>1. events \in Seq(EventKinds) /\ Len(events) = 0
    BY DEF Init
  <2>2. stage \in 1..Stages /\ ttl \in 0..Ttl /\ age \in 0..MaxAge
    BY LifecycleAssumption DEF Init
  <2>3. cursor \in 0..top /\ top \in 0..Len(events) /\ rows \subseteq 1..cursor
    BY <2>1 DEF Init
  <2>4. QED
    BY <2>1, <2>2, <2>3 DEF Init, TypeOK
<1>2. OneSettles /\ Logged /\ OutcomeAudited
  BY DEF Init, OneSettles, Logged, OutcomeAudited, Terminal
<1>3. ToSet(events) = {}
  BY DEF Init, ToSet
<1>4. Obeyed
  BY <1>3 DEF Init, Obeyed, Effective
<1>5. QED
  BY <1>1, <1>2, <1>4 DEF IInv

LEMMA InvStep == IInv /\ [Next]_vars => IInv'
<1> SUFFICES ASSUME IInv, [Next]_vars PROVE IInv'
  OBVIOUS
<1>1. TypeOK'
  BY TypeStep DEF IInv
<1>2. OneSettles'
  BY OneSettlesStep DEF IInv
<1>3. Logged'
  BY LoggedStep DEF IInv
<1>4. OutcomeAudited'
  BY AuditedStep DEF IInv
<1>5. Obeyed'
  BY ObeyedStep DEF IInv
<1>6. QED
  BY <1>1, <1>2, <1>3, <1>4, <1>5 DEF IInv

\* The inductive invariant holds in every state of every behaviour.
THEOREM InvHolds == Spec => []IInv
BY InvInit, InvStep, PTL DEF Spec

\* Types: the audit task never passes what it has read, what it has read is on
\* the stream, and the UPDATE it applies is always one of the three.
THEOREM TypeCorrect == Spec => []TypeOK
<1>1. IInv => TypeOK
  BY DEF IInv
<1>2. QED
  BY <1>1, InvHolds, PTL

\* A final runs.status is explained by a row of events_audit, and so is all
\* that came before it unless an INSERT failed, whatever else fails.
THEOREM OutcomeIsAudited == Spec => []OutcomeAudited
<1>1. IInv => OutcomeAudited
  BY DEF IInv
<1>2. QED
  BY <1>1, InvHolds, PTL

\* A cancel accepted while a check of the pipeline was still ahead keeps the
\* run from announcing success, unless its key expired or a GET failed.
THEOREM EarlyCancelIsObeyed == Spec => []EarlyCancelStops
<1>1. IInv => EarlyCancelStops
  BY DEF IInv, Obeyed, Effective, EarlyCancelStops
<1>2. QED
  BY <1>1, InvHolds, PTL

-----------------------------------------------------------------------------
(* The refinement of RunStatus.                                            *)

LEMMA InitRefines == Init => Status!Init
<1> SUFFICES ASSUME Init PROVE Status!Init
  OBVIOUS
<1>1. ToSet(events) = {}
  BY DEF Init, ToSet
<1>2. QED
  BY <1>1 DEF Init, Status!Init, Announced

LEMMA OutcomeOf ==
  ASSUME NEW e \in EventKinds, Ends(e)
  PROVE  StatusOf(e) \in Status!Outcomes
BY DEF EventKinds, Ends, StatusOf, Status!Outcomes

\* An entry of the worker is one more outcome announced, or none.
LEMMA EmitAnnounces ==
  ASSUME events \in Seq(EventKinds), NEW e \in EventKinds, NEW place,
         Emit(e, place)
  PROVE  Announced' = IF Ends(e) THEN Announced \cup {StatusOf(e)} ELSE Announced
<1>1. ToSet(events') = ToSet(events) \cup {e}
  BY EmitFacts
<1>2. {k \in ToSet(events') : Ends(k)} =
        {k \in ToSet(events) : Ends(k)} \cup {k \in {e} : Ends(k)}
  BY <1>1
<1>3. Announced' = {StatusOf(k) : k \in {j \in ToSet(events') : Ends(j)}}
  BY DEF Announced
<1>4. CASE Ends(e)
  <2>1. {k \in {e} : Ends(k)} = {e}
    BY <1>4
  <2>2. QED
    BY <1>2, <1>3, <1>4, <2>1 DEF Announced
<1>5. CASE ~ Ends(e)
  <2>1. {k \in {e} : Ends(k)} = {}
    BY <1>5
  <2>2. QED
    BY <1>2, <1>3, <1>5, <2>1 DEF Announced
<1>6. QED
  BY <1>4, <1>5

\* The audit task settles a run on an outcome its stream announces.
LEMMA ApplyRefines ==
  ASSUME TypeOK, Logged, OneSettles, ApplyLifecycle
  PROVE  Status!Start \/ Status!Settle \/ UNCHANGED <<row, Announced>>
<1>1. /\ events[cursor] \in EventKinds /\ cursor \in 1..Len(events)
      /\ row \in {"queued", "running"} /\ row' = StatusAfter(events[cursor])
  BY CursorOnStream DEF ApplyLifecycle, OneSettles
<1>2. UNCHANGED events
  BY DEF ApplyLifecycle, ByAudit, workerVars
<1>3. UNCHANGED Announced
  BY <1>2 DEF Announced
<1>4. CASE events[cursor] = "start"
  BY <1>1, <1>3, <1>4 DEF StatusAfter, Status!Start
<1>5. CASE events[cursor] # "start"
  <2>1. Ends(events[cursor])
    BY <1>5 DEF Ends
  <2>2. StatusOf(events[cursor]) = row'
    <3>1. CASE events[cursor] = "error"
      BY <1>1, <3>1 DEF StatusAfter, StatusOf
    <3>2. CASE events[cursor] # "error"
      BY <1>1, <1>5, <3>2 DEF StatusAfter
    <3>3. QED
      BY <3>1, <3>2
  <2>3. events[cursor] \in ToSet(events)
    BY <1>1 DEF ToSet, TypeOK
  <2>4. row' \in Announced
    BY <2>1, <2>2, <2>3 DEF Announced
  <2>5. QED
    BY <1>1, <1>3, <2>4 DEF Status!Settle
<1>6. QED
  BY <1>4, <1>5

LEMMA StepRefines ==
  IInv /\ [Next]_vars => [Status!Next]_<<row, Announced>>
<1> SUFFICES ASSUME IInv, [Next]_vars
             PROVE  Status!Next \/ UNCHANGED <<row, Announced>>
  OBVIOUS
<1> USE DEF IInv
<1>1. CASE OfWorker
  <2>1. UNCHANGED row
    BY <1>1, WorkerMoves DEF OfWorker
  <2>2. CASE Silent
    BY <2>1, <2>2 DEF Silent, Announced
  <2>3. CASE Emits
    <3>1. PICK e \in EventKinds : Emit(e, pc')
      BY <2>3 DEF Emits
    <3>2. Announced' = IF Ends(e) THEN Announced \cup {StatusOf(e)} ELSE Announced
      BY <3>1, EmitAnnounces DEF TypeOK
    <3>3. CASE Ends(e)
      BY <2>1, <3>2, <3>3, OutcomeOf DEF Status!Announce, Status!Next
    <3>4. CASE ~ Ends(e)
      BY <2>1, <3>2, <3>4
    <3>5. QED
      BY <3>3, <3>4
  <2>4. QED
    BY <1>1, <2>2, <2>3, WorkerMoves DEF OfWorker
<1>2. CASE InsertRun
  <2>1. row = "absent" /\ row' = "queued" /\ UNCHANGED events
    BY <1>2 DEF InsertRun, OneSettles, workerVars
  <2>2. QED
    BY <2>1 DEF Status!Create, Status!Next, Announced
<1>3. CASE ApplyLifecycle
  BY <1>3, ApplyRefines DEF Status!Next
<1>4. CASE ~ (OfWorker \/ InsertRun \/ ApplyLifecycle)
  <2>1. UNCHANGED <<row, events>>
    BY <1>4 DEF Next, Request, Audit, Fault, OfWorker, EnqueueJob,
                SpawnAudit, CancelRun, Tick, AuditRead, GraceHits,
                InsertAuditRow, EnqueueFails, JobNeverDelivered,
                GatewayCrash, InsertFails,
                LifecycleFails, TakeEntry, ByAudit, vars, workerVars
  <2>2. QED
    BY <2>1 DEF Announced
<1>5. QED
  BY <1>1, <1>2, <1>3, <1>4

\* runs.status moves only as RunStatus says: whatever a worker emits after an
\* outcome, the outcome stays, and it is one that the pipeline announced.
THEOREM StatusIsRefined == Spec => RefinesRunStatus
BY InitRefines, StepRefines, InvHolds, PTL DEF Spec, RefinesRunStatus, Status!Spec
=============================================================================
