----------------------------- MODULE CoderLoop -----------------------------
(***************************************************************************)
(* The coder stage of one run: the agent's turns, the Jupyter kernel they  *)
(* run in, MATLAB beside it, and what they leave in the run's directory,   *)
(* over a first attempt and the reruns the critic asks for.                *)
(*                                                                         *)
(* The kernel is a process of its own.  It executes what it is sent in the *)
(* order it was sent, reports on a channel, and goes on with a cell that   *)
(* the worker has given up waiting for: interrupt_kernel may be heard or   *)
(* not, so it adds nothing to a cell that may end at any time.  Code and   *)
(* text are dropped.  A figure file keeps the cell that wrote it last; the *)
(* files are Names, whose stem is a valid figure id, and the numbers n of  *)
(* the figures/fig-<n>.png the session saves itself, whose stem is not.    *)
(***************************************************************************)
EXTENDS Naturals, Sequences, FiniteSets

CONSTANTS Names,       \* figure ids that code may save under
          MaxAttempts, \* calls of coder.run: one and the critic's reruns
          MaxTurns,    \* per attempt: max_iterations
          SkillBudget, \* SKILL_LOOKUP_BUDGET
          MaxInline,   \* bound on the figures displayed inline
          MaxFaults    \* bound on deaths, failing starts, shutdowns, emits

ASSUME CoderAssumption ==
  /\ Names \cap Nat = {}
  /\ MaxAttempts \in Nat \ {0}
  /\ MaxTurns \in [1..MaxAttempts -> Nat \ {0}]
  /\ SkillBudget \in Nat /\ MaxInline \in Nat /\ MaxFaults \in Nat

VARIABLES pc, outcome, \* where coder.run stands, and how it ends
          attempt, turn, lookups,
          directive,   \* the LLM's latest directive
          cell,        \* the record of the cell being executed
          figures,     \* ids registered in this attempt (seen_ids)
          paths,       \* figure_paths of this attempt's cells
          before,      \* MATLAB's snapshot of the figures directory
          started, km, \* _started, and the process _km stands for
          figIndex,    \* _figure_index
          procs,       \* the kernel processes alive, by the attempt that
                       \* started them
          queue,       \* per process: the requests it has not finished
          iopub,       \* the session's channel
          disk,        \* per figure file: the cell that wrote it last
          notebook,    \* the attempt whose cells notebook.ipynb holds
          output,      \* the CoderOutput the pipeline has
          late,        \* history: cells recorded before they were done
          leaked,      \* history: processes whose start or shutdown failed
          faults

turnVars    == <<attempt, turn, lookups, directive>>
resultVars  == <<figures, paths, before>>
sessionVars == <<started, km>>
kernelVars  == <<procs, queue>>
fileVars    == <<figIndex, disk>>
histVars    == <<late, leaked, faults>>
vars == <<pc, outcome, turnVars, cell, resultVars, sessionVars, kernelVars,
          iopub, fileVars, notebook, output, histVars>>

Attempts == 1..MaxAttempts
Figures  == Names \cup 0..(MaxInline - 1)
Current  == <<attempt, turn>>
NoCell   == <<0, 0>>
NoOutput == [attempt |-> 0, made |-> [f \in Figures |-> NoCell]]
OnDisk   == {f \in Figures : disk[f] # NoCell}

NoResult == [error |-> FALSE, figs |-> {}, from |-> {}]
Directive == [done : BOOLEAN, matlab : BOOLEAN, declares : SUBSET Names]
NoDirective == [done |-> FALSE, matlab |-> FALSE, declares |-> {}]

Fault == faults < MaxFaults /\ faults' = faults + 1

-----------------------------------------------------------------------------
Init ==
  /\ pc = "begin" /\ outcome = "none"
  /\ attempt = 1 /\ turn = 0 /\ lookups = 0 /\ directive = NoDirective
  /\ cell = NoResult /\ figures = {} /\ paths = {} /\ before = {}
  /\ started = FALSE /\ km = 0 /\ figIndex = 0
  /\ procs = {} /\ queue = [p \in Attempts |-> <<>>] /\ iopub = <<>>
  /\ disk = [f \in Figures |-> NoCell] /\ notebook = 0 /\ output = NoOutput
  /\ late = {} /\ leaked = {} /\ faults = 0

(* The kernel session.                                                     *)

\* kernel.start(): a new process, unless the session has one.
StartKernel ==
  /\ pc = "begin"
  /\ IF started THEN UNCHANGED <<sessionVars, procs, iopub>>
     ELSE /\ procs' = procs \cup {attempt} /\ km' = attempt /\ started' = TRUE
          /\ iopub' = <<>>
  /\ pc' = "ask"
  /\ UNCHANGED <<outcome, turnVars, cell, resultVars, queue, fileVars, notebook,
                 output, histVars>>

\* It raises before or after the process is there, and before coder.run's try.
StartFails ==
  /\ pc = "begin" /\ ~ started /\ Fault
  /\ pc' = "failed" /\ outcome' = "raised"
  /\ \E spawned \in SUBSET {attempt} :
       procs' = procs \cup spawned /\ leaked' = leaked \cup spawned
  /\ UNCHANGED <<turnVars, cell, resultVars, sessionVars, queue, iopub, fileVars,
                 notebook, output, late>>

\* kernel.execute(): the request goes to the process, if there still is one.
Execute ==
  /\ pc = "dispatch" /\ ~ directive.matlab
  /\ queue' = IF km \in procs
              THEN [queue EXCEPT ![km] = Append(@, [of |-> Current, drew |-> FALSE])]
              ELSE queue
  /\ cell' = NoResult /\ pc' = "running"
  /\ UNCHANGED <<outcome, turnVars, resultVars, sessionVars, procs, iopub,
                 fileVars, notebook, output, histVars>>

\* Messages taken for the current cell's, whatever they answer.
AnyIsOurs(m) == TRUE

\* A message of another request is skipped.
IsOurs(m) == m.of = Current

\* _execute_inner: one message.  An inline figure is saved under the next
\* number and announced; an idle ends the cell.
ReadMessage ==
  /\ pc = "running" /\ iopub # <<>>
  /\ iopub' = Tail(iopub)
  /\ LET m == Head(iopub) IN
       IF ~ IsOurs(m) THEN UNCHANGED <<pc, cell, fileVars>>
       ELSE
         /\ cell' = [error |-> cell.error \/ m.kind = "error",
                     figs  |-> cell.figs \cup (IF m.kind = "figure" THEN {figIndex} ELSE {}),
                     from  |-> cell.from \cup {m.of}]
         /\ IF m.kind = "figure"
            THEN /\ disk' = [disk EXCEPT ![figIndex] = m.of]
                 /\ figIndex' = figIndex + 1
            ELSE UNCHANGED fileVars
         /\ pc' = IF m.kind = "idle" THEN "record" ELSE pc
  /\ UNCHANGED <<outcome, turnVars, resultVars, sessionVars, kernelVars, notebook,
                 output, histVars>>

\* The cell's 60 s are over: its output so far is dropped.
TimesOut ==
  /\ pc = "running"
  /\ cell' = [NoResult EXCEPT !.error = TRUE]
  /\ late' = late \cup {Current} /\ pc' = "record"
  /\ UNCHANGED <<outcome, turnVars, resultVars, sessionVars, kernelVars, iopub,
                 fileVars, notebook, output, leaked, faults>>

\* Reading the channel raises, after its own 60 s if nothing else: the cell is
\* recorded as it stands.
ReadFails ==
  /\ pc = "running"
  /\ late' = late \cup {Current} /\ pc' = "record"
  /\ UNCHANGED <<outcome, turnVars, cell, resultVars, sessionVars, kernelVars,
                 iopub, fileVars, notebook, output, leaked, faults>>

-----------------------------------------------------------------------------
(* The kernel process p.                                                   *)

\* The code that runs saves a figure by name.
KernelSaves(p) ==
  /\ p \in procs /\ queue[p] # <<>>
  /\ \E f \in Names : disk' = [disk EXCEPT ![f] = Head(queue[p]).of]
  /\ UNCHANGED <<pc, outcome, turnVars, cell, resultVars, sessionVars, kernelVars,
                 iopub, figIndex, notebook, output, histVars>>

\* What p sends reaches the worker while its session is connected to p.
Publish(p, messages) == iopub' = IF p = km THEN iopub \o messages ELSE iopub

Pending == Cardinality({n \in DOMAIN iopub : iopub[n].kind = "figure"})

\* It displays a figure: one per cell.
KernelDraws(p) ==
  /\ p \in procs /\ queue[p] # <<>> /\ ~ Head(queue[p]).drew
  /\ figIndex + Pending < MaxInline
  /\ queue' = [queue EXCEPT ![p] = <<[Head(@) EXCEPT !.drew = TRUE]>> \o Tail(@)]
  /\ Publish(p, <<[of |-> Head(queue[p]).of, kind |-> "figure"]>>)
  /\ UNCHANGED <<pc, outcome, turnVars, cell, resultVars, sessionVars, procs,
                 fileVars, notebook, output, histVars>>

\* It ends, with an error or without, and p takes the next request.
KernelEnds(p) ==
  /\ p \in procs /\ queue[p] # <<>>
  /\ queue' = [queue EXCEPT ![p] = Tail(@)]
  /\ \E kinds \in {<<"idle">>, <<"error", "idle">>} :
       Publish(p, [n \in DOMAIN kinds |->
                     [of |-> Head(queue[p]).of, kind |-> kinds[n]]])
  /\ UNCHANGED <<pc, outcome, turnVars, cell, resultVars, sessionVars, procs,
                 fileVars, notebook, output, histVars>>

KernelDies(p) ==
  /\ p \in procs /\ Fault
  /\ procs' = procs \ {p} /\ queue' = [queue EXCEPT ![p] = <<>>]
  /\ UNCHANGED <<pc, outcome, turnVars, cell, resultVars, sessionVars, iopub,
                 fileVars, notebook, output, late, leaked>>

-----------------------------------------------------------------------------
(* MATLAB or Octave: a process per cell, killed when it takes too long.    *)

MatlabStarts ==
  /\ pc = "dispatch" /\ directive.matlab
  /\ before' = OnDisk /\ cell' = NoResult /\ pc' = "matlab"
  /\ UNCHANGED <<outcome, turnVars, figures, paths, sessionVars, kernelVars, iopub,
                 fileVars, notebook, output, histVars>>

MatlabSaves ==
  /\ pc = "matlab"
  /\ \E f \in Names : disk' = [disk EXCEPT ![f] = Current]
  /\ UNCHANGED <<pc, outcome, turnVars, cell, resultVars, sessionVars, kernelVars,
                 iopub, figIndex, notebook, output, histVars>>

\* Its figures are the files that were not there before, whoever wrote them.
MatlabEnds ==
  /\ pc = "matlab"
  /\ \E failed \in BOOLEAN :
       cell' = [error |-> failed, figs |-> OnDisk \ before,
                from |-> {disk[f] : f \in OnDisk \ before}]
  /\ pc' = "record"
  /\ UNCHANGED <<outcome, turnVars, resultVars, sessionVars, kernelVars, iopub,
                 fileVars, notebook, output, histVars>>

-----------------------------------------------------------------------------
(* coder.run.                                                              *)

\* _ask_llm returns a directive to execute: one without a skill request, or
\* one with a request beyond the budget.
GetDirective ==
  /\ pc = "ask"
  /\ directive' \in Directive /\ lookups' = 0 /\ pc' = "dispatch"
  /\ UNCHANGED <<outcome, attempt, turn, cell, resultVars, sessionVars, kernelVars,
                 iopub, fileVars, notebook, output, histVars>>

\* Lookups that are not counted.
LookUpForEver ==
  /\ pc = "ask"
  /\ lookups' = 1 - lookups
  /\ UNCHANGED <<pc, outcome, attempt, turn, directive, cell, resultVars,
                 sessionVars, kernelVars, iopub, fileVars, notebook, output,
                 histVars>>

\* It asks for a skill's body and is asked again.
LookUpSkill ==
  /\ pc = "ask" /\ lookups < SkillBudget
  /\ lookups' = lookups + 1
  /\ UNCHANGED <<pc, outcome, attempt, turn, directive, cell, resultVars,
                 sessionVars, kernelVars, iopub, fileVars, notebook, output,
                 histVars>>

\* The call fails, or its second answer cannot be parsed either.
AskFails ==
  /\ pc = "ask" /\ outcome' = "agent_error" /\ pc' = "shutdown"
  /\ UNCHANGED <<turnVars, cell, resultVars, sessionVars, kernelVars, iopub,
                 fileVars, notebook, output, histVars>>

\* The cell is recorded, the declared figures that are on disk are registered,
\* and the loop ends or goes on.
RecordCell(turns) ==
  /\ pc = "record"
  /\ paths' = paths \cup cell.figs
  /\ figures' = figures \cup (directive.declares \cap OnDisk)
  /\ IF directive.done \/ turn + 1 = turns
     THEN pc' = "notebook" /\ UNCHANGED turn
     ELSE pc' = "ask" /\ turn' = turn + 1
  /\ UNCHANGED <<outcome, attempt, lookups, directive, cell, before, sessionVars,
                 kernelVars, iopub, fileVars, output, histVars>>

\* One turn more than there are.
RecordOneMore == RecordCell(MaxTurns[attempt] + 1) /\ UNCHANGED notebook

Record == RecordCell(MaxTurns[attempt]) /\ UNCHANGED notebook

WriteNotebook ==
  /\ pc = "notebook" /\ notebook' = attempt /\ pc' = "recover"
  /\ UNCHANGED <<outcome, turnVars, cell, resultVars, sessionVars, kernelVars,
                 iopub, fileVars, output, histVars>>

\* Figures nobody declared are registered too.  Figure() refuses an id that is
\* not a slug, and its ValidationError is nobody's AgentError.
RecoverFigures ==
  /\ pc = "recover"
  /\ IF OnDisk \subseteq Names
     THEN figures' = figures \cup OnDisk /\ pc' = "report" /\ UNCHANGED outcome
     ELSE pc' = "shutdown" /\ outcome' = "raised" /\ UNCHANGED figures
  /\ UNCHANGED <<turnVars, cell, paths, before, sessionVars, kernelVars, iopub,
                 fileVars, notebook, output, histVars>>

\* agent.output and stage.done.
Report ==
  /\ pc = "report" /\ outcome' = "returned" /\ pc' = "shutdown"
  /\ UNCHANGED <<turnVars, cell, resultVars, sessionVars, kernelVars, iopub,
                 fileVars, notebook, output, histVars>>

\* An emit() raises.
EmitRaises ==
  /\ pc \in {"ask", "dispatch", "running", "matlab", "record", "recover", "report"}
  /\ Fault
  /\ outcome' = "raised" /\ pc' = "shutdown"
  /\ UNCHANGED <<turnVars, cell, resultVars, sessionVars, kernelVars, iopub,
                 fileVars, notebook, output, late, leaked>>

\* What the pipeline makes of the end: a rerun's AgentError leaves it the
\* output it had; any other exception fails the run.
Leave ==
  /\ pc' = CASE outcome = "returned"                      -> "review"
             [] outcome = "agent_error" /\ output # NoOutput -> "settled"
             [] OTHER                                     -> "failed"
  /\ output' = IF outcome # "returned" THEN output
               ELSE [attempt |-> attempt,
                     made |-> [f \in Figures |-> IF f \in figures \cup paths
                                                 THEN disk[f] ELSE NoCell]]

\* The session only forgets its client.
ForgetClient == UNCHANGED <<started, km>> /\ iopub' = <<>>

\* The session forgets its process.
Forget == started' = FALSE /\ km' = 0 /\ iopub' = <<>>

\* coder.run's finally.
Shutdown ==
  /\ pc = "shutdown"
  /\ procs' = procs \ {km} /\ queue' = [queue EXCEPT ![km] = <<>>]
  /\ Forget /\ Leave
  /\ UNCHANGED <<outcome, turnVars, cell, resultVars, fileVars, notebook, histVars>>

\* shutdown_kernel raises or takes more than 10 s.
ShutdownFails ==
  /\ pc = "shutdown" /\ Fault
  /\ leaked' = leaked \cup {km}
  /\ Forget /\ Leave
  /\ UNCHANGED <<outcome, turnVars, cell, resultVars, kernelVars, fileVars,
                 notebook, late>>

\* _review_and_maybe_rerun_coder takes the output,
Accept ==
  /\ pc = "review" /\ pc' = "settled"
  /\ UNCHANGED <<outcome, turnVars, cell, resultVars, sessionVars, kernelVars,
                 iopub, fileVars, notebook, output, histVars>>

\* or has the same agent and session run again.
Rerun ==
  /\ pc = "review" /\ attempt < MaxAttempts
  /\ attempt' = attempt + 1 /\ turn' = 0 /\ lookups' = 0
  /\ figures' = {} /\ paths' = {} /\ outcome' = "none" /\ pc' = "begin"
  /\ UNCHANGED <<directive, cell, before, sessionVars, kernelVars, iopub, fileVars,
                 notebook, output, histVars>>

-----------------------------------------------------------------------------
Worker ==
  \/ StartKernel \/ StartFails \/ GetDirective \/ LookUpSkill \/ AskFails
  \/ Execute \/ ReadMessage \/ TimesOut \/ ReadFails \/ MatlabStarts \/ MatlabEnds
  \/ Record \/ WriteNotebook \/ RecoverFigures \/ Report \/ EmitRaises
  \/ Shutdown \/ ShutdownFails \/ Accept \/ Rerun

Kernel == \E p \in Attempts :
            KernelSaves(p) \/ KernelDraws(p) \/ KernelEnds(p) \/ KernelDies(p)

Next == Worker \/ Kernel \/ MatlabSaves

Spec == Init /\ [][Next]_vars

\* Every await of the worker ends: calls, cells and shutdowns have timeouts.
\* Nothing is assumed of the kernel.
FairSpec == Spec /\ WF_vars(Worker)

-----------------------------------------------------------------------------
\* Type invariant.
TypeOK ==
  /\ pc \in {"begin", "ask", "dispatch", "running", "matlab", "record", "notebook",
             "recover", "report", "shutdown", "review", "settled", "failed"}
  /\ outcome \in {"none", "returned", "agent_error", "raised"}
  /\ attempt \in Attempts /\ turn \in 0..(MaxTurns[attempt] - 1)
  /\ lookups \in 0..SkillBudget /\ directive \in Directive
  /\ cell.error \in BOOLEAN /\ cell.figs \subseteq Figures
  /\ figures \subseteq Names /\ paths \subseteq Figures /\ before \subseteq Figures
  /\ started \in BOOLEAN /\ km \in 0..MaxAttempts /\ figIndex \in 0..MaxInline
  /\ procs \subseteq Attempts /\ leaked \subseteq Attempts
  /\ notebook \in 0..MaxAttempts /\ output.attempt \in 0..MaxAttempts
  /\ faults \in 0..MaxFaults

\* What is recorded of a cell is its own doing: output that arrives late, of a
\* cell that timed out, is not taken for a later cell's.  The one exception are
\* the figures of a MATLAB cell, which may be a late Python cell's.
CellOutputIsOwn ==
  pc \in {"running", "record"} =>
    cell.from \subseteq {Current} \cup (IF directive.matlab THEN late ELSE {})

\* No code runs in a process started for another attempt, so no attempt leans
\* on names an earlier one has defined.
FreshKernel ==
  \A p \in procs : \A n \in DOMAIN queue[p] : queue[p][n].of[1] = p

\* When the coder is through with an attempt its process is gone, however the
\* attempt ended, unless starting it or shutting it down failed.
KernelsAreDown == pc \in {"review", "settled", "failed"} => procs \subseteq leaked

\* The notebook on disk is that of the output the pipeline goes on with, when a
\* rerun has failed half-way, too.
NotebookIsOfOutput == pc \in {"review", "settled"} => notebook = output.attempt

\* A figure on disk that the returned output does not mention was written by a
\* cell that the worker had stopped waiting for.
OrphansAreLate ==
  pc = "review" =>
    \A f \in OnDisk : f \in figures \cup paths \/ disk[f] \in late

\* What an attempt hands over is its own doing: the output of its cells, the
\* notebook and, but for what comes late, the figures.
OutputIsOwn == CellOutputIsOwn /\ NotebookIsOfOutput /\ OrphansAreLate

\* Every attempt has a kernel process of its own, which is gone when it is over:
\* neither names nor processes are handed on.
KernelIsOwn == FreshKernel /\ KernelsAreDown

\* The stage ends, whatever the LLM asks for and whatever its code does.
CoderEnds == <>(pc \in {"settled", "failed"})

=============================================================================
