----------------------------- MODULE PaperEditor -----------------------------
(***************************************************************************)
(* Fine-tune turns over the run directory a pipeline left behind:          *)
(* finetune_main.run_finetune, agents/paper_editor.py and the tools of     *)
(* editor_tools/tools.py.  Composed with the end of the pipeline           *)
(* (AuditGate); that a turn waits for the pipeline is JobQueue's part.     *)
(*                                                                         *)
(* A turn loads paper.meta.json and notebook.ipynb once and works on what  *)
(* it holds in memory.  Its kernel is fresh and is not shut down: a cell   *)
(* that timed out may still draw while later turns are at work.            *)
(***************************************************************************)
EXTENDS AuditGate

CONSTANTS
    Plots,          \* figure ids a cell may draw
    CoderCells,     \* the code of the coder's cells, in order
    NewCells,       \* code the editor may append
    Constants, Values,
    NewTexts,       \* bodies for edit_section, replacements for surgical_edit
    Anchors,        \* tokens surgical_edit may look for
    NewTitles,      \* section titles the editor may name
    MaxIterations   \* per turn: max_iterations, 8 in the code

NoName == "no name"
NoPlot == "no plot"

CellCode == [sets : Constants \cup {NoName}, val : Nat,
             needs : SUBSET Constants, draws : Plots \cup {NoPlot},
             lang : {"python", "matlab"}]

ASSUME EditorAssumption ==
    /\ Figures \subseteq Plots
    /\ CoderCells \in Seq(CellCode) /\ NewCells \subseteq CellCode
    /\ Values \subseteq Nat
    /\ MaxIterations \in Seq(Nat \ {0})

ToolNames == {"read_paper", "edit_section", "surgical_edit", "edit_constant",
              "run_cell", "regenerate_figure", "recompile_pdf"}

VARIABLES
    runDir,         \* is the run directory there?
    notebook,       \* notebook.ipynb: cells with a number and their code
    files,          \* figures/<id>.png that are there
    pc, turns, iter, directive,
    mem, cells, next,   \* the ToolContext: paper_meta, notebook, next_cell_index
    env,            \* names the turn's kernel knows
    todo, queue,    \* cells this tool executes, and those it has not yet
    errors, plot,   \* did one of them fail? the figure to be regenerated
    newer,          \* figure files written since the tool was called
    late,           \* cells given up after the timeout and still at work
    result,         \* the last tool result
    stage, said,    \* how stage.done ended, closing events of the session
    upset,          \* faults that struck the turn
    cut, blank      \* paper.md left behind; a turn found no meta to load

ctxVars == <<mem, cells, next>>
toolVars == <<todo, queue, errors, plot>>
kernelVars == <<env, files, newer, late>>
closeVars == <<stage, said, upset>>
diskVars == <<md, meta, pdf, notebook>>
editorVars == <<runDir, notebook, files, pc, turns, iter, directive, mem, cells,
                next, env, todo, queue, errors, plot, newer, late, result, stage,
                said, upset, cut, blank>>
vars == <<gateVars, fileVars, faults, editorVars>>

EmptyMeta == [abstract |-> NoText, sections |-> <<>>, refs |-> <<>>]
NoDirective == [tool |-> "none", done |-> FALSE]
NoResult == [tool |-> "none", ok |-> FALSE, open |-> FALSE]

Numbered(codes) == [i \in DOMAIN codes |-> [num |-> i, code |-> codes[i]]]
LastNumber(cs) == Max({cs[i].num : i \in DOMAIN cs} \cup {0})

Init ==
    /\ GateInit
    /\ runDir \in (IF gate = "ended" THEN BOOLEAN ELSE {TRUE})
    /\ notebook = IF runDir THEN Whole(Numbered(CoderCells)) ELSE Missing
    /\ files = Figures /\ newer = {}
    /\ pc = "idle" /\ turns = 0 /\ iter = 0
    /\ directive = NoDirective
    /\ mem = EmptyMeta /\ cells = <<>> /\ next = 0
    /\ env = {} /\ late = {}
    /\ todo = {} /\ queue = <<>> /\ errors = FALSE /\ plot = NoPlot
    /\ result = NoResult
    /\ stage = "none" /\ said = {} /\ upset = {}
    /\ cut = FALSE /\ blank = FALSE

-----------------------------------------------------------------------------
(* The turn.                                                               *)

\* run_finetune up to the first call of the model: session.start,
\* stage.start, a new KernelSession, _load_context.
StartTurn ==
    /\ gate = "ended" /\ pc = "idle" /\ turns < Len(MaxIterations)
    /\ runDir
    /\ turns' = turns + 1 /\ iter' = 0 /\ pc' = "ask"
    /\ mem' = IF meta.is = "whole" THEN meta.of ELSE EmptyMeta
    /\ cells' = IF notebook.is = "whole" THEN notebook.of ELSE <<>>
    /\ next' = LastNumber(cells')
    /\ blank' = (blank \/ meta.is # "whole")
    /\ env' = {}
    /\ result' = NoResult /\ stage' = "none" /\ said' = {} /\ upset' = {}
    /\ UNCHANGED <<gateVars, diskVars, faults, runDir, files, directive, toolVars,
                   newer, late, cut>>

\* A file torn within a character is no text at all: _load_context raises
\* what it does not catch, outside the try of fine_tune.
LoadRaises ==
    /\ gate = "ended" /\ pc = "idle" /\ turns < Len(MaxIterations)
    /\ runDir /\ "torn" \in {meta.is, notebook.is}
    /\ turns' = turns + 1 /\ pc' = "error"
    /\ result' = NoResult /\ stage' = "none" /\ said' = {} /\ upset' = {"load"}
    /\ UNCHANGED <<gateVars, diskVars, faults, runDir, iter, directive, ctxVars,
                   toolVars, kernelVars, cut, blank>>

\* No run directory: the job is over without an event.
StartNowhere ==
    /\ gate = "ended" /\ pc = "idle" /\ turns < Len(MaxIterations)
    /\ ~runDir
    /\ turns' = turns + 1
    /\ upset' = {"no run directory"}
    /\ UNCHANGED <<gateVars, diskVars, faults, runDir, pc, iter, directive, ctxVars,
                   toolVars, kernelVars, result, stage, said, cut, blank>>

\* A directive that does not count as an iteration.
AskUncounted ==
    /\ pc = "ask"
    /\ \E tool \in ToolNames, done \in BOOLEAN :
          directive' = [tool |-> tool, done |-> done]
    /\ pc' = "tool"
    /\ result' = [NoResult EXCEPT !.open = TRUE]
    /\ todo' = {} /\ queue' = <<>> /\ errors' = FALSE /\ plot' = NoPlot /\ newer' = {}
    /\ UNCHANGED <<gateVars, diskVars, faults, runDir, turns, iter, ctxVars, env, files,
                   late, closeVars, cut, blank>>

\* A directive, after one retry of its parse at most, and its tool_call.
Ask ==
    /\ pc = "ask"
    /\ \E tool \in ToolNames, done \in BOOLEAN :
          directive' = [tool |-> tool, done |-> done]
    /\ pc' = "tool" /\ iter' = iter + 1
    /\ result' = [NoResult EXCEPT !.open = TRUE]
    /\ todo' = {} /\ queue' = <<>> /\ errors' = FALSE /\ plot' = NoPlot /\ newer' = {}
    /\ UNCHANGED <<gateVars, diskVars, faults, runDir, turns, ctxVars, env, files, late,
                   closeVars, cut, blank>>

\* AgentError: stage.done with status failed, then on to run_finetune.
AskFails ==
    /\ pc = "ask"
    /\ stage' = "failed" /\ pc' = "error"
    /\ UNCHANGED <<gateVars, diskVars, faults, runDir, turns, iter, directive, ctxVars,
                   toolVars, kernelVars, result, said, upset, cut, blank>>

\* An error of httpx that is no AgentError, a refused request first of all:
\* no stage.done.
AskRaises ==
    /\ pc = "ask"
    /\ upset' = upset \cup {"call"} /\ pc' = "error"
    /\ UNCHANGED <<gateVars, diskVars, faults, runDir, turns, iter, directive, ctxVars,
                   toolVars, kernelVars, result, stage, said, cut, blank>>

\* The tool's result is emitted; the loop goes on, or ends.
Answer(ok) ==
    /\ result' = IF ok THEN [tool |-> directive.tool, ok |-> TRUE, open |-> FALSE]
                        ELSE NoResult
    /\ pc' = IF directive.done \/ iter = MaxIterations[turns] THEN "finish" ELSE "ask"

\* An exception that is no AgentError leaves the tool: no tool_result, no
\* stage.done.
Raise ==
    /\ upset' = upset \cup {"tool"}
    /\ pc' = "error"
    /\ UNCHANGED result

Finish ==
    /\ pc = "finish"
    /\ stage' = "ok" /\ pc' = "announce"
    /\ UNCHANGED <<gateVars, diskVars, faults, runDir, turns, iter, directive, ctxVars,
                   toolVars, kernelVars, result, said, upset, cut, blank>>

\* The turn's locals are gone.
TurnIsOver ==
    /\ pc' = "idle" /\ iter' = 0 /\ directive' = NoDirective
    /\ mem' = EmptyMeta /\ cells' = <<>> /\ next' = 0 /\ env' = {}
    /\ todo' = {} /\ queue' = <<>> /\ errors' = FALSE /\ plot' = NoPlot /\ newer' = {}
    /\ result' = [NoResult EXCEPT !.open = result.open]
    /\ UNCHANGED <<gateVars, diskVars, runDir, turns, files, blank>>

Close(event) ==
    /\ said' = said \cup {event}
    /\ TurnIsOver
    /\ UNCHANGED <<faults, late, stage, upset, cut>>
SessionDone == pc = "announce" /\ Close("done")
SessionError == pc = "error" /\ Close("error")

\* An emit of the turn raises; its event may be on the stream all the same.
EmitFails ==
    /\ pc \in {"ask", "finish", "announce", "error"}
    /\ Fault
    /\ upset' = upset \cup {"emit"}
    /\ \/ UNCHANGED <<stage, said>>
       \/ pc = "finish" /\ stage' = "ok" /\ UNCHANGED said
       \/ pc = "announce" /\ said' = said \cup {"done"} /\ UNCHANGED stage
       \/ pc = "error" /\ said' = said \cup {"error"} /\ UNCHANGED stage
    /\ \/ pc = "error" /\ TurnIsOver
       \/ /\ pc # "error" /\ pc' = "error"
          /\ UNCHANGED <<gateVars, diskVars, runDir, turns, iter, directive, ctxVars,
                         toolVars, env, files, newer, result, blank>>
    /\ UNCHANGED <<late, cut>>

\* The worker dies, and its kernels with it.
Crash ==
    /\ pc # "idle"
    /\ Fault
    /\ upset' = upset \cup {"crash"}
    /\ TurnIsOver
    /\ late' = {} /\ cut' = (cut \/ pc = "md")
    /\ UNCHANGED <<stage, said>>

-----------------------------------------------------------------------------
(* Tools on the paper.                                                     *)

Calls(tool) == pc = "tool" /\ directive.tool = tool

\* Arguments missing or of the wrong type.
Refuse ==
    /\ pc = "tool" /\ Answer(FALSE)
    /\ UNCHANGED <<gateVars, diskVars, faults, runDir, turns, iter, directive, ctxVars,
                   toolVars, kernelVars, closeVars, cut, blank>>

ReadPaper ==
    /\ Calls("read_paper") /\ Answer(TRUE)
    /\ UNCHANGED <<gateVars, diskVars, faults, runDir, turns, iter, directive, ctxVars,
                   toolVars, kernelVars, closeVars, cut, blank>>

\* paper.md is left to the next recompilation.
PersistMetaAlone(new) ==
    /\ mem' = new
    /\ \/ Write(meta, new) /\ Answer(TRUE) /\ UNCHANGED upset
       \/ WriteFails(meta) /\ Raise
    /\ UNCHANGED <<gateVars, md, pdf, notebook, runDir, turns, iter, directive, cells,
                   next, toolVars, kernelVars, stage, said, cut, blank>>

\* _write_paper_artifacts: the meta file first, paper.md next.
PersistMeta(new) ==
    /\ mem' = new
    /\ \/ Write(meta, new) /\ pc' = "md" /\ UNCHANGED <<result, upset>>
       \/ WriteFails(meta) /\ Raise
    /\ UNCHANGED <<gateVars, md, pdf, notebook, runDir, turns, iter, directive, cells,
                   next, toolVars, kernelVars, stage, said, cut, blank>>

PersistMd ==
    /\ pc = "md"
    /\ \/ Write(md, RenderMeta(mem)) /\ Answer(TRUE) /\ cut' = FALSE /\ UNCHANGED upset
       \/ WriteFails(md) /\ Raise /\ cut' = TRUE
    /\ UNCHANGED <<gateVars, meta, pdf, notebook, runDir, turns, iter, directive,
                   ctxVars, toolVars, kernelVars, stage, said, blank>>

\* An abstract can be given to a meta without one, a section cannot.
EditSection ==
    /\ Calls("edit_section")
    /\ \E title \in NewTitles \cup {"Abstract"}, text \in NewTexts :
          \/ title = "Abstract" /\ PersistMeta(WithBody(mem, 0, text))
          \/ /\ title # "Abstract" /\ FindSection(mem, title) # 0
             /\ PersistMeta(WithBody(mem, FindSection(mem, title), text))

\* One occurrence in all that is searched, or all of them.
SurgicalEdit ==
    /\ Calls("surgical_edit")
    /\ \E old \in Anchors, new \in NewTexts, replaceAll \in BOOLEAN,
          scope \in NewTitles \cup {"Abstract", "anywhere"} :
          LET targets == Scoped(mem, scope)
          IN  /\ new # <<old>>
              /\ Total(mem, targets, old) > 0
              /\ Total(mem, targets, old) = 1 \/ replaceAll
              /\ PersistMeta(ReplaceIn(mem, Hits(mem, targets, old), old, new))

\* The gateway compiles the meta file; an answer that is no PDF and an error
\* are refusals, a failing write is not.
RecompilePdf ==
    /\ Calls("recompile_pdf")
    /\ meta.is = "whole"
    /\ \/ Write(pdf, meta.of) /\ Answer(TRUE) /\ UNCHANGED upset
       \/ WriteFails(pdf) /\ Raise
    /\ UNCHANGED <<gateVars, md, meta, notebook, runDir, turns, iter, directive, ctxVars,
                   toolVars, kernelVars, stage, said, cut, blank>>

-----------------------------------------------------------------------------
(* Tools on the notebook.                                                  *)

PersistNotebook(new) ==
    /\ cells' = new
    /\ \/ Write(notebook, new) /\ pc' = "run" /\ UNCHANGED <<result, upset>>
       \/ WriteFails(notebook) /\ Raise
    /\ UNCHANGED <<gateVars, fileVars, runDir, turns, iter, directive, mem, kernelVars,
                   errors, stage, said, cut, blank>>

AppendCell(code) ==
    /\ PersistNotebook(Append(cells, [num |-> next + 1, code |-> code]))
    /\ next' = next + 1
    /\ queue' = <<Len(cells) + 1>> /\ todo' = ToSet(queue')

RunCell ==
    /\ Calls("run_cell")
    /\ \E code \in NewCells : AppendCell(code)
    /\ UNCHANGED plot

RegenerateFigure ==
    /\ Calls("regenerate_figure")
    /\ \E code \in NewCells, id \in Plots :
          AppendCell(code) /\ plot' = id

\* The first cell that assigns the name is patched and the notebook saved;
\* only then is rerun_cells_from looked at.  Positions count from 1 here, and
\* those below it from the last cell backwards: range(-1, n) starts with the
\* last cell and goes on with the first.
AssigningCell(name) == SelectInSeq(cells, LAMBDA c : c.code.sets = name)
RerunFrom(from) ==
    IF from > 0 THEN [i \in 1 .. (Len(cells) - from + 1) |-> from + i - 1]
                ELSE [i \in 1 .. (1 - from) |-> Len(cells) + from + i - 1]
                        \o [i \in DOMAIN cells |-> i]

EditConstant ==
    /\ Calls("edit_constant")
    /\ \E name \in Constants, val \in Values :
          LET at == AssigningCell(name)
          IN  /\ at # 0
              /\ PersistNotebook([cells EXCEPT ![at].code.val = val])
              /\ \E from \in (1 - Len(cells)) .. (Len(cells) + 1) :
                    queue' = RerunFrom(from) /\ todo' = ToSet(queue')
    /\ UNCHANGED <<next, plot>>

\* rerun_cells_from is no integer, or one further back than the first cell:
\* nothing is executed.
PatchOnly ==
    \E name \in Constants, val \in Values :
       LET at == AssigningCell(name)
           new == [cells EXCEPT ![at].code.val = val]
       IN  at # 0 /\ cells' = new /\ Write(notebook, new)

EditConstantHalfDone ==
    /\ Calls("edit_constant")
    /\ PatchOnly
    /\ \/ Answer(FALSE) /\ UNCHANGED upset
       \/ Raise
    /\ UNCHANGED <<gateVars, fileVars, runDir, turns, iter, directive, mem, next,
                   toolVars, kernelVars, stage, said, cut, blank>>

\* Names that are set and figures that are drawn by as much of a cell as ran.
Code == cells[Head(queue)].code
Name(code) == {code.sets} \ {NoName}
Plot(code) == {code.draws} \ {NoPlot}

NextCell(failed) ==
    /\ pc = "run" /\ queue # <<>>
    /\ queue' = Tail(queue) /\ errors' = (errors \/ failed)
    /\ UNCHANGED <<gateVars, diskVars, runDir, pc, turns, iter, directive, ctxVars, todo,
                   plot, result, stage, said, cut, blank>>

\* The directory is emptied first.
DrawAnew(ids) == files' = ids /\ newer' = newer \cup ids

Draw(ids) == files' = files \cup ids /\ newer' = newer \cup ids

\* A kernel works on one cell at a time: once a later one is done, those it
\* was given before are over.
KernelIsFree == late' = {cell \in late : cell.turn # turns}

\* A cell of MATLAB, or one that needs a name the new kernel does not know,
\* cannot succeed.
CellSucceeds ==
    /\ NextCell(FALSE)
    /\ Code.lang = "python" /\ Code.needs \subseteq env
    /\ env' = env \cup Name(Code)
    /\ Draw(Plot(Code))
    /\ KernelIsFree
    /\ UNCHANGED <<faults, upset>>

CellFails ==
    /\ NextCell(TRUE)
    /\ \E ids \in SUBSET Plot(Code), names \in SUBSET Name(Code) :
          Draw(ids) /\ env' = env \cup names
    /\ KernelIsFree
    /\ UNCHANGED <<faults, upset>>

GiveUp ==
    /\ late' = late \cup {[turn |-> turns, draws |-> id] : id \in Plot(Code)}
    /\ \E names \in SUBSET Name(Code) : env' = env \cup names
    /\ UNCHANGED <<files, newer>>

CellTimesOut == NextCell(TRUE) /\ GiveUp /\ UNCHANGED <<faults, upset>>

\* Reading the channel raises: the cell is taken for done, without an error.
ReadFails ==
    /\ NextCell(FALSE) /\ GiveUp
    /\ Fault /\ upset' = upset \cup {"channel"}

\* The kernel does not start, or an emit fails while a cell is at work.
KernelRaises ==
    /\ pc = "run" /\ queue # <<>>
    /\ Fault /\ Raise
    /\ UNCHANGED <<gateVars, diskVars, runDir, turns, iter, directive, ctxVars, toolVars,
                   kernelVars, stage, said, cut, blank>>

\* A figure file of that name is enough, however old.
CellsAreDoneOfOld ==
    /\ pc = "run" /\ queue = <<>>
    /\ Answer(~errors /\ (plot # NoPlot => plot \in files))
    /\ UNCHANGED <<gateVars, diskVars, faults, runDir, turns, iter, directive, ctxVars,
                   toolVars, kernelVars, closeVars, cut, blank>>

\* regenerate_figure looks whether the file is there and newer than before.
CellsAreDone ==
    /\ pc = "run" /\ queue = <<>>
    /\ Answer(/\ ~errors
              /\ plot # NoPlot => plot \in files /\ plot \in newer)
    /\ UNCHANGED <<gateVars, diskVars, faults, runDir, turns, iter, directive, ctxVars,
                   toolVars, kernelVars, closeVars, cut, blank>>

\* A cell that was given up draws after all.
LateCellDraws ==
    /\ \E cell \in late : Draw({cell.draws})
    /\ UNCHANGED <<gateVars, diskVars, faults, runDir, pc, turns, iter, directive,
                   ctxVars, env, toolVars, late, result, closeVars, cut, blank>>

-----------------------------------------------------------------------------

Tool == \/ Refuse \/ ReadPaper \/ EditSection \/ SurgicalEdit \/ PersistMd
        \/ RecompilePdf \/ RunCell \/ RegenerateFigure \/ EditConstant
        \/ EditConstantHalfDone \/ CellSucceeds \/ CellFails \/ CellTimesOut
        \/ CellsAreDone

Turn == Ask \/ AskFails \/ AskRaises \/ Tool \/ Finish \/ SessionDone \/ SessionError

Next ==
    \/ GateStep /\ UNCHANGED editorVars
    \/ StartTurn \/ LoadRaises \/ StartNowhere
    \/ Turn
    \/ EmitFails \/ ReadFails \/ KernelRaises \/ Crash
    \/ LateCellDraws

Spec == Init /\ [][Next]_vars

\* The turn's coroutine goes on: a cell has 60 s, a call is LlmCall's.
FairSpec == Spec /\ WF_vars(Turn)

-----------------------------------------------------------------------------
(* Properties.                                                             *)

TypeOK ==
    /\ gate \in {"audit", "check", "revise", "ship", "meta", "export", "announce", "ended"}
    /\ {paper, draft} \subseteq Drafts /\ faults \in 0 .. MaxFaults
    /\ {md.is, meta.is, pdf.is, notebook.is} \subseteq {"missing", "torn", "whole"}
    /\ pc \in {"idle", "ask", "tool", "md", "run", "finish", "announce", "error"}
    /\ turns \in 0 .. Len(MaxIterations) /\ iter \in Nat
    /\ Figures \subseteq files /\ newer \subseteq files /\ files \subseteq Plots
    /\ \A cell \in late : cell.turn \in 1 .. turns /\ cell.draws \in Plots
    /\ stage \in {"none", "ok", "failed"} /\ said \subseteq {"done", "error"}
    /\ upset \subseteq {"no run directory", "load", "call", "tool", "emit", "channel", "crash"}

\* tools.py:85-89: paper.md and paper.meta.json "MUST not drift".  Whenever no
\* tool is between the two, they agree, unless a write was cut short there
\* and no later one has made it good.
MdIsOfMeta ==
    md.is = "whole" /\ meta.is = "whole" /\ pc # "md" /\ ~cut =>
        md.of \in {RenderPaper(meta.of), RenderMeta(meta.of)}

\* No sequence of edits loses, adds or renames a section of the paper shipped,
\* unless a turn began with a meta file it could not read and wrote over it.
SectionsSurvive ==
    gate = "ended" /\ meta.is = "whole" /\ ~blank => Titles(meta.of) = Titles(paper)

\* The two files hold one paper, and it is the shipped one with its sections.
PaperIsKept == MdIsOfMeta /\ SectionsSurvive

\* A tool that reports success has done what it says: the paper's files hold
\* the edit, paper.pdf is of the meta file, and every figure of the cells it
\* executed is new, unless the kernel's channel broke.
OkIsTrue ==
    result.ok /\ "channel" \notin upset =>
        /\ result.tool \in {"edit_section", "surgical_edit"} =>
              meta = Whole(mem) /\ md = Whole(RenderMeta(mem))
        /\ result.tool = "recompile_pdf" => pdf = meta
        /\ result.tool \in {"run_cell", "regenerate_figure", "edit_constant"} =>
              /\ notebook = Whole(cells)
              /\ plot # NoPlot => plot \in newer
              /\ \A i \in todo : Plot(cells[i].code) \subseteq newer

\* How a turn closes tells how it ended: one closing event, `done` after a
\* stage.done that went well and every call answered, or `error` after one
\* that failed.  What no layer but the last catches is told by the error
\* alone: files that are no text, a request httpx gives up, and a tool that
\* raised, whose call stays unanswered.  Only a failing emit, a death or a
\* missing run directory can make it otherwise.
ClosedAsItEnded ==
    pc = "idle" /\ turns > 0 =>
        LET why == upset \ {"channel"}
        IN  /\ why = {} =>
                  /\ ~result.open
                  /\ <<said, stage>> \in {<<{"done"}, "ok">>, <<{"error"}, "failed">>}
            /\ why \in {{"load"}, {"call"}, {"tool"}} =>
                  /\ result.open = (why = {"tool"})
                  /\ said = {"error"} /\ stage = "none"

\* The chat is told what happened, of each tool and of the turn.
ToldAsItIs == OkIsTrue /\ ClosedAsItEnded

\* Every turn ends, whatever the model answers and the kernel does.
TurnEnds == pc # "idle" ~> pc = "idle"
=============================================================================
