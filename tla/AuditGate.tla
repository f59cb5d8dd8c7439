------------------------------ MODULE AuditGate ------------------------------
(***************************************************************************)
(* The end of a pipeline, from the paper the writer and its critic agreed  *)
(* on to the files of the run directory: the audit gate with its one       *)
(* revision (pipeline._run_audit_and_maybe_revise, audit.py), paper.md,    *)
(* paper.meta.json and the exported paper.pdf.                             *)
(*                                                                         *)
(* A file is written by truncating it and writing it anew, so a failure or *)
(* the death of the worker in between leaves it torn.                      *)
(***************************************************************************)
EXTENDS PaperText

CONSTANTS
    Drafts,         \* the papers a writer may come up with
    MaxFaults       \* bound on failures and deaths

ASSUME GateAssumption == MaxFaults \in Nat /\ Drafts \subseteq PaperDraft

VARIABLES
    gate,           \* where the pipeline stands; "ended" for good
    paper,          \* the local variable of that name
    draft,          \* what the writer handed to the gate
    tried,          \* has a revision been asked for?
    bracketed,      \* figures whose caption has a closing bracket in it
    cjkBroken,      \* what the kernel's bootstrap left in .cjk_font_ok
    md, meta, pdf,  \* paper.md, paper.meta.json, paper.pdf
    faults

gateVars == <<gate, paper, draft, tried, bracketed, cjkBroken>>
fileVars == <<md, meta, pdf>>

Missing == [is |-> "missing"]
Torn == [is |-> "torn"]
Whole(content) == [is |-> "whole", of |-> content]

\* What _build_paper_meta keeps of a paper; the placeholders stay raw.
BuildMeta(p) == [abstract |-> p.abstract, sections |-> p.sections, refs |-> p.refs]

Fault == faults < MaxFaults /\ faults' = faults + 1

\* Writing a file: it goes well, or fails with the file untouched or torn.
Write(file, content) == file' = Whole(content) /\ UNCHANGED faults
WriteFails(file) == Fault /\ file' \in {file, Torn}

GateInit ==
    /\ draft \in Drafts /\ paper = draft
    /\ tried = FALSE /\ faults = 0
    /\ md = Missing /\ meta = Missing /\ pdf = Missing
    \* A run may also have ended before it had a paper.
    /\ \/ gate = "audit" /\ bracketed \in SUBSET Figures /\ cjkBroken \in BOOLEAN
       \/ gate = "ended" /\ bracketed = {} /\ cjkBroken = FALSE

Findings(p) == RunAudit(p, RenderPaper(p), bracketed, cjkBroken)

\* The pipeline's locals are gone with it; `paper` is kept to compare with.
GateEnds ==
    /\ gate' = "ended"
    /\ draft' = paper /\ tried' = FALSE /\ bracketed' = {} /\ cjkBroken' = FALSE
    /\ UNCHANGED paper

GateGoesOn(to) ==
    gate' = to /\ UNCHANGED <<paper, draft, tried, bracketed, cjkBroken>>

-----------------------------------------------------------------------------

\* A finding for the coder asks the writer for a revision, too.
AuditForAnyone ==
    /\ gate = "audit"
    /\ GateGoesOn(IF Findings(paper) = {} THEN "ship" ELSE "check")
    /\ UNCHANGED <<fileVars, faults>>

\* stage.start, the checks, a log per finding, stage.done.  Findings for the
\* coder alone are shipped with the paper.
Audit ==
    /\ gate = "audit"
    /\ GateGoesOn(IF BlockingFor("writer", Findings(paper)) = {} THEN "ship"
                                                                  ELSE "check")
    /\ UNCHANGED <<fileVars, faults>>

CheckCancel ==
    /\ gate = "check"
    /\ \/ GateGoesOn("revise")
       \/ GateEnds
    /\ UNCHANGED <<fileVars, faults>>

\* The revision is taken as it is: the second audit is only logged.
Revise ==
    /\ gate = "revise"
    /\ tried' = TRUE
    /\ paper' \in Drafts
    /\ gate' = "ship"
    /\ UNCHANGED <<draft, bracketed, cjkBroken, fileVars, faults>>

\* An AgentError of the writer: the paper at hand is shipped.
ReviseFails ==
    /\ gate = "revise"
    /\ tried' = TRUE
    /\ gate' = "ship"
    /\ UNCHANGED <<paper, draft, bracketed, cjkBroken, fileVars, faults>>

WritePaper ==
    /\ gate = "ship"
    /\ \/ Write(md, RenderPaper(paper)) /\ GateGoesOn("meta")
       \/ WriteFails(md) /\ GateEnds
    /\ UNCHANGED <<meta, pdf>>

WriteMeta ==
    /\ gate = "meta"
    /\ \/ Write(meta, BuildMeta(paper)) /\ GateGoesOn("export")
       \/ WriteFails(meta) /\ GateEnds
    /\ UNCHANGED <<md, pdf>>

\* _auto_export_pdf: the gateway compiles what paper.meta.json holds.  It may
\* be switched off, fail, or answer with something else than a PDF.
Export ==
    /\ gate = "export"
    /\ Write(pdf, meta.of)
    /\ GateGoesOn("announce")
    /\ UNCHANGED <<md, meta>>

ExportFails ==
    /\ gate = "export"
    /\ GateGoesOn("announce")
    /\ \/ UNCHANGED <<pdf, faults>>
       \/ WriteFails(pdf)
    /\ UNCHANGED <<md, meta>>

\* `done` with status success and the paths; pdf_path only if there is one.
Announce ==
    /\ gate = "announce"
    /\ GateEnds
    /\ UNCHANGED <<fileVars, faults>>

\* An emit or the writer raises what nobody here catches, or the worker dies.
PipelineStops ==
    /\ gate # "ended"
    /\ Fault
    /\ GateEnds
    /\ UNCHANGED fileVars

GateStep ==
    \/ Audit \/ CheckCancel \/ Revise \/ ReviseFails
    \/ WritePaper \/ WriteMeta \/ Export \/ ExportFails \/ Announce
    \/ PipelineStops

-----------------------------------------------------------------------------

\* What the gate is for (audit.py:1-16, pipeline.py:213-222): a paper with a
\* finding the writer could fix reaches the run directory only after the
\* writer was asked, and one without such a finding is not touched.
GateAsksTheWriter ==
    gate \in {"meta", "export", "announce"} =>
        /\ tried <=> BlockingFor("writer", Findings(draft)) # {}
        /\ ~tried => paper = draft /\ md.of = RenderPaper(draft)
=============================================================================
