------------------------------ MODULE PaperText ------------------------------
(***************************************************************************)
(* What a paper is made of, as far as the programs that handle it can tell *)
(* papers apart: how pipeline.py renders and substitutes, how audit.py     *)
(* judges, how editor_tools/tools.py renders, finds and replaces.          *)
(*                                                                         *)
(* A text is a sequence of tokens: a word, a placeholder [[FIG:id]], or a  *)
(* markdown image.  A paper is its abstract, its sections in order and its *)
(* references, of which it only matters whether they bring a [N] along.    *)
(***************************************************************************)
EXTENDS Integers, FiniteSets, FiniteSetsExt, SequencesExt

CONSTANTS
    Figures,        \* the ids of the figures the coder shipped
    Questions,      \* the key phrases of the analyzer's sub-questions
    MinReferences   \* the floor of check_reference_count, 8 in the code

ASSUME TextAssumption == IsFiniteSet(Figures) /\ MinReferences \in Nat

Word(word) == <<"word", word>>
Placeholder(id) == <<"fig", id>>
Image(id) == <<"img", id>>

NoText == <<<<"absent">>>>    \* the abstract of a meta file that has none

Text == Seq({"word", "fig", "img"} \X STRING)
PaperDraft == [abstract : Text, sections : Seq([title : STRING, body : Text]),
               refs : Seq(STRING)]

-----------------------------------------------------------------------------
(* Rendering.                                                              *)

\* Known ids become images, unknown ones are dropped.
SubstituteFigures(text) ==
    LET known == SelectSeq(text, LAMBDA t : t[1] = "fig" => t[2] \in Figures)
    IN  [i \in DOMAIN known |-> IF known[i][1] = "fig" THEN Image(known[i][2])
                                                        ELSE known[i]]

\* References that all bring their [N] are left alone, others are numbered.
RenderReferences(refs) ==
    [i \in DOMAIN refs |->
        [ref |-> refs[i], numbered |-> \E j \in DOMAIN refs : refs[j] # "bracket"]]

\* paper.md as the pipeline writes it: only sections have figures put in.
RenderPaper(paper) ==
    [abstract |-> paper.abstract,
     sections |-> [i \in DOMAIN paper.sections |->
                      [paper.sections[i] EXCEPT !.body = SubstituteFigures(@)]],
     refs     |-> RenderReferences(paper.refs)]

\* paper.md as the editor's tools write it, from what paper.meta.json holds.
RenderMeta(meta) ==
    [abstract |-> IF meta.abstract = NoText THEN <<>> ELSE meta.abstract,
     sections |-> meta.sections,
     refs     |-> [i \in DOMAIN meta.refs |->
                      [ref |-> meta.refs[i], numbered |-> TRUE]]]

-----------------------------------------------------------------------------
(* The audit: each check is a finding or none; all findings are blocking.  *)

SectionTokens(md) == UNION {ToSet(md.sections[i].body) : i \in DOMAIN md.sections}

FewReferences(paper) == Len(paper.refs) < MinReferences

\* The expression that looks for images does not match one whose caption has
\* a closing bracket in it.
EmbeddedIds(md, bracketed) ==
    {id \in Figures \ bracketed : Image(id) \in SectionTokens(md)}
OrphanFigures(md, bracketed) == Figures \ EmbeddedIds(md, bracketed)

UncoveredQuestions(md) ==
    {q \in Questions : Word(q) \notin SectionTokens(md) \cup ToSet(md.abstract)}

RunAudit(paper, md, bracketed, cjkBroken) ==
    {code \in {"few_references", "orphan_figures", "uncovered_subquestions",
               "cjk_glyphs_broken"} :
        \/ code = "few_references"         /\ FewReferences(paper)
        \/ code = "orphan_figures"         /\ OrphanFigures(md, bracketed) # {}
        \/ code = "uncovered_subquestions" /\ UncoveredQuestions(md) # {}
        \/ code = "cjk_glyphs_broken"      /\ cjkBroken}

DispatchTo(code) == IF code = "cjk_glyphs_broken" THEN "coder" ELSE "writer"
BlockingFor(agent, findings) == {code \in findings : DispatchTo(code) = agent}

-----------------------------------------------------------------------------
(* Finding and replacing.                                                  *)

Titles(meta) == [i \in DOMAIN meta.sections |-> meta.sections[i].title]

\* The first section of that title, 0 if there is none.
FindSection(meta, title) == SelectInSeq(meta.sections, LAMBDA s : s.title = title)

\* What surgical_edit may touch: 0 is the abstract, i the i-th section.
EditableTargets(meta) ==
    DOMAIN meta.sections \cup (IF meta.abstract = NoText THEN {} ELSE {0})
Label(meta, target) == IF target = 0 THEN "Abstract" ELSE meta.sections[target].title
Scoped(meta, scope) ==
    IF scope = "anywhere" THEN EditableTargets(meta)
    ELSE {target \in EditableTargets(meta) : Label(meta, target) = scope}

Body(meta, target) == IF target = 0 THEN meta.abstract ELSE meta.sections[target].body
WithBody(meta, target, text) ==
    IF target = 0 THEN [meta EXCEPT !.abstract = text]
                  ELSE [meta EXCEPT !.sections[target].body = text]

Occurrences(text, token) == Cardinality({i \in DOMAIN text : text[i] = token})
Hits(meta, targets, old) ==
    {target \in targets : Occurrences(Body(meta, target), old) > 0}
Total(meta, targets, old) ==
    MapThenSumSet(LAMBDA target : Occurrences(Body(meta, target), old), targets)

Replace(text, old, new) ==
    FlattenSeq([i \in DOMAIN text |-> IF text[i] = old THEN new ELSE <<text[i]>>])

ReplaceIn(meta, targets, old, new) ==
    [meta EXCEPT
        !.abstract = IF 0 \in targets THEN Replace(@, old, new) ELSE @,
        !.sections = [i \in DOMAIN meta.sections |->
            IF i \in targets
            THEN [meta.sections[i] EXCEPT
                     !.body = Replace(Body(meta, i), old, new)]
            ELSE meta.sections[i]]]
=============================================================================
