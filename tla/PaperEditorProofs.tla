------------------------- MODULE PaperEditorProofs -------------------------
(***************************************************************************)
(* Proofs about PaperEditor and the AuditGate it starts from, for any      *)
(* drafts, notebooks, turns, edits and faults: the types, the gate, files  *)
(* that hold one paper with its sections, and a chat that is told what     *)
(* happened.                                                               *)
(***************************************************************************)
EXTENDS PaperEditor, FiniteSetTheorems, WellFoundedInduction, TLAPS

Needed == BlockingFor("writer", Findings(draft)) # {}

\* How far the pipeline has got with asking and writing; no turn is at work
\* before it has ended.
GateOrder ==
  /\ tried \in BOOLEAN
  /\ gate # "ended" => pc = "idle" /\ turns = 0 /\ ~ cut /\ ~ blank
  /\ gate \in {"audit", "check", "revise"} => ~ tried /\ paper = draft
  /\ gate \in {"check", "revise"} => Needed
  /\ gate \in {"ship", "meta", "export", "announce"} =>
       (tried <=> Needed) /\ (~ tried => paper = draft)
  /\ gate \in {"audit", "check", "revise", "ship"} => md = Missing
  /\ gate \in {"audit", "check", "revise", "ship", "meta"} => meta = Missing
  /\ gate \in {"meta", "export", "announce"} => md = Whole(RenderPaper(paper))
  /\ gate \in {"export", "announce"} => meta = Whole(BuildMeta(paper))

\* A meta file is of the shape the pipeline wrote, whatever its texts are.
HasTitles(m) ==
  /\ m = [abstract |-> m.abstract, sections |-> m.sections, refs |-> m.refs]
  /\ \A i \in DOMAIN m.sections :
       m.sections[i] = [title |-> m.sections[i].title, body |-> m.sections[i].body]

File(file) == file \in {Missing, Torn} \/ file = Whole(file.of)

\* What a turn holds in memory has the sections of the paper shipped, and is
\* in the meta file when paper.md is about to be written.
PaperFiles ==
  /\ File(md) /\ File(meta) /\ File(pdf)
  /\ meta.is = "whole" => HasTitles(meta.of)
  /\ pc \notin {"idle", "error"} => HasTitles(mem) /\ (~ blank => Titles(mem) = Titles(paper))
  /\ pc = "md" => meta = Whole(mem)

Cells == [num : Nat, code : CellCode]

NotebookFiles ==
  /\ File(notebook) /\ (notebook.is = "whole" => notebook.of \in Seq(Cells))
  /\ cells \in Seq(Cells) /\ next \in Nat
  /\ pc = "run" => /\ notebook = Whole(cells)
                   /\ queue \in Seq(1..Len(cells)) /\ todo \subseteq 1..Len(cells)

\* As long as nothing went wrong, every cell of this tool that is not in the
\* queue any more has drawn its figure.
Executed ==
  pc = "run" /\ ~ errors /\ "channel" \notin upset =>
    \A i \in todo : i \in ToSet(queue) \/ Plot(cells[i].code) \subseteq newer

Calling ==
  /\ pc # "idle" => gate = "ended" /\ turns \in 1..Len(MaxIterations)
  /\ directive \in [tool : ToolNames \cup {"none"}, done : BOOLEAN]
  /\ errors \in BOOLEAN /\ cut \in BOOLEAN /\ blank \in BOOLEAN
  /\ pc = "md" => directive.tool \in {"edit_section", "surgical_edit"}
  /\ pc = "run" => directive.tool \in {"run_cell", "regenerate_figure", "edit_constant"}

\* What the chat has been told so far: an open call, and no closing event
\* before the turn is over.
Closing ==
  /\ result \in [tool : ToolNames \cup {"none"}, ok : BOOLEAN, open : BOOLEAN]
  /\ pc \in {"idle", "tool", "md", "run"} => ~ result.ok
  /\ pc \in {"tool", "md", "run"} => result.open
  /\ pc \in {"ask", "finish", "announce"} => ~ result.open
  /\ pc \in {"ask", "tool", "md", "run", "finish"} =>
       upset \subseteq {"channel"} /\ said = {} /\ stage = "none"
  /\ pc = "announce" => upset \subseteq {"channel"} /\ said = {} /\ stage = "ok"
  /\ pc = "error" =>
       /\ upset \subseteq {"channel"} => ~ result.open /\ said = {} /\ stage = "failed"
       /\ upset \ {"channel"} \in {{"load"}, {"call"}, {"tool"}} =>
            /\ result.open = (upset \ {"channel"} = {"tool"})
            /\ said = {} /\ stage = "none"

IInv == /\ TypeOK /\ GateOrder /\ PaperFiles /\ NotebookFiles /\ Executed /\ Calling
        /\ Closing /\ PaperIsKept /\ ToldAsItIs
-----------------------------------------------------------------------------
(* The first and the last of a finite set of numbers.                      *)

LEMMA GreatestExists ==
  ASSUME NEW S \in SUBSET Nat, IsFiniteSet(S), S # {}
  PROVE  \E i \in S : \A j \in S : i >= j
<1> DEFINE Above(i) == {j \in S : j >= i}
           T == {Above(i) : i \in S}
<1>1. T # {} /\ T \subseteq FiniteSubsetsOf(Nat)
  <2>1. \A i \in S : Above(i) \subseteq S
    OBVIOUS
  <2>2. \A i \in S : IsFiniteSet(Above(i)) /\ Above(i) \subseteq Nat
    <3> HIDE DEF Above
    <3>1. QED
      BY <2>1, FS_Subset
  <2>3. QED
    BY <2>2 DEF FiniteSubsetsOf
<1>2. PICK x \in T : \A y \in T : ~(<<y, x>> \in StrictSubsetOrdering(Nat))
  BY <1>1, WFMin, FS_StrictSubsetOrderingWellFounded
<1>3. PICK i \in S : x = Above(i)
  OBVIOUS
<1>4. ASSUME NEW j \in S PROVE i >= j
  <2>1. SUFFICES ASSUME j > i PROVE FALSE
    OBVIOUS
  <2>2. Above(j) \subseteq Above(i) /\ i \in Above(i) /\ i \notin Above(j)
    <3>1. i \in Nat /\ j \in Nat /\ \A k \in S : k \in Nat
      OBVIOUS
    <3>2. \A k \in S : k >= j => k >= i
      BY <2>1, <3>1
    <3>3. Above(j) \subseteq Above(i)
      BY <3>2
    <3>4. i >= i /\ ~ (i >= j)
      BY <2>1, <3>1
    <3>5. QED
      BY <3>3, <3>4
  <2>3. Above(j) \in T /\ Above(j) \in FiniteSubsetsOf(Nat) /\ Above(i) \in FiniteSubsetsOf(Nat)
    BY <1>1
  <2> HIDE DEF Above, T
  <2>4. ~(<<Above(j), Above(i)>> \in StrictSubsetOrdering(Nat))
    BY <1>2, <1>3, <2>3
  <2>5. QED
    BY <2>2, <2>3, <2>4 DEF StrictSubsetOrdering, FiniteSubsetsOf
<1>5. QED
  BY <1>4

LEMMA LeastExists ==
  ASSUME NEW S \in SUBSET Nat, S # {}
  PROVE  \E i \in S : \A j \in S : i <= j
<1> DEFINE Upto(i) == 0..i
           T == {Upto(i) : i \in S}
<1>1. T # {} /\ T \subseteq FiniteSubsetsOf(Nat)
  <2>1. \A i \in S : IsFiniteSet(Upto(i)) /\ Upto(i) \subseteq Nat
    <3>1. TAKE i \in S
    <3>2. i \in Int /\ 0 \in Int
      OBVIOUS
    <3>3. QED
      BY <3>2, FS_Interval
  <2>2. QED
    BY <2>1 DEF FiniteSubsetsOf
<1>2. PICK x \in T : \A y \in T : ~(<<y, x>> \in StrictSubsetOrdering(Nat))
  BY <1>1, WFMin, FS_StrictSubsetOrderingWellFounded
<1>3. PICK i \in S : x = Upto(i)
  OBVIOUS
<1>4. ASSUME NEW j \in S PROVE i <= j
  <2>1. SUFFICES ASSUME j < i PROVE FALSE
    OBVIOUS
  <2>2. Upto(j) \subseteq Upto(i) /\ i \in Upto(i) /\ i \notin Upto(j)
    BY <2>1
  <2>3. Upto(j) \in T /\ Upto(j) \in FiniteSubsetsOf(Nat) /\ Upto(i) \in FiniteSubsetsOf(Nat)
    BY <1>1
  <2> HIDE DEF Upto, T
  <2>4. ~(<<Upto(j), Upto(i)>> \in StrictSubsetOrdering(Nat))
    BY <1>2, <1>3, <2>3
  <2>5. QED
    BY <2>2, <2>3, <2>4 DEF StrictSubsetOrdering, FiniteSubsetsOf
<1>5. QED
  BY <1>4

\* The number a turn counts on from.
LEMMA LastNumberType ==
  ASSUME NEW cs \in Seq(Cells) PROVE LastNumber(cs) \in Nat
<1> DEFINE S == {cs[i].num : i \in DOMAIN cs} \cup {0}
           T == {cs[i].num : i \in DOMAIN cs}
           f == [i \in DOMAIN cs |-> cs[i].num]
<1>0. DOMAIN cs = 1..Len(cs) /\ Len(cs) \in Nat /\ \A i \in DOMAIN cs : cs[i] \in Cells
  OBVIOUS
<1>1. S \in SUBSET Nat /\ S # {}
  BY <1>0 DEF Cells
<1>2. IsFiniteSet(T)
  <2>1. IsFiniteSet(DOMAIN cs)
    <3>1. 1 \in Int /\ Len(cs) \in Int
      BY <1>0
    <3>2. QED
      BY <1>0, <3>1, FS_Interval
  <2>2. f \in Surjection(DOMAIN cs, T)
    BY DEF Surjection
  <2> HIDE DEF f, T
  <2>3. QED
    BY <2>1, <2>2, FS_Surjection
<1>3. IsFiniteSet(S)
  BY <1>2, FS_AddElement
<1>4. PICK m \in S : \A j \in S : m >= j
  BY <1>1, <1>3, GreatestExists
<1>5. Max(S) \in S
  BY <1>4 DEF Max
<1>6. QED
  BY <1>1, <1>5 DEF LastNumber

LEMMA AssigningCellType ==
  ASSUME cells \in Seq(Cells), NEW name, AssigningCell(name) # 0
  PROVE  AssigningCell(name) \in 1..Len(cells)
<1> DEFINE I == {i \in 1..Len(cells) : cells[i].code.sets = name}
<1>1. AssigningCell(name) = IF I # {} THEN Min(I) ELSE 0
  BY DEF AssigningCell, SelectInSeq
<1>2. I # {} /\ AssigningCell(name) = Min(I)
  BY <1>1
<1>3. PICK m \in I : \A j \in I : m <= j
  <2>1. I \in SUBSET Nat
    OBVIOUS
  <2> HIDE DEF I
  <2>2. QED
    BY <1>2, <2>1, LeastExists
<1>4. Min(I) \in I
  BY <1>3 DEF Min
<1>5. QED
  BY <1>2, <1>4

-----------------------------------------------------------------------------
(* Papers: rendering what was shipped, and edits that keep the titles.     *)

LEMMA RenderOfBuild ==
  ASSUME NEW p PROVE RenderPaper(BuildMeta(p)) = RenderPaper(p)
BY DEF RenderPaper, BuildMeta

LEMMA DraftFacts ==
  ASSUME NEW p \in Drafts
  PROVE  HasTitles(BuildMeta(p)) /\ Titles(BuildMeta(p)) = Titles(p)
<1>1. p \in PaperDraft
  BY GateAssumption
<1>2. p.sections \in Seq([title : STRING, body : Text])
  BY <1>1 DEF PaperDraft
<1>3. \A i \in DOMAIN p.sections : p.sections[i] \in [title : STRING, body : Text]
  <2> DEFINE s == p.sections
             R == [title : STRING, body : Text]
  <2> HIDE DEF s, R
  <2>1. s \in Seq(R) => \A i \in DOMAIN s : s[i] \in R
    OBVIOUS
  <2>2. QED
    BY <1>2, <2>1 DEF s, R
<1>4. QED
  BY <1>3 DEF HasTitles, BuildMeta, Titles

\* Whatever place an edit names, a section gets a body and keeps its title.
LEMMA WithBodyKeepsTitles ==
  ASSUME NEW m, HasTitles(m), NEW target, NEW text
  PROVE  HasTitles(WithBody(m, target, text)) /\ Titles(WithBody(m, target, text)) = Titles(m)
BY DEF HasTitles, WithBody, Titles

LEMMA ReplaceInKeepsTitles ==
  ASSUME NEW m, HasTitles(m), NEW targets, NEW old, NEW new
  PROVE  /\ HasTitles(ReplaceIn(m, targets, old, new))
         /\ Titles(ReplaceIn(m, targets, old, new)) = Titles(m)
<1> DEFINE n == ReplaceIn(m, targets, old, new)
           New(i) == IF i \in targets
                     THEN [m.sections[i] EXCEPT !.body = Replace(Body(m, i), old, new)]
                     ELSE m.sections[i]
           first == IF 0 \in targets THEN Replace(m.abstract, old, new) ELSE m.abstract
           sects == [i \in DOMAIN m.sections |-> New(i)]
<1>1. m = [abstract |-> m.abstract, sections |-> m.sections, refs |-> m.refs]
  BY DEF HasTitles
<1>2. n = [abstract |-> first, sections |-> sects, refs |-> m.refs]
  <2>1. DOMAIN n = {"abstract", "sections", "refs"} /\ n = [d \in DOMAIN n |-> n[d]]
    BY <1>1 DEF ReplaceIn
  <2>2. n.abstract = first
    BY <1>1 DEF ReplaceIn
  <2>3. n.sections = sects
    BY <1>1 DEF ReplaceIn
  <2>4. n.refs = m.refs
    BY <1>1 DEF ReplaceIn
  <2> HIDE DEF n, first, sects
  <2>5. QED
    BY <2>1, <2>2, <2>3, <2>4
<1>3. ASSUME NEW i \in DOMAIN m.sections
      PROVE  New(i) = [title |-> m.sections[i].title, body |-> New(i).body]
  <2>1. m.sections[i] = [title |-> m.sections[i].title, body |-> m.sections[i].body]
    BY DEF HasTitles
  <2>2. QED
    BY <2>1
<1> HIDE DEF New, first
<1>4. QED
  BY <1>2, <1>3 DEF HasTitles, Titles

LEMMA FileFacts ==
  ASSUME NEW f, File(f)
  PROVE  /\ f.is \in {"missing", "torn", "whole"}
         /\ f.is = "whole" => f = Whole(f.of)
BY DEF File, Missing, Torn, Whole

LEMMA WholeFacts ==
  ASSUME NEW c
  PROVE  File(Whole(c)) /\ Whole(c).is = "whole" /\ Whole(c).of = c
         /\ File(Torn) /\ Torn.is = "torn" /\ File(Missing) /\ Missing.is = "missing"
BY DEF File, Missing, Torn, Whole

-----------------------------------------------------------------------------
(* The queue of cells a tool executes.                                     *)

LEMMA QueueFacts ==
  ASSUME NEW S, NEW q \in Seq(S)
  PROVE  /\ ToSet(q) \subseteq S
         /\ q # <<>> => /\ Head(q) \in S /\ Tail(q) \in Seq(S)
                        /\ ToSet(q) = {Head(q)} \cup ToSet(Tail(q))
<1>1. ToSet(q) \subseteq S
  BY DEF ToSet
<1>2. ASSUME q # <<>> PROVE ToSet(q) = {Head(q)} \cup ToSet(Tail(q))
  <2>1. /\ Head(q) = q[1] /\ Tail(q) \in Seq(S) /\ Len(Tail(q)) = Len(q) - 1
        /\ Len(q) \in Nat \ {0} /\ DOMAIN q = 1..Len(q) /\ DOMAIN Tail(q) = 1..Len(Tail(q))
        /\ \A i \in 1..Len(Tail(q)) : Tail(q)[i] = q[i + 1]
    BY <1>2
  <2>2. ASSUME NEW x \in ToSet(q) PROVE x \in {Head(q)} \cup ToSet(Tail(q))
    <3>1. PICK i \in 1..Len(q) : x = q[i]
      BY <2>1, <2>2 DEF ToSet
    <3>2. CASE i = 1
      BY <2>1, <3>1, <3>2
    <3>3. CASE i # 1
      <4>1. i - 1 \in 1..Len(Tail(q)) /\ Tail(q)[i - 1] = x
        BY <2>1, <3>1, <3>3
      <4>2. QED
        BY <2>1, <4>1 DEF ToSet
    <3>4. QED
      BY <3>2, <3>3
  <2>3. ASSUME NEW x \in ToSet(Tail(q)) PROVE x \in ToSet(q)
    <3>1. PICK i \in 1..Len(Tail(q)) : x = Tail(q)[i]
      BY <2>1, <2>3 DEF ToSet
    <3>2. i + 1 \in 1..Len(q) /\ q[i + 1] = x
      BY <2>1, <3>1
    <3>3. QED
      BY <2>1, <3>2 DEF ToSet
  <2>4. Head(q) \in ToSet(q)
    BY <2>1 DEF ToSet
  <2>5. QED
    BY <2>2, <2>3, <2>4
<1>3. QED
  BY <1>1, <1>2

\* Consecutive cells are a sequence of cells.
LEMMA RunOfCells ==
  ASSUME NEW l \in Nat, NEW n \in Nat, NEW from \in Int,
         \A i \in 1..n : from + i - 1 \in 1..l
  PROVE  [i \in 1..n |-> from + i - 1] \in Seq(1..l)
OBVIOUS

LEMMA RerunFromType ==
  ASSUME cells \in Seq(Cells), Len(cells) > 0,
         NEW from \in (1 - Len(cells))..(Len(cells) + 1)
  PROVE  RerunFrom(from) \in Seq(1..Len(cells))
<1> DEFINE l == Len(cells)
<1>1. l \in Nat \ {0} /\ DOMAIN cells = 1..l /\ from \in Int /\ 1 - l <= from /\ from <= l + 1
  OBVIOUS
<1> HIDE DEF l
<1>2. CASE from > 0
  <2>1. l - from + 1 \in Nat /\ \A i \in 1..(l - from + 1) : from + i - 1 \in 1..l
    BY <1>1, <1>2
  <2>2. [i \in 1..(l - from + 1) |-> from + i - 1] \in Seq(1..l)
    BY <1>1, <2>1, RunOfCells
  <2>3. QED
    BY <1>2, <2>2 DEF RerunFrom, l
<1>3. CASE ~ (from > 0)
  <2> DEFINE a == [i \in 1..(1 - from) |-> l + from + i - 1]
             b == [i \in 1..l |-> i]
  <2>1. a \in Seq(1..l)
    <3>1. 1 - from \in Nat /\ l + from \in Int
          /\ \A i \in 1..(1 - from) : (l + from) + i - 1 \in 1..l
      BY <1>1, <1>3
    <3>2. [i \in 1..(1 - from) |-> (l + from) + i - 1] \in Seq(1..l)
      BY <1>1, <3>1, RunOfCells
    <3>3. QED
      BY <3>2
  <2>2. b \in Seq(1..l)
    BY <1>1
  <2>3. RerunFrom(from) = a \o b
    BY <1>1, <1>3 DEF RerunFrom, l
  <2> HIDE DEF a, b
  <2>4. a \o b \in Seq(1..l)
    BY <2>1, <2>2
  <2>5. QED
    BY <2>3, <2>4 DEF l
<1>4. QED
  BY <1>2, <1>3
-----------------------------------------------------------------------------
(* The initial states.                                                     *)

LEMMA InitHolds == Init => IInv
<1> SUFFICES ASSUME Init PROVE IInv
  OBVIOUS
<1> USE DEF Init, GateInit
<1>1. TypeOK
  BY GateAssumption, EditorAssumption DEF TypeOK, Missing, Whole
<1>2. GateOrder
  BY DEF GateOrder
<1>3. PaperFiles
  BY DEF PaperFiles, File, Missing
<1>4. NotebookFiles
  <2>1. Numbered(CoderCells) \in Seq(Cells)
    <3>1. CoderCells \in Seq(CellCode)
      BY EditorAssumption
    <3>2. [i \in 1..Len(CoderCells) |-> [num |-> i, code |-> CoderCells[i]]] \in Seq(Cells)
      <4> HIDE DEF Init, GateInit
      <4>1. Len(CoderCells) \in Nat /\ \A i \in 1..Len(CoderCells) : CoderCells[i] \in CellCode
        BY <3>1
      <4>2. \A i \in 1..Len(CoderCells) : [num |-> i, code |-> CoderCells[i]] \in Cells
        BY <4>1 DEF Cells
      <4>3. QED
        BY <4>1, <4>2
    <3>3. DOMAIN CoderCells = 1..Len(CoderCells)
      BY <3>1
    <3>4. QED
      BY <3>2, <3>3 DEF Numbered
  <2>2. File(notebook) /\ (notebook.is = "whole" => notebook.of \in Seq(Cells))
    BY <2>1, WholeFacts DEF Missing
  <2>3. <<>> \in Seq(Cells)
    OBVIOUS
  <2>4. QED
    BY <2>2, <2>3 DEF NotebookFiles
<1>5. Executed /\ Calling
  BY DEF Executed, Calling, NoDirective
<1>6. Closing
  BY DEF Closing, NoResult
<1>7. PaperIsKept /\ ToldAsItIs
  BY DEF PaperIsKept, MdIsOfMeta, SectionsSurvive, ToldAsItIs, OkIsTrue, ClosedAsItEnded,
         Missing, NoResult
<1>8. QED
  BY <1>1, <1>2, <1>3, <1>4, <1>5, <1>6, <1>7 DEF IInv

-----------------------------------------------------------------------------
(* What the tools do, as far as the invariant is concerned.                *)

USE DEF gateVars, fileVars, diskVars, ctxVars, toolVars, kernelVars, closeVars, editorVars

Editing == EditSection \/ SurgicalEdit
Executing == RunCell \/ RegenerateFigure \/ EditConstant
AtWork == CellSucceeds \/ CellFails \/ CellTimesOut \/ ReadFails

\* An edit keeps the sections of the paper in memory, and saves the meta file.
LEMMA EditingFacts ==
  ASSUME IInv, Editing
  PROVE  /\ pc = "tool" /\ directive.tool \in {"edit_section", "surgical_edit"}
         /\ HasTitles(mem') /\ Titles(mem') = Titles(mem) /\ PersistMeta(mem')
<1>1. pc = "tool" /\ directive.tool \in {"edit_section", "surgical_edit"}
  BY DEF Editing, EditSection, SurgicalEdit, Calls
<1>2. HasTitles(mem)
  BY <1>1 DEF IInv, PaperFiles
<1>3. CASE EditSection
  <2>1. \E target, text : mem' = WithBody(mem, target, text)
    BY <1>3 DEF EditSection, PersistMeta
  <2>2. PersistMeta(mem')
    BY <1>3 DEF EditSection, PersistMeta, Write
  <2>3. QED
    BY <1>1, <1>2, <2>1, <2>2, WithBodyKeepsTitles
<1>4. CASE SurgicalEdit
  <2>1. \E targets, old, new : mem' = ReplaceIn(mem, targets, old, new)
    BY <1>4 DEF SurgicalEdit, PersistMeta
  <2>2. PersistMeta(mem')
    BY <1>4 DEF SurgicalEdit, PersistMeta, Write
  <2>3. QED
    BY <1>1, <1>2, <2>1, <2>2, ReplaceInKeepsTitles
<1>5. QED
  BY <1>3, <1>4 DEF Editing
\* A cell with another value in it is a cell.
LEMMA PatchType ==
  ASSUME NEW cs \in Seq(Cells), NEW at \in 1..Len(cs), NEW val \in Values
  PROVE  /\ [cs EXCEPT ![at].code.val = val] \in Seq(Cells)
         /\ Len([cs EXCEPT ![at].code.val = val]) = Len(cs)
<1> DEFINE c == [cs[at] EXCEPT !.code.val = val]
<1>1. cs[at] \in Cells /\ val \in Nat
  BY EditorAssumption
<1>2. c \in Cells
  BY <1>1 DEF Cells, CellCode
<1>3. [cs EXCEPT ![at].code.val = val] = [cs EXCEPT ![at] = c]
  OBVIOUS
<1> HIDE DEF c
<1>4. [cs EXCEPT ![at] = c] \in Seq(Cells) /\ Len([cs EXCEPT ![at] = c]) = Len(cs)
  BY <1>2
<1>5. QED
  BY <1>3, <1>4
\* A tool on the notebook saves it and queues cells of it.
LEMMA ExecutingFacts ==
  ASSUME IInv, Executing
  PROVE  /\ pc = "tool" /\ Calls(directive.tool)
         /\ directive.tool \in {"run_cell", "regenerate_figure", "edit_constant"}
         /\ cells' \in Seq(Cells) /\ next' \in Nat
         /\ queue' \in Seq(1..Len(cells')) /\ todo' = ToSet(queue')
         /\ PersistNotebook(cells')
<1>0. cells \in Seq(Cells) /\ next \in Nat /\ Len(cells) \in Nat
  BY DEF IInv, NotebookFiles
<1>1. ASSUME NEW code \in NewCells, AppendCell(code)
      PROVE  /\ cells' \in Seq(Cells) /\ next' \in Nat
             /\ queue' \in Seq(1..Len(cells')) /\ todo' = ToSet(queue')
             /\ PersistNotebook(cells')
  <2>1. [num |-> next + 1, code |-> code] \in Cells
    BY <1>0, EditorAssumption DEF Cells
  <2>2. cells' = Append(cells, [num |-> next + 1, code |-> code])
    BY <1>1 DEF AppendCell, PersistNotebook
  <2>3. cells' \in Seq(Cells) /\ Len(cells') = Len(cells) + 1
    BY <1>0, <2>1, <2>2
  <2>4. queue' = <<Len(cells) + 1>> /\ todo' = ToSet(queue') /\ next' = next + 1
    BY <1>1 DEF AppendCell
  <2>5. queue' \in Seq(1..Len(cells'))
    BY <1>0, <2>3, <2>4
  <2>6. PersistNotebook(cells')
    BY <1>1 DEF AppendCell, PersistNotebook
  <2>7. QED
    BY <1>0, <2>3, <2>4, <2>5, <2>6
<1>2. CASE RunCell
  BY <1>1, <1>2 DEF RunCell, Calls
<1>3. CASE RegenerateFigure
  BY <1>1, <1>3 DEF RegenerateFigure, Calls
<1>4. CASE EditConstant
  <2>1. PICK name \in Constants, val \in Values :
          /\ AssigningCell(name) # 0
          /\ PersistNotebook([cells EXCEPT ![AssigningCell(name)].code.val = val])
          /\ \E from \in (1 - Len(cells)) .. (Len(cells) + 1) :
                queue' = RerunFrom(from) /\ todo' = ToSet(queue')
    BY <1>4, Zenon DEF EditConstant
  <2>2. AssigningCell(name) \in 1..Len(cells)
    BY <1>0, <2>1, AssigningCellType
  <2>3. PICK from \in (1 - Len(cells)) .. (Len(cells) + 1) :
          queue' = RerunFrom(from) /\ todo' = ToSet(queue')
    BY <2>1
  <2>4. Len(cells) > 0
    BY <1>0, <2>2
  <2>5. queue' \in Seq(1..Len(cells))
    BY <1>0, <2>3, <2>4, RerunFromType
  <2> DEFINE new == [cells EXCEPT ![AssigningCell(name)].code.val = val]
  <2>6. new \in Seq(Cells) /\ Len(new) = Len(cells)
    BY <1>0, <2>1, <2>2, PatchType
  <2> HIDE DEF new
  <2>7. cells' = new /\ PersistNotebook(cells')
    BY <2>1 DEF PersistNotebook, new
  <2>8. next' = next /\ Calls("edit_constant")
    BY <1>4 DEF EditConstant
  <2>9. QED
    BY <1>0, <2>3, <2>5, <2>6, <2>7, <2>8 DEF Calls
<1>5. QED
  BY <1>2, <1>3, <1>4 DEF Executing
\* A cell at work takes one off the queue; what it draws is there, and unless
\* it went wrong it has drawn all its code draws.
LEMMA AtWorkFacts ==
  ASSUME IInv, AtWork
  PROVE  /\ pc = "run" /\ queue # <<>> /\ queue' = Tail(queue)
         /\ UNCHANGED <<gateVars, diskVars, runDir, pc, turns, iter, directive, ctxVars,
                        todo, plot, result, stage, said, cut, blank>>
         /\ newer \subseteq newer' /\ files \subseteq files'
         /\ newer' \subseteq files' /\ files' \subseteq Plots
         /\ \A cell \in late' : cell.turn \in 1 .. turns /\ cell.draws \in Plots
         /\ errors' \in BOOLEAN /\ faults' \in 0..MaxFaults
         /\ upset' \in {upset, upset \cup {"channel"}}
         /\ ~ errors' /\ "channel" \notin upset' =>
              /\ ~ errors /\ "channel" \notin upset
              /\ Plot(cells[Head(queue)].code) \subseteq newer'
<1>1. /\ pc = "run" /\ queue # <<>> /\ queue' = Tail(queue)
      /\ UNCHANGED <<gateVars, diskVars, runDir, pc, turns, iter, directive, ctxVars,
                     todo, plot, result, stage, said, cut, blank>>
  BY DEF AtWork, CellSucceeds, CellFails, CellTimesOut, ReadFails, NextCell
<1>2. /\ newer \subseteq files /\ files \subseteq Plots /\ faults \in 0..MaxFaults
      /\ errors \in BOOLEAN /\ turns \in 1..Len(MaxIterations)
      /\ \A cell \in late : cell.turn \in 1 .. turns /\ cell.draws \in Plots
      /\ cells \in Seq(Cells) /\ queue \in Seq(1..Len(cells))
  BY <1>1 DEF IInv, TypeOK, NotebookFiles, Calling
<1>3. Plot(Code) \subseteq Plots
  <2>1. Head(queue) \in 1..Len(cells)
    <3> DEFINE S == 1..Len(cells)
    <3> HIDE DEF S
    <3>1. queue \in Seq(S) /\ queue # <<>> => Head(queue) \in S
      OBVIOUS
    <3>2. QED
      BY <1>1, <1>2, <3>1 DEF S
  <2>2. cells[Head(queue)] \in Cells
    BY <1>2, <2>1
  <2>3. QED
    BY <2>2 DEF Cells, CellCode, Plot, Code
<1>4. turns \in 1..turns
  <2>1. Len(MaxIterations) \in Nat
    BY EditorAssumption
  <2>2. QED
    BY <1>2, <2>1
<1> DEFINE plots == Plot(Code)
<1>5. plots \subseteq Plots /\ plots = Plot(cells[Head(queue)].code)
  BY <1>3 DEF Code
<1> HIDE DEF plots
<1>6. CASE CellSucceeds
  <2>1. Draw(plots) /\ errors' = errors /\ UNCHANGED <<faults, upset>> /\ late' \subseteq late
    BY <1>2, <1>6 DEF CellSucceeds, NextCell, KernelIsFree, plots
  <2>2. QED
    BY <1>1, <1>2, <1>5, <2>1 DEF Draw
<1>7. CASE CellFails
  <2>1. PICK ids \in SUBSET plots : Draw(ids)
    BY <1>7 DEF CellFails, plots
  <2>2. errors' = TRUE /\ UNCHANGED <<faults, upset>> /\ late' \subseteq late
    BY <1>2, <1>7 DEF CellFails, NextCell, KernelIsFree
  <2>3. QED
    BY <1>1, <1>2, <1>5, <2>1, <2>2 DEF Draw
<1>8. ASSUME GiveUp
      PROVE  /\ UNCHANGED <<files, newer>>
             /\ \A cell \in late' : cell.turn \in 1 .. turns /\ cell.draws \in Plots
  <2>1. late' = late \cup {[turn |-> turns, draws |-> id] : id \in plots}
    BY <1>8 DEF GiveUp, plots
  <2>2. QED
    BY <1>2, <1>4, <1>5, <1>8, <2>1 DEF GiveUp
<1>9. CASE CellTimesOut
  <2>1. errors' = TRUE /\ UNCHANGED <<faults, upset>> /\ GiveUp
    BY <1>2, <1>9 DEF CellTimesOut, NextCell
  <2>2. QED
    BY <1>1, <1>2, <1>8, <2>1
<1>10. CASE ReadFails
  <2>1. errors' = errors /\ upset' = upset \cup {"channel"} /\ Fault /\ GiveUp
    BY <1>2, <1>10 DEF ReadFails, NextCell
  <2>2. faults' \in 0..MaxFaults
    BY <1>2, <2>1, GateAssumption DEF Fault
  <2>3. QED
    BY <1>1, <1>2, <1>8, <2>1, <2>2
<1>11. QED
  BY <1>6, <1>7, <1>9, <1>10 DEF AtWork

\* The steps of a turn, which leave the pipeline behind it alone.
TurnSteps ==
  \/ Ask \/ AskFails \/ AskRaises \/ Finish \/ SessionDone \/ SessionError \/ EmitFails \/ Crash
  \/ Refuse \/ ReadPaper \/ PersistMd \/ RecompilePdf \/ EditConstantHalfDone \/ CellsAreDone
  \/ Editing \/ Executing \/ AtWork \/ KernelRaises

LEMMA NextSplits ==
  Next <=> \/ GateStep /\ UNCHANGED editorVars
           \/ StartTurn \/ LoadRaises \/ StartNowhere \/ TurnSteps \/ LateCellDraws
BY DEF Next, Turn, Tool, TurnSteps, Editing, Executing, AtWork

LEMMA TurnFrame ==
  ASSUME IInv, TurnSteps
  PROVE  /\ pc # "idle" /\ gate = "ended"
         /\ UNCHANGED <<gateVars, runDir, turns, blank>>
<1>1. pc # "idle"
  BY DEF TurnSteps, Ask, AskFails, AskRaises, Finish, SessionDone, SessionError, EmitFails, Crash,
         Refuse, ReadPaper, PersistMd, RecompilePdf, EditConstantHalfDone, CellsAreDone,
         Editing, EditSection, SurgicalEdit, Executing, RunCell, RegenerateFigure,
         EditConstant, AtWork, CellSucceeds, CellFails, CellTimesOut, ReadFails, NextCell,
         KernelRaises, Calls
<1>2. gate = "ended"
  BY <1>1 DEF IInv, Calling
<1>3. UNCHANGED <<gateVars, runDir, turns, blank>>
  <2>1. CASE Editing
    BY <2>1, EditingFacts DEF PersistMeta
  <2>2. CASE Executing
    <3>1. PersistNotebook(cells')
      BY <2>2, ExecutingFacts
    <3>2. QED
      BY <3>1 DEF PersistNotebook
  <2>3. CASE AtWork
    BY <2>3, AtWorkFacts
  <2>4. CASE SessionDone \/ SessionError \/ EmitFails \/ Crash
    BY <2>4 DEF SessionDone, SessionError, EmitFails, Crash, Close, TurnIsOver
  <2>5. CASE \/ Ask \/ AskFails \/ AskRaises \/ Finish \/ Refuse \/ ReadPaper \/ PersistMd \/ RecompilePdf
             \/ EditConstantHalfDone \/ CellsAreDone \/ KernelRaises
    BY <2>5 DEF Ask, AskFails, AskRaises, Finish, Refuse, ReadPaper, PersistMd, RecompilePdf,
                EditConstantHalfDone, CellsAreDone, KernelRaises
  <2>6. QED
    BY <2>1, <2>2, <2>3, <2>4, <2>5 DEF TurnSteps
<1>4. QED
  BY <1>1, <1>2, <1>3
-----------------------------------------------------------------------------
(* The gate and the files of the pipeline.                                 *)

LEMMA GateOrderStep == IInv /\ Next => GateOrder'
<1> SUFFICES ASSUME IInv, Next PROVE GateOrder'
  OBVIOUS
<1>1. GateOrder
  BY DEF IInv
<1>2. CASE GateStep /\ UNCHANGED editorVars
  <2> USE <1>1, <1>2 DEF GateOrder, Needed, Findings, GateGoesOn, GateEnds
  <2>0. ASSUME gate' = "ended", tried' = FALSE PROVE GateOrder'
    BY <2>0
  <2>1. CASE Audit
    BY <2>1 DEF Audit
  <2>2. CASE CheckCancel
    <3>1. CASE GateGoesOn("revise")
      BY <2>2, <3>1 DEF CheckCancel
    <3>2. CASE GateEnds
      BY <2>0, <3>2
    <3>3. QED
      BY <2>2, <3>1, <3>2 DEF CheckCancel
  <2>3. CASE Revise
    BY <2>3 DEF Revise
  <2>4. CASE ReviseFails
    BY <2>4 DEF ReviseFails
  <2>5. CASE WritePaper
    <3>1. CASE Write(md, RenderPaper(paper)) /\ GateGoesOn("meta")
      BY <2>5, <3>1 DEF WritePaper, Write
    <3>2. CASE GateEnds
      BY <2>0, <3>2
    <3>3. QED
      BY <2>5, <3>1, <3>2 DEF WritePaper
  <2>6. CASE WriteMeta
    <3>1. CASE Write(meta, BuildMeta(paper)) /\ GateGoesOn("export")
      BY <2>6, <3>1 DEF WriteMeta, Write
    <3>2. CASE GateEnds
      BY <2>0, <3>2
    <3>3. QED
      BY <2>6, <3>1, <3>2 DEF WriteMeta
  <2>7. CASE Export
    BY <2>7 DEF Export
  <2>8. CASE ExportFails
    BY <2>8 DEF ExportFails
  <2>9. CASE Announce
    BY <2>9 DEF Announce
  <2>10. CASE PipelineStops
    BY <2>10 DEF PipelineStops
  <2>11. QED
    BY <2>1, <2>2, <2>3, <2>4, <2>5, <2>6, <2>7, <2>8, <2>9, <2>10 DEF GateStep
<1>3. CASE gate = "ended" /\ UNCHANGED gateVars
  BY <1>1, <1>3 DEF GateOrder
<1>4. CASE StartTurn \/ LoadRaises \/ StartNowhere
  BY <1>3, <1>4 DEF StartTurn, LoadRaises, StartNowhere
<1>5. CASE TurnSteps
  BY <1>3, <1>5, TurnFrame
<1>6. CASE LateCellDraws
  BY <1>1, <1>6 DEF LateCellDraws, GateOrder, Needed, Findings
<1>7. QED
  BY <1>2, <1>4, <1>5, <1>6, NextSplits

\* The files the pipeline leaves: whole, torn or missing, of the paper shipped.
LEMMA GateFiles ==
  ASSUME IInv, GateStep, UNCHANGED editorVars
  PROVE  /\ File(md') /\ File(meta') /\ File(pdf')
         /\ meta'.is = "whole" => HasTitles(meta'.of)
         /\ paper' \in Drafts /\ draft' \in Drafts /\ faults' \in 0..MaxFaults
         /\ MdIsOfMeta' /\ SectionsSurvive'
<1>1. /\ File(md) /\ File(meta) /\ File(pdf) /\ (meta.is = "whole" => HasTitles(meta.of))
      /\ paper \in Drafts /\ draft \in Drafts /\ faults \in 0..MaxFaults
      /\ MdIsOfMeta /\ SectionsSurvive /\ GateOrder
      /\ gate \in {"audit", "check", "revise", "ship", "meta", "export", "announce", "ended"}
  BY DEF IInv, PaperFiles, TypeOK, PaperIsKept
<1>2. pc = "idle" /\ ~ blank /\ gate # "ended"
  BY <1>1 DEF GateStep, Audit, CheckCancel, Revise, ReviseFails, WritePaper, WriteMeta,
         Export, ExportFails, Announce, PipelineStops, GateOrder
<1>3. HasTitles(BuildMeta(paper)) /\ Titles(BuildMeta(paper)) = Titles(paper)
  BY <1>1, DraftFacts
<1>4. RenderPaper(BuildMeta(paper)) = RenderPaper(paper)
  BY RenderOfBuild
<1>5. Fault => faults' \in 0..MaxFaults
  BY <1>1, GateAssumption DEF Fault
<1>6. \A file : File(file) /\ file.is = "whole" => file = Whole(file.of)
  BY FileFacts
<1>7. /\ \A c : File(Whole(c)) /\ Whole(c).is = "whole" /\ Whole(c).of = c
      /\ File(Torn) /\ Torn.is = "torn" /\ File(Missing) /\ Missing.is = "missing"
  BY WholeFacts
<1> USE <1>1, <1>2, <1>3, <1>4, <1>5, <1>6, <1>7
<1>8. CASE WritePaper
  BY <1>8 DEF WritePaper, Write, WriteFails, GateGoesOn, GateEnds, GateOrder, MdIsOfMeta,
              SectionsSurvive
<1>9. CASE WriteMeta
  <2>1. CASE meta' = Whole(BuildMeta(paper)) /\ UNCHANGED faults /\ GateGoesOn("export")
    BY <1>9, <2>1 DEF WriteMeta, GateGoesOn, GateOrder, MdIsOfMeta, SectionsSurvive
  <2>2. CASE meta' \in {meta, Torn} /\ Fault /\ GateEnds
    BY <1>9, <2>2 DEF WriteMeta, GateEnds, GateOrder, MdIsOfMeta, SectionsSurvive
  <2>3. QED
    BY <1>9, <2>1, <2>2 DEF WriteMeta, Write, WriteFails
<1>10. CASE Export \/ ExportFails
  BY <1>10 DEF Export, ExportFails, Write, WriteFails, GateGoesOn, GateOrder, MdIsOfMeta,
               SectionsSurvive
<1>11. CASE Audit \/ CheckCancel \/ Revise \/ ReviseFails \/ Announce \/ PipelineStops
  <2>1. /\ UNCHANGED fileVars /\ draft' \in Drafts /\ paper' \in Drafts
        /\ faults' \in 0..MaxFaults
    BY <1>11 DEF Audit, CheckCancel, Revise, ReviseFails, Announce, PipelineStops,
                 GateGoesOn, GateEnds
  <2>2. gate' = "ended" => paper' = paper
    BY <1>11 DEF Audit, CheckCancel, Revise, ReviseFails, Announce, PipelineStops,
                 GateGoesOn, GateEnds
  <2>3. MdIsOfMeta'
    BY <2>1 DEF MdIsOfMeta
  <2>4. SectionsSurvive'
    <3>1. meta.is = "whole" => meta.of = BuildMeta(paper)
      BY DEF GateOrder
    <3>2. QED
      BY <2>1, <2>2, <3>1 DEF SectionsSurvive
  <2>5. QED
    BY <2>1, <2>3, <2>4
<1>12. QED
  BY <1>8, <1>9, <1>10, <1>11 DEF GateStep
LEMMA PaperFilesStep == IInv /\ Next => PaperFiles'
<1> SUFFICES ASSUME IInv, Next PROVE PaperFiles'
  OBVIOUS
<1>1. PaperFiles /\ GateOrder
  BY DEF IInv
<1>2. \A file : File(file) /\ file.is = "whole" => file = Whole(file.of)
  BY FileFacts
<1>3. /\ \A c : File(Whole(c)) /\ Whole(c).is = "whole" /\ Whole(c).of = c
      /\ File(Torn) /\ Torn.is = "torn" /\ File(Missing) /\ Missing.is = "missing"
  BY WholeFacts
<1>4. CASE GateStep /\ UNCHANGED editorVars
  <2>1. pc = "idle"
    BY <1>1, <1>4 DEF GateStep, Audit, CheckCancel, Revise, ReviseFails, WritePaper,
           WriteMeta, Export, ExportFails, Announce, PipelineStops, GateOrder
  <2>2. QED
    BY <1>4, <2>1, GateFiles DEF PaperFiles
<1>5. CASE StartTurn
  <2>1. HasTitles(EmptyMeta)
    BY DEF HasTitles, EmptyMeta
  <2>2. gate = "ended" /\ SectionsSurvive
    BY <1>5 DEF StartTurn, IInv, PaperIsKept
  <2>3. HasTitles(mem') /\ (~ blank' => Titles(mem') = Titles(paper))
    BY <1>1, <1>5, <2>1, <2>2 DEF StartTurn, PaperFiles, SectionsSurvive
  <2>4. pc' = "ask" /\ UNCHANGED <<md, meta, pdf, paper>>
    BY <1>5 DEF StartTurn
  <2>5. QED
    BY <1>1, <2>3, <2>4 DEF PaperFiles
<1>6. CASE LoadRaises \/ StartNowhere \/ LateCellDraws
  BY <1>1, <1>6 DEF LoadRaises, StartNowhere, LateCellDraws, PaperFiles
<1>7. CASE Editing
  <2>1. /\ pc = "tool" /\ HasTitles(mem') /\ Titles(mem') = Titles(mem)
        /\ PersistMeta(mem')
    BY <1>7, EditingFacts
  <2>2. /\ \/ meta' = Whole(mem') /\ pc' = "md"
           \/ meta' \in {meta, Torn} /\ pc' = "error"
        /\ UNCHANGED <<md, pdf, paper, blank>>
    BY <2>1 DEF PersistMeta, Write, WriteFails, Raise
  <2>3. QED
    BY <1>1, <1>3, <2>1, <2>2 DEF PaperFiles
<1>8. CASE PersistMd
  <2>1. /\ pc = "md" /\ pc' # "md" /\ md' \in {Whole(RenderMeta(mem)), md, Torn}
        /\ UNCHANGED <<meta, pdf, mem, paper, blank>>
    BY <1>8 DEF PersistMd, Write, WriteFails, Raise, Answer
  <2>2. QED
    BY <1>1, <1>3, <2>1 DEF PaperFiles
<1>9. CASE RecompilePdf
  <2>1. /\ pc = "tool" /\ pc' # "md" /\ pdf' \in {Whole(meta.of), pdf, Torn}
        /\ UNCHANGED <<meta, md, mem, paper, blank>>
    BY <1>9 DEF RecompilePdf, Calls, Write, WriteFails, Raise, Answer
  <2>2. QED
    BY <1>1, <1>3, <2>1 DEF PaperFiles
<1>10. ASSUME TurnSteps, pc' = "idle", UNCHANGED fileVars PROVE PaperFiles'
  BY <1>1, <1>10 DEF PaperFiles
<1>11. ASSUME TurnSteps, pc' \notin {"idle", "md"}, pc # "error",
             UNCHANGED <<md, meta, pdf, mem>>
       PROVE  PaperFiles'
  BY <1>1, <1>11, TurnFrame DEF PaperFiles
<1>12. CASE SessionDone \/ SessionError \/ Crash
  BY <1>10, <1>12 DEF TurnSteps, SessionDone, SessionError, Crash, Close, TurnIsOver
<1>13. CASE EmitFails
  <2>1. UNCHANGED fileVars /\ (pc' = "idle" \/ (pc' = "error" /\ pc # "error" /\ mem' = mem))
    BY <1>13 DEF EmitFails, TurnIsOver
  <2>2. QED
    BY <1>10, <1>11, <1>13, <2>1 DEF TurnSteps
<1>14. CASE Ask \/ AskFails \/ AskRaises \/ Finish
  BY <1>11, <1>14 DEF TurnSteps, Ask, AskFails, AskRaises, Finish
<1>15. CASE Refuse \/ ReadPaper \/ EditConstantHalfDone \/ CellsAreDone \/ KernelRaises
  BY <1>11, <1>15 DEF TurnSteps, Refuse, ReadPaper, EditConstantHalfDone, CellsAreDone,
              KernelRaises, Answer, Raise, Calls
<1>16. CASE Executing
  <2>1. pc = "tool" /\ PersistNotebook(cells')
    BY <1>16, ExecutingFacts
  <2>2. QED
    BY <1>11, <1>16, <2>1 DEF TurnSteps, PersistNotebook, Raise
<1>17. CASE AtWork
  BY <1>11, <1>17, AtWorkFacts DEF TurnSteps
<1>18. QED
  BY <1>4, <1>5, <1>6, <1>7, <1>8, <1>9, <1>12, <1>13, <1>14, <1>15, <1>16, <1>17,
     NextSplits DEF TurnSteps

LEMMA NotebookFilesStep == IInv /\ Next => NotebookFiles'
<1> SUFFICES ASSUME IInv, Next PROVE NotebookFiles'
  OBVIOUS
<1>1. NotebookFiles /\ GateOrder
  BY DEF IInv
<1>2. /\ \A c : File(Whole(c)) /\ Whole(c).is = "whole" /\ Whole(c).of = c
      /\ File(Torn) /\ Torn.is = "torn" /\ File(Missing) /\ Missing.is = "missing"
  BY WholeFacts
<1>3. CASE (GateStep /\ UNCHANGED editorVars) \/ LoadRaises \/ StartNowhere \/ LateCellDraws
  BY <1>1, <1>3 DEF LoadRaises, StartNowhere, LateCellDraws, NotebookFiles
<1>4. CASE StartTurn
  <2>1. cells' \in Seq(Cells)
    <3>1. <<>> \in Seq(Cells)
      OBVIOUS
    <3>2. QED
      BY <1>1, <1>4, <3>1 DEF StartTurn, NotebookFiles
  <2>2. next' \in Nat
    <3>1. next' = LastNumber(cells')
      BY <1>4 DEF StartTurn
    <3>2. QED
      BY <2>1, <3>1, LastNumberType
  <2>3. pc' = "ask" /\ notebook' = notebook
    BY <1>4 DEF StartTurn
  <2>4. QED
    BY <1>1, <2>1, <2>2, <2>3 DEF NotebookFiles
<1>5. CASE Executing
  <2>1. /\ cells' \in Seq(Cells) /\ next' \in Nat
        /\ queue' \in Seq(1..Len(cells')) /\ todo' = ToSet(queue')
        /\ PersistNotebook(cells')
    BY <1>5, ExecutingFacts
  <2>2. todo' \subseteq 1..Len(cells')
    BY <2>1, QueueFacts
  <2>3. \/ notebook' = Whole(cells') /\ pc' = "run"
        \/ notebook' \in {notebook, Torn} /\ pc' = "error"
    BY <2>1 DEF PersistNotebook, Write, WriteFails, Raise
  <2>4. QED
    BY <1>1, <1>2, <2>1, <2>2, <2>3 DEF NotebookFiles
<1>6. CASE AtWork
  <2>1. /\ pc = "run" /\ queue # <<>> /\ queue' = Tail(queue)
        /\ UNCHANGED <<notebook, cells, next, todo>>
    BY <1>6, AtWorkFacts
  <2>2. notebook = Whole(cells) /\ queue \in Seq(1..Len(cells)) /\ todo \subseteq 1..Len(cells)
    BY <1>1, <2>1 DEF NotebookFiles
  <2>3. queue' \in Seq(1..Len(cells))
    BY <2>1, <2>2, QueueFacts
  <2>4. QED
    BY <1>1, <2>1, <2>2, <2>3 DEF NotebookFiles
<1>7. CASE EditConstantHalfDone
  <2>1. /\ pc' # "run" /\ notebook' = Whole(cells') /\ next' = next
        /\ \E name \in Constants, val \in Values :
             /\ AssigningCell(name) # 0
             /\ cells' = [cells EXCEPT ![AssigningCell(name)].code.val = val]
    BY <1>7 DEF EditConstantHalfDone, PatchOnly, Write, Answer, Raise
  <2>2. cells' \in Seq(Cells)
    BY <1>1, <2>1, AssigningCellType, PatchType DEF NotebookFiles
  <2>3. QED
    BY <1>1, <1>2, <2>1, <2>2 DEF NotebookFiles
<1>8. ASSUME pc' # "run", notebook' = notebook,
             UNCHANGED <<cells, next>> \/ (cells' = <<>> /\ next' = 0)
      PROVE  NotebookFiles'
  <2>1. <<>> \in Seq(Cells) /\ 0 \in Nat
    OBVIOUS
  <2>2. cells \in Seq(Cells) /\ next \in Nat
    BY <1>1 DEF NotebookFiles
  <2>3. CASE cells' = <<>> /\ next' = 0
    BY <1>1, <1>8, <2>1, <2>3 DEF NotebookFiles
  <2>4. QED
    BY <1>1, <1>8, <2>2, <2>3 DEF NotebookFiles
<1>9. CASE SessionDone \/ SessionError \/ Crash
  BY <1>8, <1>9 DEF SessionDone, SessionError, Crash, Close, TurnIsOver
<1>10. CASE EmitFails
  BY <1>8, <1>10 DEF EmitFails, TurnIsOver
<1>11. CASE Editing
  <2>1. PersistMeta(mem')
    BY <1>11, EditingFacts
  <2>2. QED
    BY <1>8, <2>1 DEF PersistMeta, Raise
<1>12. CASE Ask \/ AskFails \/ AskRaises \/ Finish
  BY <1>8, <1>12 DEF Ask, AskFails, AskRaises, Finish
<1>13. CASE Refuse \/ ReadPaper \/ CellsAreDone \/ KernelRaises
  BY <1>8, <1>13 DEF Refuse, ReadPaper, CellsAreDone, KernelRaises, Answer, Raise
<1>14. CASE PersistMd \/ RecompilePdf
  BY <1>8, <1>14 DEF PersistMd, RecompilePdf, Answer, Raise
<1>15. QED
  BY <1>3, <1>4, <1>5, <1>6, <1>7, <1>9, <1>10, <1>11, <1>12, <1>13, <1>14,
     NextSplits DEF TurnSteps
-----------------------------------------------------------------------------
(* A turn and what it has told.                                            *)

LEMMA CallingStep == IInv /\ Next => Calling'
<1> SUFFICES ASSUME IInv, Next PROVE Calling'
  OBVIOUS
<1>1. Calling /\ GateOrder /\ turns \in 0..Len(MaxIterations)
  BY DEF IInv, TypeOK
<1>2. CASE GateStep /\ UNCHANGED editorVars
  <2>1. pc = "idle"
    BY <1>1, <1>2 DEF GateStep, Audit, CheckCancel, Revise, ReviseFails, WritePaper,
           WriteMeta, Export, ExportFails, Announce, PipelineStops, GateOrder
  <2>2. QED
    BY <1>1, <1>2, <2>1 DEF Calling
<1>3. CASE StartTurn
  <2>1. turns' \in 1..Len(MaxIterations)
    BY <1>1, <1>3, EditorAssumption DEF StartTurn
  <2>2. /\ gate' = "ended" /\ pc' = "ask" /\ UNCHANGED <<directive, errors, cut>>
        /\ blank' \in BOOLEAN
    BY <1>1, <1>3 DEF StartTurn, Calling
  <2>3. QED
    BY <1>1, <2>1, <2>2 DEF Calling
<1>4. CASE LoadRaises \/ StartNowhere \/ LateCellDraws
  <2>1. CASE LoadRaises
    <3>1. turns' \in 1..Len(MaxIterations)
      BY <1>1, <2>1, EditorAssumption DEF LoadRaises
    <3>2. gate' = "ended" /\ pc' = "error" /\ UNCHANGED <<directive, errors, cut, blank>>
      BY <2>1 DEF LoadRaises
    <3>3. QED
      BY <1>1, <3>1, <3>2 DEF Calling
  <2>2. QED
    BY <1>1, <1>4, <2>1 DEF StartNowhere, LateCellDraws, Calling
<1>5. ASSUME TurnSteps, directive' \in {directive, NoDirective}, errors' \in BOOLEAN,
             cut' \in BOOLEAN, pc' \notin {"md", "run"} \/ UNCHANGED <<pc, directive>>
      PROVE  Calling'
  <2>1. NoDirective \in [tool : ToolNames \cup {"none"}, done : BOOLEAN]
    BY DEF NoDirective
  <2>2. /\ gate' = "ended" /\ turns' = turns /\ blank' = blank /\ turns \in 1..Len(MaxIterations)
    BY <1>1, <1>5, TurnFrame DEF Calling
  <2>3. directive' \in [tool : ToolNames \cup {"none"}, done : BOOLEAN]
    BY <1>1, <1>5, <2>1 DEF Calling
  <2>4. QED
    BY <1>1, <1>5, <2>2, <2>3 DEF Calling
<1>6. errors \in BOOLEAN /\ cut \in BOOLEAN
  BY <1>1 DEF Calling
<1>7. CASE Ask
  <2>1. directive' \in [tool : ToolNames \cup {"none"}, done : BOOLEAN]
    BY <1>7 DEF Ask
  <2>2. /\ pc' = "tool" /\ gate' = "ended" /\ turns' = turns /\ blank' = blank /\ cut' = cut
        /\ turns \in 1..Len(MaxIterations) /\ errors' = FALSE
    BY <1>1, <1>7, TurnFrame DEF Calling, TurnSteps, Ask
  <2>3. QED
    BY <1>1, <2>1, <2>2 DEF Calling
<1>8. CASE AskFails \/ AskRaises \/ Finish
  BY <1>5, <1>6, <1>8 DEF AskFails, AskRaises, Finish, TurnSteps
<1>9. CASE SessionDone \/ SessionError
  BY <1>5, <1>6, <1>9 DEF SessionDone, SessionError, Close, TurnIsOver, TurnSteps
<1>10. CASE Crash
  BY <1>5, <1>6, <1>10 DEF Crash, TurnIsOver, TurnSteps
<1>11. CASE EmitFails
  BY <1>5, <1>6, <1>11 DEF EmitFails, TurnIsOver, TurnSteps
<1>12. CASE Refuse \/ ReadPaper \/ CellsAreDone \/ KernelRaises \/ EditConstantHalfDone
  BY <1>5, <1>6, <1>12 DEF Refuse, ReadPaper, CellsAreDone, KernelRaises,
         EditConstantHalfDone, Answer, Raise, TurnSteps
<1>13. CASE PersistMd \/ RecompilePdf
  BY <1>5, <1>6, <1>13 DEF PersistMd, RecompilePdf, Answer, Raise, TurnSteps
<1>14. CASE Editing
  <2>1. directive.tool \in {"edit_section", "surgical_edit"} /\ PersistMeta(mem')
    BY <1>14, EditingFacts
  <2>2. /\ pc' \in {"md", "error"} /\ UNCHANGED <<directive, errors, cut>>
        /\ gate' = "ended" /\ turns' = turns /\ blank' = blank
        /\ turns \in 1..Len(MaxIterations)
    BY <1>1, <1>14, <2>1, TurnFrame DEF PersistMeta, Raise, TurnSteps, Calling
  <2>3. QED
    BY <1>1, <2>1, <2>2 DEF Calling
<1>15. CASE Executing
  <2>1. /\ directive.tool \in {"run_cell", "regenerate_figure", "edit_constant"}
        /\ PersistNotebook(cells')
    BY <1>15, ExecutingFacts
  <2>2. /\ pc' \in {"run", "error"} /\ UNCHANGED <<directive, errors, cut>>
        /\ gate' = "ended" /\ turns' = turns /\ blank' = blank
        /\ turns \in 1..Len(MaxIterations)
    BY <1>1, <1>15, <2>1, TurnFrame DEF PersistNotebook, Raise, TurnSteps, Calling
  <2>3. QED
    BY <1>1, <2>1, <2>2 DEF Calling
<1>16. CASE AtWork
  BY <1>5, <1>6, <1>16, AtWorkFacts DEF TurnSteps
<1>17. QED
  BY <1>2, <1>3, <1>4, <1>7, <1>8, <1>9, <1>10, <1>11, <1>12, <1>13, <1>14, <1>15, <1>16,
     NextSplits DEF TurnSteps

LEMMA ExecutedStep == IInv /\ Next => Executed'
<1> SUFFICES ASSUME IInv, Next PROVE Executed'
  OBVIOUS
<1>1. Executed /\ GateOrder
  BY DEF IInv
<1>2. CASE Executing
  BY <1>2, ExecutingFacts DEF Executed
<1>3. CASE AtWork
  <2>1. /\ pc = "run" /\ queue # <<>> /\ queue' = Tail(queue)
        /\ UNCHANGED <<cells, todo>> /\ newer \subseteq newer'
        /\ ~ errors' /\ "channel" \notin upset' =>
             /\ ~ errors /\ "channel" \notin upset
             /\ Plot(cells[Head(queue)].code) \subseteq newer'
    BY <1>3, AtWorkFacts
  <2>2. ToSet(queue) = {Head(queue)} \cup ToSet(Tail(queue))
    <3>1. queue \in Seq(1..Len(cells))
      BY <2>1 DEF IInv, NotebookFiles
    <3>2. QED
      BY <2>1, <3>1, QueueFacts
  <2>3. SUFFICES ASSUME ~ errors', "channel" \notin upset', NEW i \in todo
                 PROVE  i \in ToSet(queue') \/ Plot(cells[i].code) \subseteq newer'
    BY <2>1 DEF Executed
  <2>4. i \in ToSet(queue) \/ Plot(cells[i].code) \subseteq newer
    BY <1>1, <2>1, <2>3 DEF Executed
  <2>5. QED
    BY <2>1, <2>2, <2>3, <2>4
<1>4. CASE LateCellDraws
  BY <1>1, <1>4 DEF LateCellDraws, Draw, Executed
<1>5. CASE GateStep /\ UNCHANGED editorVars
  BY <1>1, <1>5 DEF Executed
<1>6. CASE StartTurn \/ LoadRaises \/ StartNowhere
  BY <1>6 DEF StartTurn, LoadRaises, StartNowhere, Executed
<1>7. CASE Ask \/ AskFails \/ AskRaises \/ Finish
  BY <1>7 DEF Ask, AskFails, AskRaises, Finish, Executed
<1>8. CASE SessionDone \/ SessionError \/ Crash \/ EmitFails
  BY <1>8 DEF SessionDone, SessionError, Crash, EmitFails, Close, TurnIsOver, Executed
<1>9. CASE Refuse \/ ReadPaper \/ CellsAreDone \/ KernelRaises \/ EditConstantHalfDone
  BY <1>9 DEF Refuse, ReadPaper, CellsAreDone, KernelRaises, EditConstantHalfDone, Answer,
              Raise, Executed
<1>10. CASE PersistMd \/ RecompilePdf
  BY <1>10 DEF PersistMd, RecompilePdf, Answer, Raise, Executed
<1>11. CASE Editing
  <2>1. PersistMeta(mem')
    BY <1>11, EditingFacts
  <2>2. QED
    BY <2>1 DEF PersistMeta, Raise, Executed
<1>12. QED
  BY <1>2, <1>3, <1>4, <1>5, <1>6, <1>7, <1>8, <1>9, <1>10, <1>11, NextSplits DEF TurnSteps
LEMMA ClosingStep == IInv /\ Next => Closing'
<1> SUFFICES ASSUME IInv, Next PROVE Closing'
  OBVIOUS
<1>1. Closing /\ directive \in [tool : ToolNames \cup {"none"}, done : BOOLEAN]
  BY DEF IInv, Calling
<1>2. CASE GateStep /\ UNCHANGED editorVars
  BY <1>1, <1>2 DEF Closing
<1>3. CASE StartTurn
  BY <1>1, <1>3 DEF StartTurn, Closing, NoResult
<1>4. CASE LoadRaises \/ StartNowhere \/ LateCellDraws
  <2>1. CASE LoadRaises
    <3>1. /\ pc' = "error" /\ upset' = {"load"} /\ said' = {} /\ stage' = "none"
          /\ result' = [tool |-> "none", ok |-> FALSE, open |-> FALSE]
      BY <2>1 DEF LoadRaises, NoResult
    <3>2. upset' \ {"channel"} # {"tool"} /\ ~ (upset' \subseteq {"channel"})
      BY <3>1
    <3>3. QED
      BY <3>1, <3>2 DEF Closing
  <2>2. QED
    BY <1>1, <1>4, <2>1 DEF StartNowhere, LateCellDraws, Closing
<1>5. CASE Ask
  BY <1>1, <1>5 DEF Ask, Closing, NoResult
<1>6. CASE AskFails \/ AskRaises \/ Finish
  BY <1>1, <1>6 DEF AskFails, AskRaises, Finish, Closing
<1>7. ASSUME TurnIsOver PROVE Closing'
  BY <1>1, <1>7 DEF TurnIsOver, Closing, NoResult
<1>8. CASE SessionDone \/ SessionError \/ Crash
  BY <1>7, <1>8 DEF SessionDone, SessionError, Crash, Close
<1>9. CASE EmitFails
  <2>1. TurnIsOver \/ (pc' = "error" /\ result' = result /\ "emit" \in upset')
    BY <1>9 DEF EmitFails
  <2>2. CASE pc' = "error" /\ result' = result /\ "emit" \in upset'
    BY <1>1, <2>2 DEF Closing
  <2>3. QED
    BY <1>7, <2>1, <2>2
\* A tool that has been called is answered, or raises.
<1>10. ASSUME pc \in {"tool", "md", "run"}, UNCHANGED <<upset, said, stage>>, NEW ok \in BOOLEAN,
              Answer(ok)
       PROVE  Closing'
  <2>1. pc' \in {"finish", "ask"}
    BY <1>10 DEF Answer
  <2>2. result' \in [tool : ToolNames \cup {"none"}, ok : BOOLEAN, open : BOOLEAN] /\ ~ result'.open
    BY <1>1, <1>10 DEF Answer, NoResult
  <2>3. QED
    BY <1>1, <1>10, <2>1, <2>2 DEF Closing
<1>11. ASSUME pc \in {"tool", "md", "run"}, UNCHANGED <<said, stage>>, Raise
       PROVE  Closing'
  BY <1>1, <1>11 DEF Closing, Raise
<1>12. ASSUME pc \in {"tool", "md", "run"}, pc' \in {"tool", "md", "run"},
              upset' \in {upset, upset \cup {"channel"}}, UNCHANGED <<said, stage, result>>
       PROVE  Closing'
  BY <1>1, <1>12 DEF Closing
<1>13. CASE Refuse
  BY <1>10, <1>13 DEF Refuse
<1>14. CASE ReadPaper
  BY <1>10, <1>14 DEF ReadPaper, Calls
<1>15. CASE EditConstantHalfDone
  BY <1>10, <1>11, <1>15 DEF EditConstantHalfDone, Calls
<1>16. CASE CellsAreDone
  <2>1. PICK ok \in BOOLEAN : Answer(ok)
    <3>1. Answer(~errors /\ (plot # NoPlot => plot \in files /\ plot \in newer))
      BY <1>16 DEF CellsAreDone
    <3>2. QED
      BY <3>1
  <2>2. pc = "run" /\ UNCHANGED <<upset, said, stage>>
    BY <1>16 DEF CellsAreDone
  <2>3. QED
    BY <1>10, <2>1, <2>2
<1>17. CASE PersistMd
  BY <1>10, <1>11, <1>17 DEF PersistMd
<1>18. CASE RecompilePdf
  BY <1>10, <1>11, <1>18 DEF RecompilePdf, Calls
<1>19. CASE KernelRaises
  BY <1>11, <1>19 DEF KernelRaises
<1>20. CASE Editing
  <2>1. pc = "tool" /\ PersistMeta(mem')
    BY <1>20, EditingFacts
  <2>2. QED
    BY <1>11, <1>12, <2>1 DEF PersistMeta
<1>21. CASE Executing
  <2>1. pc = "tool" /\ PersistNotebook(cells')
    BY <1>21, ExecutingFacts
  <2>2. QED
    BY <1>11, <1>12, <2>1 DEF PersistNotebook
<1>22. CASE AtWork
  BY <1>12, <1>22, AtWorkFacts
<1>23. QED
  BY <1>2, <1>3, <1>4, <1>5, <1>6, <1>8, <1>9, <1>13, <1>14, <1>15, <1>16, <1>17, <1>18,
     <1>19, <1>20, <1>21, <1>22, NextSplits DEF TurnSteps

LEMMA ClosedStep == IInv /\ Next => ClosedAsItEnded'
<1> SUFFICES ASSUME IInv, Next PROVE ClosedAsItEnded'
  OBVIOUS
<1>1. ClosedAsItEnded /\ Closing /\ GateOrder
  BY DEF IInv, ToldAsItIs
<1>2. CASE GateStep /\ UNCHANGED editorVars
  BY <1>1, <1>2 DEF ClosedAsItEnded
<1>3. CASE StartTurn
  BY <1>3 DEF StartTurn, ClosedAsItEnded
<1>4. CASE LoadRaises \/ StartNowhere
  BY <1>4 DEF LoadRaises, StartNowhere, ClosedAsItEnded
<1>5. CASE LateCellDraws
  BY <1>1, <1>5 DEF LateCellDraws, ClosedAsItEnded
<1>6. CASE SessionDone
  <2>1. pc = "announce" /\ said' = said \cup {"done"} /\ UNCHANGED <<stage, upset>>
        /\ result'.open = result.open
    BY <1>6 DEF SessionDone, Close, TurnIsOver, NoResult
  <2>2. QED
    BY <1>1, <2>1 DEF Closing, ClosedAsItEnded
<1>7. CASE SessionError
  <2>1. pc = "error" /\ said' = said \cup {"error"} /\ UNCHANGED <<stage, upset>>
        /\ result'.open = result.open
    BY <1>7 DEF SessionError, Close, TurnIsOver, NoResult
  <2>2. upset \ {"channel"} = {} => ~ result.open /\ said' = {"error"} /\ stage = "failed"
    BY <1>1, <2>1 DEF Closing
  <2>3. upset \ {"channel"} \in {{"load"}, {"call"}, {"tool"}} =>
          /\ result.open = (upset \ {"channel"} = {"tool"})
          /\ said' = {"error"} /\ stage = "none"
    BY <1>1, <2>1 DEF Closing
  <2>4. QED
    BY <2>1, <2>2, <2>3 DEF ClosedAsItEnded
<1>8. CASE EmitFails \/ Crash
  <2>1. "emit" \in upset' \/ "crash" \in upset'
    BY <1>8 DEF EmitFails, Crash
  <2>2. QED
    BY <2>1 DEF ClosedAsItEnded
<1>9. ASSUME pc' # "idle" PROVE ClosedAsItEnded'
  BY <1>9 DEF ClosedAsItEnded
<1>10. CASE Ask \/ AskFails \/ AskRaises \/ Finish
  BY <1>9, <1>10 DEF Ask, AskFails, AskRaises, Finish
<1>11. CASE Refuse \/ ReadPaper \/ CellsAreDone \/ KernelRaises \/ EditConstantHalfDone
  BY <1>9, <1>11 DEF Refuse, ReadPaper, CellsAreDone, KernelRaises, EditConstantHalfDone,
                     Answer, Raise
<1>12. CASE PersistMd \/ RecompilePdf
  BY <1>9, <1>12 DEF PersistMd, RecompilePdf, Answer, Raise
<1>13. CASE Editing
  BY <1>9, <1>13, EditingFacts DEF PersistMeta, Raise
<1>14. CASE Executing
  BY <1>9, <1>14, ExecutingFacts DEF PersistNotebook, Raise
<1>15. CASE AtWork
  BY <1>9, <1>15, AtWorkFacts
<1>16. QED
  BY <1>2, <1>3, <1>4, <1>5, <1>6, <1>7, <1>8, <1>10, <1>11, <1>12, <1>13, <1>14, <1>15,
     NextSplits DEF TurnSteps
LEMMA OkIsTrueStep == IInv /\ Next => OkIsTrue'
<1> SUFFICES ASSUME IInv, Next PROVE OkIsTrue'
  OBVIOUS
<1>1. OkIsTrue /\ Closing /\ Calling /\ GateOrder
  BY DEF IInv, ToldAsItIs
<1>2. ASSUME ~ result'.ok PROVE OkIsTrue'
  BY <1>2 DEF OkIsTrue
<1>3. CASE GateStep /\ UNCHANGED editorVars
  <2>1. pc = "idle"
    BY <1>1, <1>3 DEF GateStep, Audit, CheckCancel, Revise, ReviseFails, WritePaper,
           WriteMeta, Export, ExportFails, Announce, PipelineStops, GateOrder
  <2>2. QED
    BY <1>1, <1>2, <1>3, <2>1 DEF Closing
<1>4. CASE StartTurn \/ LoadRaises \/ StartNowhere
  <2>1. CASE StartTurn \/ LoadRaises
    BY <1>2, <2>1 DEF StartTurn, LoadRaises, NoResult
  <2>2. CASE StartNowhere
    BY <1>1, <1>2, <2>2 DEF StartNowhere, Closing
  <2>3. QED
    BY <1>4, <2>1, <2>2
<1>5. CASE LateCellDraws
  BY <1>1, <1>5 DEF LateCellDraws, Draw, OkIsTrue
<1>6. CASE Ask
  BY <1>2, <1>6 DEF Ask, NoResult
<1>7. CASE AskFails \/ AskRaises \/ Finish
  BY <1>1, <1>7 DEF AskFails, AskRaises, Finish, OkIsTrue
<1>8. ASSUME TurnIsOver PROVE OkIsTrue'
  BY <1>2, <1>8 DEF TurnIsOver, NoResult
<1>9. CASE SessionDone \/ SessionError \/ Crash
  BY <1>8, <1>9 DEF SessionDone, SessionError, Crash, Close
<1>10. CASE EmitFails
  <2>1. CASE UNCHANGED <<diskVars, ctxVars, toolVars, newer, result>>
             /\ upset' = upset \cup {"emit"}
    BY <1>1, <2>1 DEF OkIsTrue
  <2>2. QED
    BY <1>8, <1>10, <2>1 DEF EmitFails
<1>11. ASSUME pc \in {"tool", "md", "run"}, UNCHANGED result PROVE OkIsTrue'
  BY <1>1, <1>2, <1>11 DEF Closing
<1>12. ASSUME Answer(FALSE) PROVE OkIsTrue'
  BY <1>2, <1>12 DEF Answer, NoResult
<1>13. ASSUME Answer(TRUE)
       PROVE  result' = [tool |-> directive.tool, ok |-> TRUE, open |-> FALSE]
  BY <1>13 DEF Answer
<1>14. CASE Refuse
  BY <1>12, <1>14 DEF Refuse
<1>15. CASE ReadPaper
  BY <1>13, <1>15 DEF ReadPaper, Calls, OkIsTrue
<1>16. CASE EditConstantHalfDone
  BY <1>11, <1>12, <1>16 DEF EditConstantHalfDone, Calls, Raise
<1>17. CASE PersistMd
  <2>1. CASE UNCHANGED result
    BY <1>11, <1>17, <2>1 DEF PersistMd
  <2>2. CASE Answer(TRUE) /\ md' = Whole(RenderMeta(mem))
    <3>1. /\ pc = "md" /\ meta = Whole(mem) /\ UNCHANGED <<meta, mem>>
          /\ directive.tool \in {"edit_section", "surgical_edit"}
      BY <1>1, <1>17 DEF PersistMd, IInv, PaperFiles, Calling
    <3>2. QED
      BY <1>13, <2>2, <3>1 DEF OkIsTrue
  <2>3. QED
    BY <1>17, <2>1, <2>2 DEF PersistMd, Write, Raise
<1>18. CASE RecompilePdf
  <2>1. CASE UNCHANGED result
    BY <1>11, <1>18, <2>1 DEF RecompilePdf, Calls
  <2>2. CASE Answer(TRUE) /\ pdf' = Whole(meta.of)
    <3>1. directive.tool = "recompile_pdf" /\ meta.is = "whole" /\ meta' = meta
      BY <1>18 DEF RecompilePdf, Calls
    <3>2. meta = Whole(meta.of)
      BY <3>1, FileFacts DEF IInv, PaperFiles
    <3>3. QED
      BY <1>13, <2>2, <3>1, <3>2 DEF OkIsTrue
  <2>3. QED
    BY <1>18, <2>1, <2>2 DEF RecompilePdf, Write, Raise
<1>19. CASE CellsAreDone
  <2>1. /\ pc = "run" /\ queue = <<>>
        /\ UNCHANGED <<notebook, cells, plot, newer, todo, upset>>
        /\ Answer(~errors /\ (plot # NoPlot => plot \in files /\ plot \in newer))
    BY <1>19 DEF CellsAreDone
  <2>2. /\ directive.tool \in {"run_cell", "regenerate_figure", "edit_constant"}
        /\ notebook = Whole(cells) /\ Executed
    BY <1>1, <2>1 DEF Calling, IInv, NotebookFiles
  <2>3. CASE ~errors /\ (plot # NoPlot => plot \in files /\ plot \in newer)
    <3>1. result'.tool = directive.tool
      BY <2>1, <2>3 DEF Answer
    <3>2. ToSet(queue) = {}
      BY <2>1 DEF ToSet
    <3>3. "channel" \notin upset => \A i \in todo : Plot(cells[i].code) \subseteq newer
      BY <2>1, <2>2, <2>3, <3>2 DEF Executed
    <3>4. QED
      BY <2>1, <2>2, <2>3, <3>1, <3>3 DEF OkIsTrue
  <2>4. CASE ~ (~errors /\ (plot # NoPlot => plot \in files /\ plot \in newer))
    BY <1>2, <2>1, <2>4 DEF Answer, NoResult
  <2>5. QED
    BY <2>3, <2>4
<1>20. CASE KernelRaises
  BY <1>11, <1>20 DEF KernelRaises, Raise
<1>21. CASE Editing
  <2>1. pc = "tool" /\ result' = result
    BY <1>21, EditingFacts DEF PersistMeta, Raise
  <2>2. QED
    BY <1>11, <2>1
<1>22. CASE Executing
  <2>1. pc = "tool" /\ result' = result
    BY <1>22, ExecutingFacts DEF PersistNotebook, Raise
  <2>2. QED
    BY <1>11, <2>1
<1>23. CASE AtWork
  BY <1>11, <1>23, AtWorkFacts
<1>24. QED
  BY <1>3, <1>4, <1>5, <1>6, <1>7, <1>9, <1>10, <1>14, <1>15, <1>16, <1>17, <1>18,
     <1>19, <1>20, <1>21, <1>22, <1>23, NextSplits DEF TurnSteps

LEMMA PaperIsKeptStep == IInv /\ Next => PaperIsKept'
<1> SUFFICES ASSUME IInv, Next PROVE PaperIsKept'
  OBVIOUS
<1>1. MdIsOfMeta /\ SectionsSurvive /\ PaperFiles
  BY DEF IInv, PaperIsKept
<1>2. /\ \A c : Whole(c).is = "whole" /\ Whole(c).of = c
      /\ Torn.is = "torn"
  BY WholeFacts
<1>3. CASE GateStep /\ UNCHANGED editorVars
  BY <1>3, GateFiles DEF PaperIsKept
<1>4. ASSUME UNCHANGED <<md, meta, gate, paper, cut>>, pc = "md" => pc' = "md",
             blank => blank'
      PROVE  PaperIsKept'
  BY <1>1, <1>4 DEF PaperIsKept, MdIsOfMeta, SectionsSurvive
<1>5. CASE StartTurn \/ LoadRaises \/ StartNowhere \/ LateCellDraws
  BY <1>4, <1>5 DEF StartTurn, LoadRaises, StartNowhere, LateCellDraws
<1>6. CASE Editing
  <2>1. /\ pc = "tool" /\ Titles(mem') = Titles(mem) /\ PersistMeta(mem')
    BY <1>6, EditingFacts
  <2>2. /\ \/ meta' = Whole(mem') /\ pc' = "md"
           \/ meta' \in {meta, Torn} /\ pc' = "error"
        /\ UNCHANGED <<md, paper, blank, gate, cut>>
    BY <2>1 DEF PersistMeta, Write, WriteFails, Raise
  <2>3. ~ blank => Titles(mem') = Titles(paper)
    BY <1>1, <2>1 DEF PaperFiles
  <2>4. QED
    BY <1>1, <1>2, <2>1, <2>2, <2>3 DEF PaperIsKept, MdIsOfMeta, SectionsSurvive
<1>7. CASE PersistMd
  <2>1. /\ pc = "md" /\ UNCHANGED <<meta, paper, blank, gate>>
        /\ md' = Whole(RenderMeta(mem)) \/ cut'
    BY <1>7 DEF PersistMd, Write
  <2>2. meta.of = mem
    BY <1>1, <1>2, <2>1 DEF PaperFiles
  <2>3. QED
    BY <1>1, <1>2, <2>1, <2>2 DEF PaperIsKept, MdIsOfMeta, SectionsSurvive
<1>8. CASE Crash
  BY <1>1, <1>8 DEF Crash, TurnIsOver, PaperIsKept, MdIsOfMeta, SectionsSurvive
<1>9. CASE SessionDone \/ SessionError
  BY <1>4, <1>9 DEF SessionDone, SessionError, Close, TurnIsOver
<1>10. CASE EmitFails
  BY <1>4, <1>10 DEF EmitFails, TurnIsOver
<1>11. CASE Ask \/ AskFails \/ AskRaises \/ Finish
  BY <1>4, <1>11 DEF Ask, AskFails, AskRaises, Finish
<1>12. CASE Refuse \/ ReadPaper \/ CellsAreDone \/ KernelRaises \/ EditConstantHalfDone
  BY <1>4, <1>12 DEF Refuse, ReadPaper, CellsAreDone, KernelRaises, EditConstantHalfDone, Calls
<1>13. CASE RecompilePdf
  BY <1>4, <1>13 DEF RecompilePdf, Calls
<1>14. CASE Executing
  BY <1>4, <1>14, ExecutingFacts DEF PersistNotebook
<1>15. CASE AtWork
  BY <1>4, <1>15, AtWorkFacts
<1>16. QED
  BY <1>3, <1>5, <1>6, <1>7, <1>8, <1>9, <1>10, <1>11, <1>12, <1>13, <1>14, <1>15,
     NextSplits DEF TurnSteps
-----------------------------------------------------------------------------
(* Types.                                                                  *)

LEMMA TypeStep == IInv /\ Next => TypeOK'
<1> SUFFICES ASSUME IInv, Next PROVE TypeOK'
  OBVIOUS
<1>1. TypeOK /\ Calling
  BY DEF IInv
<1>2. {md.is, meta.is, pdf.is, notebook.is}' \subseteq {"missing", "torn", "whole"}
  <2>1. File(md') /\ File(meta') /\ File(pdf')
    BY PaperFilesStep DEF PaperFiles
  <2>2. File(notebook')
    BY NotebookFilesStep DEF NotebookFiles
  <2>3. /\ md'.is \in {"missing", "torn", "whole"} /\ meta'.is \in {"missing", "torn", "whole"}
        /\ pdf'.is \in {"missing", "torn", "whole"}
        /\ notebook'.is \in {"missing", "torn", "whole"}
    BY <2>1, <2>2, FileFacts
  <2>4. QED
    BY <2>3
<1>3. Fault => faults' \in 0..MaxFaults
  <2>1. faults \in 0..MaxFaults
    BY <1>1 DEF TypeOK
  <2>2. QED
    BY <2>1, GateAssumption DEF Fault
<1> USE <1>2
<1>4. CASE GateStep /\ UNCHANGED editorVars
  <2>1. gate' \in {"audit", "check", "revise", "ship", "meta", "export", "announce", "ended"}
    BY <1>4 DEF GateStep, Audit, CheckCancel, Revise, ReviseFails, WritePaper, WriteMeta,
                Export, ExportFails, Announce, PipelineStops, GateGoesOn, GateEnds
  <2>2. paper' \in Drafts /\ draft' \in Drafts /\ faults' \in 0..MaxFaults
    BY <1>4, GateFiles
  <2>3. QED
    BY <1>1, <1>4, <2>1, <2>2 DEF TypeOK
<1>5. turns \in 0..Len(MaxIterations) /\ Len(MaxIterations) \in Nat /\ iter \in Nat
  <2>1. turns \in 0..Len(MaxIterations) /\ iter \in Nat
    BY <1>1 DEF TypeOK
  <2>2. Len(MaxIterations) \in Nat
    BY EditorAssumption
  <2>3. QED
    BY <2>1, <2>2
<1>6. CASE StartTurn \/ LoadRaises \/ StartNowhere
  <2>1. /\ turns' = turns + 1 /\ turns < Len(MaxIterations) /\ iter' \in {0, iter}
        /\ UNCHANGED <<gateVars, faults, files, newer, late>> /\ pc' \in {pc, "ask", "error"}
        /\ <<stage, said>>' \in {<<stage, said>>, <<"none", {}>>}
        /\ upset' \in {{}, {"load"}, {"no run directory"}}
    BY <1>6 DEF StartTurn, LoadRaises, StartNowhere
  <2>2. turns' \in 0..Len(MaxIterations) /\ 1..turns \subseteq 1..turns' /\ iter' \in Nat
    <3>1. turns' = turns + 1 /\ turns < Len(MaxIterations) /\ iter' \in {0, iter}
      BY <2>1
    <3>2. iter' \in Nat
      BY <1>5, <3>1
    <3>3. QED
      BY <1>5, <3>1, <3>2
  <2>3. \A cell \in late' : cell.turn \in 1 .. turns' /\ cell.draws \in Plots
    BY <1>1, <2>1, <2>2 DEF TypeOK
  <2>4. QED
    BY <1>1, <2>1, <2>2, <2>3 DEF TypeOK
<1>7. CASE LateCellDraws
  <2>1. PICK cell \in late : Draw({cell.draws})
    BY <1>7 DEF LateCellDraws
  <2>2. cell.draws \in Plots
    BY <1>1 DEF TypeOK
  <2>3. QED
    BY <1>1, <1>7, <2>1, <2>2 DEF LateCellDraws, Draw, TypeOK
\* The steps of a turn: nothing but these variables is typed here.
<1>8. ASSUME TurnSteps, faults' \in 0..MaxFaults, iter' \in Nat,
             pc' \in {"idle", "ask", "tool", "md", "run", "finish", "announce", "error"},
             files' = files, newer' \in {newer, {}}, late' \in {late, {}},
             stage' \in {stage, "ok", "failed"},
             said' \subseteq said \cup {"done", "error"},
             upset' \subseteq upset \cup {"call", "tool", "emit", "crash"}
      PROVE  TypeOK'
  <2>1. UNCHANGED <<gateVars, turns>>
    BY <1>8, TurnFrame
  <2>2. QED
    BY <1>1, <1>8, <2>1 DEF TypeOK
<1>9. CASE Ask
  <2>1. iter' \in Nat
    BY <1>5, <1>9 DEF Ask
  <2>2. faults \in 0..MaxFaults
    BY <1>1 DEF TypeOK
  <2>3. QED
    BY <1>8, <1>9, <2>1, <2>2 DEF Ask, TurnSteps
<1>10. faults \in 0..MaxFaults /\ 0 \in Nat
  BY <1>1 DEF TypeOK
<1> USE <1>3, <1>5, <1>8, <1>10
<1>11. CASE AskFails \/ AskRaises \/ Finish
  BY <1>11 DEF AskFails, AskRaises, Finish, TurnSteps
<1>12. CASE SessionDone \/ SessionError
  BY <1>12 DEF SessionDone, SessionError, Close, TurnIsOver, TurnSteps
<1>13. CASE Crash
  BY <1>13 DEF Crash, TurnIsOver, TurnSteps
<1>14. CASE EmitFails
  BY <1>14 DEF EmitFails, TurnIsOver, TurnSteps
<1>15. CASE Refuse \/ ReadPaper \/ CellsAreDone \/ EditConstantHalfDone
  BY <1>15 DEF Refuse, ReadPaper, CellsAreDone, EditConstantHalfDone, PatchOnly, Answer, Raise,
            Write, TurnSteps
<1>16. CASE KernelRaises
  BY <1>16 DEF KernelRaises, Raise, TurnSteps
<1>17. CASE PersistMd \/ RecompilePdf
  BY <1>17 DEF PersistMd, RecompilePdf, Answer, Raise, Write, WriteFails, TurnSteps
<1>18. CASE Editing
  BY <1>18, EditingFacts DEF PersistMeta, Raise, Write, WriteFails, TurnSteps
<1>19. CASE Executing
  BY <1>19, ExecutingFacts DEF PersistNotebook, Raise, Write, WriteFails, TurnSteps
<1>20. CASE AtWork
  <2>1. UNCHANGED <<gateVars, pc, turns, iter, stage, said>>
    BY <1>20, AtWorkFacts
  <2>2. /\ Figures \subseteq files' /\ newer' \subseteq files' /\ files' \subseteq Plots
        /\ \A cell \in late' : cell.turn \in 1 .. turns /\ cell.draws \in Plots
        /\ faults' \in 0..MaxFaults
        /\ upset' \subseteq
             {"no run directory", "load", "call", "tool", "emit", "channel", "crash"}
    BY <1>1, <1>20, AtWorkFacts DEF TypeOK
  <2>3. QED
    BY <1>1, <2>1, <2>2 DEF TypeOK
<1>21. QED
  BY <1>4, <1>6, <1>7, <1>9, <1>11, <1>12, <1>13, <1>14, <1>15, <1>16, <1>17, <1>18,
     <1>19, <1>20, NextSplits DEF TurnSteps

-----------------------------------------------------------------------------
LEMMA NextHolds == IInv /\ [Next]_vars => IInv'
<1> SUFFICES ASSUME IInv, [Next]_vars PROVE IInv'
  OBVIOUS
<1>1. CASE Next
  BY <1>1, TypeStep, GateOrderStep, PaperFilesStep, NotebookFilesStep, ExecutedStep,
     CallingStep, ClosingStep, PaperIsKeptStep, OkIsTrueStep, ClosedStep
     DEF IInv, ToldAsItIs
<1>2. CASE UNCHANGED vars
  <2> USE <1>2 DEF vars
  <2>1. TypeOK'
    BY DEF IInv, TypeOK
  <2>2. GateOrder'
    BY DEF IInv, GateOrder, Needed, Findings
  <2>3. PaperFiles' /\ NotebookFiles'
    BY DEF IInv, PaperFiles, NotebookFiles
  <2>4. PaperIsKept' /\ ToldAsItIs'
    BY DEF IInv, PaperIsKept, MdIsOfMeta, SectionsSurvive, ToldAsItIs, OkIsTrue,
           ClosedAsItEnded
  <2>5. Executed'
    BY DEF IInv, Executed
  <2>6. Closing'
    BY DEF IInv, Closing
  <2>7. Calling'
    BY DEF IInv, Calling
  <2>8. QED
    BY <2>1, <2>2, <2>3, <2>4, <2>5, <2>6, <2>7 DEF IInv
<1>3. QED
  BY <1>1, <1>2

\* The parts together are an inductive invariant.
THEOREM InvHolds == Spec => []IInv
BY InitHolds, NextHolds, PTL DEF Spec

\* Every variable keeps its type: whatever the turns do, the figures shipped
\* are still files of the run directory.
THEOREM TypeCorrect == Spec => []TypeOK
<1>1. IInv => TypeOK
  BY DEF IInv
<1>2. QED
  BY <1>1, InvHolds, PTL

\* A paper with a finding the writer could fix is written to the run directory
\* only after the writer was asked, one without is not touched, whatever the
\* checks find and whichever step of the gate fails.
THEOREM GateIsKept == Spec => []GateAsksTheWriter
<1>1. IInv => GateAsksTheWriter
  <2>1. ASSUME GateOrder PROVE GateAsksTheWriter
    <3>1. \A c : Whole(c).of = c
      BY WholeFacts
    <3>2. QED
      BY <2>1, <3>1 DEF GateOrder, Needed, GateAsksTheWriter
  <2>2. QED
    BY <2>1 DEF IInv
<1>2. QED
  BY <1>1, InvHolds, PTL

\* paper.md and paper.meta.json hold one paper, with the sections shipped,
\* through any number of turns and edits, unless a write was cut short between
\* the two or a turn wrote over a meta file it could not read.
THEOREM PaperIsOne == Spec => []PaperIsKept
<1>1. IInv => PaperIsKept
  BY DEF IInv
<1>2. QED
  BY <1>1, InvHolds, PTL

\* A tool that reports success did what it says, and a turn closes with the
\* event that tells how it ended.
THEOREM ChatIsTold == Spec => []ToldAsItIs
<1>1. IInv => ToldAsItIs
  BY DEF IInv
<1>2. QED
  BY <1>1, InvHolds, PTL
=============================================================================
