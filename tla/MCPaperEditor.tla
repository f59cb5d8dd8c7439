---------------------------- MODULE MCPaperEditor ----------------------------
(* A small instance: papers of one or two sections, a notebook of a constant,
   a figure drawn with it and a MATLAB cell. *)
EXTENDS PaperEditor

w == Word("w")
q == Word("q")
f == Placeholder("f")
ghost == Placeholder("x")

Section(body) == [title |-> "s", body |-> body]

MCDrafts ==
    {[abstract |-> <<w>>, sections |-> <<Section(<<q, f>>)>>, refs |-> <<"bracket">>],
     [abstract |-> <<q>>, sections |-> <<Section(<<w, ghost>>), Section(<<w>>)>>,
      refs |-> <<>>]}

CellOf(sets, needs, draws, lang) ==
    [sets |-> sets, val |-> 0, needs |-> needs, draws |-> draws, lang |-> lang]

MCCoderCells ==
    <<CellOf("n", {}, NoPlot, "python"), CellOf(NoName, {"n"}, "f", "python"),
      CellOf(NoName, {}, NoPlot, "matlab")>>
MCNewCells ==
    {CellOf(NoName, {}, "g", "python")}
MCNewTexts == {<<w, f>>}
MCMaxIterations == <<2, 1>>
MCAnchors == {w}
=============================================================================
