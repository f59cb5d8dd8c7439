SPECIFICATION FairSpec
CONSTANTS
    Figures = {"f"}
    Questions = {"q"}
    MinReferences = 1
    Drafts <- MCDrafts
    MaxFaults = 1
    Plots = {"f", "g"}
    CoderCells <- MCCoderCells
    NewCells <- MCNewCells
    Constants = {"n"}
    Values = {1}
    NewTexts <- MCNewTexts
    Anchors <- MCAnchors
    NewTitles = {"s"}
    MaxIterations <- MCMaxIterations
INVARIANTS
    TypeOK
    GateAsksTheWriter
    PaperIsKept
    ToldAsItIs
PROPERTY
    TurnEnds
CHECK_DEADLOCK FALSE
