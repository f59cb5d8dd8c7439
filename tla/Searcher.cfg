SPECIFICATION FairSearchSpec
CONSTANTS
    Words <- MCWords
    Analyses <- MCAnalyses
    Refinements <- MCRefinements
    Rewrites <- MCRewrites
    Hits <- MCHits
    Threshold = 2
    TopN = 3
    MaxChosen = 3
    MaxFailures = 3
    MaxRevisions = 1
    MaxSearchFaults = 1
INVARIANTS
    SearchTypeOK
    KeptOnce
    TextsAreOfTheirPapers
PROPERTY
    SearchEnds
CHECK_DEADLOCK FALSE
