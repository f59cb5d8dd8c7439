SPECIFICATION SearchSpec
CONSTANTS
    Words <- MCWords
    Analyses <- MCAnalyses
    Refinements <- MCRefinements
    Rewrites <- MCRewrites
    Hits <- MCHits
    Threshold = 2
    TopN = 3
    MaxChosen = 3
    MaxFailures = 3
    MaxRevisions = 0
    MaxSearchFaults = 1
INVARIANT
    CitedAsShown
CHECK_DEADLOCK FALSE
