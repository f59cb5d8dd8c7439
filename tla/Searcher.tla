------------------------------- MODULE Searcher -------------------------------
(***************************************************************************)
(* The literature of a paper, from agents/searcher.py to what the writer   *)
(* is shown of it: the queries, the sources that are searched side by side *)
(* and the web search that may have to step in (tools/), the merge, the    *)
(* choice the model makes, the full texts that are fetched side by side    *)
(* (tools/pdf.py) and shortened (compactor.py), a revision of the critic,  *)
(* and the block agents/writer.py builds.                                  *)
(*                                                                         *)
(* A paper is what identifies it.  A DOI is a pair of its letters and      *)
(* their case, a URL one of its page and the rest that a server ignores.   *)
(***************************************************************************)
EXTENDS Integers, FiniteSets, FiniteSetsExt, SequencesExt

CONSTANTS
    Words,          \* what may be searched for
    Analyses,       \* what the analyzer may hand over
    Refinements,    \* lists of queries the model may make of them
    Rewrites,       \* lists of paths a revision may write; 0 is no text of a paper
    Hits,           \* Hits[source][query]: the papers it has on the query
    Threshold,      \* fallback_threshold
    TopN,           \* full texts that are fetched and may be listed, 3 in the code
    MaxChosen,      \* papers the model keeps, 15 in the code
    MaxFailures,    \* max_consecutive_failures, 3 in the code
    MaxRevisions, MaxSearchFaults

Scholarly == {"arxiv", "openalex", "crossref"}
Web == {"tavily", "web"}
Sources == Scholarly \cup Web
None == <<"none">>

\* What each source's parser can tell of a paper: arXiv has no DOI, the others
\* no arXiv id, and a paper with a DOI has the URL doi.org gives it.
ArxivPaper(paper) == paper.arxiv # None /\ paper.doi = None
OpenAlexWork(paper) == paper.arxiv = None /\ (paper.doi # None => paper.url[1] = "doi")
CrossrefItem(paper) == paper.arxiv = None /\ (paper.doi # None => paper.url[1] = "doi")
TavilyHit(paper) == paper.arxiv = None /\ paper.doi = None
WebHit(paper) == paper.arxiv = None /\ paper.doi = None

AllHits(source) == UNION {ToSet(Hits[source][query]) : query \in DOMAIN Hits[source]}

Analysis ==
    [approaches : Seq([name : Words, methods : Seq(Words \cup {"library"})]),
     questions : Seq(Words), data : Seq(Words), chinese : BOOLEAN]

ASSUME SearcherAssumption ==
    /\ {"problem", "chinese"} \subseteq Words
    /\ Analyses \subseteq Analysis /\ Refinements \subseteq Seq(Words)
    /\ Rewrites \subseteq Seq(0 .. TopN)
    /\ DOMAIN Hits = Sources
    /\ \A source \in Sources :
          /\ DOMAIN Hits[source] = Words
          /\ \A word \in Words : Hits[source][word] \in Seq(AllHits(source))
    /\ \A paper \in AllHits("arxiv") : ArxivPaper(paper)
    /\ \A paper \in AllHits("openalex") : OpenAlexWork(paper)
    /\ \A paper \in AllHits("crossref") : CrossrefItem(paper)
    /\ \A paper \in AllHits("tavily") : TavilyHit(paper)
    /\ \A paper \in AllHits("web") : WebHit(paper)
    /\ {Threshold, TopN, MaxChosen, MaxFailures, MaxRevisions, MaxSearchFaults} \subseteq Nat

VARIABLES
    phase, queries,
    config,         \* the SearchConfig and the settings, as far as they decide
    running, found, \* sources at work, what each has returned
    unique,         \* the papers handed to the model
    findings,       \* SearchFindings: papers and the numbers of their files
    fetch, landed,  \* how each fetch stands, those with a text as they finished
    disk,           \* papers/NN.md
    todo, failures, \* files to be shortened, the breaker's count
    revisions, revised,     \* of the findings: asked for; did one change them?
    shown,          \* the block the writer is shown
    searchFaults

searchVars == <<queries, config, running, found, unique>>
fetchVars == <<fetch, landed, disk>>
compactVars == <<todo, failures>>
reviewVars == <<revisions, revised, shown>>
searcherVars == <<phase, searchVars, findings, fetchVars, compactVars, reviewVars, searchFaults>>

NoPapers == [scholarly |-> <<>>, web |-> <<>>]
NoFindings == [papers |-> <<>>, paths |-> <<>>]
Nothing == [source \in Sources |-> <<>>]
Missing == [is |-> "missing"]
Torn == [is |-> "torn"]
Other == [is |-> "other"]
Whole(paper, length) == [is |-> "whole", of |-> paper, length |-> length]

-----------------------------------------------------------------------------
(* Queries.                                                                *)

First(n, seq) == SubSeq(seq, 1, Min({n, Len(seq)}))
\* A query that comes twice is searched twice.
KeepAll(seq) == seq

\* The entries at those places, in their order.
At(places, seq) ==
    LET kept[n \in 0 .. Len(seq)] ==
            IF n = 0 THEN <<>>
            ELSE IF n \in places THEN Append(kept[n - 1], seq[n]) ELSE kept[n - 1]
    IN  kept[Len(seq)]

\* list(dict.fromkeys(...)): each entry where it comes first.
Dedupe(seq) == At({i \in DOMAIN seq : \A j \in 1 .. i - 1 : seq[j] # seq[i]}, seq)

\* Names and methods of two approaches, without the names of a library, and
\* two sub-questions; data only if there is none of these, the problem's own
\* words only if there is nothing.  The Chinese query comes last, and the list
\* is cut after five.
BuildQueries(analysis) ==
    LET ofApproach(a) ==
            <<a.name>> \o At({i \in DOMAIN a.methods : a.methods[i] # "library"},
                             First(2, a.methods))
        terms == FlattenSeq([i \in DOMAIN First(2, analysis.approaches) |->
                                ofApproach(analysis.approaches[i])])
                    \o First(2, analysis.questions)
        some == IF terms # <<>> THEN terms ELSE First(2, analysis.data)
        raw == IF some # <<>> THEN some ELSE <<"problem">>
    IN  First(5, Dedupe(IF analysis.chinese THEN Append(raw, "chinese") ELSE raw))

-----------------------------------------------------------------------------
(* Papers.                                                                 *)

Lower(doi) == doi[1]
NormalizeUrl(url) == url[1]

Papers == UNION {AllHits(source) : source \in Sources}

ScholarKeys ==
    [paper \in Papers |->
        {<<"url", paper.url>>}
            \cup (IF paper.arxiv = None THEN {} ELSE {<<"arxiv", paper.arxiv>>})
            \cup (IF paper.doi = None THEN {} ELSE {<<"doi", Lower(paper.doi)>>})]
WebKeys == [paper \in Papers |-> {<<"page", NormalizeUrl(paper.url)>>}]

\* One after the other: a paper is taken unless it shares a key with one that
\* was taken.  The keys of those that are not taken are not remembered.
TakeUnique(papers, keys) ==
    LET taken[n \in 0 .. Len(papers)] ==
            IF n = 0 THEN [seen |-> {}, papers |-> <<>>]
            ELSE LET before == taken[n - 1] IN
                 IF keys[papers[n]] \cap before.seen = {}
                 THEN [seen |-> before.seen \cup keys[papers[n]],
                       papers |-> Append(before.papers, papers[n])]
                 ELSE before
    IN  taken[Len(papers)].papers

\* The tavily and web papers, the ones of the fallback included, share `seen`.
UniqueScholarly == TakeUnique(found["arxiv"] \o found["openalex"] \o found["crossref"],
                              ScholarKeys)
UniqueWeb == TakeUnique(found["tavily"] \o found["web"], WebKeys)

\* find_pdf_url: an arXiv id or a DOI leads to a file, nothing else does.
Resolvable(paper) ==
    paper.arxiv # None \/ paper.doi # None \/ NormalizeUrl(paper.url) = "doi"

-----------------------------------------------------------------------------

\* The resolved configuration.  Without a key tavily is demoted to the web.
Configs ==
    {[primary |-> primary, web |-> web, dir |-> dir] :
        primary \in {"tavily", "web", "none"}, web \in BOOLEAN, dir \in BOOLEAN}

SearchInit ==
    /\ phase = "refine"
    /\ queries \in {BuildQueries(analysis) : analysis \in Analyses}
    /\ config \in Configs
    /\ running = {} /\ found = Nothing /\ unique = NoPapers
    /\ findings = NoFindings
    /\ fetch = <<>> /\ landed = <<>> /\ disk = [n \in 1 .. TopN |-> Missing]
    /\ todo = <<>> /\ failures = 0
    /\ revisions = 0 /\ revised = FALSE /\ shown = <<>>
    /\ searchFaults = 0

\* What only the search needed is forgotten.
SearchIsOver ==
    /\ queries' = <<>> /\ found' = Nothing /\ unique' = NoPapers
    /\ config' = [config EXCEPT !.primary = "none", !.web = FALSE]

Fault == searchFaults < MaxSearchFaults /\ searchFaults' = searchFaults + 1

\* An emit, or a stream of the model outside of _refine_queries and the
\* compactor, raises; the findings could not be parsed twice; the directory of
\* the texts cannot be made.
StageRaises ==
    /\ phase \in {"refine", "gather", "fallback", "synthesize", "compact"}
    /\ Fault
    /\ phase' = "failed"
    /\ running' = {} /\ SearchIsOver
    /\ UNCHANGED <<findings, fetchVars, compactVars, reviewVars>>

\* The model's queries, or the raw ones if it fails in whatever way.
RefineQueries ==
    /\ phase = "refine" /\ phase' = "gather"
    /\ \E refined \in Refinements \cup {<<>>} :
          queries' = IF refined = <<>> THEN queries ELSE First(6, Dedupe(refined))
    /\ running' = Scholarly \cup
          ({config.primary} \cap (IF config.web THEN Web ELSE {"tavily"}))
    /\ UNCHANGED <<config, found, unique, findings, fetchVars, compactVars, reviewVars,
                   searchFaults>>

\* A source is back, with what it found for those queries that went well, after
\* retries or not: none if it is disabled or failed altogether.
Returns(source) ==
    /\ source \in running
    /\ running' = running \ {source}
    /\ \E answered \in SUBSET ToSet(queries) :
          found' = [found EXCEPT ![source] =
                       FlattenSeq([i \in DOMAIN queries |->
                           IF queries[i] \in answered THEN Hits[source][queries[i]]
                                                      ELSE <<>>])]
    /\ UNCHANGED <<phase, queries, config, unique, findings, fetchVars, compactVars,
                   reviewVars, searchFaults>>

ArxivReturns == Returns("arxiv")
OpenAlexReturns == Returns("openalex")
CrossrefReturns == Returns("crossref")
TavilyReturns == Returns("tavily")
WebReturns == Returns("web")

\* Only tavily has something to fall back to.
TooFew ==
    /\ config.primary = "tavily" /\ config.web
    /\ Len(TakeUnique(found["tavily"], WebKeys)) < Threshold

\* While there are too few, not if.
FallBackAgain ==
    /\ phase \in {"gather", "fallback"} /\ running = {}
    /\ TooFew
    /\ phase' = "fallback" /\ running' = {"web"}
    /\ UNCHANGED <<queries, config, found, unique, findings, fetchVars, compactVars,
                   reviewVars, searchFaults>>

FallBack ==
    /\ phase = "gather" /\ running = {}
    /\ TooFew
    /\ phase' = "fallback" /\ running' = {"web"}
    /\ UNCHANGED <<queries, config, found, unique, findings, fetchVars, compactVars,
                   reviewVars, searchFaults>>

\* The papers of the fallback are compared among themselves only.
MergeApart ==
    /\ running = {}
    /\ phase = "fallback" \/ (phase = "gather" /\ ~TooFew)
    /\ unique' = [scholarly |-> UniqueScholarly,
                  web |-> TakeUnique(found["tavily"], WebKeys)
                              \o TakeUnique(found["web"], WebKeys)]
    /\ phase' = "synthesize"
    /\ UNCHANGED <<queries, config, running, found, findings, fetchVars, compactVars,
                   reviewVars, searchFaults>>

Merge ==
    /\ running = {}
    /\ phase = "fallback" \/ (phase = "gather" /\ ~TooFew)
    /\ unique' = [scholarly |-> UniqueScholarly, web |-> UniqueWeb]
    /\ phase' = "synthesize"
    /\ UNCHANGED <<queries, config, running, found, findings, fetchVars, compactVars,
                   reviewVars, searchFaults>>

Selections(papers, max) ==
    UNION {{s \in [1 .. n -> ToSet(papers)] : IsInjective(s)} : n \in 0 .. max}

\* The model keeps some of the papers, in the order it likes; it is not asked
\* if there are none.
Synthesize ==
    /\ phase = "synthesize"
    /\ \E papers \in Selections(unique.scholarly \o unique.web, MaxChosen) :
          /\ findings' = [papers |-> papers, paths |-> <<>>]
          /\ IF papers # <<>> /\ config.dir
             THEN /\ phase' = "enrich"
                  /\ fetch' = [i \in DOMAIN First(TopN, papers) |-> "at work"]
             ELSE phase' = "returned" /\ UNCHANGED fetch
    /\ SearchIsOver
    /\ UNCHANGED <<running, landed, disk, compactVars, reviewVars, searchFaults>>

-----------------------------------------------------------------------------
(* Full texts.  A fetch goes on even when the stage has failed meanwhile.  *)

TextFetched(i) ==
    /\ fetch[i] = "at work" /\ Resolvable(findings.papers[i])
    /\ fetch' = [fetch EXCEPT ![i] = "text"]
    /\ landed' = Append(landed, i)
    /\ \E length \in {"short", "long"} :
          disk' = [disk EXCEPT ![i] = Whole(findings.papers[i], length)]
    /\ UNCHANGED <<phase, searchVars, findings, compactVars, reviewVars, searchFaults>>

NoTextFetched(i) ==
    /\ fetch[i] = "at work"
    /\ fetch' = [fetch EXCEPT ![i] = "none"]
    /\ UNCHANGED <<phase, searchVars, findings, landed, disk, compactVars, reviewVars, searchFaults>>

\* The text cannot be written: gather() raises, and so does the stage.
WriteRaises(i) ==
    /\ fetch[i] = "at work" /\ Resolvable(findings.papers[i])
    /\ Fault
    /\ fetch' = [fetch EXCEPT ![i] = "none"]
    /\ disk' \in {disk, [disk EXCEPT ![i] = Torn]}
    /\ phase' = "failed"
    /\ UNCHANGED <<searchVars, findings, landed, compactVars, reviewVars>>

\* The paths in the order in which the texts were there.
EnrichedAsLanded ==
    /\ phase = "enrich" /\ "at work" \notin ToSet(fetch)
    /\ todo' = landed /\ findings' = [findings EXCEPT !.paths = landed]
    /\ phase' = "compact"
    /\ UNCHANGED <<searchVars, fetchVars, failures, reviewVars, searchFaults>>

\* Back in the order of the papers; the papers without a text leave no gap.
Enriched ==
    /\ phase = "enrich" /\ "at work" \notin ToSet(fetch)
    /\ todo' = At({i \in DOMAIN fetch : fetch[i] = "text"}, [i \in DOMAIN fetch |-> i])
    /\ findings' = [findings EXCEPT !.paths = todo']
    /\ phase' = "compact"
    /\ UNCHANGED <<searchVars, fetchVars, failures, reviewVars, searchFaults>>

\* A file at a time.  It is left alone if it is short, cannot be read, the
\* breaker is open, or the model's text is of no use.
LeaveAsItIs ==
    /\ phase = "compact" /\ todo # <<>>
    /\ todo' = Tail(todo)
    /\ failures' \in IF disk[Head(todo)].length = "long" /\ failures < MaxFailures
                     THEN {failures, failures + 1}
                     ELSE {failures}
    /\ UNCHANGED <<phase, searchVars, findings, fetchVars, reviewVars, searchFaults>>

ShouldCompact ==
    /\ phase = "compact" /\ todo # <<>>
    /\ disk[Head(todo)].length = "long" /\ failures < MaxFailures

Compact ==
    /\ ShouldCompact
    /\ disk' = [disk EXCEPT ![Head(todo)].length = "short"]
    /\ failures' = 0 /\ todo' = Tail(todo)
    /\ UNCHANGED <<phase, searchVars, findings, fetch, landed, reviewVars, searchFaults>>

\* Writing the shorter text fails.
CompactRaises ==
    /\ ShouldCompact
    /\ Fault
    /\ disk' \in {disk, [disk EXCEPT ![Head(todo)] = Torn]}
    /\ phase' = "failed"
    /\ UNCHANGED <<searchVars, findings, fetch, landed, compactVars, reviewVars>>

Output ==
    /\ phase = "compact" /\ todo = <<>>
    /\ phase' = "returned"
    /\ UNCHANGED <<searchVars, findings, fetchVars, compactVars, reviewVars, searchFaults>>

-----------------------------------------------------------------------------
(* What becomes of the findings.                                           *)

\* The model writes them anew: it may leave papers out and let them change
\* places (none it makes up is among them here), and it may write any paths.
ReviseFindings ==
    /\ phase = "returned" /\ revisions < MaxRevisions
    /\ revisions' = revisions + 1
    /\ \E papers \in Selections(findings.papers, Len(findings.papers)),
          paths \in Rewrites \cup {findings.paths} :
          findings' = [papers |-> papers, paths |-> paths]
    /\ revised' = (revised \/ findings' # findings)
    /\ UNCHANGED <<phase, searchVars, fetchVars, compactVars, shown, searchFaults>>

RevisionFails ==
    /\ phase = "returned" /\ revisions < MaxRevisions
    /\ revisions' = revisions + 1
    /\ UNCHANGED <<phase, searchVars, findings, fetchVars, compactVars, revised, shown,
                   searchFaults>>

\* _build_fulltexts_block: the k-th path is announced as that of the k-th
\* paper.  A file that is not there or cannot be read is left out.
TextAt(path) == IF path = 0 THEN Other ELSE disk[path]

BuildFulltextsBlock ==
    /\ phase = "returned" /\ phase' = "written"
    /\ \E read \in SUBSET {k \in DOMAIN findings.paths :
                            TextAt(findings.paths[k]).is # "missing"} :
          shown' = At(read, [k \in DOMAIN findings.paths |->
                                [label |-> k, text |-> TextAt(findings.paths[k])]])
    /\ UNCHANGED <<searchVars, findings, fetchVars, compactVars, revisions, revised, searchFaults>>

-----------------------------------------------------------------------------

Fetch == \E i \in DOMAIN fetch : TextFetched(i) \/ NoTextFetched(i) \/ WriteRaises(i)

Stage ==
    \/ RefineQueries
    \/ ArxivReturns \/ OpenAlexReturns \/ CrossrefReturns \/ TavilyReturns \/ WebReturns
    \/ FallBack \/ Merge \/ Synthesize
    \/ Enriched \/ LeaveAsItIs \/ Compact \/ Output

SearchNext ==
    \/ Stage \/ Fetch
    \/ StageRaises \/ CompactRaises
    \/ ReviseFindings \/ RevisionFails \/ BuildFulltextsBlock

SearchSpec == SearchInit /\ [][SearchNext]_searcherVars

\* Every request has a timeout: sources, the model and fetches come back.
FairSearchSpec == SearchSpec /\ WF_searcherVars(Stage) /\ WF_searcherVars(Fetch)

-----------------------------------------------------------------------------
(* Properties.                                                             *)

SearchTypeOK ==
    /\ phase \in {"refine", "gather", "fallback", "synthesize", "enrich", "compact",
               "returned", "written", "failed"}
    /\ Len(queries) \in 0 .. 6 /\ IsInjective(queries)
    /\ phase \in {"refine", "gather", "fallback"} => queries # <<>>
    /\ running \subseteq Sources /\ DOMAIN found = Sources
    /\ Len(findings.papers) <= MaxChosen
    /\ ToSet(findings.paths) \subseteq 0 .. TopN
    /\ DOMAIN fetch \subseteq 1 .. TopN /\ ToSet(landed) \subseteq DOMAIN fetch
    /\ ToSet(fetch) \subseteq {"at work", "text", "none"}
    /\ \A n \in 1 .. TopN : disk[n].is \in {"missing", "torn", "whole"}
    /\ failures \in 0 .. MaxFailures
    /\ revisions \in 0 .. MaxRevisions /\ searchFaults \in 0 .. MaxSearchFaults

SharesKey(papers, paper, keys) ==
    \E i \in DOMAIN papers : keys[papers[i]] \cap keys[paper] # {}
Distinct(papers, keys) ==
    \A i, j \in DOMAIN papers : i # j => keys[papers[i]] \cap keys[papers[j]] = {}

\* searcher.py:403-407 and :444-446: what the model is handed holds no paper
\* twice, across sources, queries and the fallback hop, and for each hit of
\* every source it has a paper with a key of the hit.
KeptOnce ==
    phase = "synthesize" =>
        /\ Distinct(unique.scholarly, ScholarKeys) /\ Distinct(unique.web, WebKeys)
        /\ \A source \in Scholarly : \A i \in DOMAIN found[source] :
              SharesKey(unique.scholarly, found[source][i], ScholarKeys)
        /\ \A source \in Web : \A i \in DOMAIN found[source] :
              SharesKey(unique.web, found[source][i], WebKeys)

\* No text the writer is shown is a torn one, and each is that of the paper it
\* is announced as, unless a paper before it had none, or a revision wrote
\* other papers or other paths than there were.
TextsAreOfTheirPapers ==
    phase = "written" =>
        \A i \in DOMAIN shown :
            LET k == shown[i].label IN
            /\ shown[i].text.is = "whole" \/ (revised /\ shown[i].text = Other)
            /\ ~revised /\ (\A j \in 1 .. k : fetch[j] = "text")
                  => shown[i].text.of = findings.papers[k]

\* The stage returns or fails, whatever the sources and the model do.
SearchEnds == phase = "refine" ~> phase \in {"returned", "failed"}

\* writer.py:192-194: the text is shown as "Paper k (cite as findings.papers[k-1])".
CitedAsShown ==
    phase = "written" =>
        \A i \in DOMAIN shown :
            shown[i].label \in DOMAIN findings.papers
              /\ shown[i].text # Other
              /\ shown[i].text.of = findings.papers[shown[i].label]
=============================================================================
