------------------------------ MODULE MCSearcher ------------------------------
(* A small instance: two papers of arXiv, one that two sources have under the
   same DOI, and two web pages, one of which both web sources have. *)
EXTENDS Searcher

Preprint(id) == [arxiv |-> <<id>>, doi |-> None, url |-> <<id, <<>>>>]
Work(case) == [arxiv |-> None, doi |-> <<"d", case>>, url |-> <<"doi", <<"d", case>>>>]
Page(name, tail) == [arxiv |-> None, doi |-> None, url |-> <<name, <<tail>>>>]

MCWords == {"q1", "q2", "problem", "chinese"}

MCHits ==
    [source \in Sources |-> [word \in MCWords |->
        CASE source = "arxiv" /\ word = "q1"                -> <<Preprint("a")>>
          [] source = "arxiv" /\ word = "q2"                -> <<Preprint("a"), Preprint("b")>>
          [] source = "openalex" /\ word \in {"q1", "problem"} -> <<Work("lower")>>
          [] source = "crossref" /\ word = "q2"             -> <<Work("upper")>>
          [] source = "tavily" /\ word = "q1"               -> <<Page("one", "")>>
          [] source = "web" /\ word \in {"q1", "chinese"}    ->
                 <<Page("one", "utm"), Page("two", "")>>
          [] OTHER                                           -> <<>>]]

\* A rich analysis, and one that has nothing to search for.
MCAnalyses ==
    {[approaches |-> <<[name |-> "q1", methods |-> <<"library", "q2">>]>>,
      questions |-> <<"q1">>, data |-> <<>>, chinese |-> FALSE],
     [approaches |-> <<>>, questions |-> <<>>, data |-> <<>>, chinese |-> TRUE]}

MCRefinements == {<<"q2", "q1", "q2">>}

\* A revision drops the paths, the first of them, or puts them the other way round.
MCRewrites == {<<>>, <<2>>, <<2, 1, 0>>}
=============================================================================
