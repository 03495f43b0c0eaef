------------------------------ MODULE Search ------------------------------
(***************************************************************************)
(* The other tool on a session's view: search_concepts of the server, with *)
(* the keyword ranking of the index (okf_mcp.index) and, behind it, the    *)
(* concepts nearest to the query in the embedding store.  The tool asks    *)
(* for the current index again and again while it works, and with hot      *)
(* reload each time may give it another generation.                        *)
(*                                                                         *)
(* Of a document only its score for the query and whether it has the type  *)
(* and a tag asked for are kept; a missing store is one without vectors.   *)
(***************************************************************************)
EXTENDS Reading

CONSTANTS
  Sorted,       \* the concept ids in their order
  MaxScore,     \* bound: scores of documents
  Searches,     \* searches to consider
  Unasked

Match == [score : 0..MaxScore, fits : BOOLEAN]
Documents == [Concepts -> Match]
Indexes == [view : SUBSET Concepts, documents : Documents]

ASSUME SortedAssumption ==
  IsFiniteSet(Concepts) /\ Sorted \in SetToSeqs(Concepts)
ASSUME MaxScoreAssumption == MaxScore \in Nat
ASSUME SearchesAssumption ==
  \A s \in Searches :
    /\ s.documents \in Documents /\ s.limit \in Nat
    /\ DOMAIN s.similarity \subseteq Concepts \* what the store has a vector of
    /\ \A c \in DOMAIN s.similarity : s.similarity[c] \in Int
    /\ s.reloads \subseteq Indexes
ASSUME UnaskedAssumption == Unasked \notin Searches

VARIABLES
  tool,         \* the tool that is called
  search,       \* the search, once it is asked
  read,         \* the generations the call has read, the one in memory last
  candidates,   \* concepts of top_k that the loop has not come to
  hits          \* the answer so far, each with the generation it was read from

searchVars == <<search, read, candidates, hits>>
toolVars == <<readingVars, tool, searchVars>>

-----------------------------------------------------------------------------
SearchInit ==
  /\ ReadingInit
  /\ tool \in {"follow_links", "search_concepts"}
  /\ search = Unasked
  /\ read = <<>>
  /\ candidates = {}
  /\ hits = <<>>

Answering(from, to) ==
  /\ phase = from /\ phase' = to
  /\ UNCHANGED <<vars, bundle, loadVars, tool>>

Fits(g, c) == c \in g.view /\ g.documents[c].fits
Hits(ids, g) == [n \in DOMAIN ids |-> [id |-> ids[n], from |-> g]]

\* OkfIndex.search: what fits and has a score, the best score first, then by
\* id.
Position(c) == CHOOSE n \in DOMAIN Sorted : Sorted[n] = c
Scored(g) == {c \in Concepts : Fits(g, c) /\ g.documents[c].score > 0}
Ahead(g, c, d) ==
  LET score(e) == g.documents[e].score
  IN  \/ score(c) > score(d)
      \/ score(c) = score(d) /\ Position(c) < Position(d)
Ranked(g) ==
  {ids \in SetToSeqs(Scored(g)) :
     \A k, n \in DOMAIN ids : k < n => Ahead(g, ids[k], ids[n])}
FirstOf(ids, limit) ==
  SubSeq(ids, 1, IF Len(ids) < limit THEN Len(ids) ELSE limit)

\* The keyword hits of a search.
Rank ==
  /\ tool = "search_concepts"
  /\ Answering("ready", "ranked")
  /\ search' \in Searches
  /\ read' = <<[view |-> visible, documents |-> search'.documents]>>
  /\ \E ids \in Ranked(read'[1]) : hits' = Hits(FirstOf(ids, search'.limit), 1)
  /\ UNCHANGED candidates

\* _current_index: the index in memory, or that of a new generation.
CurrentIndex ==
  \/ UNCHANGED read
  \/ \E g \in search.reloads \ Range(read) : read' = Append(read, g)
Current == Last(read')

\* Mutation of Nearest: top_k for the limit, before the facets are looked at.
NearestUpToLimit ==
  LET of == DOMAIN search.similarity \cap Current.view
      nearer(c) == {d \in of : search.similarity[d] > search.similarity[c]}
  IN  {c \in of : Cardinality(nearer(c)) < search.limit}

\* top_k over the ids of the view, as many as there are.
Nearest == DOMAIN search.similarity \cap Current.view

\* Not enough hits: the store is asked as well.
More == Len(hits) < search.limit
Augment ==
  /\ Answering("ranked", "merge")
  /\ More
  /\ CurrentIndex
  /\ candidates' = Nearest
  /\ UNCHANGED <<search, hits>>

\* The next candidate, of those left the most similar to the query.
Candidate(c) ==
  /\ Answering("merge", "merge")
  /\ More
  /\ \A d \in candidates : search.similarity[d] <= search.similarity[c]
  /\ candidates' = candidates \ {c}
  /\ UNCHANGED search

Seen(c) == \E n \in DOMAIN hits : hits[n].id = c

\* Mutation of Fetch: the facets are not looked at.
FetchAnything(c) ==
  /\ Candidate(c)
  /\ ~Seen(c)
  /\ CurrentIndex
  /\ hits' = IF c \in Current.view THEN hits \o Hits(<<c>>, Len(read'))
                                   ELSE hits

\* It is a hit already, or it is fetched; one that is gone from the index by
\* now, or does not fit, is left out.
Skip(c) == Candidate(c) /\ Seen(c) /\ UNCHANGED <<read, hits>>
Fetch(c) ==
  /\ Candidate(c)
  /\ ~Seen(c)
  /\ CurrentIndex
  /\ hits' = IF Fits(Current, c) THEN hits \o Hits(<<c>>, Len(read'))
                                  ELSE hits

Answer ==
  /\ Answering("ranked", "answered") \/ Answering("merge", "answered")
  /\ ~More \/ (phase = "merge" /\ candidates = {})
  /\ UNCHANGED searchVars

\* A build in the middle of the call raises, and the call with it.
Raise ==
  /\ Answering("ranked", "failed") \/ Answering("merge", "failed")
  /\ More /\ search.reloads \ Range(read) # {}
  /\ UNCHANGED searchVars

SearchConcepts ==
  \/ Rank \/ Augment \/ Answer \/ Raise
  \/ \E c \in candidates : Skip(c) \/ Fetch(c)

SearchNext ==
  \/ Load /\ UNCHANGED <<tool, searchVars>>
  \/ /\ Call \/ Follow
     /\ tool = "follow_links"
     /\ UNCHANGED <<tool, searchVars>>
  \/ SearchConcepts

\* A load, and a call, go on.
SearchFairness == WF_toolVars(SearchNext)
SearchSpec == SearchInit /\ [][SearchNext]_toolVars /\ SearchFairness

-----------------------------------------------------------------------------
\* Loading a bundle comes to an end (the climb stops at the root), and so does
\* the walk, however the links run in circles, or the search, however often
\* the generation changes under it.
CallEnds ==
  <>(phase \in {"refused", "answered", "failed"} \/ (phase = "walk" /\ Done))

\* c comes before d for the keywords, in the generation they were looked for.
Matches(c) == Fits(read[1], c) /\ read[1].documents[c].score > 0
Outranks(c, d) == Matches(c) /\ (Matches(d) => Ahead(read[1], c, d))
Before(c, n) == \E k \in 1..n - 1 : hits[k].id = c

\* search_concepts: "keyword hits keep today's order unchanged, then" come the
\* others; no concept twice, none beyond the limit, and none that the session
\* may not see or the facets exclude in the generation it was read from, whose
\* turn never comes back after a newer one.
AnswerHolds ==
  phase \in {"ranked", "merge", "answered"} =>
    /\ Len(hits) <= search.limit
    /\ \A n \in DOMAIN hits :
         /\ Fits(read[hits[n].from], hits[n].id)
         /\ ~Before(hits[n].id, n)
         /\ \A k \in 1..n : hits[k].from <= hits[n].from
         /\ \A c \in Concepts : Outranks(c, hits[n].id) => Before(c, n)

\* An answer read from one generation leaves nothing out: what fits and is
\* found, by keyword or by vector, is there unless the limit was reached, and
\* then nothing that is nearer to the query was left for something less near.
AnswerIsComplete ==
  phase = "answered" /\ Len(read) = 1 =>
    \A c \in Concepts :
      Fits(read[1], c) /\ ~Seen(c)
        /\ (Matches(c) \/ c \in DOMAIN search.similarity)
        => /\ Len(hits) = search.limit
           /\ \A n \in DOMAIN hits :
                \/ Matches(hits[n].id)
                \/ search.similarity[hits[n].id] >= search.similarity[c]
=============================================================================
