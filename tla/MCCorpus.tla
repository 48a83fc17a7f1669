------------------------------ MODULE MCCorpus ------------------------------
(* Small worlds, each with one thing that goes wrong in it: captions that are *)
(* late or never come, posts that are late or nobody's, a document the model  *)
(* cannot read.                                                               *)
EXTENDS Corpus

MCLower(name) == name
MCCanonical(asset) == IF asset = "Gold" THEN "GOLD" ELSE asset
MCStaleAfter == [swing |-> 2, macro |-> 5]

Channel(id, platform, access) ==
  [id |-> id, platform |-> platform, access |-> access, tabs |-> {"unset"}]

Person(name, status, channels) ==
  [name |-> name, aliases |-> {}, status |-> status, channels |-> channels,
   max_videos |-> 2, max_age_days |-> 4]

People == <<
  Person("ann", "active", {Channel("annTube", "youtube", "ok"), Channel("annX", "x", "ok")}),
  Person("bob", "active", {Channel("bobTube", "youtube", "excluded")}),
  Person("cat", "dormant", {Channel("catTube", "youtube", "ok")})>>

Video(published, captions, refusal) ==
  [channel |-> "annTube", tab |-> "videos", published |-> published, captions |-> captions,
   refusal |-> refusal, airs |-> published, removed |-> FALSE, dated |-> TRUE]

Post(handle, day, seen) == [handle |-> handle, day |-> day, seen |-> seen]

V1 == <<"v1", 0>>
V2 == <<"v2", 0>>
X(day) == <<"annX", day>>

World(videos, listed, posts, digest, unreadable) ==
  [people |-> People, digest |-> digest, videos |-> videos, listed |-> listed, posts |-> posts,
   unreadable |-> unreadable, paths |-> <<V1, V2, X(1), X(2), X(3)>>]

Tube(videos) == World(videos, <<"v2", "v1">>, <<>>, {}, {})

Late    == Tube([v1 |-> Video(1, 2, "no_captions"), v2 |-> Video(2, 0, "age_restricted")])
Slow    == Tube([v1 |-> Video(1, 3, "no_captions"),
                 v2 |-> [Video(1, 1, "unavailable") EXCEPT !.airs = 3]])
Odd     == Tube([v1 |-> [Video(1, 1, "no_captions") EXCEPT !.dated = FALSE],
                 v2 |-> [Video(1, 0, "unavailable") EXCEPT !.removed = TRUE]])
Posts   == World(<<>>, <<>>, [p1 |-> Post("annX", 1, 1), p2 |-> Post("annX", 1, 3),
                              p3 |-> Post("noX", 2, 2), p4 |-> Post("annX", 2, 3)],
                 {"annX", "noX"}, {})
Mixed   == World([v1 |-> Video(1, 1, "no_captions"), v2 |-> Video(2, 2, "no_captions")],
                 <<"v2", "v1">>, [p1 |-> Post("annX", 1, 2)], {"annX"}, {V2})

MCWorlds == {Late, Slow, Odd, Posts, Mixed}
MCAllDocs == {V1, V2, X(1), X(2), X(3)}

\* A video is three sentences; each post is a line.
Line(post) ==
  CASE post = "p1" -> <<11, 12, 13, Newline>>
    [] post = "p2" -> <<21, Space, 22, 23, Newline>>
    [] post = "p4" -> <<41, Stop, Space, 42, Newline>>

Words(doc, holds) ==
  IF doc[2] = 0 THEN <<1, 2, Space, 3, 4, Stop, Space, 5, 6>>
  ELSE FlattenSeq([k \in 1..3 |-> LET post == <<"p1", "p2", "p4">>[k]
                                  IN IF post \in holds THEN Line(post) ELSE <<>>])

Holdings(doc) ==
  CASE doc[2] = 0 -> {{doc[1]}}
    [] doc = X(1) -> SUBSET {"p1", "p2"} \ {{}}
    [] OTHER      -> {{"p4"}}

MCCut(doc, holds) ==
  CASE doc[2] = 0           -> {<<1, 2, Space, 3, 4, Stop>>, <<4, Stop, Space, 5, 6>>}
    [] holds = {"p1"}       -> {<<11, 12, 13>>}
    [] holds = {"p2"}       -> {<<21, Space, 22, 23>>}
    [] holds = {"p1", "p2"} -> {<<11, 12, 13, Space, 21>>, <<21, Space, 22, 23>>}
    [] holds = {"p4"}       -> {<<41, Stop, Space, 42>>}

ASSUME CutIsChunkTranscript ==
  \A doc \in {V1, V2, X(1), X(2)} : \A holds \in Holdings(doc) :
    MCCut(doc, holds) = PassageIds(Words(doc, holds))

MCSays(doc, holds) == {[asset |-> IF doc[2] = 0 THEN "BTC" ELSE "Gold"]}

-----------------------------------------------------------------------------
(* What the operators promise, over small inputs. *)

\* Every word of a transcript is in some passage, no passage is too long, and
\* they end in the order they start (brain.chunk.chunk_transcript).
ASSUME PassagesCoverTheText ==
  \A said \in [1..8 -> {1, Space, Stop}] :
    LET chunks == ChunkTranscript(said)
        within(p) == \E k \in DOMAIN chunks : p > chunks[k].start /\ p <= chunks[k].end
    IN /\ \A p \in DOMAIN said : IsSpace(said[p]) \/ within(p)
       /\ \A k \in DOMAIN chunks : chunks[k].end - chunks[k].start <= Size
       /\ \A k \in 2..Len(chunks) : chunks[k].end >= chunks[k - 1].end

Heard == [asset : {"Gold", "GOLD"}, lean : {"bull", "bear"}, published : 0..2]
HeardSets == {{[id |-> i, ref |-> i, person |-> "ann", horizon |-> "swing"] @@ said[i] :
                 i \in 1..3} : said \in [1..3 -> Heard]}

\* Every stance is counted in one view of the roster, and a view's earlier one
\* is what the per-document reading calls the prior, where that reading has one
\* (brain.retrieve.fold_stances, priors).
ASSUME ViewsAgreeWithPriors ==
  \A heard \in HeardSets :
    LET views == FoldViews(heard)
    IN /\ MapThenSumSet(LAMBDA v : 1 + v.restated, views) = Cardinality(heard)
       /\ \A v \in views : \A p \in Prior(v.current, heard, {}) :
            {t.published : t \in v.previous} = {p.published}
              => {t.lean : t \in v.previous} = {p.lean}

Channels == {[Channel("tube", "youtube", a) EXCEPT !.tabs = t] :
               a \in {"ok", "dormant", "excluded"}, t \in {{"unset"}, {"videos"}}}

\* A watchlist verify-roster passes is one the sweep can work: each channel it
\* will list has something on it (ingestion.verify.verify_roster,
\* ingestion.roster.active_targets).
ASSUME CleanWatchlistIsIngestible ==
  \A status \in {"active", "dormant"} : \A channels \in SUBSET Channels :
    \A counts \in [channels -> [{"videos"} -> 0..2] \cup {<<>>}] : \A newest \in {NoDay, 1, 8} :
      LET people == <<Person("ann", status, channels)>>
          probes == {Probe("ann", c, counts[c], newest) : c \in channels}
      IN ExitCode(people, probes, 8) = 0
           => \A t \in ActiveTargets(people) :
                \E c \in channels : TabsOf(c) = t.tabs /\ VideoCount(Probe("ann", c, counts[c], newest)) > 0

Names == (<<"bitcoin">> :> "BTC") @@ (<<"bitcoin", "cash">> :> "BCH") @@ (<<"btc">> :> "BTC")

\* An asset is found where its name stands and is not part of a longer one
\* (brain.question.parse_assets).
ASSUME LongestNameWins ==
  \A tokens \in UNION {[1..n -> {"bitcoin", "cash", "btc"}] : n \in 1..4} :
    LET found == ToSet(ParseAssets(tokens, Names))
        cash(i) == i < Len(tokens) /\ tokens[i] = "bitcoin" /\ tokens[i + 1] = "cash"
    IN /\ "BCH" \in found <=> \E i \in DOMAIN tokens : cash(i)
       /\ "BTC" \in found <=> \E i \in DOMAIN tokens : tokens[i] # "cash" /\ ~cash(i)

\* What a search with an asset leaves out is only what is known to be about
\* others: raising the count or dropping the filter never loses a passage
\* (brain.vector_store.search).
ASSUME UnreadPassagesAreSearched ==
  \A columns \in [1..3 -> SUBSET {"BTC", "GOLD"}] : \A k \in 1..3 :
    LET found == {[id |-> i, doc |-> i, person |-> "ann", published |-> i,
                   assets |-> columns[i]] : i \in 1..3}
        score == [r \in found |-> r.id]
        hits == Search(found, score, k, "any", 0, "BTC")
    IN /\ \A r \in found : r.assets = {} => r \in Search(found, score, 3, "any", 0, "BTC")
       /\ hits \subseteq Search(found, score, 3, "any", 0, "any")
       /\ Cardinality(hits) <= k
=============================================================================
