------------------------------ MODULE Passages ------------------------------
(***************************************************************************)
(* What the brain makes of one transcript and of the stances read out of    *)
(* it: the passages it is cut into, the rows they become, and what a        *)
(* question about an asset gets back.  A text is a sequence of characters:  *)
(* a letter is a positive number, the rest are named below.  Positions are  *)
(* counted from 0, as the code counts them.                                 *)
(***************************************************************************)
EXTENDS Integers, Sequences, FiniteSets, SequencesExt, FiniteSetsExt

CONSTANTS
  Size,          \* characters to a passage, at most
  Overlap,       \* characters each shares with the one before
  Canonical(_),  \* the label an asset is known under
  StaleAfter     \* days a view of each horizon stays current

Space   == 0
Newline == -1
Stop    == -2

At(text, i)   == text[i + 1]
IsSpace(c)    == c \in {Space, Newline}
IsBlank(text) == \A i \in DOMAIN text : IsSpace(text[i])

-----------------------------------------------------------------------------
(* Cutting a transcript into passages. *)

Lookback == Size \div 6
MinChunk == Max({1, Size - Lookback})

\* Just past the last line end or sentence end before a cut, or -1.
SentenceBoundary(text, cut) ==
  LET ends(p) == \/ At(text, p) = Newline
                 \/ At(text, p) = Stop /\ p < cut - 1 /\ At(text, p + 1) = Space
      found == {p \in Max({0, cut - Lookback})..(cut - 1) : ends(p)}
  IN IF found = {} THEN -1
     ELSE IF At(text, Max(found)) = Newline THEN Max(found) + 1 ELSE Max(found) + 2

\* A boundary is honoured when what it leaves is still nearly a whole window.
ChunkEnd(text, start) ==
  LET cut      == Min({start + Size, Len(text)})
      boundary == SentenceBoundary(text, cut)
  IN IF cut < Len(text) /\ boundary >= start + MinChunk THEN boundary ELSE cut

\* One turn of the loop; at = Len(text) ends it.
NextChunk(text, walk) ==
  LET start  == walk.at
      end    == ChunkEnd(text, start)
      words  == {p \in start..(end - 1) : ~IsSpace(At(text, p))}
      chunk  == [start |-> Min(words), end |-> Max(words) + 1]
      again  == walk.chunks # <<>> /\ chunk.start <= Last(walk.chunks).start
                                   /\ chunk.end <= Last(walk.chunks).end
      onward == IF end >= Len(text) THEN Len(text) ELSE Max({end - Overlap, start + 1})
  IN IF words = {} THEN [walk EXCEPT !.at = end]
     ELSE IF again THEN [walk EXCEPT !.at = onward]
     ELSE [at |-> onward, chunks |-> Append(walk.chunks, chunk)]

ChunkTranscript(text) ==
  LET turn(walk, k) == IF walk.at >= Len(text) THEN walk ELSE NextChunk(text, walk)
  IN IF IsBlank(text) THEN <<>>
     ELSE FoldLeft(turn, [at |-> 0, chunks |-> <<>>], [k \in DOMAIN text |-> k]).chunks

\* A passage's id is its words with the space between them evened out.
ChunkId(text, chunk) ==
  LET body == SubSeq(text, chunk.start + 1, chunk.end)
      even == [i \in DOMAIN body |-> IF IsSpace(body[i]) THEN Space ELSE body[i]]
      join(sofar, c) == IF c = Space /\ Last(sofar) = Space THEN sofar ELSE Append(sofar, c)
  IN FoldLeft(join, <<Head(even)>>, Tail(even))

PassageIds(text) ==
  LET chunks == ChunkTranscript(text)
  IN {ChunkId(text, chunks[k]) : k \in DOMAIN chunks}

-----------------------------------------------------------------------------
(* The rows of the index. *)

\* The newest of the three files a transcript's rows are made from.
\* Mutation: the stance file is not one of them.
FingerprintNoStance(stamp) == Max({stamp.text, stamp.card})

Fingerprint(stamp) == Max({stamp.text, stamp.card, stamp.stance})

\* No stance file and no stance are one thing to the filter: no assets.
AssetsColumn(stances) == {Canonical(s.asset) : s \in stances}

\* Passages of the same words have one id, and are one row.
RowsOf(doc, passages, card, stances) ==
  {[doc |-> doc, id |-> id, person |-> card.person, published |-> card.published,
    assets |-> AssetsColumn(stances)] : id \in passages}

\* What a filtered search looks among.  An empty column is not yet read, not
\* about nothing; "any" leaves a filter off.
Candidate(row, person, since, asset) ==
  /\ person = "any" \/ row.person = person
  /\ since = 0 \/ row.published >= since
  /\ asset = "any" \/ row.assets = {} \/ asset \in row.assets

\* The k best of them, by the score each has.
Search(rows, score, k, person, since, asset) ==
  LET pool == {r \in rows : Candidate(r, person, since, asset)}
      better(r) == {q \in pool : score[q] > score[r]}
  IN {r \in pool : Cardinality(better(r)) < k}

-----------------------------------------------------------------------------
(* What the roster says of an asset.  A stance is [id, person, asset,        *)
(* horizon, lean, published, ref]; published 0 is undated.                   *)

ViewKey(s) == <<s.person, Canonical(s.asset), s.horizon>>

Newer(s, t) == s.published > t.published \/ (s.published = t.published /\ s.id > t.id)

\* One current view to a person, asset and horizon, and the one before it;
\* what has no date can be nobody's earlier view and stands alone.
FoldViews(stances) ==
  LET dated  == {s \in stances : s.published # 0}
      rivals(s) == {t \in dated : ViewKey(t) = ViewKey(s)}
      older(s)  == {t \in rivals(s) : Newer(s, t)}
      newest == {s \in dated : \A t \in rivals(s) : t = s \/ Newer(s, t)}
      previous(s) == {t \in older(s) : \A u \in older(s) : u = t \/ Newer(t, u)}
  IN {[current |-> s, previous |-> previous(s), restated |-> Cardinality(older(s))] :
        s \in newest}
     \cup {[current |-> s, previous |-> {}, restated |-> 0] : s \in stances \ dated}

Flipped(view) == \E t \in view.previous : t.lean # view.current.lean

\* Who holds each lean: a person once to a lean, however many horizons.
SummarizeSplit(folded, lean) ==
  {f.current.person : f \in {f \in folded : f.current.lean = lean}}

\* The same person's newest view of an earlier day, if that day had one lean
\* and the person is one speaker: a singleton, or empty when there is none.
Prior(s, stances, members) ==
  LET earlier == {t \in stances : t.published # 0 /\ ViewKey(t) = ViewKey(s)
                                   /\ t.published < s.published}
      newest  == Max({t.published : t \in earlier})
      leans   == {t.lean : t \in {t \in earlier : t.published = newest}}
  IN IF s.published = 0 \/ s.person \in members \/ earlier = {} THEN {}
     ELSE IF Cardinality(leans) > 1 THEN {}
     ELSE {[lean |-> lean, published |-> newest] : lean \in leans}

\* The stances a question is about, folded, with the passages that bear on it:
\* those of a transcript whose stance is shown come first.
Retrieve(stances, rows, score, k, asset, person, since) ==
  LET selected == {s \in stances : /\ asset = "any" \/ Canonical(s.asset) = Canonical(asset)
                                   /\ person = "any" \/ s.person = person
                                   /\ since = 0 \/ s.published >= since}
      folded == FoldViews(selected)
      hits   == Search(rows, score, k, person, since,
                       IF asset = "any" THEN "any" ELSE Canonical(asset))
      shown  == {f.current.ref : f \in folded}
  IN [folded |-> folded, changed |-> {f \in folded : Flipped(f)},
      corroborating |-> {h \in hits : h.doc \in shown},
      other |-> {h \in hits : h.doc \notin shown}]

\* A view is stale by its horizon's measure; an undated one always is.
IsStale(published, horizon, today) ==
  published = 0 \/ today - published > StaleAfter[horizon]

\* The assets a question names, in order: at each place the longest name of up
\* to three words, no word read twice.
ParseAssets(tokens, names) ==
  LET phrase(i, span) == SubSeq(tokens, i, i + span - 1)
      starts(span) == {i \in DOMAIN tokens : i + span - 1 <= Len(tokens)}
      scan[n \in 0..(3 * Len(tokens))] ==
        IF n = 0 THEN [taken |-> {}, found |-> {}]
        ELSE LET span == 3 - ((n - 1) \div Len(tokens))
                 i    == 1 + ((n - 1) % Len(tokens))
                 b    == scan[n - 1]
             IN IF /\ i \in starts(span)
                   /\ (i..(i + span - 1)) \cap b.taken = {}
                   /\ phrase(i, span) \in DOMAIN names
                THEN [taken |-> b.taken \cup (i..(i + span - 1)),
                      found |-> b.found \cup {[at |-> i, asset |-> names[phrase(i, span)]]}]
                ELSE b
      found == scan[3 * Len(tokens)].found
      first == {f \in found : \A g \in found : g.asset = f.asset => f.at <= g.at}
      order == SetToSortSeq(first, LAMBDA f, g : f.at < g.at)
  IN [k \in DOMAIN order |-> order[k].asset]

\* Two tries at prose; none leaves the structured answer standing.
Synthesize(replies) ==
  LET good == {i \in DOMAIN replies : i <= 2 /\ replies[i] # ""}
  IN IF good = {} THEN "unavailable" ELSE replies[Min(good)]

\* What brain answers, with its exit code.
Ask(tokens, names, named, stances, rows, score, k, replies) ==
  LET parsed == IF named # "none" THEN <<named>> ELSE ParseAssets(tokens, names)
  IN IF stances = {} THEN [code |-> 1, view |-> {}, prose |-> "none"]
     ELSE IF parsed = <<>> THEN [code |-> 2, view |-> {}, prose |-> "none"]
     ELSE LET view == Retrieve(stances, rows, score, k, parsed[1], "any", 0)
          IN [code |-> 0, view |-> {view},
              prose |-> IF view.folded = {} THEN "none" ELSE Synthesize(replies)]

-----------------------------------------------------------------------------
(* Reading a transcript with the model.  A reply is [came, list, rows]:       *)
(* whether there was one, whether it holds a list, and the list's rows, each  *)
(* sound or not and saying something.                                         *)

Sound(reply) == {r.says : r \in {r \in reply.rows : r.sound}}

\* For theses a reply serves if its list is empty or keeps something.
Serves(reply) == reply.came /\ reply.list /\ (reply.rows = {} \/ Sound(reply) # {})

\* Two tries; the first that serves, without the rows that did not validate.
ExtractTheses(replies) ==
  LET good == {i \in DOMAIN replies : i <= 2 /\ Serves(replies[i])}
  IN IF good = {} THEN [ok |-> FALSE, kept |-> {}]
     ELSE [ok |-> TRUE, kept |-> Sound(replies[Min(good)])]

\* For stances any reply serves: no list, or nothing sound in it, is no stance.
ExtractStances(replies) ==
  LET good == {i \in DOMAIN replies : i <= 2 /\ replies[i].came}
  IN IF good = {} THEN [ok |-> FALSE, kept |-> {}]
     ELSE [ok |-> TRUE, kept |-> IF replies[Min(good)].list THEN Sound(replies[Min(good)]) ELSE {}]
=============================================================================
