------------------------------- MODULE Queue -------------------------------
(***************************************************************************)
(* oracle.queue: which of the qualified candidates a sitting is shown.     *)
(* The best few by score always, then one drawn from each stratum of the   *)
(* rest, shown in the order collapse left them.                            *)
(***************************************************************************)
EXTENDS Integers, FiniteSetsExt

CONSTANT HeadSize  \* rows always shown; 5 in the code

ASSUME QueueConstants == HeadSize \in Nat \ {0}

\* A population is a set of positions in collapse's order; how many of it come
\* before p, best score first and equal scores in their order.
Rank(p, pop, score) ==
  Cardinality({q \in pop : score[q] > score[p] \/ (score[q] = score[p] /\ q < p)})

\* k runs of n ranks, as equal in length as whole numbers allow.
Strata(n, k) == [i \in 1 .. k |-> (((i - 1) * n) \div k) .. ((i * n) \div k - 1)]

\* The member of a run that today's draw falls on.
Drawn(run, draw) == Min(run) + (draw % Cardinality(run))

\* The positions shown, each with the band it is shown in.
Rows(pop, band) == [p \in pop |-> band]

\* limit 0 stands for --limit 0, no cap.  draw is the day's random stream.
BuildQueue(pop, score, limit, stratified, draw) ==
  LET total  == Cardinality(pop)
      rank   == [p \in pop |-> Rank(p, pop, score)]
      strata == Strata(total - HeadSize, limit - HeadSize)
      drawn  == {HeadSize + Drawn(strata[i], draw[i]) : i \in DOMAIN strata}
      heads  == {p \in pop : rank[p] < HeadSize}
      tail   == {p \in pop : rank[p] \in drawn}
  IN CASE limit = 0 \/ total <= limit -> [mode |-> "full", rows |-> Rows(pop, "full")]
       [] total > limit /\ limit > 0 /\ (~stratified \/ limit <= HeadSize) ->
            [mode |-> "top",
             rows |-> Rows({p \in pop : Cardinality({q \in pop : q < p}) < limit}, "top")]
       [] total > limit /\ stratified /\ limit > HeadSize ->
            [mode |-> "stratified",
             rows |-> [p \in heads \cup tail |-> IF p \in heads THEN "head" ELSE "tail"]]
=============================================================================
