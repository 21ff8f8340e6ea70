------------------------------ MODULE Retrieval ------------------------------
(***************************************************************************)
(* Hybrid search over the deeplink catalog: two rankings of row ids, one   *)
(* by embedding and one by words, fused by weighted reciprocal ranks.  A   *)
(* ranking is a sequence of ids without repetition, best first.  What      *)
(* orders the ids inside a ranking (a cosine distance, a BM25 score) is    *)
(* not modelled; what fusion makes of two orders is.                       *)
(***************************************************************************)
EXTENDS Integers, Sequences, FiniteSets

CONSTANTS TopK,          \* how many candidates a search returns
          Fetch,         \* how many ids each ranking contributes
          RrfK,          \* rrf_k
          DenseWeight,   \* rrf_dense_weight, in tenths
          SparseWeight,  \* rrf_sparse_weight, in tenths
          Scale          \* a common multiple of the denominators of all ranks,
                         \* which makes every share of a score a whole number

ASSUME RetrievalAssumption ==
  /\ TopK \in Nat \ {0} /\ Fetch \in Nat \ {0} /\ RrfK \in Nat \ {0}
  /\ DenseWeight \in Nat /\ SparseWeight \in Nat
  /\ Scale \in Nat \ {0} /\ \A rank \in 1..Fetch : Scale % (RrfK + rank) = 0

Ranked(ranking) == {ranking[i] : i \in DOMAIN ranking}

\* The rankings of exactly these ids.
RankingsOf(ids) ==
  {r \in [1..Cardinality(ids) -> ids] : \A i, j \in DOMAIN r : i # j => r[i] # r[j]}

FirstOf(n, ranking) == IF Len(ranking) <= n THEN ranking ELSE SubSeq(ranking, 1, n)

RankOf(id, ranking) == CHOOSE i \in DOMAIN ranking : ranking[i] = id

\* Slip: an id one ranking does not know counts as if that ranking led with it.
ShareOrFirst(id, ranking, weight) ==
  weight * (Scale \div (RrfK + (IF id \in Ranked(ranking) THEN RankOf(id, ranking) ELSE 1)))

\* What a ranking contributes to the fused score of an id.
Share(id, ranking, weight) ==
  IF id \in Ranked(ranking) THEN weight * (Scale \div (RrfK + RankOf(id, ranking))) ELSE 0

Fused(id, dense, sparse) ==
  Share(id, dense, DenseWeight) + Share(id, sparse, SparseWeight)

\* Descending fused score, ascending id.
Precedes(a, b, dense, sparse) ==
  \/ Fused(a, dense, sparse) > Fused(b, dense, sparse)
  \/ Fused(a, dense, sparse) = Fused(b, dense, sparse) /\ a < b

\* The order of the fused scores.
FusedRanking(dense, sparse) ==
  CHOOSE r \in RankingsOf(Ranked(dense) \cup Ranked(sparse)) :
    \A i, j \in DOMAIN r : i < j => Precedes(r[i], r[j], dense, sparse)

\* The ids of the candidates, best first.
Proposed(dense, sparse) == FirstOf(TopK, FusedRanking(dense, sparse))
-----------------------------------------------------------------------------
\* Reference for the properties: one of the rankings has a above b.
Above(a, b, ranking) ==
  /\ a \in Ranked(ranking)
  /\ b \in Ranked(ranking) => RankOf(a, ranking) < RankOf(b, ranking)
=============================================================================
