----------------------------- MODULE SignalFusion -----------------------------
(***************************************************************************)
(* Ranking of candidates (fusion.py, SignalFusion).                         *)
(*                                                                          *)
(* Abstractions.  A candidate's id is its engine, kind, target and detail;  *)
(* candidates with one id are one candidate (the code keeps the last).      *)
(* Scores are in hundredths; targets are already normalized.                *)
(***************************************************************************)
EXTENDS Integers, FiniteSets, FiniteSetsExt

Candidate(engine, kind, target, detail, score, evidence, confident) ==
    [engine |-> engine, kind |-> kind, target |-> target, detail |-> detail,
     score |-> score, evidence |-> evidence, confident |-> confident]

Peers(candidate, candidates) == {c \in candidates : c.target = candidate.target}
Engines(peers) == {c.engine : c \in peers}

\* A faulty AtMost: no bound.
Unbounded(bound, n) == n

AtMost(bound, n) == IF n <= bound THEN n ELSE bound

\* A faulty EvidenceCount: the mean over the peers.
MeanEvidence(peers) == SumSet({c.evidence : c \in peers}) \div Cardinality(peers)

EvidenceCount(peers) == MapThenSumSet(LAMBDA c : c.evidence, peers)

Priority(candidate, candidates) ==
    LET peers == Peers(candidate, candidates)
        extra == AtMost(60, 12 * Max({0, EvidenceCount(peers) - 1}))
    IN  AtMost(1000, candidate.score + AtMost(120, 45 * (Cardinality(Engines(peers)) - 1)) + extra)

Ranked(candidate, candidates) ==
    [candidate |-> candidate,
     corroborating_engines |-> Engines(Peers(candidate, candidates)),
     target_signal_count |-> Cardinality(Peers(candidate, candidates)),
     priority |-> Priority(candidate, candidates)]

\* rank, without the order.
Rank(candidates) == {Ranked(c, candidates) : c \in candidates}
===============================================================================
