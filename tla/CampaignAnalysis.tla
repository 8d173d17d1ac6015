--------------------------- MODULE CampaignAnalysis ---------------------------
(***************************************************************************)
(* What an offline campaign finds (campaign.py, CampaignRunner.run up to    *)
(* its first file): each input that is there goes to its engine, in the     *)
(* order of the code, and the candidates are ranked together.  Afterwards a *)
(* caller may ask for bounded plans of them (planner.py).                   *)
(*                                                                          *)
(* Abstractions.  The candidates of the other engines (authorization,       *)
(* variants, mobile) are part of the input.  A missing input is the empty   *)
(* sequence, a given one a sequence of one.  The score of a candidate is    *)
(* that of its kind, on an operation or invariant with a sensitive name.    *)
(* The planner's scope policy is the set of targets it refuses.             *)
(***************************************************************************)
EXTENDS DriftEngine, ApiSequences, StateCollisions, SignalFusion

CONSTANTS
    Inputs,           \* inputs of the manifest
    KindScore,        \* score of the candidates of each kind
    MaxPlans,         \* BoundedBudget.max_plans
    MaxAsked          \* bound: plans asked for

Optional(documents) == documents = <<>> \/ documents = <<documents[1]>>

\* The kinds of candidates that the engines modelled here make.
Kinds ==
    {"authentication-removed", "weaker-security-alternative-added",
     "required-security-scheme-removed", "required-scope-removed",
     "new-sensitive-anonymous-operation", "security-scheme-definition-removed",
     "security-scheme-type-changed", "shared-invariant-collision"}

\* A score is a weighted mean of fractions, evidence is counted (models.py:79-87).
Scored(candidate) == candidate.score \in 0..1000 /\ candidate.evidence \in Nat

\* Documents are what the drift engine reads them as, and no other engine signs
\* its candidates as this one.
ASSUME InputsAssumption ==
    \A i \in Inputs :
        /\ Optional(i.before) /\ Optional(i.after)
        /\ \A n \in DOMAIN i.before : WellFormed(i.before[n])
        /\ \A n \in DOMAIN i.after : WellFormed(i.after[n])
        /\ \A s \in i.signals : s.engine # "contract-drift" /\ Scored(s)
        /\ IsFiniteSet(i.signals) /\ IsFiniteSet(DOMAIN i.transitions)

ASSUME LimitsAccepted == KindScore \in [Kinds -> 0..1000] /\ MaxPlans \in Nat

VARIABLES
    input,
    pc,
    sequences,
    candidates,
    ranked,
    plans,
    used,             \* BoundedBudget.used
    asked

vars == <<input, pc, sequences, candidates, ranked, plans, used, asked>>

DriftCandidate(f) == Candidate("contract-drift", f.kind, f.target, f.detail, KindScore[f.kind], 1, TRUE)

CollisionCandidate(c) ==
    Candidate("state-collision", "shared-invariant-collision",
              c[1].route \o " || " \o c[2].route,
              <<"shared-invariant-collision", c[1].resource_kind, c[1].invariant>>,
              KindScore["shared-invariant-collision"], 1, TRUE)

Init ==
    /\ input \in Inputs
    /\ pc = "openapi"
    /\ sequences = {}
    /\ candidates = input.signals
    /\ ranked = {}
    /\ plans = <<>> /\ used = 0 /\ asked = 0

\* Sequences of the current contract; the depth is checked first.
AnalyzeOpenApi ==
    /\ pc = "openapi"
    /\ IF input.openapi = <<>> THEN pc' = "drift" /\ UNCHANGED sequences
       ELSE IF input.depth \notin 2..6 THEN pc' = "raised" /\ UNCHANGED sequences
       ELSE pc' = "drift" /\ sequences' = ApiWalks(input.openapi[1], input.depth)
    /\ UNCHANGED <<input, candidates, ranked, plans, used, asked>>

\* Both versions or none.
AnalyzeDrift ==
    /\ pc = "drift"
    /\ IF Len(input.before) # Len(input.after) THEN pc' = "raised" /\ UNCHANGED candidates
       ELSE /\ pc' = "transitions"
            /\ candidates' = IF input.before = <<>> THEN candidates
                             ELSE candidates \cup {DriftCandidate(f) :
                                                      f \in Drift(input.before[1], input.after[1])}
    /\ UNCHANGED <<input, sequences, ranked, plans, used, asked>>

AnalyzeTransitions ==
    /\ pc = "transitions"
    /\ candidates' = candidates \cup {CollisionCandidate(c) : c \in Collisions(input.transitions)}
    /\ pc' = "rank"
    /\ UNCHANGED <<input, sequences, ranked, plans, used, asked>>

RankCandidates ==
    /\ pc = "rank"
    /\ ranked' = Rank(candidates)
    /\ pc' = "ranked"
    /\ UNCHANGED <<input, sequences, candidates, plans, used, asked>>

Plannable(candidate) ==
    /\ candidate.confident /\ candidate.evidence > 0
    /\ candidate.target \notin input.refused

\* A faulty PlanCandidate: the budget is charged before the scope is asked.
ReserveFirst(candidate) ==
    /\ pc = "ranked"
    /\ asked < MaxAsked
    /\ asked' = asked + 1
    /\ used' = IF used < MaxPlans THEN used + 1 ELSE used
    /\ plans' = IF Plannable(candidate) /\ used < MaxPlans THEN Append(plans, candidate) ELSE plans
    /\ UNCHANGED <<input, pc, sequences, candidates, ranked>>

\* Too little evidence, out of scope, or no budget left: it raises instead.
PlanCandidate(candidate) ==
    /\ pc = "ranked"
    /\ asked < MaxAsked
    /\ asked' = asked + 1
    /\ IF Plannable(candidate) /\ used < MaxPlans
       THEN used' = used + 1 /\ plans' = Append(plans, candidate)
       ELSE UNCHANGED <<used, plans>>
    /\ UNCHANGED <<input, pc, sequences, candidates, ranked>>

Next ==
    \/ AnalyzeOpenApi \/ AnalyzeDrift \/ AnalyzeTransitions \/ RankCandidates
    \/ \E r \in ranked : PlanCandidate(r.candidate)

Spec == Init /\ [][Next]_vars
-------------------------------------------------------------------------------
TypeOK ==
    /\ input \in Inputs
    /\ pc \in {"openapi", "drift", "transitions", "rank", "ranked", "raised"}
    /\ \A w \in sequences : Len(w) \in 2..input.depth
    /\ \A r \in ranked :
        /\ r.candidate \in candidates
        /\ r.priority \in r.candidate.score..1000
    /\ used \in 0..MaxPlans

\* A caller with these schemes and scopes gets past a security.
Admits(security, credential) ==
    \/ security = {}
    \/ \E r \in security : WeakerOrEqual(r, credential)

NoCredential == [s \in {} |-> {}]

Old(t) == EffectiveSecurity(input.before[1], t)
New(t) == EffectiveSecurity(input.after[1], t)

CommonOperations ==
    IF input.before = <<>> THEN {}
    ELSE DOMAIN input.before[1].operations \cap DOMAIN input.after[1].operations

Reported(t) == {r.candidate : r \in {r \in ranked :
    r.candidate.engine = "contract-drift" /\ r.candidate.target = t}}

(* An operation is reported to have lost its authentication exactly when a caller
   with nothing to show is let in now and was not before (drift.py:178-200). *)
LostAuthenticationIsReported ==
    pc = "ranked" =>
        \A t \in CommonOperations :
            (\E c \in Reported(t) : c.kind = "authentication-removed")
                <=> (Admits(New(t), NoCredential) /\ ~Admits(Old(t), NoCredential))

(* "Detect weakening OpenAPI authorization semantics without flattening OR/AND
   rules" (drift.py:171): when something less than what an alternative used to
   ask for is enough now, and was not before, the operation is reported
   (drift.py:270-338). *)
WeakeningIsReported ==
    pc = "ranked" =>
        \A t \in CommonOperations : \A b \in Old(t) :
            \A part \in {r \in New(t) : WeakerOrEqual(r, b)} :
                ~Admits(Old(t), part) => Reported(t) # {}

(* A report means that somebody gets in who did not, as long as the old
   alternatives did not already undercut one another (drift.py:281-287). *)
ReportsMeanAccess ==
    pc = "ranked" =>
        \A t \in CommonOperations :
            (\A a, b \in Old(t) : ~StrictlyWeaker(a, b)) =>
                \A c \in Reported(t) :
                    \E credential \in New(t) \cup {NoCredential} :
                        Admits(New(t), credential) /\ ~Admits(Old(t), credential)

(* The sequences are all chains of two to max_depth distinct operations in which
   each takes a field its predecessor gives, and nothing else: "RESTler-style
   producer/consumer sequences" (api_graph.py:101, 181-208). *)
SequencesAreTheChains ==
    pc = "ranked" /\ input.openapi # <<>> =>
        LET ops == input.openapi[1]
            Feeds(p, c) ==
                \E o1, o2 \in ops : o1.id = p /\ o2.id = c /\ Produces(o1) \cap o2.consumes # {}
        IN  sequences = {w \in UNION {[1..n -> Ids(ops)] : n \in 2..input.depth} :
                /\ \A i, j \in DOMAIN w : i # j => w[i] # w[j]
                /\ \A i \in 1..Len(w) - 1 : Feeds(w[i], w[i + 1])}

(* "Rewards independent evidence on one target" (fusion.py:28): a candidate never
   ranks lower because there is another one besides (fusion.py:30-55). *)
CompanyNeverLowers ==
    pc = "ranked" =>
        \A r \in ranked : \A other \in candidates \ {r.candidate} :
            r.priority >= Priority(r.candidate, candidates \ {other})

(* A plan that was refused costs nothing, and the budget bounds the ones that
   were made: the scope is asked before the budget (planner.py:40-48). *)
RefusedPlansCostNothing ==
    /\ used = Len(plans)
    /\ \A i \in DOMAIN plans : plans[i].target \notin input.refused
===============================================================================
