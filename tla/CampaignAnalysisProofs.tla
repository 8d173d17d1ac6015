------------------------ MODULE CampaignAnalysisProofs ------------------------
(***************************************************************************)
(* Theorems about CampaignAnalysis: what the drift engine reports against   *)
(* who is let in, and the budget of plans, for any documents.               *)
(***************************************************************************)
EXTENDS CampaignAnalysis, FiniteSetTheorems, WellFoundedInduction, SequenceTheorems, TLAPS

(* Getting past a security with nothing to show is what _secured rules out
   (drift.py:81-83). *)
LEMMA SecuredExcludesNobody ==
    ASSUME NEW security
    PROVE  Secured(security) <=> ~Admits(security, NoCredential)
<1>1. DOMAIN NoCredential = {}
  BY DEF NoCredential
<1>2. ASSUME NEW r PROVE WeakerOrEqual(r, NoCredential) <=> DOMAIN r = {}
  BY <1>1 DEF WeakerOrEqual
<1> QED
  BY <1>2 DEF Secured, Admits

(* Being weaker or equal is an order on requirements. *)
LEMMA WeakerIsReflexive ==
    ASSUME NEW r
    PROVE  WeakerOrEqual(r, r)
  BY DEF WeakerOrEqual

LEMMA WeakerIsTransitive ==
    ASSUME NEW a, NEW b, NEW c, WeakerOrEqual(a, b), WeakerOrEqual(b, c)
    PROVE  WeakerOrEqual(a, c)
  BY DEF WeakerOrEqual

LEMMA WeakerIsAntisymmetric ==
    ASSUME NEW a, NEW b, a = [s \in DOMAIN a |-> a[s]], b = [s \in DOMAIN b |-> b[s]],
           WeakerOrEqual(a, b), WeakerOrEqual(b, a)
    PROVE  a = b
<1>1. DOMAIN a = DOMAIN b
  BY DEF WeakerOrEqual
<1>2. \A s \in DOMAIN a : a[s] = b[s]
  BY <1>1 DEF WeakerOrEqual
<1> QED
  BY <1>1, <1>2

(* Of the findings of two documents, those about an operation of both come from
   the comparison of its two securities (drift.py:178-265). *)
LEMMA FindingsOfOperation ==
    ASSUME NEW before, NEW after, WellFormed(before), WellFormed(after),
           NEW target \in DOMAIN before.operations \cap DOMAIN after.operations,
           NEW f
    PROVE  f \in Drift(before, after) /\ f.target = target <=> f \in ChangedOperation(before, after, target)
<1>1. ASSUME NEW u, NEW g \in ChangedOperation(before, after, u) PROVE g.target = u
  BY <1>1 DEF ChangedOperation, WeakenedRequirements, Finding
<1>2. ASSUME NEW g \in NewOperations(before, after) PROVE g.target # target
  BY <1>2 DEF NewOperations, Finding
<1>3. ASSUME NEW g \in ChangedSchemes(before, after) PROVE g.target # target
  <2>1. ASSUME NEW kind, NEW s, NEW x, NEW y
        PROVE  SchemeFinding(kind, s, x, y).target = "components.securitySchemes"
    BY DEF SchemeFinding, Finding
  <2>2. \E kind, s, x, y : g = SchemeFinding(kind, s, x, y)
    BY <1>3 DEF ChangedSchemes
  <2>3. g.target = "components.securitySchemes"
    BY <2>1, <2>2
  <2> QED
    BY <2>3 DEF WellFormed
<1>4. f \in Drift(before, after) <=>
        \/ \E u \in DOMAIN before.operations \cap DOMAIN after.operations :
             f \in ChangedOperation(before, after, u)
        \/ f \in NewOperations(before, after)
        \/ f \in ChangedSchemes(before, after)
  <2>1. f \in ChangedOperations(before, after) <=>
          \E u \in DOMAIN before.operations \cap DOMAIN after.operations :
              f \in ChangedOperation(before, after, u)
    BY DEF ChangedOperations
  <2> QED
    BY <2>1 DEF Drift
<1> QED
  BY <1>1, <1>2, <1>3, <1>4

(* What the comparison of an operation finds (drift.py:178-208): nothing when
   it was open before, else its lost authentication, else what was weakened. *)
LEMMA LostAuthenticationFound ==
    ASSUME NEW before, NEW after, NEW t
    PROVE  (\E f \in ChangedOperation(before, after, t) : f.kind = "authentication-removed")
             <=> /\ Secured(EffectiveSecurity(before, t))
                 /\ ~Secured(EffectiveSecurity(after, t))
<1> DEFINE old == EffectiveSecurity(before, t)
           new == EffectiveSecurity(after, t)
<1>1. ASSUME NEW f \in WeakenedRequirements(t, old, new) PROVE f.kind # "authentication-removed"
  BY <1>1 DEF WeakenedRequirements, Weakening, Finding
<1> QED
  BY <1>1 DEF ChangedOperation, Finding

(* An alternative that asks for less than an old one did, and for which the old
   ones do not let in, is reported (drift.py:270-338). *)
LEMMA WeakeningFound ==
    ASSUME NEW before, NEW after, NEW t,
           NEW b \in EffectiveSecurity(before, t), NEW part \in EffectiveSecurity(after, t),
           WeakerOrEqual(part, b), ~Admits(EffectiveSecurity(before, t), part)
    PROVE  ChangedOperation(before, after, t) # {}
<1> DEFINE old == EffectiveSecurity(before, t)
           new == EffectiveSecurity(after, t)
<1>1. Secured(old)
  BY DEF Secured, Admits, WeakerOrEqual
<1>2. part \in new \ old
  BY WeakerIsReflexive DEF Admits
<1>3. b \in Baselines(old, part)
  BY <1>2 DEF Baselines, StrictlyWeaker
<1>4. WeakenedRequirements(t, old, new) # {}
  BY <1>2, <1>3 DEF WeakenedRequirements
<1> QED
  BY <1>1, <1>4 DEF ChangedOperation

(* A finding means that one of the new alternatives, or nothing at all, lets in
   now and did not, when the old alternatives do not undercut one another. *)
LEMMA FindingMeansAccess ==
    ASSUME NEW before, NEW after, NEW t,
           \A r \in EffectiveSecurity(before, t) : r = [s \in DOMAIN r |-> r[s]],
           \A r \in EffectiveSecurity(after, t) : r = [s \in DOMAIN r |-> r[s]],
           \A a, b \in EffectiveSecurity(before, t) : ~StrictlyWeaker(a, b),
           ChangedOperation(before, after, t) # {}
    PROVE  \E credential \in EffectiveSecurity(after, t) \cup {NoCredential} :
               /\ Admits(EffectiveSecurity(after, t), credential)
               /\ ~Admits(EffectiveSecurity(before, t), credential)
<1> DEFINE old == EffectiveSecurity(before, t)
           new == EffectiveSecurity(after, t)
<1>1. Secured(old)
  BY DEF ChangedOperation
<1>2. CASE ~Secured(new)
  BY <1>1, <1>2, SecuredExcludesNobody
<1>3. CASE Secured(new)
  <2>1. PICK c \in new \ old : Baselines(old, c) # {}
    BY <1>1, <1>3 DEF ChangedOperation, WeakenedRequirements
  <2>2. PICK b \in old : c # b /\ WeakerOrEqual(c, b)
    BY <2>1 DEF Baselines, StrictlyWeaker
  <2>3. Admits(new, c)
    BY <2>1, WeakerIsReflexive DEF Admits
  <2>4. ~Admits(old, c)
    <3>1. SUFFICES ASSUME NEW r \in old, WeakerOrEqual(r, c) PROVE FALSE
      BY <2>2 DEF Admits
    <3>2. WeakerOrEqual(r, b)
      BY <2>2, <3>1, WeakerIsTransitive
    <3>3. r = b
      BY <3>2 DEF StrictlyWeaker
    <3> QED
      BY <2>1, <2>2, <3>1, <3>3, WeakerIsAntisymmetric
  <2> QED
    BY <2>1, <2>3, <2>4
<1> QED
  BY <1>2, <1>3

-------------------------------------------------------------------------------
\* What the drift engine contributes.
OfDrift == {c \in candidates : c.engine = "contract-drift"}

Drifted ==
    IF input.before = <<>> THEN {}
    ELSE {DriftCandidate(f) : f \in Drift(input.before[1], input.after[1])}

DriftInv ==
    /\ input \in Inputs
    /\ pc \in {"openapi", "drift", "transitions", "rank", "ranked", "raised"}
    /\ pc \in {"openapi", "drift"} => OfDrift = {}
    /\ pc \in {"transitions", "rank", "ranked"} =>
          Len(input.before) = Len(input.after) /\ OfDrift = Drifted
    /\ pc = "ranked" => ranked = Rank(candidates)

LEMMA InitDrift == Init => DriftInv
  BY InputsAssumption DEF Init, DriftInv, OfDrift

(* The candidates of contract drift among the ranked ones are the drift of the
   two documents, whatever other engines contribute (campaign.py:131-190). *)
LEMMA NextDrift == DriftInv /\ [Next]_vars => DriftInv'
<1> SUFFICES ASSUME DriftInv, [Next]_vars PROVE DriftInv'
  OBVIOUS
<1> USE DEF DriftInv, OfDrift, Drifted
<1>1. CASE AnalyzeOpenApi
  BY <1>1 DEF AnalyzeOpenApi
<1>2. CASE AnalyzeDrift
  <2>1. CASE Len(input.before) # Len(input.after)
    BY <1>2, <2>1 DEF AnalyzeDrift
  <2>2. CASE Len(input.before) = Len(input.after)
    <3>1. ASSUME NEW f PROVE DriftCandidate(f).engine = "contract-drift"
      BY DEF DriftCandidate, Candidate
    <3>2. /\ pc = "drift" /\ pc' = "transitions"
          /\ UNCHANGED <<input, ranked>>
          /\ candidates' = candidates \cup Drifted
      BY <1>2, <2>2 DEF AnalyzeDrift
    <3>3. \A c \in Drifted : c.engine = "contract-drift"
      BY <3>1
    <3>4. OfDrift' = Drifted
      BY <3>2, <3>3
    <3>5. Drifted' = Drifted
      BY <3>2
    <3> QED
      BY <2>2, <3>2, <3>4, <3>5
  <2> QED
    BY <2>1, <2>2
<1>3. CASE AnalyzeTransitions
  <2>1. ASSUME NEW c PROVE CollisionCandidate(c).engine # "contract-drift"
    BY DEF CollisionCandidate, Candidate
  <2>2. OfDrift' = OfDrift
    BY <1>3, <2>1 DEF AnalyzeTransitions
  <2>3. Drifted' = Drifted
    BY <1>3 DEF AnalyzeTransitions
  <2> QED
    BY <1>3, <2>2, <2>3 DEF AnalyzeTransitions
<1>4. CASE RankCandidates
  BY <1>4 DEF RankCandidates
<1>5. ASSUME NEW candidate, PlanCandidate(candidate) PROVE DriftInv'
  BY <1>5 DEF PlanCandidate
<1>6. CASE UNCHANGED vars
  BY <1>6 DEF vars
<1> QED
  BY <1>1, <1>2, <1>3, <1>4, <1>5, <1>6 DEF Next

THEOREM DriftIsRanked == Spec => []DriftInv
  BY InitDrift, NextDrift, PTL DEF Spec

(* What is reported of an operation is what comparing its securities found. *)
LEMMA ReportedOfOperation ==
    ASSUME DriftInv, pc = "ranked", NEW t \in CommonOperations
    PROVE  /\ WellFormed(input.before[1]) /\ WellFormed(input.after[1])
           /\ t \in DOMAIN input.before[1].operations \cap DOMAIN input.after[1].operations
           /\ Reported(t) = {DriftCandidate(f) :
                               f \in ChangedOperation(input.before[1], input.after[1], t)}
<1> DEFINE before == input.before[1]
           after == input.after[1]
<1>1. input.before # <<>> /\ t \in DOMAIN before.operations \cap DOMAIN after.operations
  BY DEF CommonOperations
<1>2. WellFormed(before) /\ WellFormed(after)
  <2>1. /\ Optional(input.before) /\ Optional(input.after)
        /\ \A n \in DOMAIN input.before : WellFormed(input.before[n])
        /\ \A n \in DOMAIN input.after : WellFormed(input.after[n])
    BY InputsAssumption DEF DriftInv
  <2>2. input.before = <<input.before[1]>> /\ Len(input.before) = 1
    BY <1>1, <2>1 DEF Optional
  <2>3. input.after = <<input.after[1]>>
    BY <2>1, <2>2 DEF Optional, DriftInv
  <2>4. 1 \in DOMAIN input.before /\ 1 \in DOMAIN input.after
    BY <2>2, <2>3
  <2> QED
    BY <2>1, <2>4
<1>3. \A f : /\ DriftCandidate(f).engine = "contract-drift"
             /\ DriftCandidate(f).target = f.target
  BY DEF DriftCandidate, Candidate
<1>4. Reported(t) = {c \in OfDrift : c.target = t}
  <2>1. ranked = {Ranked(c, candidates) : c \in candidates}
    BY DEF DriftInv, Rank
  <2>2. \A c : Ranked(c, candidates).candidate = c
    BY DEF Ranked
  <2> QED
    BY <2>1, <2>2 DEF Reported, OfDrift
<1>5. OfDrift = {DriftCandidate(f) : f \in Drift(before, after)}
  BY <1>1 DEF DriftInv, Drifted
<1>6. \A f : f \in Drift(before, after) /\ f.target = t <=> f \in ChangedOperation(before, after, t)
  BY <1>1, <1>2, FindingsOfOperation
<1>7. Reported(t) = {DriftCandidate(f) : f \in ChangedOperation(before, after, t)}
  BY <1>3, <1>4, <1>5, <1>6
<1> QED
  BY <1>1, <1>2, <1>7

(* For any two documents, whatever their alternatives, schemes and scopes, and
   whatever other engines contribute: an operation is reported to have lost its
   authentication exactly when a caller with nothing to show is let in now and
   was not before (drift.py:178-200). *)
THEOREM LostAuthentication == Spec => []LostAuthenticationIsReported
<1>1. DriftInv => LostAuthenticationIsReported
  <2> SUFFICES ASSUME DriftInv, pc = "ranked", NEW t \in CommonOperations
               PROVE  (\E c \in Reported(t) : c.kind = "authentication-removed")
                        <=> (Admits(New(t), NoCredential) /\ ~Admits(Old(t), NoCredential))
    BY DEF LostAuthenticationIsReported
  <2>1. \A f : DriftCandidate(f).kind = f.kind
    BY DEF DriftCandidate, Candidate
  <2>2. (\E c \in Reported(t) : c.kind = "authentication-removed")
          <=> \E f \in ChangedOperation(input.before[1], input.after[1], t) :
                  f.kind = "authentication-removed"
    BY <2>1, ReportedOfOperation
  <2> QED
    BY <2>2, LostAuthenticationFound, SecuredExcludesNobody DEF Old, New
<1> QED
  BY <1>1, DriftIsRanked, PTL

(* Likewise: when something less than what an old alternative asked for is
   enough now, and was not before, the operation is reported (drift.py:270-338). *)
THEOREM Weakened == Spec => []WeakeningIsReported
<1>1. DriftInv => WeakeningIsReported
  <2> SUFFICES ASSUME DriftInv, pc = "ranked", NEW t \in CommonOperations,
                      NEW b \in Old(t), NEW part \in New(t), WeakerOrEqual(part, b),
                      ~Admits(Old(t), part)
               PROVE  Reported(t) # {}
    BY DEF WeakeningIsReported
  <2>1. ChangedOperation(input.before[1], input.after[1], t) # {}
    BY WeakeningFound DEF Old, New
  <2> QED
    BY <2>1, ReportedOfOperation
<1> QED
  BY <1>1, DriftIsRanked, PTL

(* Conversely, a report means that somebody gets in who did not, as long as the
   old alternatives did not undercut one another (drift.py:281-287). *)
THEOREM ReportsAreTrue == Spec => []ReportsMeanAccess
<1>1. DriftInv => ReportsMeanAccess
  <2> SUFFICES ASSUME DriftInv, pc = "ranked", NEW t \in CommonOperations,
                      \A a, b \in Old(t) : ~StrictlyWeaker(a, b),
                      NEW c \in Reported(t)
               PROVE  \E credential \in New(t) \cup {NoCredential} :
                          Admits(New(t), credential) /\ ~Admits(Old(t), credential)
    BY DEF ReportsMeanAccess
  <2>1. ChangedOperation(input.before[1], input.after[1], t) # {}
    BY ReportedOfOperation
  <2>2. /\ \A r \in Old(t) : r = [s \in DOMAIN r |-> r[s]]
        /\ \A r \in New(t) : r = [s \in DOMAIN r |-> r[s]]
    BY ReportedOfOperation DEF Old, New, WellFormed
  <2> QED
    BY <2>1, <2>2, FindingMeansAccess DEF Old, New
<1> QED
  BY <1>1, DriftIsRanked, PTL

-------------------------------------------------------------------------------
\* Before the ranking nothing was planned; plans are of candidates.
PlanInv ==
    /\ pc # "ranked" => plans = <<>> /\ used = 0
    /\ plans \in Seq(candidates)
    /\ RefusedPlansCostNothing

(* Of any number of plans asked for, in any order: the budget is charged once
   for each that is made, and none is made of a target the scope refuses
   (planner.py:40-48). *)
THEOREM PlansAreCharged == Spec => []RefusedPlansCostNothing
<1>1. Init => PlanInv
  BY DEF Init, PlanInv, RefusedPlansCostNothing
<1>2. PlanInv /\ DriftInv /\ [Next]_vars => PlanInv'
  <2> SUFFICES ASSUME PlanInv, DriftInv, [Next]_vars PROVE PlanInv'
    OBVIOUS
  <2>1. ASSUME pc # "ranked", plans' = plans, used' = used, input' = input PROVE PlanInv'
    BY <2>1 DEF PlanInv, RefusedPlansCostNothing
  <2>2. CASE AnalyzeOpenApi \/ AnalyzeDrift \/ AnalyzeTransitions \/ RankCandidates
    BY <2>1, <2>2 DEF AnalyzeOpenApi, AnalyzeDrift, AnalyzeTransitions, RankCandidates
  <2>3. ASSUME NEW r \in ranked, PlanCandidate(r.candidate) PROVE PlanInv'
    <3> DEFINE c == r.candidate
    <3>1. pc = "ranked" /\ UNCHANGED <<input, pc, candidates>>
      BY <2>3 DEF PlanCandidate
    <3>2. c \in candidates
      BY <3>1 DEF DriftInv, Rank, Ranked
    <3>3. CASE Plannable(c) /\ used < MaxPlans
      <4>1. used' = used + 1 /\ plans' = Append(plans, c)
        BY <2>3, <3>3 DEF PlanCandidate
      <4>2. c.target \notin input.refused
        BY <3>3 DEF Plannable
      <4>3. plans' \in Seq(candidates) /\ Len(plans') = Len(plans) + 1
        BY <3>2, <4>1 DEF PlanInv
      <4>4. \A i \in DOMAIN plans' : plans'[i].target \notin input.refused
        BY <3>2, <4>1, <4>2 DEF PlanInv, RefusedPlansCostNothing
      <4> QED
        BY <3>1, <4>1, <4>3, <4>4 DEF PlanInv, RefusedPlansCostNothing
    <3>4. CASE ~(Plannable(c) /\ used < MaxPlans)
      BY <2>3, <3>1, <3>4 DEF PlanCandidate, PlanInv, RefusedPlansCostNothing
    <3> QED
      BY <3>3, <3>4
  <2>4. CASE UNCHANGED vars
    BY <2>4 DEF vars, PlanInv, RefusedPlansCostNothing
  <2> QED
    BY <2>2, <2>3, <2>4 DEF Next
<1>3. PlanInv => RefusedPlansCostNothing
  BY DEF PlanInv
<1> QED
  BY <1>1, <1>2, <1>3, DriftIsRanked, PTL DEF Spec

-------------------------------------------------------------------------------
\* Every natural number is in a set that holds 0 and is closed under successor.
LEMMA EveryNat ==
    ASSUME NEW S, 0 \in S, \A n \in Nat : n \in S => n + 1 \in S
    PROVE  \A n \in Nat : n \in S
<1> SUFFICES ASSUME Nat \ S # {} PROVE FALSE
  OBVIOUS
<1>1. PICK n \in Nat \ S : \A m \in Nat \ S : ~ (<<m, n>> \in OpToRel(<, Nat))
  BY NatLessThanWellFounded, WFMin, Nat \ S \subseteq Nat
<1>2. n # 0 /\ n - 1 \in Nat /\ n - 1 < n
  BY SMT
<1>3. n - 1 \in S
  BY <1>1, <1>2 DEF OpToRel
<1> QED
  BY <1>2, <1>3, (n - 1) + 1 = n

(* An edge is a producer and a consumer that takes what it gives. *)
Feeds(ops, p, c) ==
    \E o1, o2 \in ops : o1.id = p /\ o2.id = c /\ Produces(o1) \cap o2.consumes # {}

LEMMA EdgesFeed ==
    ASSUME NEW ops, NEW e
    PROVE  e \in Edges(ops) <=>
             \E p, c \in Ids(ops) : e = <<p, c>> /\ p # c /\ Feeds(ops, p, c)
<1>1. e \in Edges(ops) <=> \E o1, o2 \in ops :
        e = <<o1.id, o2.id>> /\ o1.id # o2.id /\ Produces(o1) \cap o2.consumes # {}
  <2> DEFINE linked == {pair \in ops \X ops :
                  pair[1].id # pair[2].id /\ Produces(pair[1]) \cap pair[2].consumes # {}}
  <2>1. Edges(ops) = {<<pair[1].id, pair[2].id>> : pair \in linked}
    BY Zenon DEF Edges
  <2>2. ASSUME e \in Edges(ops)
        PROVE  \E o1, o2 \in ops :
            e = <<o1.id, o2.id>> /\ o1.id # o2.id /\ Produces(o1) \cap o2.consumes # {}
    <3>1. PICK pair \in linked : e = <<pair[1].id, pair[2].id>>
      BY <2>1, <2>2, Zenon
    <3>2. pair[1] \in ops /\ pair[2] \in ops
      BY <3>1
    <3> QED
      BY <3>1, <3>2
  <2>3. ASSUME NEW o1 \in ops, NEW o2 \in ops, e = <<o1.id, o2.id>>, o1.id # o2.id,
               Produces(o1) \cap o2.consumes # {}
        PROVE  e \in Edges(ops)
    <3>1. <<o1, o2>> \in linked
      BY <2>3
    <3> QED
      BY <2>1, <2>3, <3>1
  <2> QED
    BY <2>2, <2>3
<1>2. ASSUME NEW p \in Ids(ops), NEW c \in Ids(ops), e = <<p, c>>, p # c, Feeds(ops, p, c)
      PROVE  e \in Edges(ops)
  BY <1>1, <1>2 DEF Feeds
<1>3. ASSUME e \in Edges(ops)
      PROVE  \E p, c \in Ids(ops) : e = <<p, c>> /\ p # c /\ Feeds(ops, p, c)
  BY <1>1, <1>3 DEF Feeds, Ids
<1> QED
  BY <1>2, <1>3

(* One step of Walks. *)
Longer(ops, walks) == UNION {Continuations(w, Edges(ops)) : w \in walks}

Single(ops) == {<<id>> : id \in Ids(ops)}

LEMMA LongerWalks ==
    ASSUME NEW ops, NEW walks \in SUBSET Seq(Ids(ops))
    PROVE  Longer(ops, walks) \in SUBSET Seq(Ids(ops))
<1> SUFFICES ASSUME NEW w \in walks, NEW v \in Continuations(w, Edges(ops))
             PROVE  v \in Seq(Ids(ops))
  BY DEF Longer
<1>1. PICK e \in Edges(ops) : v = Append(w, e[2])
  BY DEF Continuations
<1>2. e[2] \in Ids(ops)
  BY EdgesFeed
<1>3. w \in Seq(Ids(ops))
  OBVIOUS
<1> QED
  BY <1>1, <1>2, <1>3, AppendProperties

LEMMA WalksStep ==
    ASSUME NEW ops, NEW depth \in Nat, NEW n \in 1..depth
    PROVE  Walks(ops, depth)[n] = IF n = 1 THEN Single(ops)
                                  ELSE Longer(ops, Walks(ops, depth)[n - 1])
<1> DEFINE X == SUBSET Seq(Ids(ops))
           F == [1..depth -> X]
           Step(f, i) == IF i = 1 THEN Single(ops) ELSE Longer(ops, f[i - 1])
           S == {m \in Nat : \E f \in F : \A i \in 1..depth : i <= m => f[i] = Step(f, i)}
<1>0. Single(ops) \in X
  <2>1. \A id \in Ids(ops) : <<id>> \in Seq(Ids(ops))
    OBVIOUS
  <2> QED
    BY <2>1 DEF Single
<1>1. 0 \in S
  <2>1. [i \in 1..depth |-> {}] \in F
    OBVIOUS
  <2>2. \A i \in 1..depth : ~(i <= 0)
    OBVIOUS
  <2> QED
    BY <2>1, <2>2
<1>2. ASSUME NEW m \in Nat, m \in S PROVE m + 1 \in S
  <2>1. PICK f \in F : \A i \in 1..depth : i <= m => f[i] = Step(f, i)
    BY <1>2
  <2> DEFINE g == [i \in 1..depth |-> IF i = m + 1 THEN Step(f, i) ELSE f[i]]
  <2>2. \A i \in 1..depth : i # 1 => i - 1 \in 1..depth /\ i - 1 # i
    OBVIOUS
  <2>3. \A i \in 1..depth : Step(f, i) \in X
    <3> SUFFICES ASSUME NEW i \in 1..depth PROVE Step(f, i) \in X
      OBVIOUS
    <3>1. CASE i = 1
      BY <1>0, <3>1
    <3>2. CASE i # 1
      <4>1. f[i - 1] \in SUBSET Seq(Ids(ops))
        BY <2>2, <3>2
      <4> QED
        BY <3>2, <4>1, LongerWalks
    <3> QED
      BY <3>1, <3>2
  <2>4. g \in F
    BY <2>3
  <2>5. \A i \in 1..depth : i <= m + 1 => g[i] = Step(g, i)
    <3> SUFFICES ASSUME NEW i \in 1..depth, i <= m + 1 PROVE g[i] = Step(g, i)
      BY Zenon
    <3>1. i # 1 => i - 1 \in 1..depth /\ i - 1 # m + 1
      OBVIOUS
    <3>2. i # 1 => g[i - 1] = f[i - 1]
      BY <3>1
    <3>3. Step(g, i) = Step(f, i)
      BY <3>2
    <3>4. CASE i = m + 1
      BY <3>3, <3>4
    <3>5. CASE i # m + 1
      <4>1. i <= m
        BY <3>5
      <4> QED
        BY <4>1, <3>3, <3>5, <2>1
    <3> QED
      BY <3>4, <3>5
  <2> HIDE DEF g
  <2> QED
    BY <2>4, <2>5, m + 1 \in Nat, Zenon
<1>3. depth \in S
  BY ONLY <1>1, <1>2, EveryNat, depth \in Nat
<1>4. PICK f \in F : \A i \in 1..depth : f[i] = Step(f, i)
  BY <1>3
<1>5. f = [i \in 1..depth |-> Step(f, i)]
  BY <1>4
<1> DEFINE W == CHOOSE w : w = [i \in 1..depth |-> Step(w, i)]
<1>6. W = [i \in 1..depth |-> Step(W, i)]
  BY <1>5, Zenon
<1>7. Walks(ops, depth) = W
  BY Zenon DEF Walks, Single, Longer
<1> HIDE DEF W
<1> QED
  BY <1>6, <1>7

(* The chains of n distinct operations. *)
Chains(ops, n) ==
    {w \in [1..n -> Ids(ops)] :
        /\ \A i, j \in DOMAIN w : i # j => w[i] # w[j]
        /\ \A i \in 1..n - 1 : Feeds(ops, w[i], w[i + 1])}

LEMMA ChainsGrow ==
    ASSUME NEW ops, NEW n \in Nat \ {0}
    PROVE  Longer(ops, Chains(ops, n)) = Chains(ops, n + 1)
<1>1. ASSUME NEW v \in Chains(ops, n)
      PROVE  v \in Seq(Ids(ops)) /\ Len(v) = n /\ DOMAIN v = 1..n
  BY <1>1 DEF Chains
<1>2. ASSUME NEW w \in Longer(ops, Chains(ops, n)) PROVE w \in Chains(ops, n + 1)
  <2>1. PICK v \in Chains(ops, n) : w \in Continuations(v, Edges(ops))
    BY <1>2 DEF Longer
  <2>2. v \in Seq(Ids(ops)) /\ Len(v) = n /\ DOMAIN v = 1..n
    BY <1>1, <2>1
  <2>3. PICK e \in Edges(ops) : e[1] = v[n] /\ (\A i \in 1..n : v[i] # e[2]) /\ w = Append(v, e[2])
    BY <2>1, <2>2 DEF Continuations
  <2> DEFINE c == e[2]
  <2>4. c \in Ids(ops) /\ Feeds(ops, v[n], c)
    BY <2>3, EdgesFeed
  <2>5. /\ w \in Seq(Ids(ops)) /\ Len(w) = n + 1 /\ w[n + 1] = c
        /\ \A i \in 1..n : w[i] = v[i]
    BY <2>2, <2>3, <2>4, AppendProperties
  <2> HIDE DEF c
  <2>6. w \in [1..n + 1 -> Ids(ops)] /\ DOMAIN w = 1..n + 1
    BY <2>5
  <2>7. \A i, j \in 1..n + 1 : i # j => w[i] # w[j]
    <3> SUFFICES ASSUME NEW i \in 1..n + 1, NEW j \in 1..n + 1, i # j PROVE w[i] # w[j]
      OBVIOUS
    <3>1. \A a, b \in 1..n : a # b => v[a] # v[b]
      BY <2>1, <2>2 DEF Chains
    <3>2. \A a \in 1..n : v[a] # c
      BY <2>3 DEF c
    <3>3. (i \in 1..n \/ i = n + 1) /\ (j \in 1..n \/ j = n + 1)
      OBVIOUS
    <3> QED
      BY <2>5, <3>1, <3>2, <3>3
  <2>8. \A i \in 1..(n + 1) - 1 : Feeds(ops, w[i], w[i + 1])
    <3> SUFFICES ASSUME NEW i \in 1..n PROVE Feeds(ops, w[i], w[i + 1])
      OBVIOUS
    <3>1. CASE i = n
      BY <2>4, <2>5, <3>1
    <3>2. CASE i # n
      <4>1. i \in 1..n - 1 /\ i + 1 \in 1..n
        BY <3>2
      <4> QED
        BY <2>1, <2>5, <4>1 DEF Chains
    <3> QED
      BY <3>1, <3>2
  <2> QED
    BY <2>6, <2>7, <2>8 DEF Chains
<1>3. ASSUME NEW w \in Chains(ops, n + 1) PROVE w \in Longer(ops, Chains(ops, n))
  <2> DEFINE v == [i \in 1..n |-> w[i]]
             e == <<w[n], w[n + 1]>>
  <2>1. /\ w \in [1..n + 1 -> Ids(ops)] /\ \A i, j \in 1..n + 1 : i # j => w[i] # w[j]
        /\ \A i \in 1..n : Feeds(ops, w[i], w[i + 1])
    <3>1. (n + 1) - 1 = n
      OBVIOUS
    <3> QED
      BY <1>3, <3>1 DEF Chains
  <2>2. \A i \in 1..n : i \in 1..n + 1
    OBVIOUS
  <2>3. v \in [1..n -> Ids(ops)] /\ DOMAIN v = 1..n
    BY <2>1, <2>2
  <2>4. v \in Chains(ops, n)
    <3>1. \A i \in 1..n - 1 : i \in 1..n /\ i + 1 \in 1..n
      OBVIOUS
    <3>2. \A i \in 1..n - 1 : Feeds(ops, v[i], v[i + 1])
      BY <2>1, <3>1
    <3>3. \A i, j \in 1..n : i # j => v[i] # v[j]
      BY <2>1, <2>2
    <3> QED
      BY <2>3, <3>2, <3>3 DEF Chains
  <2>5. n \in 1..n /\ n + 1 \in 1..n + 1 /\ n # n + 1
    OBVIOUS
  <2>6. e \in Edges(ops)
    <3>1. w[n] \in Ids(ops) /\ w[n + 1] \in Ids(ops) /\ w[n] # w[n + 1] /\ Feeds(ops, w[n], w[n + 1])
      BY <2>1, <2>2, <2>5
    <3> QED
      BY <3>1, EdgesFeed
  <2>7. v \in Seq(Ids(ops)) /\ Len(v) = n
    BY <2>3
  <2>8. w = Append(v, w[n + 1])
    <3>1. \A i \in 1..n : v[i] = w[i]
      OBVIOUS
    <3> DEFINE c == w[n + 1]
               longer == Append(v, c)
    <3>2. c \in Ids(ops)
      BY <2>1, <2>5
    <3> HIDE DEF v, c
    <3>3. /\ longer \in Seq(Ids(ops)) /\ Len(longer) = n + 1
          /\ longer[n + 1] = c
          /\ \A i \in 1..n : longer[i] = v[i]
      BY <2>7, <3>2, AppendProperties
    <3> HIDE DEF longer
    <3>4. longer \in [1..n + 1 -> Ids(ops)]
      BY <3>3
    <3>5. \A i \in 1..n + 1 : i \in 1..n \/ i = n + 1
      OBVIOUS
    <3>6. \A i \in 1..n + 1 : longer[i] = w[i]
      BY <3>1, <3>3, <3>5 DEF c
    <3>7. longer = w
      BY <2>1, <3>4, <3>6
    <3> QED
      BY <3>7 DEF longer, c
  <2>9. e[1] = v[Len(v)] /\ (\A i \in DOMAIN v : v[i] # e[2]) /\ w = Append(v, e[2])
    BY <2>1, <2>2, <2>3, <2>5, <2>7, <2>8
  <2> HIDE DEF v, e
  <2>10. w \in Continuations(v, Edges(ops))
    BY <2>6, <2>9 DEF Continuations
  <2> QED
    BY <2>4, <2>10 DEF Longer
<1> QED
  BY <1>2, <1>3

LEMMA SinglesAreChains ==
    ASSUME NEW ops
    PROVE  Single(ops) = Chains(ops, 1)
<1>1. ASSUME NEW id \in Ids(ops) PROVE <<id>> \in Chains(ops, 1)
  BY DEF Chains
<1>2. ASSUME NEW w \in Chains(ops, 1) PROVE w[1] \in Ids(ops) /\ w = <<w[1]>>
  BY <1>2 DEF Chains
<1> QED
  BY <1>1, <1>2 DEF Single

LEMMA WalksAreChains ==
    ASSUME NEW ops, NEW depth \in Nat
    PROVE  \A n \in 1..depth : Walks(ops, depth)[n] = Chains(ops, n)
<1> DEFINE S == {n \in Nat : n \in 1..depth => Walks(ops, depth)[n] = Chains(ops, n)}
<1>1. 0 \in S
  OBVIOUS
<1>2. ASSUME NEW n \in Nat, n \in S PROVE n + 1 \in S
  <2> SUFFICES ASSUME n + 1 \in 1..depth
               PROVE  Walks(ops, depth)[n + 1] = Chains(ops, n + 1)
    OBVIOUS
  <2>1. CASE n = 0
    BY <2>1, WalksStep, SinglesAreChains
  <2>2. CASE n # 0
    <3>1. n \in 1..depth /\ n \in Nat \ {0} /\ n + 1 # 1 /\ (n + 1) - 1 = n
      BY <2>2
    <3>2. Walks(ops, depth)[n + 1] = Longer(ops, Walks(ops, depth)[n])
      BY <3>1, WalksStep
    <3>3. Walks(ops, depth)[n] = Chains(ops, n)
      BY <1>2, <3>1
    <3> QED
      BY <3>1, <3>2, <3>3, ChainsGrow
  <2> QED
    BY <2>1, <2>2
<1>3. \A n \in Nat : n \in S
  BY ONLY <1>1, <1>2, EveryNat
<1> QED
  BY <1>3

\* What has been made of the current contract by each stage.
ContractSequences == input.depth \in 2..6 /\ sequences = ApiWalks(input.openapi[1], input.depth)

SequencesInv ==
    /\ pc = "openapi" => sequences = {}
    /\ sequences = {} \/ ContractSequences
    /\ pc \in {"drift", "transitions", "rank", "ranked"} /\ input.openapi # <<>> => ContractSequences

LEMMA InitSequences == Init => SequencesInv
  BY DEF Init, SequencesInv

LEMMA NextSequences == SequencesInv /\ [Next]_vars => SequencesInv'
<1> SUFFICES ASSUME SequencesInv, [Next]_vars PROVE SequencesInv'
  OBVIOUS
<1> USE DEF SequencesInv, ContractSequences
<1>1. CASE AnalyzeOpenApi
  BY <1>1 DEF AnalyzeOpenApi
<1>2. CASE AnalyzeDrift
  BY <1>2 DEF AnalyzeDrift
<1>3. CASE AnalyzeTransitions
  BY <1>3 DEF AnalyzeTransitions
<1>4. CASE RankCandidates
  BY <1>4 DEF RankCandidates
<1>5. ASSUME NEW candidate, PlanCandidate(candidate) PROVE SequencesInv'
  BY <1>5 DEF PlanCandidate
<1>6. CASE UNCHANGED vars
  BY <1>6 DEF vars
<1> QED
  BY <1>1, <1>2, <1>3, <1>4, <1>5, <1>6 DEF Next

\* The walks of a contract are its chains of two to depth operations.
LEMMA ApiWalksAreChains ==
    ASSUME NEW ops, NEW depth \in Nat
    PROVE  ApiWalks(ops, depth) = UNION {Chains(ops, n) : n \in 2..depth}
<1>1. \A n \in 2..depth : Walks(ops, depth)[n] = Chains(ops, n)
  BY WalksAreChains
<1> QED
  BY <1>1 DEF ApiWalks

(* For any contract and any depth that is accepted: the sequences are all chains
   of two to max_depth distinct operations in which each takes a field its
   predecessor gives, and nothing else (api_graph.py:101, 181-208). *)
THEOREM SequencesAreComplete == Spec => []SequencesAreTheChains
<1>1. SequencesInv => SequencesAreTheChains
  <2> SUFFICES ASSUME SequencesInv, pc = "ranked", input.openapi # <<>>
               PROVE  SequencesAreTheChains
    BY DEF SequencesAreTheChains
  <2> DEFINE ops == input.openapi[1]
             depth == input.depth
             all == {w \in UNION {[1..n -> Ids(ops)] : n \in 2..depth} :
                        /\ \A i, j \in DOMAIN w : i # j => w[i] # w[j]
                        /\ \A i \in 1..Len(w) - 1 : Feeds(ops, w[i], w[i + 1])}
  <2>1. depth \in Nat /\ sequences = UNION {Chains(ops, n) : n \in 2..depth}
    BY ApiWalksAreChains DEF SequencesInv, ContractSequences
  <2>2. ASSUME NEW n \in 2..depth, NEW w \in [1..n -> Ids(ops)]
        PROVE  w \in all <=> w \in Chains(ops, n)
    <3>1. n \in Nat /\ Len(w) = n
      BY <2>1
    <3> QED
      BY <3>1 DEF Chains
  <2>3. sequences = all
    BY <2>1, <2>2 DEF Chains
  <2> QED
    BY <2>3 DEF SequencesAreTheChains, Feeds
<1> QED
  BY <1>1, InitSequences, NextSequences, PTL DEF Spec

-------------------------------------------------------------------------------
(* The sums EvidenceCount is defined by: an element is taken away and added to
   what the others sum up to. *)
Any(s) == CHOOSE x \in s : TRUE

AddUp(t, s) == IF s = {} THEN 0 ELSE Any(s).evidence + t[s \ {Any(s)}]

Totals(S) == CHOOSE t : t = [s \in SUBSET S |-> AddUp(t, s)]

LEMMA EvidenceCountIsTotal ==
    ASSUME NEW S
    PROVE  EvidenceCount(S) = Totals(S)[S]
BY Zenon DEF EvidenceCount, MapThenSumSet, MapThenFoldSet, Totals, AddUp, Any

\* A set of candidates whose evidence can be counted.
Countable(S) == IsFiniteSet(S) /\ \A c \in S : c.evidence \in Nat

LEMMA AnyIsMember ==
    ASSUME NEW S, Countable(S), NEW s \in SUBSET S, s # {}
    PROVE  /\ Any(s) \in s /\ Any(s).evidence \in Nat /\ s \ {Any(s)} \in SUBSET S
           /\ Cardinality(s) \in Nat /\ Cardinality(s \ {Any(s)}) = Cardinality(s) - 1
<1>1. Any(s) \in s
  BY DEF Any
<1>2. IsFiniteSet(s)
  BY FS_Subset DEF Countable
<1>3. Cardinality(s) \in Nat /\ Cardinality(s \ {Any(s)}) = Cardinality(s) - 1
  BY <1>1, <1>2, FS_CardinalityType, FS_RemoveElement
<1>4. Any(s).evidence \in Nat
  BY <1>1 DEF Countable
<1> QED
  BY <1>1, <1>3, <1>4

\* There is one way to add up.
LEMMA SumsAgree ==
    ASSUME NEW S, Countable(S), NEW t, NEW u,
           \A s \in SUBSET S : t[s] = AddUp(t, s), \A s \in SUBSET S : u[s] = AddUp(u, s)
    PROVE  \A s \in SUBSET S : t[s] = u[s]
<1> DEFINE N == {m \in Nat : \A s \in SUBSET S : Cardinality(s) <= m => t[s] = u[s]}
<1>0. \A s \in SUBSET S : IsFiniteSet(s) /\ Cardinality(s) \in Nat /\ Cardinality(s) <= Cardinality(S)
  BY FS_Subset, FS_CardinalityType DEF Countable
<1>1. t[{}] = u[{}]
  <2>1. t[{}] = 0 /\ u[{}] = 0
    BY Zenon, {} \in SUBSET S DEF AddUp
  <2> QED
    BY <2>1
<1>2. 0 \in N
  <2>1. \A s \in SUBSET S : Cardinality(s) <= 0 => s = {}
    BY <1>0, FS_EmptySet
  <2>2. \A s \in SUBSET S : Cardinality(s) <= 0 => t[s] = u[s]
    BY <1>1, <2>1, Zenon
  <2> QED
    BY <2>2
<1>3. ASSUME NEW m \in Nat, m \in N PROVE m + 1 \in N
  <2>1. ASSUME NEW s \in SUBSET S, Cardinality(s) <= m + 1 PROVE t[s] = u[s]
    <3>1. CASE s = {}
      BY <1>1, <3>1
    <3>2. CASE s # {}
      <4> DEFINE r == s \ {Any(s)}
      <4>1. r \in SUBSET S /\ Cardinality(r) <= m
        BY <1>0, <2>1, <3>2, AnyIsMember
      <4>2. t[r] = u[r]
        BY <1>3, <4>1
      <4>3. t[s] = Any(s).evidence + t[r] /\ u[s] = Any(s).evidence + u[r]
        BY <3>2, Zenon DEF AddUp
      <4> HIDE DEF r
      <4> QED
        BY <4>2, <4>3
    <3> QED
      BY <3>1, <3>2
  <2> QED
    BY <2>1, m + 1 \in Nat, Zenon
<1>4. Cardinality(S) \in N
  <2>1. Cardinality(S) \in Nat
    BY <1>0
  <2>2. \A n \in Nat : n \in N
    BY ONLY <1>2, <1>3, EveryNat
  <2> QED
    BY <2>1, <2>2
<1> QED
  BY <1>0, <1>4

LEMMA TotalsExist ==
    ASSUME NEW S, Countable(S)
    PROVE  /\ Totals(S) \in [SUBSET S -> Nat]
           /\ \A s \in SUBSET S : Totals(S)[s] = AddUp(Totals(S), s)
<1> DEFINE F == [SUBSET S -> Nat]
           N == {m \in Nat : \E t \in F : \A s \in SUBSET S :
                    Cardinality(s) <= m => t[s] = AddUp(t, s)}
<1>0. \A s \in SUBSET S : IsFiniteSet(s) /\ Cardinality(s) \in Nat /\ Cardinality(s) <= Cardinality(S)
  BY FS_Subset, FS_CardinalityType DEF Countable
<1>1. ASSUME NEW t \in F, NEW s \in SUBSET S PROVE AddUp(t, s) \in Nat
  <2>1. CASE s = {}
    BY <2>1 DEF AddUp
  <2>2. CASE s # {}
    <3>1. Any(s).evidence \in Nat /\ s \ {Any(s)} \in SUBSET S
      BY <2>2, AnyIsMember
    <3>2. t[s \ {Any(s)}] \in Nat
      BY <3>1
    <3> QED
      BY <2>2, <3>1, <3>2 DEF AddUp
  <2> QED
    BY <2>1, <2>2
<1>2. 0 \in N
  <2> DEFINE t == [s \in SUBSET S |-> 0]
  <2>1. t \in F
    OBVIOUS
  <2>2. ASSUME NEW s \in SUBSET S, Cardinality(s) <= 0 PROVE t[s] = AddUp(t, s)
    <3>1. s = {}
      BY <1>0, <2>2, FS_EmptySet
    <3> QED
      BY <3>1 DEF AddUp
  <2> HIDE DEF t
  <2> QED
    BY <2>1, <2>2
<1>3. ASSUME NEW m \in Nat, m \in N PROVE m + 1 \in N
  <2>1. PICK t \in F : \A s \in SUBSET S : Cardinality(s) <= m => t[s] = AddUp(t, s)
    BY <1>3
  <2> DEFINE u == [s \in SUBSET S |-> AddUp(t, s)]
  <2>2. u \in F
    BY <1>1
  <2>3. ASSUME NEW s \in SUBSET S, Cardinality(s) <= m + 1 PROVE u[s] = AddUp(u, s)
    <3>1. CASE s = {}
      BY <3>1 DEF AddUp
    <3>2. CASE s # {}
      <4> DEFINE r == s \ {Any(s)}
      <4>1. r \in SUBSET S /\ Cardinality(r) <= m
        BY <1>0, <2>3, <3>2, AnyIsMember
      <4>2. u[r] = t[r]
        BY <2>1, <4>1
      <4> QED
        BY <3>2, <4>2 DEF AddUp
    <3> QED
      BY <3>1, <3>2
  <2> HIDE DEF u
  <2> QED
    BY <2>2, <2>3, m + 1 \in Nat, Zenon
<1>4. Cardinality(S) \in N
  <2>1. Cardinality(S) \in Nat
    BY <1>0
  <2>2. \A n \in Nat : n \in N
    BY ONLY <1>2, <1>3, EveryNat
  <2> QED
    BY <2>1, <2>2
<1>5. PICK t \in F : \A s \in SUBSET S : t[s] = AddUp(t, s)
  BY <1>0, <1>4
<1>6. t = [s \in SUBSET S |-> AddUp(t, s)]
  BY <1>5
<1>7. Totals(S) = [s \in SUBSET S |-> AddUp(Totals(S), s)]
  BY <1>6, Zenon DEF Totals
<1>8. \A s \in SUBSET S : Totals(S)[s] = AddUp(Totals(S), s)
  BY <1>7
<1>9. \A s \in SUBSET S : Totals(S)[s] = t[s]
  BY <1>5, <1>8, SumsAgree
<1> QED
  BY <1>7, <1>8, <1>9

\* Any member may be taken away first.
LEMMA TotalWithout ==
    ASSUME NEW S, Countable(S)
    PROVE  \A s \in SUBSET S : \A y \in s : Totals(S)[s] = y.evidence + Totals(S)[s \ {y}]
<1> DEFINE t == Totals(S)
           N == {m \in Nat : \A s \in SUBSET S : Cardinality(s) <= m =>
                    \A y \in s : t[s] = y.evidence + t[s \ {y}]}
<1>0. /\ \A s \in SUBSET S : IsFiniteSet(s) /\ Cardinality(s) \in Nat
      /\ \A x \in S : x.evidence \in Nat
  BY FS_Subset, FS_CardinalityType DEF Countable
<1>1. t \in [SUBSET S -> Nat] /\ \A s \in SUBSET S : t[s] = AddUp(t, s)
  BY TotalsExist
<1> HIDE DEF t
<1>2. 0 \in N
  <2>1. \A s \in SUBSET S : Cardinality(s) <= 0 => s = {}
    BY <1>0, FS_EmptySet
  <2> QED
    BY <2>1
<1>3. ASSUME NEW m \in Nat, m \in N PROVE m + 1 \in N
  <2>1. ASSUME NEW s \in SUBSET S, Cardinality(s) <= m + 1, NEW y \in s
        PROVE  t[s] = y.evidence + t[s \ {y}]
    <3> DEFINE x == Any(s)
    <3>1. /\ x \in s /\ t[s] = x.evidence + t[s \ {x}]
          /\ s \ {x} \in SUBSET S /\ Cardinality(s \ {x}) <= m
      BY <1>0, <1>1, <2>1, AnyIsMember DEF AddUp
    <3> HIDE DEF x
    <3>2. CASE x = y
      BY <3>1, <3>2
    <3>3. CASE x # y
      <4> DEFINE both == (s \ {x}) \ {y}
      <4>1. both = (s \ {y}) \ {x} /\ both \in SUBSET S
        BY <3>1
      <4>2. s \ {y} \in SUBSET S /\ Cardinality(s \ {y}) <= m
        BY <1>0, <2>1, FS_RemoveElement
      <4>3. y \in s \ {x} /\ x \in s \ {y}
        BY <2>1, <3>1, <3>3
      <4>4. t[s \ {x}] = y.evidence + t[both]
        BY <1>3, <3>1, <4>3
      <4>5. t[s \ {y}] = x.evidence + t[both]
        BY <1>3, <4>1, <4>2, <4>3
      <4>6. x.evidence \in Nat /\ y.evidence \in Nat /\ t[both] \in Nat
        BY <1>0, <1>1, <2>1, <3>1, <4>1
      <4> HIDE DEF both
      <4> QED
        BY <3>1, <4>4, <4>5, <4>6
    <3> QED
      BY <3>2, <3>3
  <2> QED
    BY <2>1, m + 1 \in Nat, Zenon
<1>4. \A n \in Nat : n \in N
  BY ONLY <1>2, <1>3, EveryNat
<1>5. ASSUME NEW s \in SUBSET S, NEW y \in s PROVE t[s] = y.evidence + t[s \ {y}]
  <2>1. Cardinality(s) \in N /\ Cardinality(s) <= Cardinality(s)
    BY <1>0, <1>4
  <2> QED
    BY <2>1
<1> QED
  BY <1>5 DEF t

\* What EvidenceCount adds up, one candidate more or less.
LEMMA EvidenceIsCounted ==
    ASSUME NEW S, Countable(S)
    PROVE  EvidenceCount(S) \in Nat
BY EvidenceCountIsTotal, TotalsExist, S \in SUBSET S

LEMMA EvidenceGrows ==
    ASSUME NEW S, Countable(S), NEW y \in S
    PROVE  EvidenceCount(S) = y.evidence + EvidenceCount(S \ {y})
<1> DEFINE T == S \ {y}
<1>1. T \in SUBSET S /\ Countable(T)
  BY FS_Subset DEF Countable
<1>2. \A s \in SUBSET T : Totals(S)[s] = AddUp(Totals(S), s)
  BY <1>1, TotalsExist
<1>3. \A s \in SUBSET T : Totals(T)[s] = AddUp(Totals(T), s)
  BY <1>1, TotalsExist
<1>4. Totals(S)[T] = Totals(T)[T]
  <2> DEFINE t == Totals(S)
             u == Totals(T)
  <2> HIDE DEF T, t, u
  <2>1. /\ \A s \in SUBSET T : t[s] = AddUp(t, s)
        /\ \A s \in SUBSET T : u[s] = AddUp(u, s)
    BY <1>2, <1>3 DEF t, u
  <2>2. \A s \in SUBSET T : t[s] = u[s]
    BY <1>1, <2>1, SumsAgree
  <2> QED
    BY <2>2, T \in SUBSET T DEF t, u
<1>5. Totals(S)[S] = y.evidence + Totals(S)[T]
  BY TotalWithout, S \in SUBSET S
<1> QED
  BY <1>4, <1>5, EvidenceCountIsTotal

LEMMA GreaterOfTwo ==
    ASSUME NEW n \in Int
    PROVE  Max({0, n}) = IF n >= 0 THEN n ELSE 0
<1>1. CASE n >= 0
  <2>1. n \in {0, n} /\ \A y \in {0, n} : n >= y
    BY <1>1
  <2>2. ASSUME NEW x \in {0, n}, \A y \in {0, n} : x >= y PROVE x = n
    BY <1>1, <2>2
  <2> QED
    BY <1>1, <2>1, <2>2 DEF Max
<1>2. CASE ~(n >= 0)
  <2>1. 0 \in {0, n} /\ \A y \in {0, n} : 0 >= y
    BY <1>2
  <2>2. ASSUME NEW x \in {0, n}, \A y \in {0, n} : x >= y PROVE x = 0
    BY <1>2, <2>2
  <2> QED
    BY <1>2, <2>1, <2>2 DEF Max
<1> QED
  BY <1>1, <1>2

\* How a score becomes a priority, given k engines and e pieces of evidence.
Boosted(score, k, e) ==
    AtMost(1000, score + AtMost(120, 45 * (k - 1)) + AtMost(60, 12 * (IF e > 0 THEN e - 1 ELSE 0)))

LEMMA PriorityIsBoosted ==
    ASSUME NEW c, NEW S, Countable(S)
    PROVE  Priority(c, S) = Boosted(c.score, Cardinality(Engines(Peers(c, S))),
                                    EvidenceCount(Peers(c, S)))
<1>1. Countable(Peers(c, S))
  BY FS_Subset DEF Countable, Peers
<1> DEFINE e == EvidenceCount(Peers(c, S))
<1>2. e \in Nat
  BY <1>1, EvidenceIsCounted
<1> DEFINE more == IF e > 0 THEN e - 1 ELSE 0
<1>3. Max({0, e - 1}) = more
  <2> HIDE DEF e
  <2>1. e - 1 \in Int /\ (e - 1 >= 0 <=> e > 0)
    BY <1>2
  <2>2. e - 1 >= 0 \/ e = 0
    BY <1>2
  <2> QED
    BY <2>1, <2>2, GreaterOfTwo
<1>4. Priority(c, S) =
        AtMost(1000, c.score + AtMost(120, 45 * (Cardinality(Engines(Peers(c, S))) - 1))
                       + AtMost(60, 12 * Max({0, e - 1})))
  BY Zenon DEF Priority
<1> HIDE DEF e, more
<1>5. Priority(c, S) =
        AtMost(1000, c.score + AtMost(120, 45 * (Cardinality(Engines(Peers(c, S))) - 1))
                       + AtMost(60, 12 * more))
  BY <1>3, <1>4, Zenon
<1> QED
  BY <1>5, Zenon DEF e, more, Boosted

LEMMA BoostIsMonotone ==
    \A score, k, l, d, e \in Nat :
        l <= k /\ d <= e /\ score <= 1000 =>
            /\ Boosted(score, l, d) \in Int /\ Boosted(score, k, e) \in Int
            /\ Boosted(score, l, d) <= Boosted(score, k, e)
            /\ k >= 1 => score <= Boosted(score, k, e) /\ Boosted(score, k, e) <= 1000
BY DEF Boosted, AtMost

LEMMA EnginesAreCounted ==
    ASSUME NEW S, IsFiniteSet(S)
    PROVE  IsFiniteSet(Engines(S)) /\ Cardinality(Engines(S)) \in Nat
<1> DEFINE g == [c \in S |-> c.engine]
<1>1. g \in Surjection(S, Engines(S))
  BY DEF Surjection, Engines
<1> QED
  BY <1>1, FS_Surjection, FS_CardinalityType

LEMMA CompanyHelps ==
    ASSUME NEW S, Countable(S), NEW c \in S, c.score \in 0..1000
    PROVE  /\ Priority(c, S) \in c.score..1000
           /\ \A other \in S \ {c} : Priority(c, S) >= Priority(c, S \ {other})
<1> DEFINE P == Peers(c, S)
           k == Cardinality(Engines(P))
           e == EvidenceCount(P)
<1>1. Countable(P) /\ c \in P
  BY FS_Subset DEF Countable, Peers
<1>2. IsFiniteSet(Engines(P)) /\ k \in Nat /\ e \in Nat
  BY <1>1, EnginesAreCounted, EvidenceIsCounted DEF Countable
<1>3. k >= 1
  <2>1. Engines(P) # {}
    BY <1>1 DEF Engines
  <2>2. k # 0
    BY <1>2, <2>1, FS_EmptySet
  <2> QED
    BY <1>2, <2>2
<1>4. Priority(c, S) = Boosted(c.score, k, e)
  BY PriorityIsBoosted
<1> DEFINE score == c.score
<1>0. score \in Nat /\ score <= 1000
  OBVIOUS
<1> HIDE DEF score
<1>5. Priority(c, S) \in score..1000
  <2> HIDE DEF k, e
  <2>1. k <= k /\ e <= e
    BY <1>2
  <2>2. /\ Boosted(score, k, e) \in Int
        /\ score <= Boosted(score, k, e) /\ Boosted(score, k, e) <= 1000
    BY <1>0, <1>2, <1>3, <2>1, BoostIsMonotone
  <2> QED
    BY <1>0, <1>4, <2>2 DEF score
<1>6. ASSUME NEW other \in S \ {c} PROVE Priority(c, S) >= Priority(c, S \ {other})
  <2> DEFINE T == S \ {other}
             Q == Peers(c, T)
             l == Cardinality(Engines(Q))
             d == EvidenceCount(Q)
  <2>1. Countable(T) /\ Countable(Q) /\ Q \subseteq P
    BY FS_Subset DEF Countable, Peers
  <2>2. IsFiniteSet(Engines(Q)) /\ l \in Nat /\ d \in Nat
    BY <2>1, EnginesAreCounted, EvidenceIsCounted DEF Countable
  <2>3. l <= k
    <3>1. Engines(Q) \in SUBSET Engines(P)
      BY <2>1 DEF Engines
    <3> QED
      BY <1>2, <3>1, FS_Subset
  <2>4. d <= e
    <3>1. CASE other \in P
      <4>1. Q = P \ {other}
        BY <3>1 DEF Peers
      <4>2. e = other.evidence + d
        BY <1>1, <3>1, <4>1, EvidenceGrows
      <4>3. other.evidence \in Nat
        BY DEF Countable
      <4> HIDE DEF d, e
      <4> QED
        BY <1>2, <2>2, <4>2, <4>3
    <3>2. CASE other \notin P
      <4>1. Q = P
        BY <3>2 DEF Peers
      <4> QED
        BY <1>2, <4>1
    <3> QED
      BY <3>1, <3>2
  <2>5. Priority(c, T) = Boosted(c.score, l, d)
    BY <2>1, PriorityIsBoosted
  <2> HIDE DEF k, e, l, d, T, Q
  <2>6. /\ Boosted(score, l, d) <= Boosted(score, k, e)
        /\ Boosted(score, k, e) \in Int /\ Boosted(score, l, d) \in Int
    BY <1>0, <1>2, <2>2, <2>3, <2>4, BoostIsMonotone
  <2>7. Priority(c, S) = Boosted(score, k, e) /\ Priority(c, T) = Boosted(score, l, d)
    BY <1>4, <2>5 DEF score
  <2>8. Priority(c, S) >= Priority(c, T)
    BY <2>6, <2>7
  <2> QED
    BY <2>8 DEF T
<1> QED
  BY <1>5, <1>6 DEF score

\* What one makes of each member of a finite set is finite; f is the making.
LEMMA FiniteImage ==
    ASSUME NEW S, NEW T, IsFiniteSet(S), NEW f \in [S -> T], \A t \in T : \E s \in S : f[s] = t
    PROVE  IsFiniteSet(T)
<1>1. f \in Surjection(S, T)
  BY DEF Surjection
<1> QED
  BY <1>1, FS_Surjection

(* Two documents differ in finitely many ways, each of a kind with a score. *)
LEMMA FindingsAreFinite ==
    ASSUME NEW before, NEW after, WellFormed(before), WellFormed(after)
    PROVE  IsFiniteSet(Drift(before, after))
<1> DEFINE both == DOMAIN before.operations \cap DOMAIN after.operations
           changed == ChangedOperations(before, after)
           new == NewOperations(before, after)
           removed == {SchemeFinding("security-scheme-definition-removed", s, before.schemes[s], "") :
                          s \in DOMAIN before.schemes \ DOMAIN after.schemes}
           retyped == {SchemeFinding("security-scheme-type-changed", s, before.schemes[s], after.schemes[s]) :
                          s \in {s \in DOMAIN before.schemes \cap DOMAIN after.schemes :
                                    before.schemes[s] # after.schemes[s]}}
<1>1. ASSUME NEW t \in both PROVE IsFiniteSet(ChangedOperation(before, after, t))
  <2> DEFINE old == EffectiveSecurity(before, t)
             now == EffectiveSecurity(after, t)
             cs == {c \in now \ old : Baselines(old, c) # {}}
             W == WeakenedRequirements(t, old, now)
             g == [c \in cs |-> Finding(Weakening(c, Shortest(Baselines(old, c)), now), t,
                                        Shortest(Baselines(old, c)), c)]
  <2>1. IsFiniteSet(cs)
    BY FS_Subset, cs \in SUBSET now DEF WellFormed
  <2>2. g \in [cs -> W] /\ \A f \in W : \E c \in cs : g[c] = f
    BY DEF WeakenedRequirements
  <2>3. IsFiniteSet(W)
    <3> HIDE DEF cs, W, g
    <3> QED
      BY <2>1, <2>2, FiniteImage
  <2> DEFINE lost == Finding("authentication-removed", t, old, now)
  <2>4. \/ ChangedOperation(before, after, t) = {}
        \/ ChangedOperation(before, after, t) = {lost}
        \/ ChangedOperation(before, after, t) = W
    BY DEF ChangedOperation
  <2>5. IsFiniteSet({}) /\ IsFiniteSet({lost})
    BY FS_EmptySet, FS_Singleton
  <2> HIDE DEF W, lost
  <2> QED
    BY <2>3, <2>4, <2>5
<1>2. IsFiniteSet(changed)
  <2> DEFINE all == {ChangedOperation(before, after, t) : t \in both}
             g == [t \in both |-> ChangedOperation(before, after, t)]
  <2>1. IsFiniteSet(both)
    BY FS_Subset, both \in SUBSET (DOMAIN before.operations) DEF WellFormed
  <2>2. g \in [both -> all] /\ \A s \in all : \E t \in both : g[t] = s
    OBVIOUS
  <2>3. \A s \in all : IsFiniteSet(s)
    BY <1>1
  <2>4. changed = UNION all
    BY DEF ChangedOperations
  <2> HIDE DEF both, all, g, changed
  <2>5. IsFiniteSet(all)
    BY <2>1, <2>2, FiniteImage
  <2>6. IsFiniteSet(UNION all)
    BY <2>3, <2>5, FS_UNION
  <2> QED
    BY <2>4, <2>6
<1>3. IsFiniteSet(new)
  <2> DEFINE ts == {t \in DOMAIN after.operations \ DOMAIN before.operations :
                        t \in SensitiveOperations /\ ~Secured(EffectiveSecurity(after, t))}
             g == [t \in ts |-> Finding("new-sensitive-anonymous-operation", t, {},
                                        EffectiveSecurity(after, t))]
  <2>1. IsFiniteSet(ts)
    BY FS_Subset, ts \in SUBSET (DOMAIN after.operations) DEF WellFormed
  <2>2. g \in [ts -> new] /\ \A f \in new : \E t \in ts : g[t] = f
    BY DEF NewOperations
  <2> HIDE DEF ts, g, new
  <2> QED
    BY <2>1, <2>2, FiniteImage
<1>4. IsFiniteSet(removed)
  <2> DEFINE ss == DOMAIN before.schemes \ DOMAIN after.schemes
             g == [s \in ss |-> SchemeFinding("security-scheme-definition-removed", s,
                                              before.schemes[s], "")]
  <2>1. IsFiniteSet(ss)
    BY FS_Subset, ss \in SUBSET (DOMAIN before.schemes) DEF WellFormed
  <2>2. g \in [ss -> removed] /\ \A f \in removed : \E s \in ss : g[s] = f
    OBVIOUS
  <2> HIDE DEF ss, g, removed
  <2> QED
    BY <2>1, <2>2, FiniteImage
<1>5. IsFiniteSet(retyped)
  <2> DEFINE ss == {s \in DOMAIN before.schemes \cap DOMAIN after.schemes :
                       before.schemes[s] # after.schemes[s]}
             g == [s \in ss |-> SchemeFinding("security-scheme-type-changed", s,
                                              before.schemes[s], after.schemes[s])]
  <2>1. IsFiniteSet(ss)
    BY FS_Subset, ss \in SUBSET (DOMAIN before.schemes) DEF WellFormed
  <2>2. g \in [ss -> retyped] /\ \A f \in retyped : \E s \in ss : g[s] = f
    OBVIOUS
  <2> HIDE DEF ss, g, retyped
  <2> QED
    BY <2>1, <2>2, FiniteImage
<1>6. Drift(before, after) = (changed \cup new) \cup (removed \cup retyped)
  BY DEF Drift, ChangedSchemes
<1> HIDE DEF changed, new, removed, retyped
<1> QED
  BY <1>2, <1>3, <1>4, <1>5, <1>6, FS_Union

LEMMA FindingsAreOfKinds ==
    ASSUME NEW before, NEW after, NEW f \in Drift(before, after)
    PROVE  f.kind \in Kinds
<1>1. \A kind, target, x, y : Finding(kind, target, x, y).kind = kind
  BY DEF Finding
<1>2. ASSUME NEW t, f \in ChangedOperation(before, after, t) PROVE f.kind \in Kinds
  <2>1. \A c, b, new : Weakening(c, b, new) \in Kinds
    BY DEF Weakening, Kinds
  <2>2. ASSUME NEW old, NEW new, f \in WeakenedRequirements(t, old, new) PROVE f.kind \in Kinds
    <3>1. PICK c, b : f = Finding(Weakening(c, b, new), t, b, c)
      BY <2>2 DEF WeakenedRequirements
    <3> QED
      BY <1>1, <2>1, <3>1
  <2> QED
    BY <1>1, <1>2, <2>2 DEF ChangedOperation, Kinds
<1>3. ASSUME f \in NewOperations(before, after) PROVE f.kind \in Kinds
  <2>1. PICK t : f = Finding("new-sensitive-anonymous-operation", t, {}, EffectiveSecurity(after, t))
    BY <1>3 DEF NewOperations
  <2> QED
    BY <1>1, <2>1 DEF Kinds
<1>4. ASSUME f \in ChangedSchemes(before, after) PROVE f.kind \in Kinds
  <2>1. PICK kind, s, x, y : f = SchemeFinding(kind, s, x, y) /\ kind \in Kinds
    BY <1>4 DEF ChangedSchemes, Kinds
  <2> QED
    BY <1>1, <2>1 DEF SchemeFinding
<1> QED
  BY <1>2, <1>3, <1>4 DEF Drift, ChangedOperations

LEMMA CollisionsAreFinite ==
    ASSUME NEW transitions, IsFiniteSet(DOMAIN transitions)
    PROVE  IsFiniteSet(Collisions(transitions))
<1> DEFINE pairs == {ij \in (DOMAIN transitions) \X (DOMAIN transitions) :
                        ij[1] < ij[2] /\ Collides(transitions[ij[1]], transitions[ij[2]])}
           T == Collisions(transitions)
           g == [ij \in pairs |-> <<transitions[ij[1]], transitions[ij[2]]>>]
<1>1. IsFiniteSet(pairs)
  BY FS_Product, FS_Subset, pairs \in SUBSET ((DOMAIN transitions) \X (DOMAIN transitions))
<1>2. g \in [pairs -> T] /\ \A c \in T : \E ij \in pairs : g[ij] = c
  BY DEF Collisions
<1> HIDE DEF pairs, T, g
<1>3. IsFiniteSet(T)
  BY <1>1, <1>2, FiniteImage
<1> QED
  BY <1>3 DEF T

-------------------------------------------------------------------------------
\* The candidates can be counted, and each has a score of its own.
CandidatesInv ==
    /\ IsFiniteSet(candidates)
    /\ \A c \in candidates : Scored(c)

LEMMA MoreCandidates ==
    ASSUME NEW S, NEW T, IsFiniteSet(S), IsFiniteSet(T),
           \A c \in S : Scored(c), \A c \in T : Scored(c)
    PROVE  IsFiniteSet(S \cup T) /\ \A c \in S \cup T : Scored(c)
  BY FS_Union

LEMMA EnginesScore ==
    ASSUME NEW kind \in Kinds, NEW engine, NEW target, NEW detail
    PROVE  Scored(Candidate(engine, kind, target, detail, KindScore[kind], 1, TRUE))
<1>1. KindScore[kind] \in 0..1000
  BY LimitsAccepted
<1> QED
  BY <1>1 DEF Scored, Candidate

LEMMA NextCandidates == CandidatesInv /\ DriftInv /\ [Next]_vars => CandidatesInv'
<1> SUFFICES ASSUME CandidatesInv, DriftInv, [Next]_vars PROVE CandidatesInv'
  OBVIOUS
<1>1. ASSUME candidates' = candidates PROVE CandidatesInv'
  BY <1>1 DEF CandidatesInv
<1>2. CASE AnalyzeDrift /\ candidates' # candidates
  <2> DEFINE before == input.before[1]
             after == input.after[1]
             T == {DriftCandidate(f) : f \in Drift(before, after)}
  <2>1. /\ Len(input.before) = Len(input.after) /\ input.before # <<>>
        /\ candidates' = candidates \cup T
    BY <1>2 DEF AnalyzeDrift
  <2>2. WellFormed(before) /\ WellFormed(after)
    <3>1. /\ Optional(input.before) /\ Optional(input.after)
          /\ \A n \in DOMAIN input.before : WellFormed(input.before[n])
          /\ \A n \in DOMAIN input.after : WellFormed(input.after[n])
      BY InputsAssumption DEF DriftInv
    <3>2. input.before = <<input.before[1]>> /\ Len(input.before) = 1
      BY <2>1, <3>1 DEF Optional
    <3>3. input.after = <<input.after[1]>>
      <4>1. Len(input.after) = 1
        BY <2>1, <3>2
      <4> QED
        BY <3>1, <4>1 DEF Optional
    <3>4. 1 \in DOMAIN input.before /\ 1 \in DOMAIN input.after
      BY <3>2, <3>3
    <3> QED
      BY <3>1, <3>4
  <2>3. IsFiniteSet(T)
    <3> DEFINE F == Drift(before, after)
               g == [f \in F |-> DriftCandidate(f)]
    <3>1. IsFiniteSet(F)
      BY <2>2, FindingsAreFinite
    <3>2. g \in [F -> T] /\ \A c \in T : \E f \in F : g[f] = c
      OBVIOUS
    <3> HIDE DEF F, T, g
    <3> QED
      BY <3>1, <3>2, FiniteImage
  <2>4. \A c \in T : Scored(c)
    BY FindingsAreOfKinds, EnginesScore DEF DriftCandidate
  <2> HIDE DEF T
  <2> QED
    BY <2>1, <2>3, <2>4, MoreCandidates DEF CandidatesInv
<1>3. CASE AnalyzeTransitions
  <2> DEFINE F == Collisions(input.transitions)
             T == {CollisionCandidate(c) : c \in F}
             g == [c \in F |-> CollisionCandidate(c)]
  <2>1. candidates' = candidates \cup T
    BY <1>3 DEF AnalyzeTransitions
  <2>2. IsFiniteSet(F)
    BY InputsAssumption, CollisionsAreFinite DEF DriftInv
  <2>3. g \in [F -> T] /\ \A t \in T : \E c \in F : g[c] = t
    OBVIOUS
  <2>4. \A t \in T : Scored(t)
    BY EnginesScore DEF CollisionCandidate, Kinds
  <2> HIDE DEF F, T, g
  <2>5. IsFiniteSet(T)
    BY <2>2, <2>3, FiniteImage
  <2> QED
    BY <2>1, <2>4, <2>5, MoreCandidates DEF CandidatesInv
<1>4. CASE AnalyzeOpenApi \/ RankCandidates \/ UNCHANGED vars
  BY <1>1, <1>4 DEF AnalyzeOpenApi, RankCandidates, vars
<1>5. ASSUME NEW candidate, PlanCandidate(candidate) PROVE CandidatesInv'
  BY <1>1, <1>5 DEF PlanCandidate
<1> QED
  BY <1>1, <1>2, <1>3, <1>4, <1>5 DEF Next

(* Whatever the engines find in any inputs, it is finite and has a score
   (campaign.py:131-190). *)
THEOREM CandidatesAreCounted == Spec => []CandidatesInv
<1>1. Init => CandidatesInv
  BY InputsAssumption DEF Init, CandidatesInv
<1> QED
  BY <1>1, NextCandidates, DriftIsRanked, PTL DEF Spec

(* "Rewards independent evidence on one target" (fusion.py:28): of any number of
   candidates, with any scores and evidence, none ranks lower because there is
   another one besides (fusion.py:30-55). *)
THEOREM CompanyIsRewarded == Spec => []CompanyNeverLowers
<1>1. CandidatesInv /\ DriftInv => CompanyNeverLowers
  <2> SUFFICES ASSUME CandidatesInv, DriftInv, pc = "ranked",
                      NEW r \in ranked, NEW other \in candidates \ {r.candidate}
               PROVE  r.priority >= Priority(r.candidate, candidates \ {other})
    BY DEF CompanyNeverLowers
  <2>1. PICK c \in candidates : r = Ranked(c, candidates)
    BY DEF DriftInv, Rank
  <2>2. r.candidate = c /\ r.priority = Priority(c, candidates)
    BY <2>1 DEF Ranked
  <2>3. Countable(candidates) /\ c.score \in 0..1000
    BY <2>1 DEF CandidatesInv, Scored, Countable
  <2> QED
    BY <2>1, <2>2, <2>3, CompanyHelps
<1> QED
  BY <1>1, CandidatesAreCounted, DriftIsRanked, PTL

(* Each state is one the code can be in: a sequence is as long as it may be, a
   priority is no less than the score it is made of and at most 1000, and no more
   plans are charged than the budget allows. *)
THEOREM TypeCorrect == Spec => []TypeOK
<1> DEFINE Budget == used \in 0..MaxPlans /\ (pc # "ranked" => ranked = {})
<1>1. Init => Budget
  BY LimitsAccepted DEF Init
<1>2. Budget /\ [Next]_vars => Budget'
  <2> SUFFICES ASSUME Budget, [Next]_vars PROVE Budget'
    OBVIOUS
  <2>1. ASSUME NEW candidate, PlanCandidate(candidate) PROVE Budget'
    BY <2>1, LimitsAccepted DEF PlanCandidate
  <2> QED
    BY <2>1 DEF Next, AnalyzeOpenApi, AnalyzeDrift, AnalyzeTransitions, RankCandidates, vars
<1>3. Budget /\ DriftInv /\ CandidatesInv /\ SequencesInv => TypeOK
  <2> SUFFICES ASSUME Budget, DriftInv, CandidatesInv, SequencesInv PROVE TypeOK
    OBVIOUS
  <2>1. \A w \in sequences : Len(w) \in 2..input.depth
    <3> SUFFICES ASSUME NEW w \in sequences PROVE Len(w) \in 2..input.depth
      OBVIOUS
    <3>1. input.depth \in Nat /\ sequences = UNION {Chains(input.openapi[1], n) : n \in 2..input.depth}
      BY ApiWalksAreChains DEF SequencesInv, ContractSequences
    <3>2. PICK n \in 2..input.depth : w \in Chains(input.openapi[1], n)
      BY <3>1
    <3>3. n \in Nat /\ Len(w) = n
      BY <3>1, <3>2 DEF Chains
    <3> QED
      BY <3>2, <3>3
  <2>2. ASSUME NEW r \in ranked
        PROVE  r.candidate \in candidates /\ r.priority \in r.candidate.score..1000
    <3>1. PICK c \in candidates : r = Ranked(c, candidates)
      BY DEF DriftInv, Rank
    <3>2. r.candidate = c /\ r.priority = Priority(c, candidates)
      BY <3>1 DEF Ranked
    <3>3. Countable(candidates) /\ c.score \in 0..1000
      BY <3>1 DEF CandidatesInv, Scored, Countable
    <3>4. Priority(c, candidates) \in c.score..1000
      BY <3>3, CompanyHelps
    <3> QED
      BY <3>2, <3>4
  <2> QED
    BY <2>1, <2>2 DEF TypeOK, DriftInv
<1> HIDE DEF Budget
<1> QED
  BY <1>1, <1>2, <1>3, CandidatesAreCounted, DriftIsRanked, InitSequences, NextSequences, PTL DEF Spec
===============================================================================
