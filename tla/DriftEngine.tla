----------------------------- MODULE DriftEngine ------------------------------
(***************************************************************************)
(* What two versions of an OpenAPI document change about authorization      *)
(* (drift.py): operators on the two documents.                              *)
(*                                                                          *)
(* Abstractions.  A security is its set of alternatives (none when it is    *)
(* null or an empty list); an alternative is a function from the schemes it *)
(* asks for to sets of scopes.  A document is its global security, its      *)
(* operations by method and path, and the type of each security scheme.     *)
(* Severities and texts are left out; of the shortest baselines any one is  *)
(* reported.                                                                *)
(***************************************************************************)
EXTENDS Naturals, FiniteSets

CONSTANTS SensitiveOperations    \* those with a sensitive term in their path

\* An operation's own security, an empty one included, replaces the global one.
EffectiveSecurity(document, target) ==
    LET op == document.operations[target]
    IN  IF op.declares THEN op.security ELSE document.security

\* What _operations and _normalize_security make of a document: targets are a
\* method and a path, alternatives map schemes to scopes, and all of it is finite.
WellFormed(document) ==
    /\ "components.securitySchemes" \notin DOMAIN document.operations
    /\ IsFiniteSet(DOMAIN document.operations) /\ IsFiniteSet(DOMAIN document.schemes)
    /\ \A t \in DOMAIN document.operations :
        /\ IsFiniteSet(EffectiveSecurity(document, t))
        /\ \A r \in EffectiveSecurity(document, t) : r = [s \in DOMAIN r |-> r[s]]

\* A faulty Secured: one alternative that asks for something is enough.
SomewhereSecured(security) == \E r \in security : DOMAIN r # {}

Secured(security) == security # {} /\ \A r \in security : DOMAIN r # {}

WeakerOrEqual(candidate, baseline) ==
    /\ DOMAIN candidate \subseteq DOMAIN baseline
    /\ \A s \in DOMAIN candidate : candidate[s] \subseteq baseline[s]

\* A faulty StrictlyWeaker: a scheme they share is enough to compare them.
Overlapping(candidate, baseline) ==
    candidate # baseline /\ DOMAIN candidate \cap DOMAIN baseline # {}

\* A faulty StrictlyWeaker: only the schemes are compared.
FewerSchemes(candidate, baseline) ==
    /\ DOMAIN candidate \subseteq DOMAIN baseline
    /\ DOMAIN candidate # DOMAIN baseline

StrictlyWeaker(candidate, baseline) ==
    candidate # baseline /\ WeakerOrEqual(candidate, baseline)

\* Its detail is what the fingerprint of its evidence covers.
Finding(kind, target, before, after) ==
    [kind |-> kind, target |-> target, detail |-> <<kind, before, after>>]

\* The alternatives a new one undercuts, and the shortest of them.
Baselines(old, candidate) == {b \in old : StrictlyWeaker(candidate, b)}

Shortest(baselines) ==
    CHOOSE b \in baselines :
        \A other \in baselines : Cardinality(DOMAIN b) <= Cardinality(DOMAIN other)

Weakening(candidate, baseline, new) ==
    IF baseline \in new THEN "weaker-security-alternative-added"
    ELSE IF DOMAIN candidate # DOMAIN baseline THEN "required-security-scheme-removed"
    ELSE "required-scope-removed"

WeakenedRequirements(target, old, new) ==
    {LET b == Shortest(Baselines(old, c))
     IN  Finding(Weakening(c, b, new), target, b, c) :
        c \in {c \in new \ old : Baselines(old, c) # {}}}

\* Findings for an operation of both versions.
ChangedOperation(before, after, target) ==
    LET old == EffectiveSecurity(before, target)
        new == EffectiveSecurity(after, target)
    IN  IF ~Secured(old) THEN {}
        ELSE IF ~Secured(new) THEN {Finding("authentication-removed", target, old, new)}
        ELSE WeakenedRequirements(target, old, new)

ChangedOperations(before, after) ==
    UNION {ChangedOperation(before, after, t) :
              t \in DOMAIN before.operations \cap DOMAIN after.operations}

NewOperations(before, after) ==
    {Finding("new-sensitive-anonymous-operation", t, {}, EffectiveSecurity(after, t)) :
        t \in {t \in DOMAIN after.operations \ DOMAIN before.operations :
                  t \in SensitiveOperations /\ ~Secured(EffectiveSecurity(after, t))}}

\* Whatever the scheme, the target is the place of all definitions.
SchemeFinding(kind, scheme, before, after) ==
    Finding(kind, "components.securitySchemes", <<scheme, before>>, <<scheme, after>>)

ChangedSchemes(before, after) ==
    {SchemeFinding("security-scheme-definition-removed", s, before.schemes[s], "") :
        s \in DOMAIN before.schemes \ DOMAIN after.schemes}
    \cup
    {SchemeFinding("security-scheme-type-changed", s, before.schemes[s], after.schemes[s]) :
        s \in {s \in DOMAIN before.schemes \cap DOMAIN after.schemes :
                  before.schemes[s] # after.schemes[s]}}

Drift(before, after) ==
    ChangedOperations(before, after)
        \cup NewOperations(before, after)
        \cup ChangedSchemes(before, after)
===============================================================================
