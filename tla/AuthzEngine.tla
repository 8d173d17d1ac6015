------------------------------ MODULE AuthzEngine ------------------------------
(***************************************************************************)
(* The differential engine (authz.py): operators on the sequence of         *)
(* observations a verification collected.                                   *)
(*                                                                          *)
(* Abstractions.  A body is a function from its leaf paths to values, the   *)
(* volatile keys left out; fingerprints and hashes are injective.  The      *)
(* answer of a failed request (no 2xx status) is Refused.  A route stands   *)
(* for method and route.  A finding is what decides its id, and its         *)
(* strength; scores, texts and the principals it names are left out.        *)
(***************************************************************************)
EXTENDS Models

CONSTANTS
    Refused,          \* the answer of a request that did not succeed
    SensitiveKeys,
    DenialTexts,      \* values that contain one of DENIAL_TERMS
    PrivilegedNames   \* routes and resource keys with admin, manage, internal or staff

PRIVILEGED_ROLES == {"admin", "owner", "superadmin", "staff", "manager"}
DENIAL_KEYS == {"error", "message", "detail", "reason", "code", "status"}

Sensitive(body) == DOMAIN body \cap SensitiveKeys

DenialLike(body) ==
    /\ Sensitive(body) = {}
    /\ \E k \in DOMAIN body \cap DENIAL_KEYS : body[k] \in DenialTexts

Usable(o) ==
    /\ o.answer # Refused
    /\ DOMAIN o.answer # {}
    /\ ~DenialLike(o.answer)

SharedSecrets(base, viewed) ==
    {k \in Sensitive(base) \cap Sensitive(viewed) : base[k] = viewed[k]}

\* Shape similarity at least 0.85.
SameShape(base, viewed) ==
    100 * Cardinality(DOMAIN base \cap DOMAIN viewed)
        >= 85 * Cardinality(DOMAIN base \cup DOMAIN viewed)

\* A faulty Strength: a body of the same shape is taken for the same body.
ShapeStrength(base, viewed) ==
    IF SameShape(base, viewed) THEN "verified" ELSE "insufficient"

Strength(base, viewed) ==
    IF base = viewed \/ SharedSecrets(base, viewed) # {} THEN "verified"
    ELSE IF /\ Cardinality(Sensitive(base) \cap Sensitive(viewed)) >= 2
            /\ SameShape(base, viewed)
         THEN "likely" ELSE "insufficient"

\* A group of the analysis is its key.
Target(o) == <<o.route, o.resource>>

\* The usable samples of a target, as positions in obs.
Samples(obs, t) == {i \in DOMAIN obs : Target(obs[i]) = t /\ Usable(obs[i])}

First(I) == CHOOSE i \in I : \A j \in I : i <= j

Finding(kind, t, strength, basis) ==
    [kind |-> kind, target |-> t, strength |-> strength, basis |-> basis]

\* A finding of one baseline against one viewer.
Compared(kind, t, base, viewed) ==
    Finding(kind, t, Strength(base, viewed), <<base, viewed>>)

Matching(obs, owners, v, strength) ==
    {i \in owners : Strength(obs[i].answer, obs[v].answer) = strength}

Viewers(obs, t) == {v \in Samples(obs, t) : Sensitive(obs[v].answer) # {}}

\* A faulty AnonymousExposure: without a matching baseline there is no finding.
AnonymousMatches(obs, t) ==
    LET bases == {i \in Samples(obs, t) : obs[i].role # "anonymous"}
    IN  {Compared("anonymous", t, obs[First(Matching(obs, bases, v, "verified"))].answer,
                  obs[v].answer) :
         v \in {w \in Viewers(obs, t) : /\ obs[w].role = "anonymous"
                                        /\ Matching(obs, bases, w, "verified") # {}}}

AnonymousExposure(obs, t) ==
    LET bases == {i \in Samples(obs, t) : obs[i].role # "anonymous"}
        Exposed(v) ==
            LET same == Matching(obs, bases, v, "verified")
            IN  IF same # {}
                THEN Compared("anonymous", t, obs[First(same)].answer, obs[v].answer)
                ELSE Finding("anonymous", t, "likely", <<obs[v].answer>>)
    IN  {Exposed(v) : v \in {w \in Viewers(obs, t) : obs[w].role = "anonymous"}}

ObjectAccess(obs, t) ==
    LET owners == {i \in Samples(obs, t) : obs[i].owns = "yes"}
        others == {i \in Samples(obs, t) : obs[i].owns = "no"}
    IN  {f \in {Compared("object", t, obs[i].answer, obs[v].answer) :
                i \in owners, v \in others} : f.strength # "insufficient"}

RoleParity(obs, t) ==
    LET privileged == {i \in Samples(obs, t) : obs[i].role \in PRIVILEGED_ROLES}
        ordinary == {v \in Viewers(obs, t) :
                        obs[v].role \notin PRIVILEGED_ROLES \cup {"anonymous"}}
    IN  IF t[1] \notin PrivilegedNames /\ t[2] \notin PrivilegedNames THEN {}
        ELSE {f \in {Compared("role", t, obs[i].answer, obs[v].answer) :
                     i \in privileged, v \in ordinary} : f.strength # "insufficient"}

Crosses(o) ==
    /\ o.owns = "no"
    /\ o.tenant # None /\ o.resourceTenant # None
    /\ o.tenant # o.resourceTenant

\* A faulty TenantCrossing: a viewer is judged by the owner's answer alone.
OwnedTenantCrossing(obs, t) ==
    LET owners == {i \in Samples(obs, t) : obs[i].owns = "yes"}
    IN  {f \in {Compared("tenant", t, obs[i].answer, obs[v].answer) :
                i \in owners, v \in {w \in Samples(obs, t) : Crosses(obs[w])}} :
         f.strength # "insufficient"}

TenantCrossing(obs, t) ==
    LET owners == {i \in Samples(obs, t) : obs[i].owns = "yes"}
        Best(v) ==
            IF Matching(obs, owners, v, "verified") # {}
            THEN Matching(obs, owners, v, "verified")
            ELSE Matching(obs, owners, v, "likely")
        Crossing(v) ==
            IF Best(v) # {}
            THEN Compared("tenant", t, obs[First(Best(v))].answer, obs[v].answer)
            ELSE Finding("tenant", t, "likely",
                         <<obs[v].tenant, obs[v].resourceTenant, Sensitive(obs[v].answer)>>)
        crossing == {v \in Samples(obs, t) :
                        Crosses(obs[v]) /\ (Best(v) # {} \/ v \in Viewers(obs, t))}
    IN  {Crossing(v) : v \in crossing}

Analyze(obs) ==
    UNION {AnonymousExposure(obs, t) \cup ObjectAccess(obs, t)
             \cup RoleParity(obs, t) \cup TenantCrossing(obs, t) :
           t \in {Target(obs[i]) : i \in DOMAIN obs}}
===============================================================================
