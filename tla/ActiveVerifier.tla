---------------------------- MODULE ActiveVerifier ----------------------------
(***************************************************************************)
(* One active authorization verification (verifier.py,                      *)
(* ActiveAuthorizationVerifier.run): the fixtures are validated, a matrix   *)
(* of requests and identities is built from them, each cell is sent to a    *)
(* target that may answer anything, and the answers are analysed.           *)
(* The target answers each cell as it likes: a session can end, a page can  *)
(* change, between two cells of one row.                                    *)
(*                                                                          *)
(* How a cell is sent is module Collector; here it has an answer or ends    *)
(* the run.                                                                 *)
(***************************************************************************)
EXTENDS AuthzEngine, VerificationMatrix

CONSTANTS
    Inputs,           \* fixtures: profiles, resources, templates, anonymous
    Bodies,           \* bodies a successful request may return
    MaxRequests       \* limits.max_requests

\* Fixtures are lists, and no resource is loaded without a key and a kind
\* (verifier.py:52-58).
ASSUME FixturesAccepted ==
    \A in \in Inputs :
        /\ in.profiles \in Seq(ToSet(in.profiles))
        /\ in.resources \in Seq(ToSet(in.resources))
        /\ in.templates \in Seq(ToSet(in.templates))
        /\ \A r \in ToSet(in.resources) : r.key # None /\ r.kind \notin {None, ""}

ASSUME BudgetAccepted == MaxRequests \in Nat

VARIABLES
    input,            \* the fixtures of this run
    pc,
    profiles,         \* the identities of the matrix
    requests,         \* its requests
    observations,     \* one for each cell sent so far
    findings

vars == <<input, pc, profiles, requests, observations, findings>>

\* A faulty Owns: no resources is taken for no knowledge of them.
OwnsIfAny(request, p) ==
    IF request.resource = None \/ p.owned = {} THEN "unknown"
    ELSE IF request.resource \in p.owned THEN "yes" ELSE "no"

\* EvidenceCollector.collect_one decides ownership.
Owns(request, p) ==
    IF request.resource = None THEN "unknown"
    ELSE IF request.resource \in p.owned THEN "yes" ELSE "no"

Observation(request, p, answer) ==
    [route |-> request.route, resource |-> request.resource,
     principal |-> p.principal, role |-> p.role, owns |-> Owns(request, p),
     tenant |-> p.tenant, resourceTenant |-> request.tenant, answer |-> answer]

TypeOK ==
    /\ input \in Inputs
    /\ pc \in {"new", "collect", "done", "raised"}
    /\ Len(observations) <= MaxRequests
    /\ \A o \in ToSet(observations) :
        o.answer \in {Refused} \cup Bodies /\ o.owns \in {"yes", "no", "unknown"}
    /\ \A f \in findings :
        /\ f.kind \in {"anonymous", "object", "role", "tenant"}
        /\ f.strength \in {"likely", "verified"}

Init ==
    /\ input \in Inputs
    /\ pc = "new"
    /\ profiles = <<>> /\ requests = <<>> /\ observations = <<>>
    /\ findings = {}

\* A faulty WithinBudget: the identity the run adds is not counted.
WithinConfiguredBudget(in) == Len(Requests(in)) * Len(in.profiles) <= MaxRequests

WithinBudget(in) == Len(Requests(in)) * Len(EnrichedProfiles(in)) <= MaxRequests

Reject ==
    /\ pc = "new"
    /\ ~ValidInputs(input) \/ ~WithinBudget(input)
    /\ pc' = "raised"
    /\ UNCHANGED <<input, profiles, requests, observations, findings>>

Begin ==
    /\ pc = "new"
    /\ ValidInputs(input)
    /\ WithinBudget(input)
    /\ profiles' = EnrichedProfiles(input)
    /\ requests' = Requests(input)
    /\ pc' = "collect"
    /\ UNCHANGED <<input, observations, findings>>

\* The next cell, row by row.
Collect(answer) ==
    /\ pc = "collect"
    /\ Len(observations) < Len(requests) * Len(profiles)
    /\ LET k == Len(observations)
       IN  observations' = Append(observations,
               Observation(requests[(k \div Len(profiles)) + 1],
                           profiles[(k % Len(profiles)) + 1], answer))
    /\ UNCHANGED <<input, pc, profiles, requests, findings>>

\* The policy refuses the next cell, or it fails: the matrix is lost.
CollectRaises ==
    /\ pc = "collect"
    /\ Len(observations) < Len(requests) * Len(profiles)
    /\ pc' = "raised"
    /\ UNCHANGED <<input, profiles, requests, observations, findings>>

Analyse ==
    /\ pc = "collect"
    /\ Len(observations) = Len(requests) * Len(profiles)
    /\ findings' = Analyze(observations)
    /\ pc' = "done"
    /\ UNCHANGED <<input, profiles, requests, observations>>

Next ==
    \/ Reject \/ Begin
    \/ \E answer \in {Refused} \cup Bodies : Collect(answer)
    \/ CollectRaises \/ Analyse

Spec == Init /\ [][Next]_vars
-------------------------------------------------------------------------------
\* Ownership and tenancy as the fixtures state them.
OwnedBy(key, principal) ==
    \E r \in ToSet(input.resources) : r.key = key /\ r.owner = principal

Foreign(key, o) ==
    /\ key # None
    /\ ~OwnedBy(key, o.principal)

ForeignTenant(key, o) ==
    /\ Foreign(key, o)
    /\ \E p \in ToSet(input.profiles), r \in ToSet(input.resources) :
        /\ p.principal = o.principal /\ r.key = key
        /\ p.tenant # None /\ r.tenant # None /\ p.tenant # r.tenant

Entitled(kind, o) ==
    CASE kind = "anonymous" -> o.role # "anonymous"
      [] kind = "role" -> o.role \in PRIVILEGED_ROLES
      [] OTHER -> OwnedBy(o.resource, o.principal)

Unentitled(kind, o) ==
    CASE kind = "anonymous" -> o.role = "anonymous"
      [] kind = "role" -> o.role \notin PRIVILEGED_ROLES \cup {"anonymous"}
      [] kind = "object" -> Foreign(o.resource, o)
      [] kind = "tenant" -> ForeignTenant(o.resource, o)

\* Two bodies agree on some value.
Agree(b, c) == \E k \in DOMAIN b \cap DOMAIN c : b[k] = c[k]

(* A finding accuses an identity that did receive something it was not
   entitled to on that target; a verified one rests besides on an answer to
   another, entitled identity that agrees with it.  Owners are those of the
   fixtures: "the ownership truth comes from resources.json, not from
   inference" (docs/ACTIVE_VERIFICATION.md:18, authz.py:276-480). *)
FindingsRestOnAnswers ==
    \A f \in findings : \E v \in ToSet(observations) :
        /\ Target(v) = f.target /\ Usable(v) /\ Unentitled(f.kind, v)
        /\ f.strength = "verified" =>
            \E o \in ToSet(observations) :
                /\ Target(o) = f.target /\ Usable(o) /\ Entitled(f.kind, o)
                /\ o.principal # v.principal
                /\ Agree(o.answer, v.answer)

(* "BARQ requests Alice's controlled object and Bob's controlled object using
   each controlled identity" (docs/ACTIVE_VERIFICATION.md:18), and without an
   identity when the manifest asks for that (verifier.py:313-335, 392-403). *)
EveryIdentityTriesEveryObject ==
    pc = "done" =>
        \A t \in ToSet(input.templates), r \in ToSet(input.resources) : t.kind = r.kind =>
            LET tried == {o \in ToSet(observations) : Target(o) = <<t.route, r.key>>}
            IN  /\ \A p \in ToSet(input.profiles) : \E o \in tried : o.principal = p.principal
                /\ input.anonymous => \E o \in tried : LooksAnonymous(o)

(* An object that its owner can read and that another identity, the anonymous
   one included, reads just the same is reported as verified, whatever else
   was answered on that target (authz.py:320-366, collector.py:204-206). *)
ExposedObjectIsReported ==
    pc = "done" =>
        \A o, v \in ToSet(observations) :
            /\ Target(o) = Target(v) /\ Usable(v) /\ o.answer = v.answer
            /\ OwnedBy(o.resource, o.principal) /\ Foreign(v.resource, v)
            => \E f \in findings :
                f.kind = "object" /\ f.target = Target(v) /\ f.strength = "verified"

(* Protected data that crosses a tenant boundary is reported also when the
   owner's session no longer answers, so that there is nothing to compare with
   (authz.py:422-480). *)
CrossedTenantIsReported ==
    pc = "done" =>
        \A v \in ToSet(observations) :
            /\ Usable(v) /\ Sensitive(v.answer) # {}
            /\ ForeignTenant(v.resource, v)
            => \E f \in findings : f.kind = "tenant" /\ f.target = Target(v)

(* "BARQ builds a bounded identity/resource matrix and can verify signals such
   as: ... anonymous access to protected response data" (README.md:41-46): what
   the identity the verifier takes for the anonymous one receives is reported
   (verifier.py:313-316, authz.py:276-281). *)
AnonymousExposureIsReported ==
    pc = "done" =>
        \A v \in ToSet(observations) :
            LooksAnonymous(v) /\ Usable(v) /\ Sensitive(v.answer) # {}
            => \E f \in findings : f.kind = "anonymous" /\ f.target = Target(v)
===============================================================================
