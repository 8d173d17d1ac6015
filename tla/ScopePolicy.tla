----------------------------- MODULE ScopePolicy -----------------------------
(***************************************************************************)
(* The pure part of scope.py: which target rule of a policy authorizes a   *)
(* request.                                                                *)
(*                                                                         *)
(* Abstractions.  A host is the sequence of its labels, already lower case *)
(* and without a trailing dot, as canonical_url leaves it; an address is   *)
(* one label.  A port is the effective one.  A path is the set of words    *)
(* between its separators (/ _ -), decoded and lower case; a deny term is  *)
(* one word.                                                               *)
(***************************************************************************)
EXTENDS Naturals, Sequences

SAFE_METHODS == {"GET", "HEAD", "OPTIONS"}

DEFAULT_DENY_TERMS ==
    {"delete", "destroy", "terminate", "deactivate", "logout", "payment",
     "purchase", "transfer", "withdraw"}

\* The result of authorized_rule when it raises ScopeViolation.
Violation == 0

EndsWith(host, suffix) ==
    /\ Len(host) >= Len(suffix)
    /\ SubSeq(host, Len(host) - Len(suffix) + 1, Len(host)) = suffix

MatchesHost(pattern, host) ==
    \/ pattern.kind = "network"  /\ host \in pattern.hosts
    \/ pattern.kind = "wildcard" /\ EndsWith(host, pattern.name) /\ host # pattern.name
    \/ pattern.kind = "name"     /\ host = pattern.name

Matches(rule, url, method) ==
    /\ MatchesHost(rule.pattern, url.host)
    /\ url.scheme \in rule.schemes
    /\ url.port \in rule.ports
    /\ method \in rule.methods

\* A faulty Denied: a policy's own list replaces the default terms.
DeniedByPolicyOnly(policy, url) ==
    url.words \cap (IF policy.deny_paths = {} THEN DEFAULT_DENY_TERMS ELSE policy.deny_paths) # {}

Denied(policy, url) == url.words \cap (policy.deny_paths \cup DEFAULT_DENY_TERMS) # {}

MatchingRules(policy, url, method) ==
    {i \in 1..Len(policy.targets) : Matches(policy.targets[i], url, method)}

First(S) == CHOOSE i \in S : \A j \in S : i <= j

\* What makes authorized_rule raise.
Refused(policy, url, method, active) ==
    \/ url.scheme \notin {"http", "https"}
    \/ MatchingRules(policy, url, method) = {}
    \/ Denied(policy, url)
    \/ active /\ ~policy.active_testing
    \/ active /\ method \notin SAFE_METHODS /\ policy.human_approval_required

\* The index of the first matching rule, when every gate lets the request through.
AuthorizedRule(policy, url, method, active) ==
    IF Refused(policy, url, method, active)
    THEN Violation
    ELSE First(MatchingRules(policy, url, method))

\* What ScopePolicy.from_dict accepts: at least one target, and rates in
\* (0, 5], so that the interval between requests (1 / max_rps) is positive.
AcceptedPolicy(policy) ==
    /\ Len(policy.targets) \in Nat \ {0}
    /\ \A i \in 1..Len(policy.targets) : policy.targets[i].interval \in Nat \ {0}
===============================================================================
