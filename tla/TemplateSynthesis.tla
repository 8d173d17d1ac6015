-------------------------- MODULE TemplateSynthesis ---------------------------
(***************************************************************************)
(* Templates made from discovered URLs (smart_verify.py): one place of a    *)
(* URL gives way to the placeholder of a controlled resource, and as many   *)
(* templates are kept as the request budget can pay.                        *)
(*                                                                          *)
(* Abstractions.  Templates of one score are taken in an arbitrary, fixed   *)
(* order.                                                                   *)
(***************************************************************************)
EXTENDS EndpointPrioritizer, OpenApiTemplates, ScopePolicy

CONSTANTS
    DynamicValues,    \* segments that _DYNAMIC matches
    LowerCase         \* each resource kind in lower case

ASSUME EveryIdLooksDynamic == IdValues \subseteq DynamicValues

\* The URL as the scope policy sees it.
Addressed(url) ==
    [host |-> url.host, scheme |-> "https", port |-> 443, words |-> ToSet(url.path)]

Permitted(policy, url) == ~Refused(policy, Addressed(url), "GET", TRUE)

BaseScore(url) == IF Surfaces(url) = {} THEN 45 ELSE ScoreOf(url)

Candidate(url, place, kind, bonus) ==
    [url |-> Put(url, place, Placeholder), kind |-> kind,
     score |-> LeastOf(100, BaseScore(url) + bonus)]

\* A controlled value was seen in the URL itself.
ExactCandidates(url, resources) ==
    UNION {{Candidate(url, place, r.kind, IF place[1] = "path" THEN 12 ELSE 10) :
                place \in {p \in Places(url) : TextAt(url, p) = r.value}} :
           r \in ToSet(resources)}

\* The manifest binds the query key to a kind.
BoundQueryCandidates(url, bindings) ==
    {Candidate(url, <<"query", i>>, bindings[url.query[i].key], 8) :
        i \in {i \in DOMAIN url.query : url.query[i].key \in DOMAIN bindings}}

Aliases(kind) == {kind, kind \o "s", kind \o "es"}

\* A faulty KindPlaces: the place of the kind instead of the identifier's.
PrecedingPlaces(url, kind) ==
    {i - 1 : i \in {i \in 2..Len(url.path) :
        url.path[i] \in DynamicValues /\ url.path[i - 1] \in Aliases(kind)}}

\* /kind/<id>
KindPlaces(url, kind) ==
    {i \in 2..Len(url.path) :
        url.path[i] \in DynamicValues /\ url.path[i - 1] \in Aliases(kind)}

\* Kinds are compared, and written into the template, in lower case.
KindPathCandidates(url, resources) ==
    UNION {{Candidate(url, <<"path", i>>, kind, 6) : i \in KindPlaces(url, kind)} :
        kind \in {LowerCase[r.kind] : r \in ToSet(resources)}}

Candidates(url, resources, bindings) ==
    ExactCandidates(url, resources)
        \cup BoundQueryCandidates(url, bindings)
        \cup KindPathCandidates(url, resources)

\* The best candidate for each URL and kind.
Best(candidates) ==
    {c \in candidates :
        \A d \in candidates : <<d.url, d.kind>> = <<c.url, c.kind>> => d.score <= c.score}

\* sorted, by score from the highest down.
Ordered(candidates) ==
    LET listing[s \in SUBSET candidates] ==
            IF s = {} THEN <<>> ELSE <<Highest(s)>> \o listing[s \ {Highest(s)}]
    IN  listing[candidates]

\* synthesize, before its cut.
AllSynthesized(urls, policy, resources, bindings) ==
    Ordered(Best(UNION {Candidates(url, resources, bindings) :
                        url \in {u \in urls : Permitted(policy, u)}}))

Synthesized(urls, policy, resources, bindings, limit) ==
    LET all == AllSynthesized(urls, policy, resources, bindings)
    IN  SubSeq(all, 1, LeastOf(limit, Len(all)))

SmartTemplate(candidate) ==
    Template("GET", candidate.url, candidate.url.path, candidate.kind)

\* Requests a template is expected to cost for one identity.
Expansion(template, resources) ==
    IF template.kind = None THEN 1
    ELSE Cardinality({i \in DOMAIN resources : resources[i].kind = template.kind})

BaseUnits(templates, resources) ==
    FoldLeft(LAMBDA sum, t : sum + Expansion(t, resources), 0, templates)

\* A faulty ProfileCount: the identity the run adds is not counted.
ConfiguredProfileCount(in) == Len(in.profiles)

ProfileCount(in) ==
    IF in.anonymous /\ \A p \in ToSet(in.profiles) : ~LooksAnonymous(p)
    THEN Len(in.profiles) + 1
    ELSE Len(in.profiles)

\* A faulty FitBudget: it stops at the first template that costs too much.
FitBudgetInOrder(base, candidates, resources, profileCount, maxRequests) ==
    LET Cost(c) == Expansion(SmartTemplate(c), resources) * profileCount
        full == [selected |-> <<>>, used |-> base * profileCount, open |-> TRUE]
        Step(acc, c) ==
            IF acc.open /\ Cost(c) >= 1 /\ acc.used + Cost(c) <= maxRequests
            THEN [acc EXCEPT !.selected = Append(@, c), !.used = @ + Cost(c)]
            ELSE [acc EXCEPT !.open = FALSE]
    IN  FoldLeft(Step, full, candidates)

\* Templates are admitted while there is room for them; one that is too
\* expensive is passed over, and one with no resource of its kind as well.
FitBudget(base, candidates, resources, profileCount, maxRequests) ==
    LET Cost(c) == Expansion(SmartTemplate(c), resources) * profileCount
        Step(acc, c) ==
            IF Cost(c) >= 1 /\ acc.used + Cost(c) <= maxRequests
            THEN [selected |-> Append(acc.selected, c), used |-> acc.used + Cost(c)]
            ELSE acc
    IN  FoldLeft(Step, [selected |-> <<>>, used |-> base * profileCount], candidates)
===============================================================================
