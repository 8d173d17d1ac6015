---------------------------- MODULE BountyCampaign ----------------------------
(***************************************************************************)
(* One bounty campaign from end to end (bounty.py, BountyRunner.run, and    *)
(* smart_verify.py, SmartBountyRunner.run): the manifest is checked, the    *)
(* recon pipeline runs, its newest directory becomes leads, its URLs become *)
(* templates of controlled resources, the ones that fit the budget are      *)
(* sent, and what they show joins the board.                                *)
(*                                                                          *)
(* Abstractions.  What a verification finds is any set of findings (module  *)
(* ActiveVerifier has their rules).  The files of the board are module      *)
(* BountyBoard.  The campaign has no verification_manifest of its own: the  *)
(* smart one leads to the same leads; both manifests name one policy.       *)
(***************************************************************************)
EXTENDS ReconPipeline

CONSTANTS
    Campaigns,        \* manifests, fixtures, policies and what the tools can find
    TopCandidates     \* findings a verification hands on (10)

IsList(s) == s \in Seq(ToSet(s))

\* A rate is a whole number of some unit, for the code's floats (scope.py:64); the
\* limits are whole numbers too (bounty.py:139, smart_verify.py:64 and 468), and
\* what can be found is finite.
ASSUME CampaignsAccepted ==
    \A c \in Campaigns :
        /\ \A i \in DOMAIN c.policy.targets : c.policy.targets[i].max_rps \in Nat
        /\ {c.max_leads, c.max_templates, c.max_requests} \subseteq Nat
        /\ c.old \subseteq Seconds
        /\ \A found \in {c.web, c.oldWeb, c.scan, c.oldScan, c.findings} : IsFiniteSet(found)

\* Fixtures are lists, and no resource is loaded without a key and a kind
\* (verifier.py:52-58), which lower() leaves a kind.
ASSUME FixturesLoaded ==
    \A c \in Campaigns :
        /\ IsList(c.profiles) /\ IsList(c.resources) /\ IsList(c.templates)
        /\ \A r \in ToSet(c.resources) :
            /\ r.key # None
            /\ {r.kind, LowerCase[r.kind]} \cap {None, ""} = {}

\* A URL has a path and a query.  Words are lower case, so that one names a kind
\* only if the kind is (smart_verify.py:184).
ASSUME UrlsParsed ==
    \A c \in Campaigns : \A u \in c.web \cup c.oldWeb :
        /\ u = [host |-> u.host, path |-> u.path, query |-> u.query]
        /\ IsList(u.path) /\ IsList(u.query)
        /\ \A pair \in ToSet(u.query) : pair = [key |-> pair.key, value |-> pair.value]
        /\ \A r \in ToSet(c.resources) :
            Aliases(r.kind) \cap ToSet(u.path) # {} => LowerCase[r.kind] = r.kind

\* The paths of a contract are the keys of an object: a route is one path.
ASSUME ContractsParsed ==
    \A c \in Campaigns :
        /\ IsList(c.openapi)
        /\ \A contract \in ToSet(c.openapi) :
            LET operations == contract.document.operations
            IN  /\ contract.config.max_templates \in Nat
                /\ IsList(operations)
                /\ \A op, other \in ToSet(operations) :
                    /\ IsList(op.path)
                    /\ RouteOf(op) = RouteOf(other) => op.path = other.path

ASSUME TopIsANumber == TopCandidates \in Nat

VARIABLES
    pc,
    rates,            \* requests per second of each tool
    readFrom,         \* the second whose directory was read
    board,
    plan,             \* what was synthesized, selected and estimated
    sent,             \* the requests of the verification
    reported          \* the findings it handed on

bountyVars == <<pc, rates, readFrom, board, plan, sent, reported>>
vars == <<campaign, pipelineVars, bountyVars>>

TOOLS == {"HTTPX_RPS", "KATANA_RPS", "NUCLEI_RPS"}

NoRates == [t \in {} |-> 0]
NoPlan == [made |-> FALSE, synthesized |-> <<>>, selected |-> <<>>, estimated |-> 0,
           cut |-> FALSE]

UsableRules(policy, kind) ==
    {i \in DOMAIN policy.targets :
        LET rule == policy.targets[i]
        IN  /\ "GET" \in rule.methods /\ rule.schemes \cap {"http", "https"} # {}
            /\ rule.pattern.kind = kind /\ rule.pattern.name = campaign.domain}

\* A faulty Ceiling: only the rule for the root domain counts.
RootCeiling(policy) == Min({policy.targets[i].max_rps : i \in UsableRules(policy, "name")})

\* _assert_domain_covered: the lowest rate of the rules for domain and wildcard.
Ceiling(policy) ==
    Min({policy.targets[i].max_rps :
            i \in UsableRules(policy, "name") \cup UsableRules(policy, "wildcard")})

Covered(policy) ==
    UsableRules(policy, "name") # {} /\ UsableRules(policy, "wildcard") # {}

\* What run() asks of the manifest before anything is started.
Launchable ==
    /\ campaign.authorized
    /\ campaign.policy.active_testing
    /\ Covered(campaign.policy)
    /\ \A t \in DOMAIN campaign.env : campaign.env[t] \in 1..Ceiling(campaign.policy)

BoundedEnv ==
    [t \in TOOLS |->
        IF t \in DOMAIN campaign.env THEN campaign.env[t] ELSE Ceiling(campaign.policy)]

Made == {s \in Seconds : dirs[s].made}

\* The directory whose name sorts last.
LatestRun == Max(Made)

BaseLeads(files) ==
    {T \cup {NucleiLead(f) : f \in files.nuclei} :
        T \in Cuts(Leads(files.logic \cup files.params), campaign.max_leads)}

\* A faulty DiscoveryUrls: only what the pipeline shortlisted.
ShortlistedUrls == dirs[readFrom].logic \cup dirs[readFrom].params

DiscoveryUrls ==
    dirs[readFrom].logic \cup dirs[readFrom].params \cup dirs[readFrom].scoped

OpenApi ==
    IF campaign.openapi = <<>> THEN <<>>
    ELSE OpenApiPlan(campaign.openapi[1].document, campaign.openapi[1].config)

\* The temporary manifest, as VerificationRunner.run reads it.
Derived(selected) ==
    [profiles |-> campaign.profiles, resources |-> campaign.resources,
     anonymous |-> campaign.anonymous,
     templates |-> UniqueTemplates(campaign.templates
                       \o [i \in DOMAIN selected |-> SmartTemplate(selected[i])] \o OpenApi)]

MatrixSize(in) == Len(Requests(in)) * Len(EnrichedProfiles(in))

Init ==
    /\ campaign \in Campaigns
    /\ PipelineInit
    /\ pc = "new"
    /\ rates = NoRates
    /\ readFrom = 0
    /\ board = {}
    /\ plan = NoPlan
    /\ sent = <<>> /\ reported = {}

\* Not authorized, not covered by the policy, or too fast.
RefuseCampaign ==
    /\ pc = "new"
    /\ ~Launchable
    /\ pc' = "failed"
    /\ UNCHANGED <<campaign, pipelineVars, rates, readFrom, board, plan, sent, reported>>

StartPipeline ==
    /\ pc = "new"
    /\ Launchable
    /\ MakeRun
    /\ pc' = "recon"
    /\ rates' = BoundedEnv
    /\ UNCHANGED <<readFrom, board, plan, sent, reported>>

RunPipeline ==
    /\ pc = "recon"
    /\ PipelineStep
    /\ UNCHANGED bountyVars

\* check=True: a pipeline that fails ends the campaign.
PipelineRaises ==
    /\ pc = "recon"
    /\ stage = "failed"
    /\ pc' = "failed"
    /\ UNCHANGED <<campaign, pipelineVars, rates, readFrom, board, plan, sent, reported>>

\* Leads of the newest run directory make the board.
ReadRun ==
    /\ pc = "recon"
    /\ stage = "done"
    /\ readFrom' = LatestRun
    /\ \E leads \in BaseLeads(dirs[LatestRun]) :
        board' \in Cuts(Deduped(leads), campaign.max_leads)
    /\ pc' = IF campaign.smart THEN "smart" ELSE "done"
    /\ UNCHANGED <<campaign, pipelineVars, rates, plan, sent, reported>>

\* Inputs smart verification refuses before it synthesizes.
SmartInputs ==
    /\ campaign.resources # <<>>
    /\ campaign.profiles # <<>> \/ campaign.anonymous
    /\ \A k \in DOMAIN campaign.bindings :
        \E r \in ToSet(campaign.resources) : r.kind = campaign.bindings[k]
    /\ \A t \in ToSet(campaign.templates) : ValidTemplate(t)

PlanTemplates ==
    /\ pc = "smart"
    /\ LET all == AllSynthesized(DiscoveryUrls, campaign.policy, campaign.resources,
                                 campaign.bindings)
           synthesized == Synthesized(DiscoveryUrls, campaign.policy, campaign.resources,
                                      campaign.bindings, campaign.max_templates)
           base == BaseUnits(campaign.templates \o OpenApi, campaign.resources)
           fit == FitBudget(base, synthesized, campaign.resources, ProfileCount(campaign),
                            campaign.max_requests)
       IN  IF /\ SmartInputs
              /\ base * ProfileCount(campaign) <= campaign.max_requests
              /\ fit.selected # <<>> \/ campaign.templates # <<>> \/ OpenApi # <<>>
           THEN /\ pc' = "verify"
                /\ plan' = [made |-> TRUE, synthesized |-> synthesized,
                            selected |-> fit.selected, estimated |-> fit.used,
                            cut |-> synthesized # all]
           ELSE pc' = "failed" /\ plan' = NoPlan
    /\ UNCHANGED <<campaign, pipelineVars, rates, readFrom, board, sent, reported>>

\* The verifier refuses the derived manifest, or the collection fails.
VerificationRaises ==
    /\ pc = "verify"
    /\ pc' = "failed"
    /\ UNCHANGED <<campaign, pipelineVars, rates, readFrom, board, plan, sent, reported>>

\* The matrix is sent; the findings handed on join the board.
VerifyAndMerge ==
    /\ pc = "verify"
    /\ LET in == Derived(plan.selected)
       IN  /\ ValidInputs(in)
           /\ MatrixSize(in) <= campaign.max_requests
           /\ sent' = Requests(in)
    /\ \E findings \in SUBSET campaign.findings :
        /\ reported' \in {top \in SUBSET findings :
                Cardinality(top) = LeastOf(TopCandidates, Cardinality(findings))}
        /\ board' \in Cuts(Deduped(board \cup {VerificationLead(f) : f \in reported'}),
                           campaign.max_leads)
    /\ pc' = "done"
    /\ UNCHANGED <<campaign, pipelineVars, rates, readFrom, plan>>

Next ==
    \/ RefuseCampaign \/ StartPipeline \/ RunPipeline \/ PipelineRaises
    \/ ReadRun \/ PlanTemplates \/ VerificationRaises \/ VerifyAndMerge

Spec == Init /\ [][Next]_vars
-------------------------------------------------------------------------------
TypeOK ==
    /\ campaign \in Campaigns
    /\ pc \in {"new", "recon", "smart", "verify", "done", "failed"}
    /\ stage \in Ran \cup {"probe", "crawl", "clean", "scan"}
    /\ stage \in {"scan", "done"} =>
        \A s \in Seconds : dirs[s].logic \cup dirs[s].params \subseteq dirs[s].scoped
    /\ readFrom \in {0} \cup Seconds
    /\ Cardinality(board) <= campaign.max_leads
    /\ Len(plan.selected) <= Len(plan.synthesized)
    /\ Len(plan.synthesized) <= campaign.max_templates
    /\ Len(sent) <= campaign.max_requests
    /\ Cardinality(reported) <= TopCandidates

\* What a template costs for all identities.
Cost(template, in) == Len(Rendered(template, in.resources)) * Len(EnrichedProfiles(in))

\* What is charged for these candidates and for what comes before them.
Charged(chosen) ==
    (BaseUnits(campaign.templates \o OpenApi, campaign.resources)
        + BaseUnits([i \in DOMAIN chosen |-> SmartTemplate(chosen[i])], campaign.resources))
      * ProfileCount(campaign)

SelectedTemplates == {SmartTemplate(c) : c \in ToSet(plan.selected)}

ControlledValues == {r.value : r \in ToSet(campaign.resources)}

\* Where a discovered URL names something: an identifier, a bound parameter or
\* a value of the researcher's own.
Identifiers(url) ==
    {p \in Places(url) :
        \/ TextAt(url, p) \in DynamicValues \cup ControlledValues
        \/ p[1] = "query" /\ url.query[p[2]].key \in DOMAIN campaign.bindings}

\* Identifiers somebody else's object may have.
Foreign(url) ==
    {p \in Places(url) : TextAt(url, p) \in DynamicValues \ ControlledValues}

\* The requests a discovered URL became.
Swaps ==
    {r \in ToSet(sent) : \E c \in ToSet(plan.selected), v \in ControlledValues :
        r.url = Substituted(c.url, v)}

Origins(r) ==
    {d \in DiscoveryUrls :
        /\ Permitted(campaign.policy, d)
        /\ \E p \in Places(d), v \in ControlledValues : r.url = Put(d, p, v)}

(* "Target-facing RPS values for httpx, katana, and nuclei are automatically
   capped by the lowest max_rps declared for those policy rules", the ones for
   the domain and for its subdomains (docs/BOUNTY_AUTOPILOT.md:21,
   bounty.py:385-467). *)
ToolsKeepTheRate ==
    stage # "idle" =>
        \A t \in TOOLS, i \in UsableRules(campaign.policy, "name")
                                \cup UsableRules(campaign.policy, "wildcard") :
            rates[t] <= campaign.policy.targets[i].max_rps

(* What the board says of recon was found by this run, not by a run whose
   directory was already there, the directory of the same second included.  Only
   a clock that was set back or a run that began later can be read instead
   (bb-pipeline.sh:167-202, bounty.py:292-297 and 469-475). *)
BoardShowsThisRun ==
    readFrom # 0 /\ ~otherRan /\ (\A s \in campaign.old : s <= Stamp) =>
        \A lead \in board :
            /\ lead.source = "recon" => \E u \in dirs[Stamp].scoped :
                    lead.route = RouteSignature(u)
            /\ lead.source = "nuclei" => \E f \in campaign.scan : Id(lead) = Id(NucleiLead(f))

(* "The matrix is rejected before network access if it exceeds the configured
   request budget" (docs/SMART_VERIFICATION.md:77), and smart mode calculates
   the expansion first (46): what the verifier makes of the plan costs no more
   than estimated, so that its own budget never refuses the plan.  An empty
   resource_kind, which the estimate takes for a kind and the verifier for none,
   is left out (smart_verify.py:442-484, verifier.py:391-403). *)
PlanIsAffordable ==
    pc = "verify" /\ (\A t \in ToSet(campaign.templates) : t.kind # "") =>
        /\ MatrixSize(Derived(plan.selected)) <= plan.estimated
        /\ plan.estimated <= campaign.max_requests

(* "Discovered routes are then added from highest score downward until the
   request budget is full" (docs/SMART_VERIFICATION.md:46): one that has
   resources and was passed over would not have fitted beside what is charged
   first and what scores at least as much (smart_verify.py:477-484). *)
PassedOverOnlyForWantOfRoom ==
    plan.made =>
        \A c \in ToSet(plan.synthesized) \ ToSet(plan.selected) :
            LET cost == Cost(SmartTemplate(c), campaign)
            IN  cost > 0 =>
                    \E k \in 0..Len(plan.selected) :
                        /\ \A i \in 1..k : plan.selected[i].score >= c.score
                        /\ Charged(SubSeq(plan.selected, 1, k)) + cost > campaign.max_requests

(* A request made from a discovered URL swaps a controlled value for one of its
   identifiers: when the URL has no other, nothing that may be somebody else's is
   sent (smart_verify.py:104-209). *)
SingleIdentifierIsSwapped ==
    pc = "done" =>
        \A r \in Swaps :
            /\ Origins(r) # {}
            /\ Foreign(r.url) = {} \/ \E d \in Origins(r) : Cardinality(Identifiers(d)) > 1

(* "This makes recon useful for finding authorization edges" (the class comment,
   smart_verify.py:41-44): an identifier that the crawl found under its kind is
   tried with every controlled resource of that kind, whether or not the pipeline
   shortlisted the URL, unless templates were cut or passed over. *)
DiscoveredEdgeIsTested ==
    pc = "done" /\ plan.made /\ ~plan.cut /\ Len(plan.selected) = Len(plan.synthesized) =>
        \A d \in dirs[readFrom].scoped, r \in ToSet(campaign.resources) :
            Permitted(campaign.policy, d) =>
                \A i \in KindPlaces(d, r.kind) :
                    \E q \in ToSet(sent) :
                        q.resource = r.key /\ q.url = Put(d, <<"path", i>>, r.value)

(* "The planner never guesses identifiers": a request whose route only the
   contract names has a controlled value of the bound kind at every parameter of
   its path, and, unless the contract has more templates than it may, every
   operation whose one parameter is bound is tried with each such value
   (verifier.py:164-244). *)
ContractParametersAreControlled ==
    pc = "done" /\ campaign.openapi # <<>> /\ plan.made =>
        LET config == campaign.openapi[1].config
            document == campaign.openapi[1].document
            planned == {i \in DOMAIN document.operations :
                            Plannable(document, config, document.operations[i])}
            Bound(op, i, r) ==
                /\ op.path[i].text \in DOMAIN config.bindings
                /\ r.kind = config.bindings[op.path[i].text]
            others == {t.route : t \in ToSet(campaign.templates) \cup SelectedTemplates}
        IN  /\ \A q \in ToSet(sent), op \in ToSet(document.operations) :
                q.route = RouteOf(op) /\ q.route \notin others =>
                    \A i \in Parameters(op) :
                        \E r \in ToSet(campaign.resources) :
                            Bound(op, i, r) /\ q.url.path[i] = r.value
            /\ Cardinality(planned) <= config.max_templates =>
                \A k \in planned, r \in ToSet(campaign.resources) :
                    LET op == document.operations[k]
                    IN  \A i \in Parameters(op) :
                            Bound(op, i, r) =>
                                \E q \in ToSet(sent) :
                                    /\ q.method = op.method /\ q.resource = r.key
                                    /\ q.url.path = [RouteOf(op) EXCEPT ![i] = r.value]

(* A verified finding that was handed on is on the board; only more verified
   findings than the board has room for can displace it: "verified / likely
   authorization findings" are merged back "into the main bounty board"
   (docs/SMART_VERIFICATION.md:16, bounty.py:523-559). *)
VerifiedIsNeverCut ==
    pc = "done" =>
        \A f \in reported : f.strength = "verified" =>
            \/ \E lead \in board : Id(lead) = Id(VerificationLead(f)) /\ lead.confidence = "verified"
            \/ /\ Cardinality(board) = campaign.max_leads
               /\ \A lead \in board : lead.confidence = "verified"

(* "Discovered third-party IDs are not replayed": "only researcher-controlled
   resource values are sent in synthesized object swaps"
   (docs/SMART_VERIFICATION.md:71-72). *)
DiscoveredIdsAreNotReplayed ==
    pc = "done" => \A r \in Swaps : Foreign(r.url) = {}
===============================================================================
