------------------------- MODULE EndpointPrioritizer --------------------------
(***************************************************************************)
(* How a bounty campaign turns URLs and findings into leads (bounty.py):    *)
(* classification, one lead for each shape of route, ranking and the cut.   *)
(*                                                                          *)
(* Abstractions.  Words and keys are lower case.  A lead's id is what it    *)
(* hashes (source, kind, route); its URL and reasons are left out.  Leads   *)
(* of one score are cut in any order.                                       *)
(***************************************************************************)
EXTENDS Models, SequencesExt

CONSTANTS IdValues    \* segments that _ID_VALUE matches

OBJECT_WORDS ==
    {"user", "users", "account", "accounts", "profile", "profiles", "member",
     "members", "customer", "customers", "order", "orders", "invoice", "invoices",
     "payment", "payments", "tenant", "tenants", "org", "orgs", "organization",
     "organizations", "project", "projects", "team", "teams", "document",
     "documents", "file", "files", "resource", "resources"}

ID_KEYS ==
    {"id", "uid", "user_id", "userid", "account_id", "accountid", "member_id",
     "customer_id", "order_id", "invoice_id", "payment_id", "tenant_id", "org_id",
     "organization_id", "project_id", "team_id", "document_id", "doc_id",
     "file_id", "resource_id", "owner_id"}

FETCH_KEYS ==
    {"url", "uri", "target", "dest", "destination", "endpoint", "feed", "proxy",
     "fetch", "webhook"}

REDIRECT_KEYS ==
    {"redirect", "redirect_uri", "redirect_url", "next", "return", "return_to",
     "continue", "callback"}

FILE_KEYS ==
    {"file", "filename", "path", "folder", "dir", "directory", "download", "template"}

Surface(kind, score, keys, words) ==
    [kind |-> kind, score |-> score, keys |-> keys, words |-> words]

\* The branches of classify after the first: by query key or by path word.
SURFACES ==
    {Surface("server-side-fetch-surface", 78, FETCH_KEYS, {}),
     Surface("redirect-callback-surface", 70, REDIRECT_KEYS, {}),
     Surface("file-path-surface", 68, FILE_KEYS, {}),
     Surface("privileged-surface", 64, {},
             {"admin", "internal", "debug", "actuator", "manage", "management"}),
     Surface("api-introspection-surface", 60, {},
             {"graphql", "swagger", "openapi", "api-docs"}),
     Surface("file-workflow-surface", 58, {}, {"upload", "uploads", "import", "export"}),
     Surface("identity-flow-surface", 55, {},
             {"oauth", "login", "signin", "reset", "token", "sso"})}

OBJECT_ACCESS == Surface("object-access", 88, {}, {})
PARAMETERIZED == Surface("parameterized-surface", 25, {}, {})

Keys(url) == {pair.key : pair \in ToSet(url.query)}
Words(url) == ToSet(url.path)

ObjectReference(url) ==
    \/ Keys(url) \cap ID_KEYS # {}
    \/ Words(url) \cap OBJECT_WORDS # {} /\ Words(url) \cap IdValues # {}

Surfaces(url) ==
    {s \in SURFACES : Keys(url) \cap s.keys # {} \/ Words(url) \cap s.words # {}}
        \cup (IF ObjectReference(url) THEN {OBJECT_ACCESS} ELSE {})
        \cup (IF Keys(url) # {} THEN {PARAMETERIZED} ELSE {})

\* The branches are tried from the highest score down.
Highest(surfaces) == CHOOSE s \in surfaces : \A other \in surfaces : other.score <= s.score

LeastOf(a, b) == IF a <= b THEN a ELSE b

ScoreOf(url) ==
    IF Cardinality(Keys(url)) >= 3
    THEN LeastOf(100, Highest(Surfaces(url)).score + 3)
    ELSE Highest(Surfaces(url)).score

RouteSignature(url) ==
    <<url.host, [i \in DOMAIN url.path |-> IF url.path[i] \in IdValues THEN "{id}" ELSE url.path[i]],
      Keys(url)>>

Lead(source, kind, route, score, confidence) ==
    [source |-> source, kind |-> kind, route |-> route, score |-> score,
     confidence |-> confidence]

Id(lead) == <<lead.source, lead.kind, lead.route>>

ReconLead(url) ==
    Lead("recon", Highest(Surfaces(url)).kind, RouteSignature(url), ScoreOf(url),
         "high-value-lead")

SeverityScore(severity) ==
    CASE severity = "critical" -> 100
      [] severity = "high" -> 96
      [] severity = "medium" -> 78
      [] severity = "low" -> 55
      [] OTHER -> 50

NucleiLead(item) ==
    Lead("nuclei", item.template, item.url, SeverityScore(item.severity), "scanner-signal")

\* A faulty VerificationLead: what was verified ranks like any other lead.
UnrankedVerificationLead(finding) ==
    Lead("barq-verify", finding.kind, finding.target, 88, finding.strength)

VerificationLead(finding) ==
    IF finding.strength = "verified"
    THEN Lead("barq-verify", finding.kind, finding.target, 110, "verified")
    ELSE Lead("barq-verify", finding.kind, finding.target, 100, "likely")

\* One lead for each id, with the best score any of them has.
Deduped(leads) ==
    {lead \in leads : \A other \in leads : Id(other) = Id(lead) => other.score <= lead.score}

Uncut(leads, limit) == {leads}     \* a faulty Cuts

\* The first limit of leads sorted by score, whatever the order within a score.
Cuts(leads, limit) ==
    {kept \in SUBSET leads :
        /\ Cardinality(kept) = LeastOf(limit, Cardinality(leads))
        /\ \A k \in kept, dropped \in leads \ kept : dropped.score <= k.score}

\* prioritize, before its cut.
Leads(urls) == Deduped({ReconLead(url) : url \in {u \in urls : Surfaces(u) # {}}})
===============================================================================
