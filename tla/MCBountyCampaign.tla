--------------------------- MODULE MCBountyCampaign ---------------------------
(* Small instances of BountyCampaign for TLC. *)
EXTENDS BountyCampaign

MCIdValues == {"1001", "2002", "3003", "77"}
MCDynamicValues == MCIdValues \cup {"7f3a9c21d04e"}
MCLogicIdValues == MCIdValues \cup {"alice-01"}
MCLowerCase == [k \in {"user", "team", "Team"} |-> IF k = "Team" THEN "team" ELSE k]

Domain == <<"example", "test">>
Url(path, query) == [host |-> Domain, path |-> path, query |-> query]
Pair(key, value) == [key |-> key, value |-> value]

UserUrl == Url(<<"users", "1001">>, <<>>)
OwnUserUrl == Url(<<"users", "alice-01">>, <<>>)
ProfileUrl == Url(<<"profile">>, <<Pair("user_id", "77")>>)
OrgUserUrl == Url(<<"orgs", "2002", "users", "1001">>, <<>>)
LiteralUrl == Url(<<"search", Placeholder>>, <<Pair("user_id", "5")>>)
DeniedUrl == Url(<<"payment", "users", "1001">>, <<>>)
TeamUrl == Url(<<"team", "3003">>, <<>>)
FetchUrl == Url(<<"import">>, <<Pair("url", "x"), Pair("next", "y"), Pair("lang", "en")>>)
SessionUrl == Url(<<"users", "7f3a9c21d04e">>, <<>>)

Rule(pattern, max_rps) ==
    [pattern |-> pattern, schemes |-> {"https"}, ports |-> {443}, methods |-> {"GET"},
     max_rps |-> max_rps]
Name(name) == [kind |-> "name", name |-> name]
Wildcard(name) == [kind |-> "wildcard", name |-> name]
Policy(targets, active) ==
    [targets |-> targets, deny_paths |-> {"admin"}, active_testing |-> active,
     human_approval_required |-> TRUE]
Live == Policy(<<Rule(Name(Domain), 2), Rule(Wildcard(Domain), 1)>>, TRUE)
Passive == Policy(<<Rule(Name(Domain), 2), Rule(Wildcard(Domain), 1)>>, FALSE)
RootOnly == Policy(<<Rule(Name(Domain), 2)>>, TRUE)

Profile(principal) == [principal |-> principal, role |-> "user", tenant |-> None]
Resource(key, kind, value) ==
    [key |-> key, kind |-> kind, value |-> value, owner |-> "alice", tenant |-> None]
AliceUser == Resource("alice-user", "user", "alice-01")
BobUser == Resource("bob-user", "user", "bob-2")
AliceTeam == Resource("alice-team", "Team", "red-1")

HealthPage == Template("GET", [path |-> <<"health">>, query |-> <<>>], <<"health">>, None)
BlankKind == Template("GET", [path |-> <<"me">>, query |-> <<>>], <<"me">>, "")

Lit(text) == [text |-> text, parameter |-> FALSE]
Par(text) == [text |-> text, parameter |-> TRUE]
Read(path, security) ==
    [method |-> "GET", path |-> path, declares |-> TRUE, security |-> security]
Contract ==
    [document |->
        [security |-> {{"token"}},
         operations |->
            <<Read(<<Lit("accounts"), Par("user_id")>>, {{"token"}}),
              [Read(<<Lit("accounts"), Par("user_id"), Lit("logins"), Par("login")>>, {})
                  EXCEPT !.declares = FALSE],
              Read(<<Lit("status")>>, {{"token"}, {}}),
              Read(<<Lit("terms"), Par("page")>>, {{"token"}})>>],
     config |->
        [bindings |-> [p \in {"user_id"} |-> "user"], include_public |-> FALSE,
         max_templates |-> 3]]

Exposure == [template |-> "exposure", url |-> "/.env", severity |-> "critical"]
OldCve == [template |-> "cve", url |-> "/old", severity |-> "high"]
Finding(kind, strength) == [kind |-> kind, target |-> "GET /users", strength |-> strength]

\* An authorized campaign with two identities; the cases differ from it.
Plain ==
    [authorized |-> TRUE, domain |-> Domain, policy |-> Live, env |-> [t \in {} |-> 0],
     web |-> {UserUrl, ProfileUrl, OwnUserUrl}, scan |-> {Exposure},
     old |-> {}, oldWeb |-> {TeamUrl}, oldScan |-> {OldCve},
     smart |-> TRUE, profiles |-> <<Profile("alice"), Profile("bob")>>,
     resources |-> <<AliceUser, BobUser>>, anonymous |-> TRUE, templates |-> <<>>,
     openapi |-> <<>>, bindings |-> [k \in {"user_id"} |-> "user"],
     max_requests |-> 12, max_templates |-> 3, max_leads |-> 2,
     findings |-> {Finding("object-access", "verified"), Finding("tenant-crossing", "likely")}]

Small == [Plain EXCEPT !.web = {UserUrl, FetchUrl}, !.findings = {}]

\* Manifests that end before the pipeline, or ask for a rate.
Manifests ==
    {[Small EXCEPT !.authorized = FALSE], [Small EXCEPT !.policy = Passive],
     [Small EXCEPT !.policy = RootOnly], [Small EXCEPT !.env = [t \in {"NUCLEI_RPS"} |-> 2]],
     [Small EXCEPT !.env = [t \in {"HTTPX_RPS"} |-> 1]]}

\* Earlier directories: none, older, of this second, after a clock set back.
Directories ==
    {[Small EXCEPT !.old = old] : old \in {{1}, {2}, {3}, {1, 2}}}

\* Smart verification: what it finds, what it may send, what it refuses.
Smart ==
    {Plain, Small,
     [Plain EXCEPT !.smart = FALSE],
     [Plain EXCEPT !.max_requests = 6, !.anonymous = FALSE],
     [Plain EXCEPT !.max_requests = 11, !.templates = <<HealthPage>>, !.max_leads = 1,
                   !.findings = @ \cup {Finding("role-parity", "verified")}],
     [Plain EXCEPT !.templates = <<BlankKind>>, !.max_requests = 30, !.max_templates = 6],
     [Plain EXCEPT !.web = {OrgUserUrl, DeniedUrl, SessionUrl}, !.max_requests = 30,
                   !.max_templates = 6],
     [Plain EXCEPT !.web = {LiteralUrl, UserUrl}, !.max_requests = 30],
     [Plain EXCEPT !.web = {TeamUrl, UserUrl, OwnUserUrl}, !.max_requests = 14,
                   !.resources = <<AliceTeam, AliceUser>>, !.max_templates = 6],
     [Plain EXCEPT !.web = {TeamUrl, ProfileUrl}, !.max_requests = 5, !.anonymous = FALSE,
                   !.templates = <<HealthPage>>,
                   !.resources = <<AliceUser, BobUser, [AliceTeam EXCEPT !.kind = "team"]>>],
     [Plain EXCEPT !.web = {UserUrl}, !.openapi = <<Contract>>, !.max_requests = 30],
     [Plain EXCEPT !.web = {UserUrl}, !.openapi = <<Contract>>, !.max_requests = 5],
     [Plain EXCEPT !.web = {UserUrl}, !.resources = <<>>],
     [Plain EXCEPT !.web = {FetchUrl}, !.bindings = [k \in {"url"} |-> "team"]],
     [Plain EXCEPT !.web = {FetchUrl}]}

MCCampaigns == Manifests \cup Directories \cup Smart

\* A URL with two identifiers.
MCOrgCampaigns == {[Plain EXCEPT !.web = {OrgUserUrl}, !.max_requests = 30]}
===============================================================================
