-------------------------- MODULE MCCampaignAnalysis --------------------------
(* Small instances of CampaignAnalysis for TLC. *)
EXTENDS CampaignAnalysis

MCKindScore ==
    [kind \in Kinds |->
        CASE kind = "authentication-removed" -> 982
          [] kind = "weaker-security-alternative-added" -> 958
          [] kind = "required-security-scheme-removed" -> 952
          [] kind = "required-scope-removed" -> 952
          [] kind = "new-sensitive-anonymous-operation" -> 959
          [] kind = "security-scheme-definition-removed" -> 924
          [] kind = "security-scheme-type-changed" -> 851
          [] kind = "shared-invariant-collision" -> 737]

MCSensitive == {"GET /users", "POST /accounts"}

\* Requirements of a key, a token with or without a scope, or both; securities of
\* at most two of them.
Requirements ==
    {r \in UNION {[schemes -> {{}, {"read"}}] : schemes \in SUBSET {"key", "token"}} :
        "key" \in DOMAIN r => r["key"] = {}}
Securities == {security \in SUBSET Requirements : Cardinality(security) <= 2}

Own(security) == [declares |-> TRUE, security |-> security]
Global == [declares |-> FALSE, security |-> {}]
Document(security, operations, schemes) ==
    [security |-> security, operations |-> operations, schemes |-> schemes]
Schemes == [s \in {"key", "token"} |-> IF s = "key" THEN "apiKey" ELSE "http"]

Nothing ==
    [openapi |-> <<>>, depth |-> 3, before |-> <<>>, after |-> <<>>,
     transitions |-> <<>>, signals |-> {}, refused |-> {}]

\* Two securities of one operation, its own or the global one.
OneOperation(security, own) ==
    IF own THEN Document({}, [t \in {"GET /users"} |-> Own(security)], Schemes)
    ELSE Document(security, [t \in {"GET /users"} |-> Global], Schemes)

Drifts ==
    {[Nothing EXCEPT !.before = <<OneOperation(old, TRUE)>>, !.after = <<OneOperation(new, TRUE)>>] :
        old \in Securities, new \in Securities}
    \cup
    {[Nothing EXCEPT !.before = <<OneOperation(old, FALSE)>>, !.after = <<OneOperation(new, FALSE)>>] :
        old \in {{}, {[s \in {"key"} |-> {}]}}, new \in Securities}

Key == [s \in {"key"} |-> {}]
Token == [s \in {"token"} |-> {}]
KeyAndToken == [s \in {"key", "token"} |-> {}]

\* New operations, schemes that go or change, a document that is missing.
Contract(operations, schemes) == Document({Key}, operations, schemes)
Growths ==
    LET old == Contract([t \in {"GET /users"} |-> Global], Schemes)
        new == Contract([t \in {"GET /users", "POST /accounts", "GET /health"} |->
                            IF t = "GET /users" THEN Own({KeyAndToken}) ELSE Own({})],
                        [s \in {"key"} |-> "http"])
    IN  {[Nothing EXCEPT !.before = <<old>>, !.after = <<new>>],
         [Nothing EXCEPT !.before = <<new>>, !.after = <<old>>],
         [Nothing EXCEPT !.before = <<old>>], [Nothing EXCEPT !.after = <<new>>]}

Operation(id, consumes, fields, resource) ==
    [id |-> id, consumes |-> consumes, fields |-> fields, resource |-> resource]

\* Three operations that take and give any of two fields.
Graphs ==
    {{Operation("createUser", {}, {"id"}, "user"),
      Operation("getUser", c1, f1, "user"), Operation("listTeams", c2, f2, "")} :
        c1 \in SUBSET {"user_id", "team"}, f1 \in SUBSET {"id", "team"},
        c2 \in SUBSET {"user_id", "team"}, f2 \in SUBSET {"user_id", "id"}}
    \cup
    {{Operation(id, {"token"}, {"token"}, "") : id \in {"a", "b", "c", "d"}},
     {Operation("a", {"x"}, {"y"}, ""), Operation("a", {"y"}, {"x"}, ""),
      Operation("b", {"y"}, {"x"}, "")}}

Sequencings ==
    {[Nothing EXCEPT !.openapi = <<ops>>, !.depth = 3] : ops \in Graphs}
    \cup {[Nothing EXCEPT !.openapi = <<{Operation(id, {"token"}, {"token"}, "") :
                                            id \in {"a", "b", "c", "d"}}>>,
                          !.depth = depth] : depth \in {1, 2, 6, 7}}

Transition(route, kind, access, invariant) ==
    [route |-> route, resource_kind |-> kind, access |-> access, invariant |-> invariant]
Signal(engine, target, score, evidence, confident) ==
    Candidate(engine, "observed", target, <<"observed", engine, target>>, score, evidence, confident)

Spend == Transition("POST /spend", "wallet", "write", "balance")
Show == Transition("GET /wallet", "wallet", "read", "balance")
Audit == Transition("GET /audit", "wallet", "read", "balance")
Invite == Transition("POST /invite", "team", "write", "seats")

\* Several engines on one target, some of it refused or too little.
Fusions ==
    {[Nothing EXCEPT
        !.before = <<OneOperation({KeyAndToken}, TRUE)>>,
        !.after = <<OneOperation(new, TRUE)>>,
        !.transitions = transitions, !.signals = signals, !.refused = refused] :
            new \in {{}, {Key, KeyAndToken}, {Key, Token}},
            transitions \in {<<Spend, Show, Audit, Invite>>, <<Show, Spend, Show>>, <<Invite>>},
            signals \in {{Signal("authz", "GET /users", 900, 2, TRUE),
                          Signal("variant", "GET /users", 500, 1, FALSE),
                          Signal("mobile", "apk", 400, 0, TRUE)},
                         {Signal("authz", "GET /users", 700, 8, TRUE)}},
            refused \in {{}, {"GET /users"}}}

MCInputs == Drifts \cup Growths \cup Sequencings \cup Fusions
===============================================================================
