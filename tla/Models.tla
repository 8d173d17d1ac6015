-------------------------------- MODULE Models --------------------------------
(***************************************************************************)
(* The records that components exchange: URLs, templates, requests and      *)
(* identities.                                                              *)
(*                                                                          *)
(* Abstractions.  A URL is the sequence of its path segments and the        *)
(* sequence of its query pairs, decoded; where it points to is the record's *)
(* other fields.  A segment is one word.                                    *)
(***************************************************************************)
EXTENDS Naturals, Sequences, FiniteSets

None == "none"        \* no resource, no kind, no tenant

Placeholder == "{resource}"

\* The places of a URL that hold a text, and what one holds.
Places(url) == ({"path"} \X DOMAIN url.path) \cup ({"query"} \X DOMAIN url.query)

TextAt(url, place) ==
    IF place[1] = "path" THEN url.path[place[2]] ELSE url.query[place[2]].value

Put(url, place, text) ==
    IF place[1] = "path"
    THEN [url EXCEPT !.path[place[2]] = text]
    ELSE [url EXCEPT !.query[place[2]].value = text]

\* str.replace of the placeholder, everywhere in the URL.
Substituted(url, text) ==
    [url EXCEPT
        !.path = [i \in DOMAIN @ |-> IF @[i] = Placeholder THEN text ELSE @[i]],
        !.query = [i \in DOMAIN @ |->
                      IF @[i].value = Placeholder THEN [@[i] EXCEPT !.value = text] ELSE @[i]]]

Template(method, url, route, kind) ==
    [method |-> method, url |-> url, route |-> route, kind |-> kind]

\* An empty resource_kind is stored, and counts as none wherever it is tested.
HasKind(template) == template.kind \notin {None, ""}

Request(url, t, resource, tenant) ==
    [method |-> t.method, url |-> url, route |-> t.route,
     resource |-> resource, tenant |-> tenant]

Identity(principal, role, tenant, owned) ==
    [principal |-> principal, role |-> role, tenant |-> tenant, owned |-> owned]
===============================================================================
