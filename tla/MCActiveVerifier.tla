--------------------------- MODULE MCActiveVerifier ---------------------------
(* Small instances of ActiveVerifier for TLC. *)
EXTENDS ActiveVerifier

MCSensitiveKeys == {"email", "phone"}
MCDenialTexts == {"forbidden"}
MCPrivilegedNames == {"/admin"}

\* Two accounts with the same fields, a page that shows one field of the
\* first, a public page, and a refusal sent with status 200.
MCBodies ==
    {[email |-> "a", phone |-> "1"], [email |-> "b", phone |-> "2"],
     [email |-> "a", title |-> "t"], [title |-> "t"], [error |-> "forbidden"]}

Profile(principal, role, tenant) == [principal |-> principal, role |-> role, tenant |-> tenant]
Resource(key, owner, tenant) ==
    [key |-> key, kind |-> "user", value |-> key, owner |-> owner, tenant |-> tenant]
Url(path) == [path |-> path, query |-> <<>>]
Read(route, path, kind) == Template("GET", Url(path), route, kind)

Alice == Profile("alice", "user", "red")
Bob == Profile("bob", "user", "blue")
Carol == Profile("carol", "user", "red")
Root == Profile("root", "admin", None)
Guest == Profile("guest", "anonymous", None)

\* "role" omitted in the profile file: SessionProfile.from_env_dict says "user".
Nobody == Profile("anonymous", "user", None)

AliceUser == Resource("alice-user", "alice", "red")
BobUser == Resource("bob-user", "bob", "blue")

ReadUser == Read("/users", <<"users", Placeholder>>, "user")
Admin == Read("/admin", <<"admin">>, None)
ReadTeam == Read("/teams", <<"teams", Placeholder>>, "team")
ReadTwice == Read("/users", <<"users", Placeholder, "friends", Placeholder>>, "user")

Fixtures(profileLists, resourceLists, templateLists) ==
    [profiles : profileLists, resources : resourceLists, templates : templateLists,
     anonymous : BOOLEAN]

\* Accepted and rejected fixtures, within the budget and above it.
MCInputs ==
    Fixtures({<<Alice>>, <<Alice, Bob>>, <<Alice, Carol>>, <<Alice, Root>>,
              <<Alice, Guest>>, <<Alice, Bob, Root>>, <<Alice, Alice>>},
             {<<>>, <<AliceUser>>, <<AliceUser, BobUser>>, <<AliceUser, AliceUser>>},
             {<<ReadUser>>, <<Admin>>, <<ReadUser, Admin>>, <<Admin, Admin>>, <<ReadTeam>>,
              <<ReadTwice>>})

\* An unauthenticated profile listed by its name.
MCNamedInputs ==
    {in \in Fixtures({<<Alice, Nobody>>}, {<<>>, <<AliceUser>>}, {<<ReadUser>>, <<Admin>>}) :
        in.anonymous}
===============================================================================
