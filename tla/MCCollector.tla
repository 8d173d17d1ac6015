------------------------------ MODULE MCCollector ------------------------------
(* Small instances of Collector for TLC: a policy whose first target appears
   with two rates, a wildcard below the same name, and matrices that fit the
   budget, exceed it, are empty, or meet a refusal in the middle. *)
EXTENDS Collector

Lab == <<"lab", "test">>

TargetRule(kind, name, methods, interval) ==
    [pattern |-> [kind |-> kind, name |-> name], schemes |-> {"https"}, ports |-> {443},
     methods |-> methods, interval |-> interval]

MCPolicy ==
    [targets |-> <<TargetRule("name", Lab, {"GET"}, 2),
                   TargetRule("wildcard", Lab, {"GET", "HEAD"}, 1),
                   TargetRule("name", Lab, {"HEAD", "POST"}, 3)>>,
     deny_paths |-> {"billing"}, active_testing |-> TRUE, human_approval_required |-> TRUE]

Request(host, method, words) ==
    [method |-> method,
     url |-> [host |-> host, scheme |-> "https", port |-> 443, words |-> words]]

LabGet   == Request(Lab, "GET", {"api", "orders"})
LabHead  == Request(Lab, "HEAD", {"api"})
ApiGet   == Request(<<"api">> \o Lab, "GET", {"users"})
Outside  == Request(<<"other", "test">>, "GET", {"users"})
Deleting == Request(Lab, "GET", {"api", "delete"})
Billing  == Request(Lab, "GET", {"billing"})
Posting  == Request(Lab, "POST", {"api", "orders"})

Matrix(requests, profiles) == [requests |-> requests, profiles |-> profiles]

MCMatrices ==
    {Matrix(<<LabGet, LabHead, LabGet>>, <<"alice">>),
     Matrix(<<ApiGet>>, <<"alice", "bob">>),
     Matrix(<<LabGet, ApiGet>>, <<"alice", "bob">>),
     Matrix(<<>>, <<"alice">>)}
    \cup {Matrix(<<LabGet, r>>, <<"alice">>) : r \in {Outside, Deleting, Billing, Posting}}

MCFewMatrices ==
    {Matrix(<<LabGet>>, <<"alice", "bob">>), Matrix(<<LabHead, Outside>>, <<"alice">>)}
===============================================================================
