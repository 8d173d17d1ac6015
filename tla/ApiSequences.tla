----------------------------- MODULE ApiSequences -----------------------------
(***************************************************************************)
(* Producer and consumer sequences of an OpenAPI document (api_graph.py,    *)
(* OpenApiDependencyGraph).                                                 *)
(*                                                                          *)
(* Abstractions.  An operation is its id, the fields it takes (parameters   *)
(* and body), the fields its successful responses have, and the resource    *)
(* its path names.  Nested schemas are already flattened into those fields. *)
(* The sequences are a set: of operations that share an id the code lists   *)
(* the same sequence more than once.                                        *)
(***************************************************************************)
EXTENDS Naturals, Sequences, FiniteSets

\* "id" of a resource is what other operations call <resource>_id.
Produces(op) ==
    op.fields \cup (IF "id" \in op.fields /\ op.resource # ""
                    THEN {op.resource \o "_id"} ELSE {})

Ids(operations) == {op.id : op \in operations}

\* Operations that share an id are never linked.
Edges(operations) ==
    {<<pc[1].id, pc[2].id>> : pc \in
        {pc \in operations \X operations :
            pc[1].id # pc[2].id /\ Produces(pc[1]) \cap pc[2].consumes # {}}}

\* A faulty Continuations: only the last operation is not repeated.
BackAndForth(walk, edges) ==
    {Append(walk, e[2]) : e \in {e \in edges : e[1] = walk[Len(walk)] /\ e[2] # walk[Len(walk)]}}

Continuations(walk, edges) ==
    {Append(walk, e[2]) : e \in {e \in edges :
        e[1] = walk[Len(walk)] /\ \A i \in DOMAIN walk : walk[i] # e[2]}}

\* The walks of each length, from every operation.
Walks(operations, depth) ==
    LET walks[n \in 1..depth] ==
            IF n = 1 THEN {<<id>> : id \in Ids(operations)}
            ELSE UNION {Continuations(w, Edges(operations)) : w \in walks[n - 1]}
    IN  walks

ApiWalks(operations, depth) == UNION {Walks(operations, depth)[n] : n \in 2..depth}
===============================================================================
