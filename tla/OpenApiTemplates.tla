--------------------------- MODULE OpenApiTemplates ---------------------------
(***************************************************************************)
(* Templates taken from an OpenAPI document (verifier.py,                   *)
(* OpenApiReadTemplatePlanner): its read operations whose path parameter,   *)
(* if any, is bound to a kind of controlled resource.                       *)
(*                                                                          *)
(* Abstractions.  A document is its global security and its GET, HEAD and   *)
(* OPTIONS operations, in the order of the planner's loops.  A path segment *)
(* is a text and whether it is a parameter of that name.  A security is a   *)
(* set of alternatives, each a set of schemes; null is no alternative.      *)
(***************************************************************************)
EXTENDS VerificationMatrix

EffectiveSecurity(document, op) ==
    IF op.declares THEN op.security ELSE document.security

Anonymous(security) == security = {} \/ {} \in security

Parameters(op) == {i \in DOMAIN op.path : op.path[i].parameter}

\* A faulty Plannable: one bound parameter is enough.
PlannableIfSomeBound(document, config, op) ==
    /\ ~Anonymous(EffectiveSecurity(document, op)) \/ config.include_public
    /\ Parameters(op) = {} \/ \E i \in Parameters(op) : op.path[i].text \in DOMAIN config.bindings

\* Public operations, unbound parameters and several of them are skipped.
Plannable(document, config, op) ==
    /\ ~Anonymous(EffectiveSecurity(document, op)) \/ config.include_public
    /\ \/ Parameters(op) = {}
       \/ \E i \in Parameters(op) :
            /\ Parameters(op) = {i}
            /\ op.path[i].text \in DOMAIN config.bindings
            /\ config.bindings[op.path[i].text] # ""

RouteOf(op) ==
    [i \in DOMAIN op.path |->
        IF op.path[i].parameter THEN "{" \o op.path[i].text \o "}" ELSE op.path[i].text]

\* The bound parameter is replaced by the placeholder.
OperationTemplate(config, op) ==
    LET bound == Min(Parameters(op))
        url == [path |-> [i \in DOMAIN op.path |->
                             IF Parameters(op) # {} /\ i = bound
                             THEN Placeholder ELSE RouteOf(op)[i]],
                query |-> <<>>]
    IN  Template(op.method, url, RouteOf(op),
                 IF Parameters(op) = {} THEN None ELSE config.bindings[op.path[bound].text])

\* plan: the loop stops when max_templates are made, repeated ones included.
OpenApiPlan(document, config) ==
    LET Planned(made, op) ==
            IF Plannable(document, config, op) /\ Len(made) < config.max_templates
            THEN Append(made, OperationTemplate(config, op))
            ELSE made
    IN  UniqueTemplates(FoldLeft(Planned, <<>>, document.operations))
===============================================================================
