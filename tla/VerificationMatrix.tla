-------------------------- MODULE VerificationMatrix --------------------------
(***************************************************************************)
(* What a verification is going to send (verifier.py): the fixtures it      *)
(* accepts, the identities it uses, and the requests its templates make.    *)
(*                                                                          *)
(* Abstractions.  Formats of names, URLs and methods are left to the        *)
(* loaders.                                                                 *)
(***************************************************************************)
EXTENDS Models, SequencesExt, Functions

ValidTemplate(t) ==
    Cardinality({p \in Places(t.url) : TextAt(t.url, p) = Placeholder})
        = IF HasKind(t) THEN 1 ELSE 0

ValidInputs(in) ==
    /\ in.profiles # <<>>
    /\ in.templates # <<>>
    /\ IsInjective([i \in DOMAIN in.profiles |-> in.profiles[i].principal])
    /\ IsInjective([i \in DOMAIN in.resources |-> in.resources[i].key])
    /\ IsInjective([i \in DOMAIN in.resources |->
                       <<in.resources[i].kind, in.resources[i].value>>])
    /\ \A r \in ToSet(in.resources) :
        /\ r.owner # "anonymous"
        /\ \E p \in ToSet(in.profiles) : p.principal = r.owner
    /\ \A t \in ToSet(in.templates) :
        /\ ValidTemplate(t)
        /\ HasKind(t) => \E r \in ToSet(in.resources) : r.kind = t.kind

OwnedProfiles(in) ==
    [i \in DOMAIN in.profiles |->
        LET p == in.profiles[i]
        IN  Identity(p.principal, p.role, p.tenant,
                     {r.key : r \in {r \in ToSet(in.resources) : r.owner = p.principal}})]

LooksAnonymous(p) == p.role = "anonymous" \/ p.principal = "anonymous"

EnrichedProfiles(in) ==
    IF in.anonymous /\ \A p \in ToSet(in.profiles) : ~LooksAnonymous(p)
    THEN Append(OwnedProfiles(in), Identity("anonymous", "anonymous", None, {}))
    ELSE OwnedProfiles(in)

\* The request template t makes for resource r, if r is of its kind.
RequestsFor(t, r) ==
    IF r.kind = t.kind
    THEN <<Request(Substituted(t.url, r.value), t, r.key, r.tenant)>>
    ELSE <<>>

\* A faulty Rendered: only the first resource is requested.
RenderedOnce(t, resources) ==
    IF ~HasKind(t) THEN <<Request(t.url, t, None, None)>>
    ELSE FlattenSeq([i \in DOMAIN resources |->
                        IF i = 1 THEN RequestsFor(t, resources[i]) ELSE <<>>])

\* RequestTemplate.render for each resource of its kind, in their order.
Rendered(t, resources) ==
    IF ~HasKind(t) THEN <<Request(t.url, t, None, None)>>
    ELSE FlattenSeq([i \in DOMAIN resources |-> RequestsFor(t, resources[i])])

Requests(in) ==
    FlattenSeq([i \in DOMAIN in.templates |-> Rendered(in.templates[i], in.resources)])

\* A template that repeats method, URL and kind of an earlier one is left out.
UniqueTemplates(templates) ==
    FoldLeft(LAMBDA kept, t :
                 IF \E k \in ToSet(kept) :
                        <<k.method, k.url, k.kind>> = <<t.method, t.url, t.kind>>
                 THEN kept ELSE Append(kept, t),
             <<>>, templates)
===============================================================================
