------------------------- MODULE ActiveVerifierProofs -------------------------
(***************************************************************************)
(* Proofs about ActiveVerifier, for any fixtures, any bodies and any        *)
(* budget.                                                                  *)
(***************************************************************************)
EXTENDS ActiveVerifier, SequenceTheorems, WellFoundedInduction, TLAPS

-------------------------------------------------------------------------------
(* Induction for sets of numbers, and what FlattenSeq holds. *)

LEMMA EveryNat ==
    ASSUME NEW S, 0 \in S, \A n \in Nat : n \in S => n + 1 \in S
    PROVE  \A n \in Nat : n \in S
<1> SUFFICES ASSUME Nat \ S # {} PROVE FALSE
  OBVIOUS
<1>1. PICK n \in Nat \ S : \A m \in Nat \ S : ~ (<<m, n>> \in OpToRel(<, Nat))
  BY NatLessThanWellFounded, WFMin, Nat \ S \subseteq Nat
<1>2. n # 0 /\ n - 1 \in Nat /\ n - 1 < n
  BY SMT
<1>3. n - 1 \in S
  BY <1>1, <1>2 DEF OpToRel
<1> QED
  BY <1>2, <1>3, (n - 1) + 1 = n

LEMMA ConcatElements ==
    ASSUME NEW X, NEW a \in Seq(X), NEW b \in Seq(X)
    PROVE  /\ a \o b \in Seq(X)
           /\ \A x : x \in ToSet(a \o b) <=> x \in ToSet(a) \/ x \in ToSet(b)
<1>1. /\ a \o b \in Seq(X) /\ Len(a \o b) = Len(a) + Len(b)
      /\ \A i \in 1..(Len(a) + Len(b)) :
            (a \o b)[i] = IF i <= Len(a) THEN a[i] ELSE b[i - Len(a)]
  BY ConcatProperties
<1>2. /\ DOMAIN a = 1..Len(a) /\ DOMAIN b = 1..Len(b)
      /\ DOMAIN (a \o b) = 1..(Len(a) + Len(b))
      /\ Len(a) \in Nat /\ Len(b) \in Nat
  BY <1>1
<1>3. ASSUME NEW x, x \in ToSet(a) PROVE x \in ToSet(a \o b)
  BY <1>1, <1>2, <1>3 DEF ToSet
<1>4. ASSUME NEW x, x \in ToSet(b) PROVE x \in ToSet(a \o b)
  <2>1. PICK i \in 1..Len(b) : x = b[i]
    BY <1>2, <1>4 DEF ToSet
  <2>2. /\ Len(a) + i \in 1..(Len(a) + Len(b)) /\ ~(Len(a) + i <= Len(a))
        /\ (Len(a) + i) - Len(a) = i
    BY <1>2
  <2>3. (a \o b)[Len(a) + i] = x
    BY <1>1, <2>1, <2>2
  <2> QED
    BY <1>2, <2>2, <2>3 DEF ToSet
<1>5. ASSUME NEW x, x \in ToSet(a \o b) PROVE x \in ToSet(a) \/ x \in ToSet(b)
  <2>1. PICK i \in 1..(Len(a) + Len(b)) : x = (a \o b)[i]
    BY <1>2, <1>5 DEF ToSet
  <2>2. CASE i <= Len(a)
    BY <1>1, <1>2, <2>1, <2>2 DEF ToSet
  <2>3. CASE ~(i <= Len(a))
    <3>1. i - Len(a) \in 1..Len(b)
      BY <1>2, <2>3
    <3> QED
      BY <1>1, <1>2, <2>1, <2>3, <3>1 DEF ToSet
  <2> QED
    BY <2>2, <2>3
<1> QED
  BY <1>1, <1>3, <1>4, <1>5

(* The function FlattenSeq is defined by. *)
Flattened(s) ==
    CHOOSE f : f = [i \in 1..Len(s) |-> IF i = 1 THEN s[i] ELSE f[i - 1] \o s[i]]

LEMMA FlattenedExists ==
    ASSUME NEW X, NEW s \in Seq(Seq(X))
    PROVE  \A i \in 1..Len(s) :
              Flattened(s)[i] = IF i = 1 THEN s[i] ELSE Flattened(s)[i - 1] \o s[i]
<1> DEFINE n == Len(s)
           F == [1..n -> Seq(X)]
           Step(f, i) == IF i = 1 THEN s[i] ELSE f[i - 1] \o s[i]
           S == {m \in Nat : \E f \in F : \A i \in 1..n : i <= m => f[i] = Step(f, i)}
<1>0. n \in Nat /\ s \in [1..n -> Seq(X)]
  OBVIOUS
<1>1. 0 \in S
  <2>1. [i \in 1..n |-> s[i]] \in F
    BY <1>0
  <2>2. \A i \in 1..n : ~(i <= 0)
    BY <1>0
  <2> QED
    BY <2>1, <2>2
<1>2. ASSUME NEW m \in Nat, m \in S PROVE m + 1 \in S
  <2>1. PICK f \in F : \A i \in 1..n : i <= m => f[i] = Step(f, i)
    BY <1>2
  <2> DEFINE g == [i \in 1..n |-> IF i = m + 1 THEN Step(f, i) ELSE f[i]]
  <2>2. g \in F
    <3> SUFFICES ASSUME NEW i \in 1..n PROVE g[i] \in Seq(X)
      BY DEF F
    <3>1. f[i] \in Seq(X) /\ s[i] \in Seq(X)
      BY <1>0
    <3>2. i # 1 => i - 1 \in 1..n
      BY <1>0
    <3>3. i # 1 => f[i - 1] \in Seq(X)
      BY <3>2
    <3>4. i # 1 => f[i - 1] \o s[i] \in Seq(X)
      BY <3>1, <3>3, ConcatProperties
    <3> QED
      BY <3>1, <3>4
  <2>3. \A i \in 1..n : i <= m + 1 => g[i] = Step(g, i)
    <3> SUFFICES ASSUME NEW i \in 1..n, i <= m + 1 PROVE g[i] = Step(g, i)
      BY Zenon
    <3>1. i # 1 => i - 1 \in 1..n /\ i - 1 # m + 1
      BY <1>0
    <3>2. i # 1 => g[i - 1] = f[i - 1]
      BY <3>1
    <3>3. Step(g, i) = Step(f, i)
      BY <3>2
    <3>4. CASE i = m + 1
      BY <3>3, <3>4
    <3>5. CASE i # m + 1
      <4>1. i <= m
        BY <1>0, <3>5
      <4> QED
        BY <4>1, <3>3, <3>5, <2>1
    <3> QED
      BY <3>4, <3>5
  <2> HIDE DEF g
  <2> QED
    BY <2>2, <2>3, m + 1 \in Nat, Zenon
<1>3. n \in S
  BY ONLY <1>0, <1>1, <1>2, EveryNat
<1>4. PICK f \in F : \A i \in 1..n : f[i] = Step(f, i)
  BY <1>0, <1>3
<1>5. f = [i \in 1..n |-> Step(f, i)]
  BY <1>4
<1>6. Flattened(s) = [i \in 1..n |-> Step(Flattened(s), i)]
  BY <1>5, Zenon DEF Flattened
<1> QED
  BY <1>6

LEMMA FlattenElements ==
    ASSUME NEW X, NEW s \in Seq(Seq(X))
    PROVE  /\ FlattenSeq(s) \in Seq(X)
           /\ \A x : x \in ToSet(FlattenSeq(s)) <=> \E i \in DOMAIN s : x \in ToSet(s[i])
<1>1. Len(s) \in Nat /\ DOMAIN s = 1..Len(s) /\ s \in [1..Len(s) -> Seq(X)]
  OBVIOUS
<1>2. CASE Len(s) = 0
  <2>1. FlattenSeq(s) = s /\ s = <<>>
    BY <1>2 DEF FlattenSeq
  <2> QED
    BY <1>1, <1>2, <2>1 DEF ToSet
<1>3. CASE Len(s) # 0
  <2> DEFINE f == Flattened(s)
             Held(m) == /\ f[m] \in Seq(X)
                        /\ \A x : x \in ToSet(f[m]) <=> \E i \in 1..m : x \in ToSet(s[i])
             S == {m \in Nat : m \in 1..Len(s) => Held(m)}
  <2>1. FlattenSeq(s) = f[Len(s)]
    BY <1>3 DEF FlattenSeq, Flattened
  <2>2. \A i \in 1..Len(s) : f[i] = IF i = 1 THEN s[i] ELSE f[i - 1] \o s[i]
    BY FlattenedExists
  <2> HIDE DEF f
  <2>3. 0 \in S
    BY <1>1
  <2>4. ASSUME NEW m \in Nat, m \in S PROVE m + 1 \in S
    <3> SUFFICES ASSUME m + 1 \in 1..Len(s) PROVE Held(m + 1)
      BY <1>1
    <3>1. s[m + 1] \in Seq(X)
      BY <1>1
    <3>2. CASE m = 0
      <4>1. f[1] = s[1] /\ 1 \in 1..Len(s) /\ 1..1 = {1}
        BY <2>2, <3>2
      <4> QED
        BY <4>1, <3>1, <3>2
    <3>3. CASE m # 0
      <4>1. m \in 1..Len(s) /\ m + 1 # 1 /\ (m + 1) - 1 = m
        BY <1>1, <3>3
      <4>2. Held(m) /\ f[m + 1] = f[m] \o s[m + 1]
        BY <4>1, <2>2, <2>4
      <4>3. /\ f[m + 1] \in Seq(X)
            /\ \A x : x \in ToSet(f[m + 1]) <=> x \in ToSet(f[m]) \/ x \in ToSet(s[m + 1])
        BY <3>1, <4>2, ConcatElements
      <4>4. \A i : i \in 1..(m + 1) <=> i \in 1..m \/ i = m + 1
        OBVIOUS
      <4> QED
        BY <4>2, <4>3, <4>4
    <3> QED
      BY <3>2, <3>3
  <2> HIDE DEF S
  <2>5. Len(s) \in S
    BY <1>1, <2>3, <2>4, EveryNat
  <2> USE DEF S
  <2>6. Held(Len(s))
    BY <1>1, <1>3, <2>5
  <2> QED
    BY <1>1, <2>1, <2>6
<1> QED
  BY <1>2, <1>3

LEMMA OverItsElements ==
    ASSUME NEW X, NEW s \in Seq(X)
    PROVE  s \in Seq(ToSet(s))
<1>1. Len(s) \in Nat /\ s = [i \in 1..Len(s) |-> s[i]] /\ DOMAIN s = 1..Len(s)
  OBVIOUS
<1>2. s \in [1..Len(s) -> ToSet(s)]
  BY <1>1 DEF ToSet
<1> QED
  BY <1>1, <1>2

LEMMA OverMore ==
    ASSUME NEW X, NEW Y, X \subseteq Y, NEW s \in Seq(X)
    PROVE  s \in Seq(Y)
<1>1. Len(s) \in Nat /\ s \in [1..Len(s) -> X]
  OBVIOUS
<1>2. s \in [1..Len(s) -> Y]
  BY <1>1
<1> QED
  BY <1>1, <1>2

-------------------------------------------------------------------------------
(* The requests of a matrix. *)

RequestOf(t, r) == Request(Substituted(t.url, r.value), t, r.key, r.tenant)

LEMMA RenderedElements ==
    ASSUME NEW t, NEW resources, resources \in Seq(ToSet(resources))
    PROVE  /\ Rendered(t, resources) \in Seq(ToSet(Rendered(t, resources)))
           /\ \A q : q \in ToSet(Rendered(t, resources)) <=>
                IF HasKind(t)
                THEN \E r \in ToSet(resources) : r.kind = t.kind /\ q = RequestOf(t, r)
                ELSE q = Request(t.url, t, None, None)
<1>1. CASE ~HasKind(t)
  <2> DEFINE one == Request(t.url, t, None, None)
  <2>1. Rendered(t, resources) = <<one>>
    BY <1>1 DEF Rendered
  <2> HIDE DEF one
  <2>2. <<one>> \in Seq({one}) /\ ToSet(<<one>>) = {one}
    BY DEF ToSet
  <2>3. \A q : q \in ToSet(Rendered(t, resources)) <=> q = one
    BY <2>1, <2>2
  <2> QED
    BY <1>1, <2>1, <2>2, <2>3 DEF one
<1>2. CASE HasKind(t)
  <2> DEFINE X == {RequestOf(t, r) : r \in ToSet(resources)}
             s == [i \in DOMAIN resources |-> RequestsFor(t, resources[i])]
  <2>1. Rendered(t, resources) = FlattenSeq(s)
    BY <1>2 DEF Rendered
  <2>2. Len(resources) \in Nat /\ DOMAIN resources = 1..Len(resources)
    OBVIOUS
  <2>3. ASSUME NEW i \in DOMAIN resources
        PROVE  /\ s[i] \in Seq(X)
               /\ \A q : q \in ToSet(s[i]) <=>
                    resources[i].kind = t.kind /\ q = RequestOf(t, resources[i])
    <3> DEFINE q0 == RequestOf(t, resources[i])
    <3>1. resources[i] \in ToSet(resources)
      BY DEF ToSet
    <3>2. q0 \in X
      BY <3>1
    <3>3. s[i] = IF resources[i].kind = t.kind THEN <<q0>> ELSE <<>>
      BY DEF RequestsFor, RequestOf
    <3> HIDE DEF q0, X, s
    <3>4. <<q0>> \in Seq(X) /\ <<>> \in Seq(X)
      BY <3>2
    <3>5. ToSet(<<q0>>) = {q0} /\ ToSet(<<>>) = {}
      BY DEF ToSet
    <3>6. CASE resources[i].kind = t.kind
      <4>1. s[i] = <<q0>>
        BY <3>3, <3>6
      <4> QED
        BY <4>1, <3>4, <3>5, <3>6 DEF q0
    <3>7. CASE resources[i].kind # t.kind
      <4>1. s[i] = <<>>
        BY <3>3, <3>7
      <4> QED
        BY <4>1, <3>4, <3>5, <3>7
    <3> QED
      BY <3>6, <3>7
  <2>4. s \in Seq(Seq(X)) /\ DOMAIN s = DOMAIN resources
    <3>1. s \in [1..Len(resources) -> Seq(X)]
      BY <2>2, <2>3
    <3> HIDE DEF X, s
    <3> QED
      BY <2>2, <3>1
  <2> HIDE DEF X, s
  <2>5. /\ FlattenSeq(s) \in Seq(X)
        /\ \A q : q \in ToSet(FlattenSeq(s)) <=> \E i \in DOMAIN s : q \in ToSet(s[i])
    BY <2>4, FlattenElements
  <2>6. \A q : q \in ToSet(FlattenSeq(s)) <=>
            \E r \in ToSet(resources) : r.kind = t.kind /\ q = RequestOf(t, r)
    <3>1. \A r : r \in ToSet(resources) <=> \E i \in DOMAIN resources : r = resources[i]
      BY DEF ToSet
    <3> QED
      BY <3>1, <2>3, <2>4, <2>5
  <2> QED
    BY <1>2, <2>1, <2>5, <2>6, OverItsElements
<1> QED
  BY <1>1, <1>2

LEMMA RequestsElements ==
    ASSUME NEW in \in Inputs
    PROVE  /\ Requests(in) \in Seq(ToSet(Requests(in)))
           /\ \A q : q \in ToSet(Requests(in)) <=>
                \E t \in ToSet(in.templates) : q \in ToSet(Rendered(t, in.resources))
<1> DEFINE X == UNION {ToSet(Rendered(t, in.resources)) : t \in ToSet(in.templates)}
           s == [i \in DOMAIN in.templates |-> Rendered(in.templates[i], in.resources)]
<1>1. /\ in.resources \in Seq(ToSet(in.resources))
      /\ in.templates \in Seq(ToSet(in.templates))
  BY FixturesAccepted
<1>2. Len(in.templates) \in Nat /\ DOMAIN in.templates = 1..Len(in.templates)
  BY <1>1
<1>3. \A i \in DOMAIN in.templates : s[i] \in Seq(X)
  <2> TAKE i \in DOMAIN in.templates
  <2>1. in.templates[i] \in ToSet(in.templates)
    BY DEF ToSet
  <2>2. ToSet(Rendered(in.templates[i], in.resources)) \subseteq X
    BY <2>1
  <2>3. Rendered(in.templates[i], in.resources)
            \in Seq(ToSet(Rendered(in.templates[i], in.resources)))
    BY <1>1, RenderedElements
  <2> HIDE DEF X
  <2> QED
    BY <2>2, <2>3, OverMore
<1>4. s \in Seq(Seq(X)) /\ DOMAIN s = DOMAIN in.templates
  <2>1. s \in [1..Len(in.templates) -> Seq(X)]
    BY <1>2, <1>3
  <2> HIDE DEF X, s
  <2> QED
    BY <1>2, <2>1
<1>5. \A q : (\E i \in DOMAIN s : q \in ToSet(s[i])) <=>
              \E t \in ToSet(in.templates) : q \in ToSet(Rendered(t, in.resources))
  <2>1. \A t : t \in ToSet(in.templates) <=> \E i \in DOMAIN in.templates : t = in.templates[i]
    BY DEF ToSet
  <2> QED
    BY <2>1, <1>4
<1>6. Requests(in) = FlattenSeq(s)
  BY DEF Requests
<1> HIDE DEF X, s
<1>7. /\ FlattenSeq(s) \in Seq(X)
      /\ \A q : q \in ToSet(FlattenSeq(s)) <=> \E i \in DOMAIN s : q \in ToSet(s[i])
  BY <1>4, FlattenElements
<1> QED
  BY <1>5, <1>6, <1>7, OverItsElements

-------------------------------------------------------------------------------
(* The identities of a matrix. *)

LEMMA ElementAt ==
    ASSUME NEW s, NEW x
    PROVE  x \in ToSet(s) <=> \E i \in DOMAIN s : x = s[i]
BY DEF ToSet

OwnedIdentity(in, c) ==
    Identity(c.principal, c.role, c.tenant,
             {r.key : r \in {r \in ToSet(in.resources) : r.owner = c.principal}})

AnonymousIdentity == Identity("anonymous", "anonymous", None, {})

IsAdded(in, p) ==
    /\ in.anonymous /\ p = AnonymousIdentity
    /\ \A c \in ToSet(in.profiles) : ~LooksAnonymous(c)

LEMMA OwnedElements ==
    ASSUME NEW in \in Inputs
    PROVE  /\ OwnedProfiles(in) \in Seq(ToSet(OwnedProfiles(in)))
           /\ Len(OwnedProfiles(in)) = Len(in.profiles)
           /\ \A p : p \in ToSet(OwnedProfiles(in)) <=>
                  \E c \in ToSet(in.profiles) : p = OwnedIdentity(in, c)
<1> DEFINE s == [i \in DOMAIN in.profiles |-> OwnedIdentity(in, in.profiles[i])]
<1>1. OwnedProfiles(in) = s
  BY DEF OwnedProfiles, OwnedIdentity
<1>2. /\ in.profiles \in Seq(ToSet(in.profiles)) /\ Len(in.profiles) \in Nat
      /\ DOMAIN in.profiles = 1..Len(in.profiles)
  <2>1. in.profiles \in Seq(ToSet(in.profiles))
    BY FixturesAccepted
  <2> QED
    BY <2>1
<1>3. DOMAIN s = 1..Len(in.profiles) /\ \A i \in DOMAIN s : s[i] = OwnedIdentity(in, in.profiles[i])
  BY <1>2
<1>4. s = [i \in 1..Len(in.profiles) |-> s[i]]
  BY <1>2
<1> HIDE DEF s
<1>5. s \in [1..Len(in.profiles) -> ToSet(s)]
  BY <1>3, <1>4, ElementAt
<1>6. s \in Seq(ToSet(s)) /\ Len(s) = Len(in.profiles)
  BY <1>2, <1>3, <1>5
<1>7. \A p : p \in ToSet(s) <=> \E c \in ToSet(in.profiles) : p = OwnedIdentity(in, c)
  BY <1>2, <1>3, ElementAt
<1> QED
  BY <1>1, <1>6, <1>7

LEMMA EnrichedElements ==
    ASSUME NEW in \in Inputs, ValidInputs(in)
    PROVE  /\ EnrichedProfiles(in) \in Seq(ToSet(EnrichedProfiles(in)))
           /\ Len(EnrichedProfiles(in)) \in Nat \ {0}
           /\ \A p : p \in ToSet(EnrichedProfiles(in)) <=>
                  \/ \E c \in ToSet(in.profiles) : p = OwnedIdentity(in, c)
                  \/ IsAdded(in, p)
<1> DEFINE s == OwnedProfiles(in)
           added == in.anonymous /\ \A c \in ToSet(in.profiles) : ~LooksAnonymous(c)
<1>1. /\ s \in Seq(ToSet(s)) /\ Len(s) = Len(in.profiles)
      /\ \A p : p \in ToSet(s) <=> \E c \in ToSet(in.profiles) : p = OwnedIdentity(in, c)
  BY OwnedElements
<1>2. Len(in.profiles) \in Nat \ {0}
  <2>1. in.profiles \in Seq(ToSet(in.profiles)) /\ in.profiles # <<>>
    BY FixturesAccepted DEF ValidInputs
  <2> QED
    BY <2>1
<1>3. CASE added
  <2>1. EnrichedProfiles(in) = Append(s, AnonymousIdentity)
    BY <1>3 DEF EnrichedProfiles, AnonymousIdentity
  <2> HIDE DEF s
  <2> DEFINE one == <<AnonymousIdentity>>
             X == ToSet(s) \cup {AnonymousIdentity}
  <2>2. s \in Seq(X) /\ one \in Seq(X) /\ ToSet(one) = {AnonymousIdentity}
    <3>1. s \in Seq(X)
      BY <1>1, OverMore
    <3>2. ToSet(one) = {AnonymousIdentity}
      BY DEF ToSet
    <3> QED
      BY <3>1, <3>2
  <2>3. /\ Append(s, AnonymousIdentity) \in Seq(X)
        /\ Append(s, AnonymousIdentity) = s \o one
        /\ Len(Append(s, AnonymousIdentity)) = Len(s) + 1
    BY <2>2, AppendIsConcat, AppendProperties
  <2>4. \A p : p \in ToSet(EnrichedProfiles(in)) <=> p \in ToSet(s) \/ p = AnonymousIdentity
    BY <2>1, <2>2, <2>3, ConcatElements
  <2>5. \A p : IsAdded(in, p) <=> p = AnonymousIdentity
    BY <1>3 DEF IsAdded
  <2>6. EnrichedProfiles(in) \in Seq(ToSet(EnrichedProfiles(in)))
    BY <2>1, <2>3, OverItsElements
  <2>7. Len(EnrichedProfiles(in)) \in Nat \ {0}
    BY <1>1, <1>2, <2>1, <2>3
  <2> QED
    BY <1>1, <2>4, <2>5, <2>6, <2>7
<1>4. CASE ~added
  <2>1. EnrichedProfiles(in) = s
    BY <1>4 DEF EnrichedProfiles
  <2>2. \A p : ~IsAdded(in, p)
    BY <1>4 DEF IsAdded
  <2> QED
    BY <1>1, <1>2, <2>1, <2>2
<1> QED
  BY <1>3, <1>4

LEMMA Unique ==
    ASSUME NEW in \in Inputs, ValidInputs(in)
    PROVE  /\ \A c, d \in ToSet(in.profiles) : c.principal = d.principal => c = d
           /\ \A r, s \in ToSet(in.resources) : r.key = s.key => r = s
<1>1. /\ IsInjective([i \in DOMAIN in.profiles |-> in.profiles[i].principal])
      /\ IsInjective([i \in DOMAIN in.resources |-> in.resources[i].key])
  BY DEF ValidInputs
<1>2. /\ \A i, j \in DOMAIN in.profiles :
            in.profiles[i].principal = in.profiles[j].principal => i = j
      /\ \A i, j \in DOMAIN in.resources :
            in.resources[i].key = in.resources[j].key => i = j
  BY <1>1 DEF IsInjective
<1> QED
  BY <1>2, ElementAt

(* An identity is known by its principal, and owns what the fixtures say. *)
LEMMA Identities ==
    ASSUME NEW in \in Inputs, ValidInputs(in)
    PROVE  /\ \A p, q \in ToSet(EnrichedProfiles(in)) : p.principal = q.principal => p = q
           /\ \A p \in ToSet(EnrichedProfiles(in)) : \A key :
                  key \in p.owned <=>
                      \E r \in ToSet(in.resources) : r.key = key /\ r.owner = p.principal
<1> DEFINE P == ToSet(EnrichedProfiles(in))
<1>1. \A p \in P :
          \/ \E c \in ToSet(in.profiles) : p = OwnedIdentity(in, c)
          \/ IsAdded(in, p)
  BY EnrichedElements
<1>2. \A c : OwnedIdentity(in, c).principal = c.principal
  BY DEF OwnedIdentity, Identity
<1>3. \A c, key : key \in OwnedIdentity(in, c).owned <=>
          \E r \in ToSet(in.resources) : r.key = key /\ r.owner = c.principal
  BY DEF OwnedIdentity, Identity
<1>4. AnonymousIdentity.principal = "anonymous" /\ AnonymousIdentity.owned = {}
  BY DEF AnonymousIdentity, Identity
<1>5. ASSUME NEW p \in P, NEW q \in P, p.principal = q.principal
      PROVE  p = q
  <2>1. ASSUME NEW a \in P, NEW b \in P, IsAdded(in, a), ~IsAdded(in, b)
        PROVE  a.principal # b.principal
    BY <1>1, <1>2, <1>4, <2>1 DEF IsAdded, LooksAnonymous
  <2>2. CASE IsAdded(in, p) /\ IsAdded(in, q)
    BY <2>2 DEF IsAdded
  <2>3. CASE ~IsAdded(in, p) /\ ~IsAdded(in, q)
    BY <1>1, <1>2, <1>5, <2>3, Unique
  <2> QED
    BY <1>5, <2>1, <2>2, <2>3
<1>6. ASSUME NEW p \in P, NEW key
      PROVE  key \in p.owned <=>
                 \E r \in ToSet(in.resources) : r.key = key /\ r.owner = p.principal
  <2>1. CASE IsAdded(in, p)
    <3>1. \A r \in ToSet(in.resources) : r.owner # "anonymous"
      BY DEF ValidInputs
    <3> QED
      BY <1>4, <2>1, <3>1 DEF IsAdded
  <2>2. CASE ~IsAdded(in, p)
    BY <1>1, <1>2, <1>3, <2>2
  <2> QED
    BY <2>1, <2>2
<1> QED
  BY <1>5, <1>6

-------------------------------------------------------------------------------
(* What an observation says of its cell. *)

Answers == {Refused} \cup Bodies

CellSeen(in, o) ==
    \E q \in ToSet(Requests(in)), p \in ToSet(EnrichedProfiles(in)), a \in Answers :
        o = Observation(q, p, a)

LEMMA RequestResource ==
    ASSUME NEW in \in Inputs, NEW q \in ToSet(Requests(in))
    PROVE  \/ q.resource = None /\ q.tenant = None
           \/ \E r \in ToSet(in.resources) :
                 q.resource = r.key /\ q.tenant = r.tenant /\ r.key # None
<1>1. PICK t \in ToSet(in.templates) : q \in ToSet(Rendered(t, in.resources))
  BY RequestsElements
<1>2. in.resources \in Seq(ToSet(in.resources)) /\ \A r \in ToSet(in.resources) : r.key # None
  BY FixturesAccepted
<1>3. IF HasKind(t)
      THEN \E r \in ToSet(in.resources) : r.kind = t.kind /\ q = RequestOf(t, r)
      ELSE q = Request(t.url, t, None, None)
  BY <1>1, <1>2, RenderedElements
<1>4. CASE HasKind(t)
  <2>1. PICK r \in ToSet(in.resources) : q = RequestOf(t, r)
    BY <1>3, <1>4
  <2>2. q.resource = r.key /\ q.tenant = r.tenant
    BY <2>1 DEF RequestOf, Request
  <2> QED
    BY <1>2, <2>2
<1>5. CASE ~HasKind(t)
  BY <1>3, <1>5 DEF Request
<1> QED
  BY <1>4, <1>5

(* The fields of an observation, and the ownership the engine reads in it is
   that of the fixtures. *)
LEMMA CellFacts ==
    ASSUME NEW o, input \in Inputs, ValidInputs(input), CellSeen(input, o)
    PROVE  /\ o.owns \in {"yes", "no", "unknown"} /\ o.answer \in Answers
           /\ o.owns = "yes" <=> OwnedBy(o.resource, o.principal)
           /\ o.owns = "no" <=> Foreign(o.resource, o)
           /\ \E p \in ToSet(EnrichedProfiles(input)) :
                 p.principal = o.principal /\ p.role = o.role /\ p.tenant = o.tenant
           /\ \/ o.resource = None /\ o.resourceTenant = None
              \/ \E r \in ToSet(input.resources) :
                    o.resource = r.key /\ o.resourceTenant = r.tenant
<1>1. PICK q \in ToSet(Requests(input)), p \in ToSet(EnrichedProfiles(input)), a \in Answers :
          o = Observation(q, p, a)
  BY DEF CellSeen
<1>2. /\ o.resource = q.resource /\ o.resourceTenant = q.tenant /\ o.answer = a
      /\ o.principal = p.principal /\ o.role = p.role /\ o.tenant = p.tenant
      /\ o.owns = Owns(q, p)
  BY <1>1 DEF Observation
<1>3. \/ q.resource = None /\ q.tenant = None
      \/ \E r \in ToSet(input.resources) :
            q.resource = r.key /\ q.tenant = r.tenant /\ r.key # None
  BY RequestResource
<1>4. \A key : key \in p.owned <=> OwnedBy(key, p.principal)
  BY Identities DEF OwnedBy
<1>5. ~OwnedBy(None, p.principal)
  BY FixturesAccepted DEF OwnedBy
<1>6. /\ o.owns \in {"yes", "no", "unknown"}
      /\ o.owns = "yes" <=> OwnedBy(o.resource, o.principal)
      /\ o.owns = "no" <=> Foreign(o.resource, o)
  BY <1>2, <1>4, <1>5 DEF Owns, Foreign
<1> QED
  BY <1>2, <1>3, <1>6

LEMMA OnePrincipalOneRole ==
    ASSUME NEW o, NEW v, input \in Inputs, ValidInputs(input),
           CellSeen(input, o), CellSeen(input, v), o.principal = v.principal
    PROVE  o.role = v.role
<1>1. PICK p \in ToSet(EnrichedProfiles(input)) : p.principal = o.principal /\ p.role = o.role
  BY CellFacts
<1>2. PICK q \in ToSet(EnrichedProfiles(input)) : q.principal = v.principal /\ q.role = v.role
  BY CellFacts
<1> QED
  BY <1>1, <1>2, Identities

(* A tenant the engine sees crossed is one the fixtures say is crossed. *)
LEMMA CrossesTruly ==
    ASSUME NEW o, input \in Inputs, ValidInputs(input), CellSeen(input, o)
    PROVE  Crosses(o) <=> ForeignTenant(o.resource, o)
<1>1. PICK p \in ToSet(EnrichedProfiles(input)) :
          p.principal = o.principal /\ p.tenant = o.tenant
  BY CellFacts
<1>2. \/ \E c \in ToSet(input.profiles) : p = OwnedIdentity(input, c)
      \/ IsAdded(input, p)
  BY EnrichedElements
<1>3. \A c : /\ OwnedIdentity(input, c).principal = c.principal
             /\ OwnedIdentity(input, c).tenant = c.tenant
  BY DEF OwnedIdentity, Identity
<1>4. IsAdded(input, p) => /\ p.tenant = None /\ p.principal = "anonymous"
                           /\ \A c \in ToSet(input.profiles) : c.principal # "anonymous"
  BY DEF IsAdded, AnonymousIdentity, Identity, LooksAnonymous
<1>5. ASSUME Crosses(o) PROVE ForeignTenant(o.resource, o)
  <2>1. /\ Foreign(o.resource, o) /\ o.tenant # None /\ o.resourceTenant # None
        /\ o.tenant # o.resourceTenant
    BY <1>5, CellFacts DEF Crosses
  <2>2. PICK c \in ToSet(input.profiles) : c.principal = o.principal /\ c.tenant = o.tenant
    BY <1>1, <1>2, <1>3, <1>4, <2>1
  <2>3. PICK r \in ToSet(input.resources) : o.resource = r.key /\ o.resourceTenant = r.tenant
    BY <2>1, CellFacts
  <2> QED
    BY <2>1, <2>2, <2>3 DEF ForeignTenant
<1>6. ASSUME ForeignTenant(o.resource, o) PROVE Crosses(o)
  <2>1. PICK c \in ToSet(input.profiles), r \in ToSet(input.resources) :
            /\ c.principal = o.principal /\ r.key = o.resource
            /\ c.tenant # None /\ r.tenant # None /\ c.tenant # r.tenant
    BY <1>6 DEF ForeignTenant
  <2>2. o.owns = "no" /\ o.resource # None
    BY <1>6, CellFacts DEF ForeignTenant, Foreign
  <2>3. o.tenant = c.tenant
    BY <1>1, <1>2, <1>3, <1>4, <2>1, Unique
  <2>4. o.resourceTenant = r.tenant
    BY <2>1, <2>2, CellFacts, Unique
  <2> QED
    BY <2>1, <2>2, <2>3, <2>4 DEF Crosses
<1> QED
  BY <1>5, <1>6

-------------------------------------------------------------------------------
(* What the engine reports, for any observations. *)

LEMMA FirstOf ==
    ASSUME NEW I, I \subseteq Nat, I # {}
    PROVE  First(I) \in I
<1>1. PICK i \in I : \A j \in I : ~ (<<j, i>> \in OpToRel(<, Nat))
  BY NatLessThanWellFounded, WFMin
<1>2. \A j \in I : i <= j
  <2> TAKE j \in I
  <2>1. ~ (j < i)
    BY <1>1 DEF OpToRel
  <2> QED
    BY <2>1, SMT
<1> QED
  BY <1>2, Zenon DEF First

(* An answer a finding of a kind accuses, and one it can rest on. *)
Accused(kind, v) ==
    \/ kind = "anonymous" /\ v.role = "anonymous"
    \/ kind = "object" /\ v.owns = "no"
    \/ kind = "role" /\ v.role \notin PRIVILEGED_ROLES \cup {"anonymous"}
    \/ kind = "tenant" /\ Crosses(v)

Baseline(kind, o) ==
    \/ kind = "anonymous" /\ o.role # "anonymous"
    \/ kind \in {"object", "tenant"} /\ o.owns = "yes"
    \/ kind = "role" /\ o.role \in PRIVILEGED_ROLES

\* The finding f of a target accuses observation v.
Supported(obs, t, f, v) ==
    /\ f.target = t /\ f.kind \in {"anonymous", "object", "role", "tenant"}
    /\ f.strength \in {"likely", "verified"}
    /\ Accused(f.kind, obs[v])
    /\ f.strength = "verified" =>
         \E i \in Samples(obs, t) :
            /\ Baseline(f.kind, obs[i])
            /\ Strength(obs[i].answer, obs[v].answer) = "verified"

LEMMA StrengthValues ==
    ASSUME NEW a, NEW b
    PROVE  Strength(a, b) \in {"verified", "likely", "insufficient"}
BY DEF Strength

\* A comparison of a baseline with a viewer that was not insufficient.
LEMMA ComparedIsSupported ==
    ASSUME NEW obs, NEW t, NEW kind \in {"anonymous", "object", "role", "tenant"},
           NEW i \in Samples(obs, t), NEW v \in Samples(obs, t),
           Baseline(kind, obs[i]), Accused(kind, obs[v]),
           Strength(obs[i].answer, obs[v].answer) # "insufficient"
    PROVE  Supported(obs, t, Compared(kind, t, obs[i].answer, obs[v].answer), v)
BY StrengthValues DEF Supported, Compared, Finding

LEMMA AnonymousFindings ==
    ASSUME NEW obs, DOMAIN obs \subseteq Nat, NEW t
    PROVE  /\ \A f \in AnonymousExposure(obs, t) :
                 \E v \in Samples(obs, t) : Supported(obs, t, f, v)
           /\ \A v \in Viewers(obs, t) : obs[v].role = "anonymous" =>
                 \E f \in AnonymousExposure(obs, t) : f.kind = "anonymous" /\ f.target = t
<1> DEFINE bases == {i \in Samples(obs, t) : obs[i].role # "anonymous"}
           same(v) == Matching(obs, bases, v, "verified")
           Exposed(v) ==
               IF same(v) # {}
               THEN Compared("anonymous", t, obs[First(same(v))].answer, obs[v].answer)
               ELSE Finding("anonymous", t, "likely", <<obs[v].answer>>)
<1>1. \A f : f \in AnonymousExposure(obs, t) <=>
          \E v \in Viewers(obs, t) : obs[v].role = "anonymous" /\ f = Exposed(v)
  BY DEF AnonymousExposure
<1>2. \A v \in Viewers(obs, t) : v \in Samples(obs, t)
  BY DEF Viewers
<1>3. ASSUME NEW v \in Samples(obs, t), obs[v].role = "anonymous"
      PROVE  /\ Supported(obs, t, Exposed(v), v)
             /\ Exposed(v).kind = "anonymous" /\ Exposed(v).target = t
  <2>1. CASE same(v) # {}
    <3>1. same(v) \subseteq Nat
      BY DEF Matching, Samples
    <3>2. First(same(v)) \in same(v)
      BY <2>1, <3>1, FirstOf
    <3>3. PICK i \in same(v) : i = First(same(v))
      BY <3>2
    <3>4. /\ i \in Samples(obs, t) /\ obs[i].role # "anonymous"
          /\ Strength(obs[i].answer, obs[v].answer) = "verified"
      BY DEF Matching
    <3>5. Exposed(v) = Compared("anonymous", t, obs[i].answer, obs[v].answer)
      BY <2>1, <3>3
    <3>6. Supported(obs, t, Compared("anonymous", t, obs[i].answer, obs[v].answer), v)
      BY <1>3, <3>4, ComparedIsSupported DEF Baseline, Accused
    <3> HIDE DEF Exposed
    <3> QED
      BY <3>5, <3>6 DEF Compared, Finding
  <2>2. CASE same(v) = {}
    <3>1. Exposed(v) = Finding("anonymous", t, "likely", <<obs[v].answer>>)
      BY <2>2
    <3> HIDE DEF Exposed
    <3> QED
      BY <1>3, <3>1 DEF Supported, Finding, Accused
  <2> QED
    BY <2>1, <2>2
<1> HIDE DEF Exposed
<1> QED
  BY <1>1, <1>2, <1>3

LEMMA ObjectFindings ==
    ASSUME NEW obs, NEW t
    PROVE  /\ \A f \in ObjectAccess(obs, t) :
                 \E v \in Samples(obs, t) : Supported(obs, t, f, v)
           /\ \A i, v \in Samples(obs, t) :
                 /\ obs[i].owns = "yes" /\ obs[v].owns = "no"
                 /\ Strength(obs[i].answer, obs[v].answer) = "verified"
                 => \E f \in ObjectAccess(obs, t) :
                       f.kind = "object" /\ f.target = t /\ f.strength = "verified"
<1> DEFINE F(i, v) == Compared("object", t, obs[i].answer, obs[v].answer)
<1>1. \A f : f \in ObjectAccess(obs, t) <=>
          \E i, v \in Samples(obs, t) :
             /\ obs[i].owns = "yes" /\ obs[v].owns = "no"
             /\ f = F(i, v) /\ f.strength # "insufficient"
  BY DEF ObjectAccess
<1>2. \A i, v : /\ F(i, v).kind = "object" /\ F(i, v).target = t
               /\ F(i, v).strength = Strength(obs[i].answer, obs[v].answer)
  BY DEF Compared, Finding
<1>3. ASSUME NEW i \in Samples(obs, t), NEW v \in Samples(obs, t),
             obs[i].owns = "yes", obs[v].owns = "no", F(i, v).strength # "insufficient"
      PROVE  Supported(obs, t, F(i, v), v)
  BY <1>2, <1>3, ComparedIsSupported DEF Baseline, Accused
<1> HIDE DEF F
<1> QED
  BY <1>1, <1>2, <1>3

LEMMA RoleFindings ==
    ASSUME NEW obs, NEW t, NEW f \in RoleParity(obs, t)
    PROVE  \E v \in Samples(obs, t) : Supported(obs, t, f, v)
<1>1. PICK i \in Samples(obs, t), v \in Viewers(obs, t) :
          /\ obs[i].role \in PRIVILEGED_ROLES
          /\ obs[v].role \notin PRIVILEGED_ROLES \cup {"anonymous"}
          /\ f = Compared("role", t, obs[i].answer, obs[v].answer)
          /\ f.strength # "insufficient"
  BY DEF RoleParity
<1>2. v \in Samples(obs, t)
  BY DEF Viewers
<1>3. Strength(obs[i].answer, obs[v].answer) # "insufficient"
  BY <1>1 DEF Compared, Finding
<1> QED
  BY <1>1, <1>2, <1>3, ComparedIsSupported DEF Baseline, Accused

LEMMA TenantFindings ==
    ASSUME NEW obs, DOMAIN obs \subseteq Nat, NEW t
    PROVE  /\ \A f \in TenantCrossing(obs, t) :
                 \E v \in Samples(obs, t) : Supported(obs, t, f, v)
           /\ \A v \in Viewers(obs, t) : Crosses(obs[v]) =>
                 \E f \in TenantCrossing(obs, t) : f.kind = "tenant" /\ f.target = t
<1> DEFINE owners == {i \in Samples(obs, t) : obs[i].owns = "yes"}
           Best(v) ==
               IF Matching(obs, owners, v, "verified") # {}
               THEN Matching(obs, owners, v, "verified")
               ELSE Matching(obs, owners, v, "likely")
           Crossing(v) ==
               IF Best(v) # {}
               THEN Compared("tenant", t, obs[First(Best(v))].answer, obs[v].answer)
               ELSE Finding("tenant", t, "likely",
                            <<obs[v].tenant, obs[v].resourceTenant, Sensitive(obs[v].answer)>>)
<1>1. \A f : f \in TenantCrossing(obs, t) <=>
          \E v \in Samples(obs, t) :
             /\ Crosses(obs[v]) /\ (Best(v) # {} \/ v \in Viewers(obs, t))
             /\ f = Crossing(v)
  BY DEF TenantCrossing
<1>2. \A v \in Viewers(obs, t) : v \in Samples(obs, t)
  BY DEF Viewers
<1>3. ASSUME NEW v \in Samples(obs, t), Crosses(obs[v])
      PROVE  /\ Supported(obs, t, Crossing(v), v)
             /\ Crossing(v).kind = "tenant" /\ Crossing(v).target = t
  <2>1. CASE Best(v) # {}
    <3>1. \A i \in Best(v) :
              /\ i \in owners
              /\ Strength(obs[i].answer, obs[v].answer) # "insufficient"
      BY DEF Matching
    <3>2. Best(v) \subseteq Nat
      BY <3>1 DEF Samples
    <3>3. First(Best(v)) \in Best(v)
      BY <2>1, <3>2, FirstOf
    <3> HIDE DEF Best
    <3>4. PICK i \in Best(v) : i = First(Best(v))
      BY <3>3
    <3>5. /\ i \in Samples(obs, t) /\ obs[i].owns = "yes"
          /\ Strength(obs[i].answer, obs[v].answer) # "insufficient"
      BY <3>1
    <3>6. Crossing(v) = Compared("tenant", t, obs[i].answer, obs[v].answer)
      BY <2>1, <3>4
    <3>7. Supported(obs, t, Compared("tenant", t, obs[i].answer, obs[v].answer), v)
      BY <1>3, <3>5, ComparedIsSupported DEF Baseline, Accused
    <3> HIDE DEF Crossing
    <3> QED
      BY <3>6, <3>7 DEF Compared, Finding
  <2>2. CASE Best(v) = {}
    <3>1. Crossing(v) = Finding("tenant", t, "likely",
              <<obs[v].tenant, obs[v].resourceTenant, Sensitive(obs[v].answer)>>)
      BY <2>2
    <3> HIDE DEF Crossing
    <3> QED
      BY <1>3, <3>1 DEF Supported, Finding, Accused
  <2> QED
    BY <2>1, <2>2
<1> HIDE DEF Crossing, Best
<1> QED
  BY <1>1, <1>2, <1>3

LEMMA FindingIsSupported ==
    ASSUME NEW obs, DOMAIN obs \subseteq Nat, NEW f \in Analyze(obs)
    PROVE  \E v \in Samples(obs, f.target) : Supported(obs, f.target, f, v)
<1>1. PICK t : \/ f \in AnonymousExposure(obs, t) \/ f \in ObjectAccess(obs, t)
               \/ f \in RoleParity(obs, t) \/ f \in TenantCrossing(obs, t)
  BY DEF Analyze
<1>2. PICK v \in Samples(obs, t) : Supported(obs, t, f, v)
  BY <1>1, AnonymousFindings, ObjectFindings, RoleFindings, TenantFindings
<1>3. f.target = t
  BY <1>2 DEF Supported
<1> QED
  BY <1>2, <1>3

LEMMA AnalyzesEveryTarget ==
    ASSUME NEW obs, NEW t, NEW i \in Samples(obs, t)
    PROVE  /\ AnonymousExposure(obs, t) \subseteq Analyze(obs)
           /\ ObjectAccess(obs, t) \subseteq Analyze(obs)
           /\ TenantCrossing(obs, t) \subseteq Analyze(obs)
<1>1. t \in {Target(obs[j]) : j \in DOMAIN obs}
  BY DEF Samples
<1> QED
  BY <1>1 DEF Analyze

-------------------------------------------------------------------------------
(* The inductive invariant: the matrix is the one of the fixtures, each        *)
(* observation is the answer to its cell, and the findings are those of all.   *)

Row(k, width) == ((k - 1) \div width) + 1
Column(k, width) == ((k - 1) % width) + 1

IsCell(k, width, i, j) == Row(k, width) = i /\ Column(k, width) = j

CellAnswered(k) ==
    \E a \in Answers :
        observations[k] = Observation(requests[Row(k, Len(profiles))],
                                      profiles[Column(k, Len(profiles))], a)

MatrixOfFixtures ==
    /\ ValidInputs(input) /\ WithinBudget(input)
    /\ profiles = EnrichedProfiles(input)
    /\ requests = Requests(input)
    /\ Len(observations) <= Len(requests) * Len(profiles)
    /\ \A k \in 1..Len(observations) : CellAnswered(k)

VerifierInv ==
    /\ TypeOK
    /\ observations \in Seq(ToSet(observations))
    /\ pc = "new" => observations = <<>>
    /\ pc \in {"collect", "done"} => MatrixOfFixtures
    /\ pc = "done" => Len(observations) = Len(requests) * Len(profiles)
    /\ findings = IF pc = "done" THEN Analyze(observations) ELSE {}

LEMMA CellInMatrix ==
    ASSUME NEW R \in Nat, NEW P \in Nat \ {0}, NEW k \in 1..(R * P)
    PROVE  Row(k, P) \in 1..R /\ Column(k, P) \in 1..P
<1>1. k - 1 \in Nat /\ k - 1 < R * P
  BY SMT
<1>2. (k - 1) \div P \in 0..(R - 1)
  BY <1>1, SMT
<1>3. (k - 1) % P \in 0..(P - 1)
  BY <1>1, SMT
<1> QED
  BY <1>2, <1>3 DEF Row, Column

LEMMA EveryCellInMatrix ==
    ASSUME NEW R \in Nat, NEW P \in Nat \ {0}, NEW i \in 1..R, NEW j \in 1..P,
           NEW size, size = R * P
    PROVE  \E k \in 1..size : IsCell(k, P, i, j)
<1> DEFINE k == (i - 1) * P + (j - 1) + 1
<1>1. /\ i - 1 \in 0..(R - 1) /\ j - 1 \in 0..(P - 1)
      /\ (i - 1) * P \in Nat
  BY SMT
<1>2. k \in 1..size
  BY <1>1, SMT
<1>3. k - 1 = (i - 1) * P + (j - 1)
  BY <1>1
<1>4. ((i - 1) * P + (j - 1)) \div P = i - 1
  BY <1>1, SMT
<1>5. ((i - 1) * P + (j - 1)) % P = j - 1
  BY <1>1, SMT
<1>6. Row(k, P) = i /\ Column(k, P) = j
  BY <1>3, <1>4, <1>5 DEF Row, Column
<1> HIDE DEF k
<1> QED
  BY <1>2, <1>6 DEF IsCell

LEMMA MatrixSizes ==
    ASSUME input \in Inputs, MatrixOfFixtures
    PROVE  /\ Len(requests) \in Nat /\ DOMAIN requests = 1..Len(requests)
           /\ Len(profiles) \in Nat \ {0} /\ DOMAIN profiles = 1..Len(profiles)
           /\ Len(requests) * Len(profiles) \in Nat
           /\ Len(requests) * Len(profiles) <= MaxRequests
<1>1. /\ requests \in Seq(ToSet(requests)) /\ profiles \in Seq(ToSet(profiles))
      /\ Len(profiles) \in Nat \ {0}
  BY RequestsElements, EnrichedElements DEF MatrixOfFixtures
<1>2. /\ Len(requests) \in Nat /\ DOMAIN requests = 1..Len(requests)
      /\ DOMAIN profiles = 1..Len(profiles)
  BY <1>1
<1>3. Len(requests) * Len(profiles) \in Nat
  BY <1>1, <1>2
<1>4. Len(requests) * Len(profiles) <= MaxRequests
  BY DEF MatrixOfFixtures, WithinBudget
<1> QED
  BY <1>1, <1>2, <1>3, <1>4

LEMMA AnsweredIsSeen ==
    ASSUME input \in Inputs, MatrixOfFixtures, NEW k \in 1..(Len(requests) * Len(profiles)),
           NEW a \in Answers
    PROVE  CellSeen(input, Observation(requests[Row(k, Len(profiles))],
                                       profiles[Column(k, Len(profiles))], a))
<1>1. Row(k, Len(profiles)) \in DOMAIN requests /\ Column(k, Len(profiles)) \in DOMAIN profiles
  BY MatrixSizes, CellInMatrix
<1>2. /\ requests[Row(k, Len(profiles))] \in ToSet(requests)
      /\ profiles[Column(k, Len(profiles))] \in ToSet(profiles)
  BY <1>1, ElementAt
<1> QED
  BY <1>2 DEF CellSeen, MatrixOfFixtures

LEMMA ObservationsAreSeen ==
    ASSUME VerifierInv, pc \in {"collect", "done"}
    PROVE  /\ DOMAIN observations = 1..Len(observations) /\ Len(observations) \in Nat
           /\ \A o \in ToSet(observations) : CellSeen(input, o)
<1>1. DOMAIN observations = 1..Len(observations) /\ Len(observations) \in Nat
  BY DEF VerifierInv
<1>2. ASSUME NEW o \in ToSet(observations) PROVE CellSeen(input, o)
  <2>1. input \in Inputs /\ MatrixOfFixtures
    BY DEF VerifierInv, TypeOK
  <2>2. PICK k \in 1..Len(observations) : o = observations[k]
    BY <1>1, ElementAt
  <2>3. k \in 1..(Len(requests) * Len(profiles))
    BY <1>1, <2>1, MatrixSizes DEF MatrixOfFixtures
  <2>4. CellAnswered(k)
    BY <2>1 DEF MatrixOfFixtures
  <2> QED
    BY <2>1, <2>2, <2>3, <2>4, AnsweredIsSeen DEF CellAnswered
<1> QED
  BY <1>1, <1>2

LEMMA VerifierInit == Init => VerifierInv
<1> SUFFICES ASSUME Init PROVE VerifierInv
  OBVIOUS
<1>1. /\ input \in Inputs /\ pc = "new" /\ observations = <<>> /\ findings = {}
  BY DEF Init
<1>2. ToSet(observations) = {} /\ Len(observations) = 0 /\ observations \in Seq({})
  BY <1>1 DEF ToSet
<1>3. TypeOK
  BY <1>1, <1>2, BudgetAccepted DEF TypeOK
<1> QED
  BY <1>1, <1>2, <1>3 DEF VerifierInv

(* A step that sends nothing and analyses nothing. *)
LEMMA NothingSent ==
    ASSUME VerifierInv, UNCHANGED <<input, observations, findings>>,
           pc # "done", pc' = "raised"
    PROVE  VerifierInv'
BY DEF VerifierInv, TypeOK

LEMMA VerifierBegins ==
    ASSUME VerifierInv, Begin
    PROVE  VerifierInv'
<1>1. /\ pc = "new" /\ pc' = "collect" /\ ValidInputs(input) /\ WithinBudget(input)
      /\ profiles' = EnrichedProfiles(input) /\ requests' = Requests(input)
      /\ input' = input /\ observations' = observations /\ findings' = findings
  BY DEF Begin
<1>2. input \in Inputs /\ observations = <<>> /\ findings = {} /\ Len(observations') = 0
  BY <1>1 DEF VerifierInv, TypeOK
<1>3. TypeOK'
  BY <1>1 DEF VerifierInv, TypeOK
<1>4. MatrixOfFixtures'
  <2>1. Len(Requests(input)) \in Nat /\ Len(EnrichedProfiles(input)) \in Nat
    <3>1. Requests(input) \in Seq(ToSet(Requests(input)))
      BY <1>2, RequestsElements
    <3>2. Len(EnrichedProfiles(input)) \in Nat
      BY <1>1, <1>2, EnrichedElements
    <3> QED
      BY <3>1, <3>2
  <2>2. Len(Requests(input)) * Len(EnrichedProfiles(input)) \in Nat
    BY <2>1
  <2>3. Len(observations') <= Len(requests') * Len(profiles')
    BY <1>1, <1>2, <2>2
  <2>4. \A k \in 1..Len(observations') : CellAnswered(k)'
    BY <1>2
  <2>5. ValidInputs(input)' /\ WithinBudget(input)'
    BY <1>1
  <2>6. profiles' = EnrichedProfiles(input)' /\ requests' = Requests(input)'
    BY <1>1
  <2> QED
    BY <2>3, <2>4, <2>5, <2>6 DEF MatrixOfFixtures
<1>5. (observations \in Seq(ToSet(observations)))'
  BY <1>1 DEF VerifierInv
<1>6. findings' = {}
  BY <1>1, <1>2
<1> QED
  BY <1>1, <1>3, <1>4, <1>5, <1>6 DEF VerifierInv

LEMMA VerifierCollects ==
    ASSUME VerifierInv, NEW answer \in Answers, Collect(answer)
    PROVE  VerifierInv'
<1> DEFINE o == Observation(requests[Row(Len(observations) + 1, Len(profiles))],
                            profiles[Column(Len(observations) + 1, Len(profiles))], answer)
<1>1. PICK n \in Nat : n = Len(observations)
  BY DEF VerifierInv
<1>2. /\ pc = "collect" /\ pc' = "collect" /\ n < Len(requests) * Len(profiles)
      /\ UNCHANGED <<input, profiles, requests, findings>>
      /\ MatrixOfFixtures /\ input \in Inputs /\ findings = {}
  BY <1>1 DEF Collect, VerifierInv, TypeOK
<1>3. observations' = Append(observations, o)
  <2>1. (n + 1) - 1 = n
    BY SMT
  <2>2. Row(n + 1, Len(profiles)) = (n \div Len(profiles)) + 1
    BY <2>1 DEF Row
  <2>3. Column(n + 1, Len(profiles)) = (n % Len(profiles)) + 1
    BY <2>1 DEF Column
  <2> QED
    BY <1>1, <2>2, <2>3 DEF Collect
<1>4. PICK new : new = o
  OBVIOUS
<1>5. /\ observations \in Seq(ToSet(observations) \cup {new})
      /\ observations' = Append(observations, new)
  <2>1. observations \in Seq(ToSet(observations))
    BY DEF VerifierInv
  <2> QED
    BY <1>3, <1>4, <2>1, OverMore
<1>6. /\ observations' \in Seq(ToSet(observations) \cup {new})
      /\ Len(observations') = n + 1 /\ DOMAIN observations' = 1..(n + 1)
      /\ \A k \in 1..n : observations'[k] = observations[k]
      /\ observations'[n + 1] = new
  BY <1>1, <1>5
<1>7. (observations \in Seq(ToSet(observations)))'
  BY <1>6, OverItsElements
<1>8. n + 1 <= Len(requests) * Len(profiles) /\ n + 1 <= MaxRequests
      /\ n + 1 \in 1..(Len(requests) * Len(profiles))
  BY <1>2, MatrixSizes, BudgetAccepted
<1>9. CellSeen(input, new)
  BY <1>1, <1>2, <1>4, <1>8, AnsweredIsSeen
<1>10. MatrixOfFixtures'
  <2>1. \A k \in 1..(n + 1) : CellAnswered(k)'
    <3> TAKE k \in 1..(n + 1)
    <3>1. CASE k \in 1..n
      <4>1. CellAnswered(k)
        BY <1>1, <1>2, <3>1 DEF MatrixOfFixtures
      <4> QED
        BY <4>1, <1>2, <1>6, <3>1 DEF CellAnswered, Answers
    <3>2. CASE k = n + 1
      BY <1>1, <1>2, <1>4, <1>6, <3>2 DEF CellAnswered, Answers
    <3> QED
      BY <3>1, <3>2
  <2>2. ValidInputs(input)' /\ WithinBudget(input)'
    BY <1>2 DEF MatrixOfFixtures
  <2>3. profiles' = EnrichedProfiles(input)' /\ requests' = Requests(input)'
    BY <1>2 DEF MatrixOfFixtures
  <2>4. Len(observations') <= Len(requests') * Len(profiles')
    BY <1>2, <1>6, <1>8
  <2> QED
    BY <1>6, <2>1, <2>2, <2>3, <2>4 DEF MatrixOfFixtures
<1>11. TypeOK'
  <2>1. \A x \in ToSet(observations') : x \in ToSet(observations) \/ x = new
    <3>1. DOMAIN observations = 1..n
      BY <1>1 DEF VerifierInv
    <3> QED
      BY <3>1, <1>6, ElementAt
  <2>2. \A x \in ToSet(observations) : x.answer \in Answers /\ x.owns \in {"yes", "no", "unknown"}
    BY DEF VerifierInv, TypeOK, Answers
  <2>3. new.answer \in Answers /\ new.owns \in {"yes", "no", "unknown"}
    BY <1>2, <1>9, CellFacts DEF MatrixOfFixtures
  <2>4. \A x \in ToSet(observations') :
            x.answer \in {Refused} \cup Bodies /\ x.owns \in {"yes", "no", "unknown"}
    BY <2>1, <2>2, <2>3 DEF Answers
  <2>5. input' \in Inputs /\ pc' = "collect" /\ findings' = {} /\ Len(observations') <= MaxRequests
    BY <1>2, <1>6, <1>8
  <2> QED
    BY <2>4, <2>5 DEF TypeOK
<1>12. findings' = {} /\ pc' = "collect"
  BY <1>2
<1> QED
  BY <1>7, <1>10, <1>11, <1>12 DEF VerifierInv

LEMMA VerifierAnalyses ==
    ASSUME VerifierInv, Analyse
    PROVE  VerifierInv'
<1>1. /\ pc = "collect" /\ pc' = "done"
      /\ Len(observations) = Len(requests) * Len(profiles)
      /\ findings' = Analyze(observations)
      /\ UNCHANGED <<input, profiles, requests, observations>>
  BY DEF Analyse
<1>2. \A f \in Analyze(observations) :
          /\ f.kind \in {"anonymous", "object", "role", "tenant"}
          /\ f.strength \in {"likely", "verified"}
  <2>1. DOMAIN observations \subseteq Nat
    BY <1>1, ObservationsAreSeen
  <2> QED
    BY <2>1, FindingIsSupported DEF Supported
<1>3. TypeOK'
  BY <1>1, <1>2 DEF VerifierInv, TypeOK
<1>4. MatrixOfFixtures'
  <2>1. MatrixOfFixtures
    BY <1>1 DEF VerifierInv
  <2>2. \A k \in 1..Len(observations) : CellAnswered(k) <=> CellAnswered(k)'
    BY <1>1 DEF CellAnswered, Answers
  <2>3. ValidInputs(input)' /\ WithinBudget(input)'
    BY <1>1, <2>1 DEF MatrixOfFixtures
  <2>4. profiles' = EnrichedProfiles(input)' /\ requests' = Requests(input)'
    BY <1>1, <2>1 DEF MatrixOfFixtures
  <2> QED
    BY <1>1, <2>1, <2>2, <2>3, <2>4 DEF MatrixOfFixtures
<1>5. findings' = Analyze(observations)'
  BY <1>1
<1>6. (observations \in Seq(ToSet(observations)))'
  BY <1>1 DEF VerifierInv
<1>7. (Len(observations) = Len(requests) * Len(profiles))'
  BY <1>1
<1> QED
  BY <1>1, <1>3, <1>4, <1>5, <1>6, <1>7 DEF VerifierInv

LEMMA VerifierStep == VerifierInv /\ [Next]_vars => VerifierInv'
<1> SUFFICES ASSUME VerifierInv, [Next]_vars PROVE VerifierInv'
  OBVIOUS
<1>1. CASE Reject
  BY <1>1, NothingSent DEF Reject
<1>2. CASE Begin
  BY <1>2, VerifierBegins
<1>3. ASSUME NEW answer \in {Refused} \cup Bodies, Collect(answer)
      PROVE  VerifierInv'
  BY <1>3, VerifierCollects DEF Answers
<1>4. CASE CollectRaises
  BY <1>4, NothingSent DEF CollectRaises
<1>5. CASE Analyse
  BY <1>5, VerifierAnalyses
<1>6. CASE UNCHANGED vars
  <2>1. UNCHANGED <<input, pc, profiles, requests, observations, findings>>
    BY <1>6 DEF vars
  <2>2. MatrixOfFixtures <=> MatrixOfFixtures'
    BY <2>1 DEF MatrixOfFixtures, CellAnswered, Answers
  <2>3. TypeOK <=> TypeOK'
    BY <2>1 DEF TypeOK
  <2> QED
    BY <2>1, <2>2, <2>3 DEF VerifierInv
<1> QED
  BY <1>1, <1>2, <1>3, <1>4, <1>5, <1>6 DEF Next

LEMMA VerifierInvariance == Spec => []VerifierInv
  BY VerifierInit, VerifierStep, PTL DEF Spec

-------------------------------------------------------------------------------
(* What the findings say about the fixtures. *)

LEMMA SampleFacts ==
    ASSUME VerifierInv, pc = "done", NEW t, NEW i \in Samples(observations, t)
    PROVE  /\ observations[i] \in ToSet(observations)
           /\ Target(observations[i]) = t /\ Usable(observations[i])
           /\ observations[i].resource = t[2]
           /\ CellSeen(input, observations[i])
           /\ input \in Inputs /\ ValidInputs(input)
<1>1. i \in DOMAIN observations /\ Target(observations[i]) = t /\ Usable(observations[i])
  BY DEF Samples
<1>2. observations[i] \in ToSet(observations)
  BY <1>1, ElementAt
<1>3. CellSeen(input, observations[i])
  BY <1>2, ObservationsAreSeen
<1>4. input \in Inputs /\ ValidInputs(input)
  BY DEF VerifierInv, TypeOK, MatrixOfFixtures
<1>5. observations[i].resource = t[2]
  BY <1>1 DEF Target
<1> QED
  BY <1>1, <1>2, <1>3, <1>4, <1>5

LEMMA VerifiedAgrees ==
    ASSUME NEW a, NEW b, DOMAIN a # {}, Strength(a, b) = "verified"
    PROVE  Agree(a, b)
<1>1. a = b \/ SharedSecrets(a, b) # {}
  BY DEF Strength
<1> QED
  BY <1>1 DEF Agree, SharedSecrets, Sensitive

LEMMA RestOnAnswers == VerifierInv => FindingsRestOnAnswers
<1> SUFFICES ASSUME VerifierInv, NEW f \in findings
             PROVE  \E v \in ToSet(observations) :
                      /\ Target(v) = f.target /\ Usable(v) /\ Unentitled(f.kind, v)
                      /\ f.strength = "verified" =>
                          \E o \in ToSet(observations) :
                              /\ Target(o) = f.target /\ Usable(o) /\ Entitled(f.kind, o)
                              /\ o.principal # v.principal
                              /\ Agree(o.answer, v.answer)
  BY DEF FindingsRestOnAnswers
<1>1. pc = "done" /\ f \in Analyze(observations)
  BY DEF VerifierInv
<1>2. DOMAIN observations \subseteq Nat
  BY <1>1, ObservationsAreSeen
<1> DEFINE t == f.target
<1>3. PICK m \in Samples(observations, t) : Supported(observations, t, f, m)
  BY <1>1, <1>2, FindingIsSupported
<1>4. PICK v : v = observations[m]
  OBVIOUS
<1>5. /\ v \in ToSet(observations) /\ Target(v) = t /\ Usable(v)
      /\ CellSeen(input, v) /\ v.resource = t[2]
      /\ input \in Inputs /\ ValidInputs(input)
  BY <1>1, <1>4, SampleFacts
<1>6. f.kind \in {"anonymous", "object", "role", "tenant"} /\ Accused(f.kind, v)
  BY <1>3, <1>4 DEF Supported
<1>7. Unentitled(f.kind, v)
  <2>1. v.owns = "no" => Foreign(v.resource, v)
    BY <1>5, CellFacts
  <2>2. Crosses(v) => ForeignTenant(v.resource, v)
    BY <1>5, CrossesTruly
  <2> QED
    BY <1>6, <2>1, <2>2 DEF Accused, Unentitled
<1>8. ASSUME f.strength = "verified"
      PROVE  \E o \in ToSet(observations) :
                /\ Target(o) = t /\ Usable(o) /\ Entitled(f.kind, o)
                /\ o.principal # v.principal /\ Agree(o.answer, v.answer)
  <2>1. PICK i \in Samples(observations, t) :
            /\ Baseline(f.kind, observations[i])
            /\ Strength(observations[i].answer, v.answer) = "verified"
    BY <1>3, <1>4, <1>8 DEF Supported
  <2>2. PICK o : o = observations[i]
    OBVIOUS
  <2>3. /\ o \in ToSet(observations) /\ Target(o) = t /\ Usable(o)
        /\ CellSeen(input, o) /\ o.resource = t[2]
    BY <1>1, <2>2, SampleFacts
  <2>4. Baseline(f.kind, o) /\ Strength(o.answer, v.answer) = "verified"
    BY <2>1, <2>2
  <2>5. o.owns = "yes" => OwnedBy(o.resource, o.principal)
    BY <1>5, <2>3, CellFacts
  <2>6. Entitled(f.kind, o)
    BY <1>6, <2>4, <2>5 DEF Baseline, Entitled
  <2>7. Agree(o.answer, v.answer)
    BY <2>3, <2>4, VerifiedAgrees DEF Usable
  <2>8. o.principal # v.principal
    <3>1. CASE f.kind \in {"anonymous", "role"}
      <4>1. o.role # v.role
        BY <1>6, <2>4, <3>1 DEF Baseline, Accused
      <4> QED
        BY <4>1, <1>5, <2>3, OnePrincipalOneRole
    <3>2. CASE f.kind \in {"object", "tenant"}
      <4>1. v.owns = "no" /\ o.owns = "yes"
        BY <1>6, <2>4, <3>2 DEF Baseline, Accused, Crosses
      <4>2. Foreign(v.resource, v) /\ OwnedBy(o.resource, o.principal)
        BY <4>1, <1>5, <2>5, CellFacts
      <4> QED
        BY <4>2, <1>5, <2>3 DEF Foreign
    <3> QED
      BY <1>6, <3>1, <3>2
  <2> QED
    BY <2>3, <2>6, <2>7, <2>8
<1> QED
  BY <1>5, <1>7, <1>8

LEMMA ExposedIsReported == VerifierInv => ExposedObjectIsReported
<1> SUFFICES ASSUME VerifierInv, pc = "done",
                    NEW o \in ToSet(observations), NEW v \in ToSet(observations),
                    Target(o) = Target(v), Usable(v), o.answer = v.answer,
                    OwnedBy(o.resource, o.principal), Foreign(v.resource, v)
             PROVE  \E f \in findings :
                      f.kind = "object" /\ f.target = Target(v) /\ f.strength = "verified"
  BY DEF ExposedObjectIsReported
<1>1. Usable(o)
  BY DEF Usable, DenialLike
<1>2. PICK i \in DOMAIN observations, m \in DOMAIN observations :
          o = observations[i] /\ v = observations[m]
  BY ElementAt
<1>3. i \in Samples(observations, Target(v)) /\ m \in Samples(observations, Target(v))
  BY <1>1, <1>2 DEF Samples
<1>4. /\ CellSeen(input, o) /\ CellSeen(input, v) /\ input \in Inputs /\ ValidInputs(input)
  BY <1>2, <1>3, SampleFacts
<1>5. o.owns = "yes" /\ v.owns = "no"
  BY <1>4, CellFacts
<1>6. Strength(o.answer, v.answer) = "verified"
  BY DEF Strength
<1>7. PICK f \in ObjectAccess(observations, Target(v)) :
          f.kind = "object" /\ f.target = Target(v) /\ f.strength = "verified"
  BY <1>2, <1>3, <1>5, <1>6, ObjectFindings
<1>8. f \in findings
  BY <1>3, AnalyzesEveryTarget DEF VerifierInv
<1> QED
  BY <1>7, <1>8

LEMMA CrossedIsReported == VerifierInv => CrossedTenantIsReported
<1> SUFFICES ASSUME VerifierInv, pc = "done", NEW v \in ToSet(observations),
                    Usable(v), Sensitive(v.answer) # {}, ForeignTenant(v.resource, v)
             PROVE  \E f \in findings : f.kind = "tenant" /\ f.target = Target(v)
  BY DEF CrossedTenantIsReported
<1>1. PICK m \in DOMAIN observations : v = observations[m]
  BY ElementAt
<1>2. m \in Samples(observations, Target(v)) /\ m \in Viewers(observations, Target(v))
  BY <1>1 DEF Samples, Viewers
<1>3. Crosses(v)
  BY <1>1, <1>2, SampleFacts, CrossesTruly
<1>4. DOMAIN observations \subseteq Nat
  BY ObservationsAreSeen
<1>5. PICK f \in TenantCrossing(observations, Target(v)) :
          f.kind = "tenant" /\ f.target = Target(v)
  BY <1>1, <1>2, <1>3, <1>4, TenantFindings
<1>6. f \in findings
  BY <1>2, AnalyzesEveryTarget DEF VerifierInv
<1> QED
  BY <1>5, <1>6

(* Who is called anonymous has that role: no profile is named so under another. *)
NamesTellAnonymous ==
    \A in \in Inputs : \A p \in ToSet(in.profiles) :
        p.principal = "anonymous" => p.role = "anonymous"

LEMMA AnonymousIsReported ==
    ASSUME NamesTellAnonymous, VerifierInv
    PROVE  AnonymousExposureIsReported
<1> SUFFICES ASSUME pc = "done", NEW v \in ToSet(observations),
                    LooksAnonymous(v), Usable(v), Sensitive(v.answer) # {}
             PROVE  \E f \in findings : f.kind = "anonymous" /\ f.target = Target(v)
  BY DEF AnonymousExposureIsReported
<1>1. PICK m \in DOMAIN observations : v = observations[m]
  BY ElementAt
<1>2. m \in Samples(observations, Target(v)) /\ m \in Viewers(observations, Target(v))
  BY <1>1 DEF Samples, Viewers
<1>3. CellSeen(input, v) /\ input \in Inputs /\ ValidInputs(input)
  BY <1>1, <1>2, SampleFacts
<1>4. v.role = "anonymous"
  <2>1. PICK p \in ToSet(EnrichedProfiles(input)) : p.principal = v.principal /\ p.role = v.role
    BY <1>3, CellFacts
  <2>2. p.principal = "anonymous" => p.role = "anonymous"
    BY <1>3, EnrichedElements
    DEF NamesTellAnonymous, OwnedIdentity, IsAdded, AnonymousIdentity, Identity
  <2> QED
    BY <2>1, <2>2 DEF LooksAnonymous
<1>5. DOMAIN observations \subseteq Nat
  BY ObservationsAreSeen
<1>6. PICK f \in AnonymousExposure(observations, Target(v)) :
          f.kind = "anonymous" /\ f.target = Target(v)
  BY <1>1, <1>2, <1>4, <1>5, AnonymousFindings
<1>7. f \in findings
  BY <1>2, AnalyzesEveryTarget DEF VerifierInv
<1> QED
  BY <1>6, <1>7

LEMMA EveryCellIsSeen ==
    ASSUME VerifierInv, pc = "done",
           NEW q \in ToSet(Requests(input)), NEW p \in ToSet(EnrichedProfiles(input))
    PROVE  \E o \in ToSet(observations), a \in Answers : o = Observation(q, p, a)
<1>1. /\ MatrixOfFixtures /\ input \in Inputs
      /\ requests = Requests(input) /\ profiles = EnrichedProfiles(input)
      /\ Len(observations) = Len(requests) * Len(profiles)
      /\ DOMAIN observations = 1..Len(observations)
  BY ObservationsAreSeen DEF VerifierInv, TypeOK, MatrixOfFixtures
<1>2. PICK i \in 1..Len(requests), j \in 1..Len(profiles) : q = requests[i] /\ p = profiles[j]
  BY <1>1, MatrixSizes, ElementAt
<1>3. PICK k \in 1..Len(observations) : IsCell(k, Len(profiles), i, j)
  <2>1. Len(requests) \in Nat /\ Len(profiles) \in Nat \ {0}
    BY <1>1, MatrixSizes
  <2> QED
    BY <1>1, <1>2, <2>1, EveryCellInMatrix, Zenon
<1>4. CellAnswered(k)
  BY <1>1 DEF MatrixOfFixtures
<1>5. observations[k] \in ToSet(observations)
  BY <1>1, ElementAt
<1> QED
  BY <1>2, <1>3, <1>4, <1>5 DEF CellAnswered, IsCell

LEMMA EveryoneTriesEverything == VerifierInv => EveryIdentityTriesEveryObject
<1> SUFFICES ASSUME VerifierInv, pc = "done",
                    NEW t \in ToSet(input.templates), NEW r \in ToSet(input.resources),
                    t.kind = r.kind
             PROVE  /\ \A p \in ToSet(input.profiles) : \E o \in ToSet(observations) :
                          Target(o) = <<t.route, r.key>> /\ o.principal = p.principal
                    /\ input.anonymous => \E o \in ToSet(observations) :
                          Target(o) = <<t.route, r.key>> /\ LooksAnonymous(o)
  BY DEF EveryIdentityTriesEveryObject
<1>1. input \in Inputs /\ ValidInputs(input)
  BY DEF VerifierInv, TypeOK, MatrixOfFixtures
<1>2. /\ input.resources \in Seq(ToSet(input.resources))
      /\ r.kind \notin {None, ""}
  BY <1>1, FixturesAccepted
<1>3. HasKind(t)
  BY <1>2 DEF HasKind
<1>4. RequestOf(t, r) \in ToSet(Requests(input))
  <2>1. RequestOf(t, r) \in ToSet(Rendered(t, input.resources))
    BY <1>2, <1>3, RenderedElements
  <2> QED
    BY <1>1, <2>1, RequestsElements
<1>5. ASSUME NEW p \in ToSet(EnrichedProfiles(input))
      PROVE  \E o \in ToSet(observations) :
                /\ Target(o) = <<t.route, r.key>>
                /\ o.principal = p.principal /\ o.role = p.role
  <2>1. PICK o \in ToSet(observations), a \in Answers : o = Observation(RequestOf(t, r), p, a)
    BY <1>4, EveryCellIsSeen
  <2>2. /\ o.route = RequestOf(t, r).route /\ o.resource = RequestOf(t, r).resource
        /\ o.principal = p.principal /\ o.role = p.role
    BY <2>1 DEF Observation
  <2>3. RequestOf(t, r).route = t.route /\ RequestOf(t, r).resource = r.key
    BY DEF RequestOf, Request
  <2> QED
    BY <2>2, <2>3 DEF Target
<1>6. \A c : /\ OwnedIdentity(input, c).principal = c.principal
             /\ OwnedIdentity(input, c).role = c.role
  BY DEF OwnedIdentity, Identity
<1>7. ASSUME NEW c \in ToSet(input.profiles)
      PROVE  \E p \in ToSet(EnrichedProfiles(input)) :
                p.principal = c.principal /\ p.role = c.role
  BY <1>1, <1>6, EnrichedElements
<1>8. ASSUME input.anonymous
      PROVE  \E p \in ToSet(EnrichedProfiles(input)) : LooksAnonymous(p)
  <2>1. CASE \E c \in ToSet(input.profiles) : LooksAnonymous(c)
    BY <1>7, <2>1 DEF LooksAnonymous
  <2>2. CASE \A c \in ToSet(input.profiles) : ~LooksAnonymous(c)
    <3>1. IsAdded(input, AnonymousIdentity)
      BY <1>8, <2>2 DEF IsAdded
    <3>2. AnonymousIdentity \in ToSet(EnrichedProfiles(input))
      BY <1>1, <3>1, EnrichedElements
    <3> QED
      BY <3>2 DEF LooksAnonymous, AnonymousIdentity, Identity
  <2> QED
    BY <2>1, <2>2
<1> QED
  BY <1>5, <1>7, <1>8 DEF LooksAnonymous

-------------------------------------------------------------------------------
(* Observations are no more than the budget, and they and the findings are of
   the kinds the engine knows (verifier.py, run; authz.py, analyze). *)
THEOREM TypeCorrect == Spec => []TypeOK
<1>1. VerifierInv => TypeOK
  BY DEF VerifierInv
<1> QED
  BY <1>1, VerifierInvariance, PTL

(* For any fixtures and any answers: no finding accuses an identity that was
   entitled to what it received, and none is called verified without an answer
   to an entitled identity that agrees with it (authz.py:276-480). *)
THEOREM FindingsRest == Spec => []FindingsRestOnAnswers
<1> QED
  BY RestOnAnswers, VerifierInvariance, PTL

(* For any fixtures that are accepted: the matrix has a cell for each identity
   and each controlled object of the template's kind, the anonymous one
   included, and all of them are sent before anything is analysed
   (verifier.py:308-335, 391-403). *)
THEOREM EveryoneTries == Spec => []EveryIdentityTriesEveryObject
<1> QED
  BY EveryoneTriesEverything, VerifierInvariance, PTL

(* For any answers: an object that reads the same for its owner and another
   identity is reported as verified (authz.py:320-366). *)
THEOREM ExposuresAreReported == Spec => []ExposedObjectIsReported
<1> QED
  BY ExposedIsReported, VerifierInvariance, PTL

(* For any answers: protected data that crosses a tenant boundary is reported
   (authz.py:422-480). *)
THEOREM CrossingsAreReported == Spec => []CrossedTenantIsReported
<1> QED
  BY CrossedIsReported, VerifierInvariance, PTL

(* For any answers: protected data that nobody had to sign in for is reported,
   provided that no profile is called anonymous and has another role
   (verifier.py:313-316, authz.py:276-318). *)
THEOREM AnonymousExposuresAreReported ==
    ASSUME NamesTellAnonymous
    PROVE  Spec => []AnonymousExposureIsReported
<1>1. VerifierInv => AnonymousExposureIsReported
  BY AnonymousIsReported
<1> QED
  BY <1>1, VerifierInvariance, PTL
===============================================================================
