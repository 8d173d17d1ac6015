------------------------------- MODULE Collector -------------------------------
(***************************************************************************)
(* EvidenceCollector (collector.py): one thread that sends the cells of a   *)
(* request x profile matrix one after the other, each authorized, throttled *)
(* per policy target and answered before the next.  The clock runs at every *)
(* point of it: while the thread sleeps, connects, or waits.                *)
(*                                                                          *)
(* Abstractions.  Time is counted in ticks and a rate is its interval       *)
(* (1 / max_rps) in ticks.  An observation is its cell: the content of a    *)
(* response, HTTPError or not, changes nothing here.                        *)
(***************************************************************************)
EXTENDS ScopePolicy

CONSTANTS
    Policy,       \* the ScopePolicy of the collectors
    MaxRequests,  \* CollectorLimits.max_requests
    Matrices,     \* the arguments collect_matrix is called with
    MaxCalls,     \* bound: calls of collect_matrix in a behaviour
    NewObjects,   \* TRUE: a caller may come with a collector of its own
    MaxClock,     \* bound: after this, time passes only for a sleeping thread
    Never,        \* no request recorded
    NoResult      \* no list returned

ASSUME PolicyAccepted == AcceptedPolicy(Policy)

ASSUME LimitsAccepted == MaxRequests \in 1..500

ASSUME MatricesAreLists ==
    \A m \in Matrices : Len(m.requests) \in Nat /\ Len(m.profiles) \in Nat

ASSUME NeverIsNoTime == Never \notin Nat

VARIABLES
    clock,
    collector,     \* which EvidenceCollector object is in use
    lastRequestAt, \* _last_request_at of that object
    pc,            \* where the thread is
    matrix,        \* the arguments of the call in progress
    cursor,        \* the cell in progress
    wake,          \* when the sleep in progress is over
    observations,  \* the list under construction
    result,        \* what the last call returned; NoResult if it raised
    stamps,        \* history: what _rate_limit recorded
    sent,          \* history: what went out on the wire
    calls          \* history: how many calls of collect_matrix

vars == <<clock, collector, lastRequestAt, pc, matrix, cursor, wake,
          observations, result, stamps, sent, calls>>

Rules == 1..Len(Policy.targets)

PerRuleKey(rule) == rule                 \* a faulty Key: rules share no limiter

Key(rule) == Policy.targets[rule].pattern
Interval(rule) == Policy.targets[rule].interval
Patterns == {Key(rule) : rule \in Rules}

\* Cells in the order of the comprehension: for each request, each profile.
Total(m) == Len(m.requests) * Len(m.profiles)
SpecAt(m, n) == m.requests[((n - 1) \div Len(m.profiles)) + 1]
ProfileAt(m, n) == m.profiles[((n - 1) % Len(m.profiles)) + 1]
Cell(m, n) == [spec |-> SpecAt(m, n), principal |-> ProfileAt(m, n)]

OnlyRequestsInBudget(m) == Len(m.requests) <= MaxRequests     \* a faulty InBudget

InBudget(m) == Total(m) <= MaxRequests

NoMatrix == [requests |-> <<>>, profiles |-> <<>>]

\* The gates of collect_one.
RuleOf(spec) ==
    IF spec.method \notin SAFE_METHODS
    THEN Violation
    ELSE AuthorizedRule(Policy, spec.url, spec.method, TRUE)

Current == RuleOf(SpecAt(matrix, cursor))

Idle == {"ready", "raised"}

Stamp == [collector : Nat, rule : Rules, at : Nat]

Init ==
    /\ clock = 0 /\ wake = 0 /\ cursor = 1
    /\ collector = 1 /\ calls = 0
    /\ lastRequestAt = [k \in Patterns |-> Never]
    /\ pc = "ready"
    /\ matrix = NoMatrix
    /\ observations = <<>>
    /\ result = NoResult
    /\ stamps = <<>>
    /\ sent = <<>>

\* ActiveAuthorizationVerifier.run makes a collector per run: it starts with
\* no memory of the requests of the run before.
NewCollector ==
    /\ NewObjects
    /\ pc \in Idle
    /\ collector = calls
    /\ collector' = collector + 1
    /\ lastRequestAt' = [k \in Patterns |-> Never]
    /\ UNCHANGED <<clock, pc, matrix, cursor, wake, observations, result, stamps, sent, calls>>

\* collect_matrix: the whole matrix fits the budget or nothing is sent.
CollectMatrix(m) ==
    /\ pc \in Idle
    /\ calls < MaxCalls
    /\ calls' = calls + 1
    /\ matrix' = m
    /\ cursor' = 1
    /\ observations' = <<>>
    /\ \/ /\ ~InBudget(m)
          /\ pc' = "raised"
          /\ result' = NoResult
       \/ /\ InBudget(m) /\ Total(m) = 0
          /\ pc' = "ready"
          /\ result' = <<>>
       \/ /\ InBudget(m) /\ Total(m) > 0
          /\ pc' = "next"
          /\ result' = NoResult
    /\ UNCHANGED <<clock, collector, lastRequestAt, wake, stamps, sent>>

\* The time a target still has to be left alone.
Owed(rule) ==
    LET previous == lastRequestAt[Key(rule)] IN
    IF previous = Never \/ clock - previous >= Interval(rule)
    THEN 0
    ELSE Interval(rule) - (clock - previous)

\* A faulty Record: the first request of a target is remembered for good.
RecordOnce(rule) ==
    /\ lastRequestAt' = IF lastRequestAt[Key(rule)] = Never
                        THEN [lastRequestAt EXCEPT ![Key(rule)] = clock]
                        ELSE lastRequestAt
    /\ stamps' = Append(stamps, [collector |-> collector, rule |-> rule, at |-> clock])
    /\ pc' = "open"

\* The end of _rate_limit.
Record(rule) ==
    /\ lastRequestAt' = [lastRequestAt EXCEPT ![Key(rule)] = clock]
    /\ stamps' = Append(stamps, [collector |-> collector, rule |-> rule, at |-> clock])
    /\ pc' = "open"

\* A faulty Refuse: the refused cell is tried again.
RefuseAndRetry ==
    /\ pc = "next"
    /\ Current = Violation
    /\ UNCHANGED vars

\* collect_one: ScopeViolation leaves it, and collect_matrix with it.
Refuse ==
    /\ pc = "next"
    /\ Current = Violation
    /\ pc' = "raised"
    /\ UNCHANGED <<clock, collector, lastRequestAt, matrix, cursor, wake, observations,
                   result, stamps, sent, calls>>

\* _rate_limit, its first look at the clock.
Admit ==
    /\ pc = "next"
    /\ Current # Violation
    /\ IF Owed(Current) = 0
       THEN Record(Current) /\ UNCHANGED wake
       ELSE /\ wake' = clock + Owed(Current)
            /\ pc' = "sleep"
            /\ UNCHANGED <<lastRequestAt, stamps>>
    /\ UNCHANGED <<clock, collector, matrix, cursor, observations, result, sent, calls>>

\* _rate_limit after the sleep, which may be longer than asked for: the clock
\* is read again.
Wake ==
    /\ pc = "sleep"
    /\ clock >= wake
    /\ Record(Current)
    /\ UNCHANGED <<clock, collector, matrix, cursor, wake, observations, result, sent, calls>>

\* The request goes out, some time after it was recorded.
Open ==
    /\ pc = "open"
    /\ sent' = Append(sent, [call |-> calls, cell |-> cursor, spec |-> SpecAt(matrix, cursor),
                             collector |-> collector, at |-> clock])
    /\ pc' = "wait"
    /\ UNCHANGED <<clock, collector, lastRequestAt, matrix, cursor, wake, observations,
                   result, stamps, calls>>

\* An answer, or an HTTPError with a readable body, becomes an observation.
Respond ==
    /\ pc = "wait"
    /\ observations' = Append(observations, Cell(matrix, cursor))
    /\ IF cursor = Total(matrix)
       THEN pc' = "ready" /\ result' = observations' /\ UNCHANGED cursor
       ELSE pc' = "next" /\ cursor' = cursor + 1 /\ UNCHANGED result
    /\ UNCHANGED <<clock, collector, lastRequestAt, matrix, wake, stamps, sent, calls>>

\* A faulty Fail: a request that failed is left out and the next one is sent.
FailAndGoOn ==
    /\ pc \in {"open", "wait"}
    /\ IF cursor = Total(matrix)
       THEN pc' = "ready" /\ result' = observations /\ UNCHANGED cursor
       ELSE pc' = "next" /\ cursor' = cursor + 1 /\ UNCHANGED result
    /\ UNCHANGED <<clock, collector, lastRequestAt, matrix, wake, observations,
                   stamps, sent, calls>>

\* A faulty Fail: what was observed so far is returned.
FailWithPartialList ==
    /\ pc \in {"open", "wait"}
    /\ pc' = "raised"
    /\ result' = observations
    /\ UNCHANGED <<clock, collector, lastRequestAt, matrix, cursor, wake, observations,
                   stamps, sent, calls>>

\* No connection, a timeout, or a body that cannot be read: the exception
\* leaves collect_matrix, and the observations made so far are gone.
Fail ==
    /\ pc \in {"open", "wait"}
    /\ pc' = "raised"
    /\ UNCHANGED <<clock, collector, lastRequestAt, matrix, cursor, wake, observations,
                   result, stamps, sent, calls>>

Tick ==
    /\ clock < MaxClock \/ (pc = "sleep" /\ clock < wake)
    /\ clock' = clock + 1
    /\ UNCHANGED <<collector, lastRequestAt, pc, matrix, cursor, wake, observations,
                   result, stamps, sent, calls>>

Step == Refuse \/ Admit \/ Wake \/ Open \/ Respond \/ Fail

Next ==
    \/ NewCollector
    \/ \E m \in Matrices : CollectMatrix(m)
    \/ Step
    \/ Tick

Spec == Init /\ [][Next]_vars

\* The thread runs and time passes; no caller has to call.
FairSpec == Spec /\ WF_vars(Step) /\ WF_vars(Tick)
-------------------------------------------------------------------------------
Typed ==
    /\ clock \in Nat /\ wake \in Nat /\ cursor \in Nat \ {0}
    /\ collector \in Nat /\ calls \in Nat
    /\ lastRequestAt \in [Patterns -> Nat \cup {Never}]
    /\ pc \in Idle \cup {"next", "sleep", "open", "wait"}
    /\ matrix \in Matrices \cup {NoMatrix}
    /\ stamps \in Seq(Stamp)

(* The types, and the list under construction: in a call it holds the answer to
   every cell before the one in progress, whatever waited or failed on the way
   (collector.py, the comprehension of collect_matrix). *)
TypeOK ==
    /\ Typed
    /\ pc \notin Idle =>
        /\ cursor <= Total(matrix)
        /\ observations = [n \in 1..(cursor - 1) |-> Cell(matrix, n)]

Target(rule) == Policy.targets[rule].pattern

(* One collector leaves a target alone for the whole interval of the rule the
   later request runs under, however long the thread slept, connected or
   waited, across calls and after failures.  Two rules with the same pattern
   share one limiter (collector.py, _rate_limit). *)
SpacedPerTarget ==
    \A j \in 1..Len(stamps) : \A i \in 1..(j - 1) :
        /\ stamps[i].collector = stamps[j].collector
        /\ Target(stamps[i].rule) = Target(stamps[j].rule)
        => stamps[j].at - stamps[i].at >= Interval(stamps[j].rule)

SentRule(i) == RuleOf(sent[i].spec)

(* On the wire a request can be late, so two of them can come closer than the
   interval; of three to one target the first and the last never do
   (collector.py, collect_one: _rate_limit returns before the open). *)
NoBurstOfThree ==
    \A k \in 1..Len(sent) : \A j \in 1..(k - 1) : \A i \in 1..(j - 1) :
        /\ sent[i].collector = sent[k].collector
        /\ \A n \in {i, j} : Target(SentRule(n)) = Target(SentRule(k))
        => sent[k].at - sent[i].at >= Interval(SentRule(k))

\* Call c sent the cells 1..n, one after the other, after the first `before' requests.
SentFrom(c, before, n) ==
    /\ before + n <= Len(sent)
    /\ \A i \in 1..Len(sent) : sent[i].call = c <=> i \in (before + 1)..(before + n)
    /\ \A i \in (before + 1)..(before + n) : sent[i].cell = i - before

(* A call sends the cells of its matrix in order, none twice, and never more
   than the budget, wherever it is cut short (collector.py, collect_matrix). *)
SendsAPrefix ==
    \A c \in 1..calls : \E before \in 0..Len(sent), n \in 0..MaxRequests :
        SentFrom(c, before, n)

(* A list that is returned answers every cell of the matrix, in the order the
   verifier reads it, and this call sent each of them once: a failure in the
   middle never yields a shorter list (collector.py, collect_matrix). *)
ReturnsAllOrNothing ==
    result # NoResult /\ pc \in Idle =>
        /\ result = [n \in 1..Total(matrix) |-> Cell(matrix, n)]
        /\ \E before \in 0..Len(sent) : SentFrom(calls, before, Total(matrix))

(* Whatever goes out was allowed by a target that names its host, scheme, port
   and method, is read-only, was sent under a policy that enables active
   testing, and has no denied word in its path (scope.py, authorized_rule;
   collector.py, collect_one). *)
SendsOnlyAuthorized ==
    \A i \in 1..Len(sent) : LET spec == sent[i].spec IN
        /\ Policy.active_testing
        /\ spec.method \in {"GET", "HEAD", "OPTIONS"}
        /\ spec.url.words \cap (DEFAULT_DENY_TERMS \cup Policy.deny_paths) = {}
        /\ \E r \in Rules : Matches(Policy.targets[r], spec.url, spec.method)

(* A call that was accepted ends, with a list or an exception: no target is
   waited for forever (collector.py, _rate_limit and collect_one). *)
CallEnds == pc = "next" ~> pc \in Idle

(* Targets are left alone for their interval whichever collector sends: "per-target
   RPS" is a property of the live verification (docs/ACTIVE_VERIFICATION.md:25). *)
SpacedAcrossRuns ==
    \A j \in 1..Len(stamps) : \A i \in 1..(j - 1) :
        Target(stamps[i].rule) = Target(stamps[j].rule)
        => stamps[j].at - stamps[i].at >= Interval(stamps[j].rule)
===============================================================================
