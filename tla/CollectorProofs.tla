---------------------------- MODULE CollectorProofs ----------------------------
(***************************************************************************)
(* Proofs about Collector, for every policy from_dict accepts, every        *)
(* matrix and any clock: its types, the spacing of requests by the          *)
(* limiter and on the wire, that only allowed requests go out, and what a   *)
(* call sends and returns.                                                  *)
(***************************************************************************)
EXTENDS Collector, SequenceTheorems, WellFoundedInduction, TLAPS

USE PolicyAccepted, NeverIsNoTime

-------------------------------------------------------------------------------
(* The rule authorized_rule picks. *)

LEMMA FirstIsLeast ==
    ASSUME NEW S, S \subseteq Nat, S # {}
    PROVE  First(S) \in S /\ \A j \in S : First(S) <= j
<1>1. PICK i \in S : \A j \in S : ~ (<<j, i>> \in OpToRel(<, Nat))
  BY NatLessThanWellFounded, WFMin
<1>2. \A j \in S : i <= j
  <2> TAKE j \in S
  <2>1. ~ (j < i)
    BY <1>1 DEF OpToRel
  <2> QED
    BY <2>1, SMT
<1> QED
  BY <1>2, Zenon DEF First

LEMMA RuleInRange ==
    ASSUME NEW spec, RuleOf(spec) # Violation
    PROVE  RuleOf(spec) \in Rules
<1> DEFINE S == MatchingRules(Policy, spec.url, spec.method)
<1>1. RuleOf(spec) = First(S) /\ S # {}
  BY DEF RuleOf, AuthorizedRule, Refused
<1>2. S \subseteq Rules
  BY DEF MatchingRules, Rules
<1>3. S \subseteq Nat
  BY <1>2 DEF Rules
<1>4. First(S) \in S
  BY <1>1, <1>3, FirstIsLeast
<1> QED
  BY <1>1, <1>2, <1>4

LEMMA RuleFacts ==
    ASSUME NEW rule \in Rules
    PROVE  Key(rule) \in Patterns /\ Interval(rule) \in Nat \ {0}
  BY DEF Key, Patterns, Interval, Rules, AcceptedPolicy

LEMMA StampFacts ==
    ASSUME stamps \in Seq(Stamp), NEW i \in 1..Len(stamps)
    PROVE  /\ stamps[i] \in Stamp
           /\ stamps[i].collector \in Nat
           /\ stamps[i].rule \in Rules
           /\ stamps[i].at \in Nat
<1>1. stamps[i] \in Stamp
  BY ElementOfSeq
<1> QED
  BY <1>1 DEF Stamp

-------------------------------------------------------------------------------
(* The inductive invariant: what the limiter remembers of a target is the
   latest of the stamps it made for it, and a sleeping thread does not wake
   before the rest of the interval is over. *)

Remembered ==
    /\ \A i \in 1..Len(stamps) : stamps[i].collector <= collector
    /\ \A i \in 1..Len(stamps) :
        stamps[i].collector = collector =>
            /\ lastRequestAt[Key(stamps[i].rule)] # Never
            /\ stamps[i].at <= lastRequestAt[Key(stamps[i].rule)]

SleepsLongEnough ==
    pc = "sleep" =>
        /\ Current \in Rules
        /\ lastRequestAt[Key(Current)] # Never
        /\ wake >= lastRequestAt[Key(Current)] + Interval(Current)

LimiterInv == Typed /\ Remembered /\ SleepsLongEnough /\ SpacedPerTarget

LEMMA InitInv == Init => LimiterInv
<1> SUFFICES ASSUME Init PROVE LimiterInv
  OBVIOUS
<1>1. Typed
  BY DEF Init, Typed, Idle
<1>2. Len(stamps) = 0 /\ pc # "sleep"
  BY DEF Init
<1> QED
  BY <1>1, <1>2 DEF LimiterInv, Remembered, SleepsLongEnough, SpacedPerTarget

(* A stamp for a target whose interval is over keeps the spacing. *)
LEMMA RecordKeeps ==
    ASSUME LimiterInv, NEW rule \in Rules, Record(rule),
           \/ lastRequestAt[Key(rule)] = Never
           \/ clock >= lastRequestAt[Key(rule)] + Interval(rule),
           UNCHANGED <<collector, clock>>
    PROVE  /\ lastRequestAt' \in [Patterns -> Nat \cup {Never}]
           /\ stamps' \in Seq(Stamp)
           /\ Remembered' /\ SpacedPerTarget' /\ pc' = "open"
<1> DEFINE stamp == [collector |-> collector, rule |-> rule, at |-> clock]
<1> USE RuleFacts
<1>1. /\ stamps \in Seq(Stamp) /\ clock \in Nat /\ collector \in Nat
      /\ lastRequestAt \in [Patterns -> Nat \cup {Never}]
  BY DEF LimiterInv, Typed
<1>2. /\ stamps' = Append(stamps, stamp) /\ stamp \in Stamp
      /\ lastRequestAt' = [lastRequestAt EXCEPT ![Key(rule)] = clock]
      /\ pc' = "open"
  BY <1>1 DEF Record, Stamp
<1>3. /\ stamps' \in Seq(Stamp)
      /\ Len(stamps) \in Nat /\ Len(stamps') = Len(stamps) + 1
      /\ stamps'[Len(stamps) + 1] = stamp
      /\ \A i \in 1..Len(stamps) : stamps'[i] = stamps[i]
  BY <1>1, <1>2
<1>4. /\ Key(rule) \in Patterns /\ Interval(rule) \in Nat \ {0}
      /\ lastRequestAt' \in [Patterns -> Nat \cup {Never}]
      /\ lastRequestAt'[Key(rule)] = clock
      /\ \A k \in Patterns : k # Key(rule) => lastRequestAt'[k] = lastRequestAt[k]
  BY <1>1, <1>2
<1>5. \A i \in 1..Len(stamps) :
        /\ stamps[i] \in Stamp
        /\ stamps[i].rule \in Rules /\ stamps[i].collector \in Nat /\ stamps[i].at \in Nat
        /\ Key(stamps[i].rule) \in Patterns
        /\ lastRequestAt[Key(stamps[i].rule)] \in Nat \cup {Never}
  <2> TAKE i \in 1..Len(stamps)
  <2>1. /\ stamps[i] \in Stamp
        /\ stamps[i].rule \in Rules /\ stamps[i].collector \in Nat /\ stamps[i].at \in Nat
    BY <1>1, StampFacts
  <2>2. Key(stamps[i].rule) \in Patterns
    BY <2>1
  <2> QED
    BY <2>1, <2>2, <1>1
<1>6. ASSUME NEW i \in 1..Len(stamps), stamps[i].collector = collector
      PROVE  /\ lastRequestAt[Key(stamps[i].rule)] \in Nat
             /\ stamps[i].at <= lastRequestAt[Key(stamps[i].rule)]
  BY <1>5, <1>6 DEF LimiterInv, Remembered
<1>7. ASSUME NEW i \in 1..Len(stamps), stamps[i].collector = collector,
             Key(stamps[i].rule) = Key(rule)
      PROVE  stamps[i].at + Interval(rule) <= clock
  <2>1. lastRequestAt[Key(rule)] \in Nat /\ stamps[i].at <= lastRequestAt[Key(rule)]
    BY <1>6, <1>7
  <2>2. clock >= lastRequestAt[Key(rule)] + Interval(rule)
    BY <2>1
  <2> QED
    BY <2>1, <2>2, <1>1, <1>4, <1>5
<1>8. Remembered'
  <2> SUFFICES ASSUME NEW i \in 1..Len(stamps')
               PROVE  /\ stamps'[i].collector <= collector'
                      /\ stamps'[i].collector = collector' =>
                            /\ lastRequestAt'[Key(stamps'[i].rule)] # Never
                            /\ stamps'[i].at <= lastRequestAt'[Key(stamps'[i].rule)]
    BY DEF Remembered, Key
  <2>1. CASE i = Len(stamps) + 1
    BY <2>1, <1>1, <1>3, <1>4
  <2>2. CASE i \in 1..Len(stamps)
    <3>1. stamps'[i] = stamps[i] /\ stamps[i].collector <= collector
      BY <2>2, <1>3 DEF LimiterInv, Remembered
    <3>2. CASE stamps[i].collector = collector /\ Key(stamps[i].rule) = Key(rule)
      <4>1. stamps[i].at + Interval(rule) <= clock
        BY <2>2, <3>2, <1>7
      <4>2. stamps[i].at <= clock
        BY <4>1, <1>1, <1>4, <1>5, <2>2
      <4> QED
        BY <4>2, <3>1, <3>2, <1>1, <1>4
    <3>3. CASE stamps[i].collector = collector /\ Key(stamps[i].rule) # Key(rule)
      <4>1. lastRequestAt'[Key(stamps[i].rule)] = lastRequestAt[Key(stamps[i].rule)]
        BY <2>2, <3>3, <1>4, <1>5
      <4> QED
        BY <4>1, <3>1, <3>3, <1>6, <2>2
    <3>4. CASE stamps[i].collector # collector
      BY <3>1, <3>4
    <3> QED
      BY <3>2, <3>3, <3>4
  <2> QED
    BY <2>1, <2>2, <1>3
<1>9. SpacedPerTarget'
  <2> SUFFICES ASSUME NEW j \in 1..Len(stamps'), NEW i \in 1..(j - 1),
                      stamps'[i].collector = stamps'[j].collector,
                      Target(stamps'[i].rule) = Target(stamps'[j].rule)
               PROVE  stamps'[j].at - stamps'[i].at >= Interval(stamps'[j].rule)
    BY DEF SpacedPerTarget, Target, Interval
  <2>1. i \in 1..Len(stamps) /\ stamps'[i] = stamps[i]
    BY <1>3
  <2>2. CASE j = Len(stamps) + 1
    <3>1. stamps'[j] = stamp
      BY <2>2, <1>3
    <3>2. stamps[i].collector = collector /\ Key(stamps[i].rule) = Key(rule)
      BY <3>1, <2>1 DEF Target, Key
    <3>3. stamps[i].at + Interval(rule) <= clock
      BY <3>2, <2>1, <1>7
    <3>4. stamps[i].at \in Nat
      BY <2>1, <1>5
    <3>5. clock - stamps[i].at >= Interval(rule)
      BY <3>3, <3>4, <1>1, <1>4
    <3> QED
      BY <3>1, <3>5, <2>1
  <2>3. CASE j \in 1..Len(stamps)
    <3>1. stamps'[j] = stamps[j]
      BY <2>3, <1>3
    <3> QED
      BY <2>1, <2>3, <3>1 DEF LimiterInv, SpacedPerTarget
  <2> QED
    BY <2>2, <2>3, <1>3
<1> QED
  BY <1>2, <1>3, <1>4, <1>8, <1>9

-------------------------------------------------------------------------------
(* A step that leaves the limiter alone and does not end in a sleep. *)
LEMMA OtherStepKeeps ==
    ASSUME LimiterInv, UNCHANGED <<collector, lastRequestAt, stamps>>
    PROVE  Remembered' /\ SpacedPerTarget'
  BY DEF LimiterInv, Remembered, SpacedPerTarget, Key, Target, Interval

LEMMA StepInv == LimiterInv /\ [Next]_vars => LimiterInv'
<1> SUFFICES ASSUME LimiterInv, [Next]_vars PROVE LimiterInv'
  OBVIOUS
<1> USE RuleFacts, RuleInRange
<1>t. Typed /\ Remembered /\ SleepsLongEnough /\ SpacedPerTarget
  BY DEF LimiterInv
<1>1. CASE NewCollector
  <2>1. Typed'
    BY <1>1, <1>t DEF NewCollector, Typed, Idle
  <2>2. collector' = collector + 1 /\ collector \in Nat /\ stamps' = stamps
    BY <1>1, <1>t DEF NewCollector, Typed
  <2>3. \A i \in 1..Len(stamps) : stamps[i].collector \in Nat /\ stamps[i].collector <= collector
    <3>1. stamps \in Seq(Stamp)
      BY <1>t DEF Typed
    <3>2. \A i \in 1..Len(stamps) : stamps[i].collector \in Nat
      BY <3>1, StampFacts
    <3> QED
      BY <3>2, <1>t DEF Remembered
  <2>4. Remembered'
    BY <2>2, <2>3 DEF Remembered
  <2>5. SpacedPerTarget'
    BY <2>2, <1>t DEF SpacedPerTarget, Target, Interval
  <2>6. SleepsLongEnough'
    BY <1>1 DEF NewCollector, SleepsLongEnough, Idle
  <2> QED
    BY <2>1, <2>4, <2>5, <2>6 DEF LimiterInv
<1>2. ASSUME NEW m \in Matrices, CollectMatrix(m) PROVE LimiterInv'
  <2>1. Typed'
    BY <1>2, <1>t DEF CollectMatrix, Typed, Idle
  <2>2. SleepsLongEnough'
    BY <1>2 DEF CollectMatrix, SleepsLongEnough
  <2> QED
    BY <2>1, <2>2, <1>2, OtherStepKeeps DEF CollectMatrix, LimiterInv
<1>3. CASE Refuse
  <2>1. Typed' /\ SleepsLongEnough'
    BY <1>3, <1>t DEF Refuse, Typed, Idle, SleepsLongEnough
  <2> QED
    BY <2>1, <1>3, OtherStepKeeps DEF Refuse, LimiterInv
<1>4. CASE Admit
  <2>1. /\ Current \in Rules
        /\ clock \in Nat
        /\ lastRequestAt[Key(Current)] \in Nat \cup {Never}
        /\ Interval(Current) \in Nat \ {0}
    BY <1>4, <1>t DEF Admit, Current, Typed
  <2>2. CASE Owed(Current) = 0
    <3>1. Record(Current) /\ UNCHANGED <<wake, clock, collector, matrix, cursor, calls>>
      BY <1>4, <2>2 DEF Admit
    <3>2. \/ lastRequestAt[Key(Current)] = Never
          \/ clock >= lastRequestAt[Key(Current)] + Interval(Current)
      BY <2>1, <2>2 DEF Owed
    <3>3. /\ lastRequestAt' \in [Patterns -> Nat \cup {Never}]
          /\ stamps' \in Seq(Stamp)
          /\ Remembered' /\ SpacedPerTarget' /\ pc' = "open"
      BY <2>1, <3>1, <3>2, RecordKeeps
    <3> QED
      BY <3>1, <3>3, <1>t DEF LimiterInv, Typed, SleepsLongEnough
  <2>3. CASE Owed(Current) # 0
    <3>1. /\ wake' = clock + Owed(Current) /\ pc' = "sleep"
          /\ UNCHANGED <<clock, collector, matrix, cursor, calls, lastRequestAt, stamps>>
      BY <1>4, <2>3 DEF Admit
    <3>2. /\ lastRequestAt[Key(Current)] \in Nat
          /\ Owed(Current) = Interval(Current) - (clock - lastRequestAt[Key(Current)])
      BY <2>1, <2>3 DEF Owed
    <3>3. wake' = lastRequestAt[Key(Current)] + Interval(Current) /\ wake' \in Nat
      BY <2>1, <3>1, <3>2
    <3>4. SleepsLongEnough'
      BY <2>1, <3>1, <3>2, <3>3 DEF SleepsLongEnough, Current, Key, Interval
    <3>5. Typed'
      BY <3>1, <3>3, <1>t DEF Typed
    <3> QED
      BY <3>1, <3>4, <3>5, OtherStepKeeps DEF LimiterInv
  <2> QED
    BY <2>2, <2>3
<1>5. CASE Wake
  <2>1. /\ Current \in Rules /\ Record(Current)
        /\ clock \in Nat /\ wake \in Nat
        /\ clock >= wake /\ wake >= lastRequestAt[Key(Current)] + Interval(Current)
        /\ UNCHANGED <<wake, clock, collector, matrix, cursor, calls>>
    BY <1>5, <1>t DEF Wake, SleepsLongEnough, Typed
  <2>2. lastRequestAt[Key(Current)] \in Nat /\ Interval(Current) \in Nat
    BY <2>1, <1>5, <1>t DEF Wake, SleepsLongEnough, Typed
  <2>3. clock >= lastRequestAt[Key(Current)] + Interval(Current)
    BY <2>1, <2>2
  <2>4. /\ lastRequestAt' \in [Patterns -> Nat \cup {Never}]
        /\ stamps' \in Seq(Stamp)
        /\ Remembered' /\ SpacedPerTarget' /\ pc' = "open"
    BY <2>1, <2>3, RecordKeeps
  <2> QED
    BY <2>1, <2>4, <1>t DEF LimiterInv, Typed, SleepsLongEnough
<1>6. CASE Open
  <2>1. Typed' /\ SleepsLongEnough'
    BY <1>6, <1>t DEF Open, Typed, SleepsLongEnough
  <2> QED
    BY <2>1, <1>6, OtherStepKeeps DEF Open, LimiterInv
<1>7. CASE Respond
  <2>1. Typed' /\ SleepsLongEnough'
    BY <1>7, <1>t DEF Respond, Typed, SleepsLongEnough, Idle
  <2> QED
    BY <2>1, <1>7, OtherStepKeeps DEF Respond, LimiterInv
<1>8. CASE Fail
  <2>1. Typed' /\ SleepsLongEnough'
    BY <1>8, <1>t DEF Fail, Typed, SleepsLongEnough, Idle
  <2> QED
    BY <2>1, <1>8, OtherStepKeeps DEF Fail, LimiterInv
<1>9. CASE Tick
  <2>1. Typed'
    BY <1>9, <1>t DEF Tick, Typed
  <2>2. SleepsLongEnough'
    BY <1>9, <1>t DEF Tick, SleepsLongEnough, Current, Key, Interval
  <2> QED
    BY <2>1, <2>2, <1>9, OtherStepKeeps DEF Tick, LimiterInv
<1>10. CASE UNCHANGED vars
  <2>1. Typed'
    BY <1>10, <1>t DEF vars, Typed
  <2>2. SleepsLongEnough'
    BY <1>10, <1>t DEF vars, SleepsLongEnough, Current, Key, Interval
  <2> QED
    BY <2>1, <2>2, <1>10, OtherStepKeeps DEF vars, LimiterInv
<1> QED
  BY <1>1, <1>2, <1>3, <1>4, <1>5, <1>6, <1>7, <1>8, <1>9, <1>10 DEF Next, Step

LEMMA Invariance == Spec => []LimiterInv
  BY InitInv, StepInv, PTL DEF Spec

(* For every policy, one collector never starts two requests to one target
   closer than the interval of the rule the later one runs under, whatever
   happens in between (collector.py, _rate_limit). *)
THEOREM RequestsAreSpaced == Spec => []SpacedPerTarget
<1>1. LimiterInv => SpacedPerTarget
  BY DEF LimiterInv
<1> QED
  BY <1>1, Invariance, PTL

-------------------------------------------------------------------------------
(* What is on the wire.  Of the requests of one collector to one target all
   but the last are no later than what the limiter remembers, and a request
   that may go out finds the whole interval between them and its own stamp. *)

SpecsOf(m) == {SpecAt(m, n) : n \in Nat}

Specs == UNION {SpecsOf(m) : m \in Matrices \cup {NoMatrix}}

SendRecord == [call : Nat, cell : Nat, spec : Specs, collector : Nat, at : Nat]

Allowed ==
    /\ pc \in {"sleep", "open", "wait"} => Current # Violation
    /\ \A i \in 1..Len(sent) : SentRule(i) # Violation

SentInThePast ==
    \A i \in 1..Len(sent) : sent[i].collector <= collector /\ sent[i].at <= clock

Remembers(rule, i) ==
    /\ lastRequestAt[Key(rule)] # Never
    /\ sent[i].at <= lastRequestAt[Key(rule)]

AllButLastRemembered ==
    \A j \in 1..Len(sent) : \A i \in 1..(j - 1) :
        sent[i].collector = collector /\ Key(SentRule(i)) = Key(SentRule(j))
        => Remembers(SentRule(j), i)

Cleared ==
    pc = "open" =>
        /\ lastRequestAt[Key(Current)] # Never
        /\ lastRequestAt[Key(Current)] <= clock
        /\ \A i \in 1..Len(sent) : sent[i].at <= lastRequestAt[Key(Current)]
        /\ \A j \in 1..Len(sent) : \A i \in 1..(j - 1) :
            /\ sent[i].collector = collector
            /\ Key(SentRule(i)) = Key(Current) /\ Key(SentRule(j)) = Key(Current)
            => sent[i].at + Interval(Current) <= lastRequestAt[Key(Current)]

WireInv ==
    /\ LimiterInv
    /\ sent \in Seq(SendRecord)
    /\ Allowed /\ SentInThePast /\ AllButLastRemembered /\ Cleared
    /\ NoBurstOfThree

LEMMA SentFacts ==
    ASSUME sent \in Seq(SendRecord), NEW i \in 1..Len(sent)
    PROVE  /\ sent[i].call \in Nat /\ sent[i].cell \in Nat
           /\ sent[i].collector \in Nat /\ sent[i].at \in Nat
<1>1. sent[i] \in SendRecord
  BY ElementOfSeq
<1> QED
  BY <1>1 DEF SendRecord

LEMMA WireInit == Init => WireInv
<1> SUFFICES ASSUME Init PROVE WireInv
  OBVIOUS
<1>1. sent = <<>> /\ Len(sent) = 0 /\ pc = "ready"
  BY DEF Init
<1>2. sent \in Seq(SendRecord)
  BY <1>1
<1> QED
  BY <1>1, <1>2, InitInv
  DEF WireInv, Allowed, SentInThePast, AllButLastRemembered, Cleared, NoBurstOfThree

(* The limiter clears a request. *)
LEMMA RecordClears ==
    ASSUME WireInv, LimiterInv', Current # Violation, Record(Current),
           \/ lastRequestAt[Key(Current)] = Never
           \/ clock >= lastRequestAt[Key(Current)] + Interval(Current),
           UNCHANGED <<clock, collector, matrix, cursor, sent>>
    PROVE  WireInv'
<1> DEFINE T == Key(Current)
<1>1. /\ Current \in Rules /\ T \in Patterns /\ Interval(Current) \in Nat \ {0}
      /\ clock \in Nat /\ lastRequestAt \in [Patterns -> Nat \cup {Never}]
      /\ sent \in Seq(SendRecord) /\ Len(sent) \in Nat
  BY RuleInRange, RuleFacts DEF WireInv, LimiterInv, Typed, Current
<1>2. /\ lastRequestAt' = [lastRequestAt EXCEPT ![T] = clock]
      /\ pc' = "open" /\ Current' = Current /\ Interval(Current)' = Interval(Current)
      /\ Key(Current)' = Key(Current)
  BY DEF Record, Current, Interval, Key
<1>3. /\ lastRequestAt'[T] = clock /\ clock # Never
      /\ \A k \in Patterns : k # T => lastRequestAt'[k] = lastRequestAt[k]
  BY <1>1, <1>2
<1>4. \A i \in 1..Len(sent) :
        /\ SentRule(i) \in Rules /\ Key(SentRule(i)) \in Patterns
        /\ sent[i].at \in Nat /\ sent[i].at <= clock
        /\ SentRule(i)' = SentRule(i)
  BY <1>1, SentFacts, RuleInRange, RuleFacts
  DEF WireInv, Allowed, SentInThePast, SentRule
<1>5. Allowed' /\ SentInThePast' /\ NoBurstOfThree'
  BY <1>2, <1>4 DEF WireInv, Allowed, SentInThePast, NoBurstOfThree, SentRule, Target, Interval
<1>6. AllButLastRemembered'
  <2> SUFFICES ASSUME NEW j \in 1..Len(sent), NEW i \in 1..(j - 1),
                      sent[i].collector = collector,
                      Key(SentRule(i)) = Key(SentRule(j))
               PROVE  /\ lastRequestAt'[Key(SentRule(j))] # Never
                      /\ sent[i].at <= lastRequestAt'[Key(SentRule(j))]
    BY <1>4 DEF AllButLastRemembered, Remembers, Key
  <2>1. i \in 1..Len(sent)
    BY <1>1
  <2>2. CASE Key(SentRule(j)) = T
    BY <2>1, <2>2, <1>3, <1>4
  <2>3. CASE Key(SentRule(j)) # T
    BY <2>1, <2>3, <1>3, <1>4 DEF WireInv, AllButLastRemembered, Remembers
  <2> QED
    BY <2>2, <2>3
<1>7. Cleared'
  <2>1. ASSUME NEW j \in 1..Len(sent), NEW i \in 1..(j - 1),
               sent[i].collector = collector,
               Key(SentRule(i)) = T, Key(SentRule(j)) = T
        PROVE  sent[i].at + Interval(Current) <= clock
    <3>1. i \in 1..Len(sent)
      BY <1>1
    <3>2. lastRequestAt[T] # Never /\ sent[i].at <= lastRequestAt[T]
      BY <2>1 DEF WireInv, AllButLastRemembered, Remembers
    <3>3. lastRequestAt[T] \in Nat /\ clock >= lastRequestAt[T] + Interval(Current)
      BY <3>2, <1>1
    <3> QED
      BY <3>1, <3>2, <3>3, <1>1, <1>4
  <2> QED
    BY <2>1, <1>1, <1>2, <1>3, <1>4 DEF Cleared, Key
<1> QED
  BY <1>1, <1>5, <1>6, <1>7 DEF WireInv

(* The request goes out: the one before the last to its target is at least an
   interval old. *)
LEMMA OpenKeeps ==
    ASSUME WireInv, LimiterInv', Open
    PROVE  WireInv'
<1> DEFINE new == [call |-> calls, cell |-> cursor, spec |-> SpecAt(matrix, cursor),
                   collector |-> collector, at |-> clock]
           T   == Key(Current)
<1>0. PICK n \in Nat : n = Len(sent)
  BY DEF WireInv
<1>1. /\ pc = "open" /\ pc' = "wait" /\ sent' = Append(sent, new)
      /\ UNCHANGED <<clock, collector, matrix, cursor, lastRequestAt>>
  BY DEF Open
<1>2. /\ clock \in Nat /\ collector \in Nat /\ calls \in Nat /\ cursor \in Nat
      /\ matrix \in Matrices \cup {NoMatrix}
      /\ sent \in Seq(SendRecord) /\ Len(sent) = n
      /\ lastRequestAt \in [Patterns -> Nat \cup {Never}]
  BY <1>0 DEF WireInv, LimiterInv, Typed
<1>3. new \in SendRecord
  <2>1. SpecAt(matrix, cursor) \in Specs
    BY <1>2 DEF Specs, SpecsOf
  <2> QED
    BY <2>1, <1>2 DEF SendRecord
<1>4. /\ sent' \in Seq(SendRecord) /\ Len(sent') = n + 1 /\ sent'[n + 1] = new
      /\ \A i \in 1..n : sent'[i] = sent[i]
  BY <1>1, <1>2, <1>3
<1>5. /\ Current # Violation /\ Current \in Rules /\ T \in Patterns
      /\ Interval(Current) \in Nat \ {0}
      /\ lastRequestAt[T] \in Nat /\ lastRequestAt[T] <= clock
  BY <1>1, <1>2, RuleInRange, RuleFacts DEF WireInv, Allowed, Cleared, Current
<1>6. /\ SentRule(n + 1)' = Current /\ \A i \in 1..n : SentRule(i)' = SentRule(i)
      /\ Current' = Current
  BY <1>1, <1>4 DEF SentRule, Current
<1>7. \A i \in 1..n : /\ SentRule(i) # Violation /\ SentRule(i) \in Rules
                      /\ sent[i].at \in Nat /\ sent[i].at <= clock
                      /\ sent[i].at <= lastRequestAt[T]
                      /\ sent[i].collector \in Nat /\ sent[i].collector <= collector
  BY <1>1, <1>2, SentFacts, RuleInRange DEF WireInv, Allowed, SentInThePast, Cleared, SentRule
<1>8. \A i \in 1..Len(sent') : i \in 1..n \/ i = n + 1
  BY <1>2, <1>4
<1>9. Allowed'
  BY <1>1, <1>5, <1>6, <1>7, <1>8 DEF Allowed
<1>10. SentInThePast'
  BY <1>1, <1>2, <1>4, <1>7, <1>8 DEF SentInThePast
<1>11. AllButLastRemembered'
  <2> SUFFICES ASSUME NEW j \in 1..(n + 1), NEW i \in 1..(j - 1),
                      sent'[i].collector = collector,
                      Key(SentRule(i)') = Key(SentRule(j)')
               PROVE  /\ lastRequestAt[Key(SentRule(j)')] # Never
                      /\ sent'[i].at <= lastRequestAt[Key(SentRule(j)')]
    BY <1>1, <1>4 DEF AllButLastRemembered, Remembers, Key
  <2>1. i \in 1..n /\ sent'[i] = sent[i] /\ SentRule(i)' = SentRule(i)
    BY <1>2, <1>4, <1>6
  <2>2. CASE j = n + 1
    <3>1. SentRule(j)' = Current /\ lastRequestAt[T] # Never
      BY <2>2, <1>5, <1>6
    <3> QED
      BY <2>1, <3>1, <1>7
  <2>3. CASE j \in 1..n
    <3>1. SentRule(j)' = SentRule(j)
      BY <2>3, <1>6
    <3> QED
      BY <2>1, <2>3, <3>1, <1>2 DEF WireInv, AllButLastRemembered, Remembers
  <2> QED
    BY <2>2, <2>3, <1>2
<1>12. NoBurstOfThree'
  <2> SUFFICES ASSUME NEW k \in 1..(n + 1), NEW j \in 1..(k - 1), NEW i \in 1..(j - 1),
                      sent'[i].collector = sent'[k].collector,
                      Target(SentRule(i)') = Target(SentRule(k)'),
                      Target(SentRule(j)') = Target(SentRule(k)')
               PROVE  sent'[k].at - sent'[i].at >= Interval(SentRule(k)')
    BY <1>4 DEF NoBurstOfThree, Target, Interval
  <2>1. /\ i \in 1..n /\ sent'[i] = sent[i] /\ SentRule(i)' = SentRule(i)
        /\ j \in 1..n /\ sent'[j] = sent[j] /\ SentRule(j)' = SentRule(j)
    BY <1>2, <1>4, <1>6
  <2>2. CASE k = n + 1
    <3>1. SentRule(k)' = Current /\ sent'[k].at = clock /\ sent[i].collector = collector
      BY <2>1, <2>2, <1>4, <1>6
    <3>2. Key(SentRule(i)) = T /\ Key(SentRule(j)) = T
      BY <2>1, <3>1 DEF Target, Key
    <3>3. sent[i].at + Interval(Current) <= lastRequestAt[T]
      BY <2>1, <3>1, <3>2, <1>1, <1>2 DEF WireInv, Cleared
    <3>4. clock - sent[i].at >= Interval(Current)
      BY <2>1, <3>3, <1>2, <1>5, <1>7
    <3> QED
      BY <2>1, <3>1, <3>4
  <2>3. CASE k \in 1..n
    <3>1. sent'[k] = sent[k] /\ SentRule(k)' = SentRule(k)
      BY <2>3, <1>4, <1>6
    <3> QED
      BY <2>1, <2>3, <3>1, <1>2 DEF WireInv, NoBurstOfThree
  <2> QED
    BY <2>2, <2>3, <1>2
<1> QED
  BY <1>1, <1>4, <1>9, <1>10, <1>11, <1>12 DEF WireInv, Cleared

(* A step that sends nothing, remembers the same times and opens nothing. *)
LEMMA QuietStepKeeps ==
    ASSUME WireInv, LimiterInv', UNCHANGED <<sent, collector, lastRequestAt>>,
           clock' >= clock, Allowed', Cleared'
    PROVE  WireInv'
<1>1. /\ sent \in Seq(SendRecord) /\ clock \in Nat
      /\ \A i \in 1..Len(sent) : sent[i].at \in Nat
  BY SentFacts DEF WireInv, LimiterInv, Typed
<1>2. clock' \in Nat
  BY DEF LimiterInv, Typed
<1>3. SentInThePast'
  BY <1>1, <1>2 DEF WireInv, SentInThePast
<1>4. AllButLastRemembered' /\ NoBurstOfThree'
  BY DEF WireInv, AllButLastRemembered, Remembers, NoBurstOfThree, SentRule, Key, Target, Interval
<1> QED
  BY <1>1, <1>3, <1>4 DEF WireInv

LEMMA WireStep == WireInv /\ [Next]_vars => WireInv'
<1> SUFFICES ASSUME WireInv, [Next]_vars PROVE WireInv'
  OBVIOUS
<1>t. LimiterInv' /\ LimiterInv /\ clock \in Nat
  BY StepInv DEF WireInv, LimiterInv, Typed
<1>a. ASSUME UNCHANGED <<sent, pc, matrix, cursor>> PROVE Allowed'
  BY <1>a DEF WireInv, Allowed, Current, SentRule
<1>b. ASSUME UNCHANGED sent, pc' \in Idle \cup {"next"} PROVE Allowed'
  BY <1>b DEF WireInv, Allowed, SentRule, Idle
<1>1. CASE NewCollector
  <2>1. UNCHANGED <<sent, clock, pc>> /\ pc \in Idle /\ collector' = collector + 1
    BY <1>1 DEF NewCollector
  <2>2. /\ sent \in Seq(SendRecord) /\ collector \in Nat
        /\ \A i \in 1..Len(sent) :
              sent[i].collector \in Nat /\ sent[i].collector <= collector
    BY SentFacts DEF WireInv, LimiterInv, Typed, SentInThePast
  <2>3. SentInThePast' /\ Allowed'
    BY <2>1, <2>2, <1>b DEF WireInv, SentInThePast
  <2>4. AllButLastRemembered' /\ Cleared'
    BY <2>1, <2>2 DEF AllButLastRemembered, Cleared, Idle
  <2>5. NoBurstOfThree'
    BY <2>1 DEF WireInv, NoBurstOfThree, SentRule, Target, Interval
  <2> QED
    BY <2>1, <2>2, <2>3, <2>4, <2>5, <1>t DEF WireInv
<1>2. ASSUME NEW m \in Matrices, CollectMatrix(m) PROVE WireInv'
  <2>1. /\ pc' \in Idle \cup {"next"}
        /\ UNCHANGED <<sent, clock, collector, lastRequestAt>>
    BY <1>2 DEF CollectMatrix, Idle
  <2>2. Cleared'
    BY <2>1 DEF Cleared, Idle
  <2> QED
    BY <2>1, <2>2, <1>b, <1>t, QuietStepKeeps
<1>3. CASE Refuse \/ Respond \/ Fail
  <2>1. /\ pc' \in Idle \cup {"next"}
        /\ UNCHANGED <<sent, clock, collector, lastRequestAt>>
    BY <1>3 DEF Refuse, Respond, Fail, Idle
  <2>2. Cleared'
    BY <2>1 DEF Cleared, Idle
  <2> QED
    BY <2>1, <2>2, <1>b, <1>t, QuietStepKeeps
<1>4. CASE Admit
  <2>0. /\ Current # Violation /\ UNCHANGED <<clock, collector, matrix, cursor, sent>>
        /\ lastRequestAt[Key(Current)] \in Nat \cup {Never}
        /\ Interval(Current) \in Nat \ {0}
    BY <1>4, <1>t, RuleInRange, RuleFacts DEF Admit, Current, LimiterInv, Typed
  <2>1. CASE Owed(Current) = 0
    <3>1. Record(Current)
      BY <1>4, <2>1 DEF Admit
    <3>2. \/ lastRequestAt[Key(Current)] = Never
          \/ clock >= lastRequestAt[Key(Current)] + Interval(Current)
      BY <2>0, <2>1, <1>t DEF Owed
    <3> QED
      BY <2>0, <3>1, <3>2, <1>t, RecordClears
  <2>2. CASE Owed(Current) # 0
    <3>1. pc' = "sleep" /\ UNCHANGED lastRequestAt
      BY <1>4, <2>2 DEF Admit
    <3>2. Allowed' /\ Cleared'
      BY <2>0, <3>1 DEF WireInv, Allowed, Cleared, Current, SentRule
    <3> QED
      BY <2>0, <3>1, <3>2, <1>t, QuietStepKeeps
  <2> QED
    BY <2>1, <2>2
<1>5. CASE Wake
  <2>1. /\ Current # Violation /\ Record(Current)
        /\ UNCHANGED <<clock, collector, matrix, cursor, sent>>
    BY <1>5 DEF Wake, WireInv, Allowed
  <2>2. /\ clock >= wake /\ wake \in Nat /\ Current \in Rules
        /\ lastRequestAt[Key(Current)] \in Nat
        /\ wake >= lastRequestAt[Key(Current)] + Interval(Current)
    BY <1>5, <1>t, RuleFacts DEF Wake, LimiterInv, Typed, SleepsLongEnough
  <2>3. clock >= lastRequestAt[Key(Current)] + Interval(Current)
    BY <2>2, <1>t, RuleFacts
  <2> QED
    BY <2>1, <2>3, <1>t, RecordClears
<1>6. CASE Open
  BY <1>6, <1>t, OpenKeeps
<1>7. CASE Tick
  <2>1. /\ clock' = clock + 1
        /\ UNCHANGED <<collector, lastRequestAt, pc, matrix, cursor, sent>>
    BY <1>7 DEF Tick
  <2>2. pc = "open" => lastRequestAt[Key(Current)] \in Nat
    BY <1>t, RuleInRange, RuleFacts
    DEF WireInv, Allowed, Cleared, LimiterInv, Typed, Current
  <2>3. Cleared'
    BY <2>1, <2>2, <1>t DEF WireInv, Cleared, Current, SentRule, Key, Interval
  <2> QED
    BY <2>1, <2>3, <1>a, <1>t, QuietStepKeeps
<1>8. CASE UNCHANGED vars
  <2>1. UNCHANGED <<clock, collector, lastRequestAt, pc, matrix, cursor, sent>>
    BY <1>8 DEF vars
  <2>2. Cleared'
    BY <2>1 DEF WireInv, Cleared, Current, SentRule, Key, Interval
  <2> QED
    BY <2>1, <2>2, <1>a, <1>t, QuietStepKeeps
<1> QED
  BY <1>1, <1>2, <1>3, <1>4, <1>5, <1>6, <1>7, <1>8 DEF Next, Step

LEMMA WireInvariance == Spec => []WireInv
  BY WireInit, WireStep, PTL DEF Spec

(* Of three requests that one collector sends to one target, the last goes out
   at least an interval after the first, however late each of them is
   (collector.py, collect_one and _rate_limit). *)
THEOREM NeverABurstOfThree == Spec => []NoBurstOfThree
<1>1. WireInv => NoBurstOfThree
  BY DEF WireInv
<1> QED
  BY <1>1, WireInvariance, PTL

(* Nothing leaves that the policy does not allow (scope.py, authorized_rule;
   collector.py, collect_one). *)
THEOREM OnlyAuthorizedIsSent == Spec => []SendsOnlyAuthorized
<1>1. ASSUME WireInv PROVE SendsOnlyAuthorized
  <2> SUFFICES ASSUME NEW i \in 1..Len(sent)
               PROVE  /\ Policy.active_testing
                      /\ sent[i].spec.method \in {"GET", "HEAD", "OPTIONS"}
                      /\ sent[i].spec.url.words \cap (DEFAULT_DENY_TERMS \cup Policy.deny_paths) = {}
                      /\ \E r \in Rules :
                            Matches(Policy.targets[r], sent[i].spec.url, sent[i].spec.method)
    BY DEF SendsOnlyAuthorized
  <2> DEFINE spec == sent[i].spec
  <2>1. RuleOf(spec) # Violation
    BY <1>1 DEF WireInv, Allowed, SentRule
  <2>2. spec.method \in SAFE_METHODS /\ ~Refused(Policy, spec.url, spec.method, TRUE)
    BY <2>1 DEF RuleOf, AuthorizedRule
  <2>3. Policy.active_testing /\ ~Denied(Policy, spec.url)
    BY <2>2 DEF Refused
  <2>4. \E r \in Rules : Matches(Policy.targets[r], spec.url, spec.method)
    BY <2>2 DEF Refused, MatchingRules, Rules
  <2> QED
    BY <2>2, <2>3, <2>4 DEF SAFE_METHODS, Denied
<1> QED
  BY <1>1, WireInvariance, PTL

-------------------------------------------------------------------------------
(* What a call has sent and kept when it is at its cursor: the cells before it,
   and the one at the cursor when its answer is awaited. *)

CellsSent == IF pc = "wait" THEN cursor ELSE cursor - 1

InProgress ==
    pc \notin Idle =>
        /\ calls > 0 /\ cursor \in 1..Total(matrix) /\ InBudget(matrix)
        /\ result = NoResult
        /\ observations = [k \in 1..(cursor - 1) |-> Cell(matrix, k)]
        /\ CellsSent <= Len(sent)
        /\ SentFrom(calls, Len(sent) - CellsSent, CellsSent)

CallInv ==
    /\ Typed /\ sent \in Seq(SendRecord)
    /\ \A i \in 1..Len(sent) : sent[i].call <= calls
    /\ SendsAPrefix /\ InProgress /\ ReturnsAllOrNothing

LEMMA ProductOfNats ==
    ASSUME NEW a \in Nat, NEW b \in Nat
    PROVE  a * b \in Nat
  OBVIOUS

LEMMA TotalIsNat ==
    ASSUME NEW m \in Matrices \cup {NoMatrix}
    PROVE  Total(m) \in Nat
<1>1. Len(m.requests) \in Nat /\ Len(m.profiles) \in Nat
  BY MatricesAreLists DEF NoMatrix
<1> QED
  BY <1>1, ProductOfNats DEF Total

(* A request of another call leaves what a call sent as it was; its own next
   cell makes it one longer. *)
LEMMA SentFromAppend ==
    ASSUME sent \in Seq(SendRecord), NEW new \in SendRecord, sent' = Append(sent, new),
           NEW c \in Nat, NEW before \in Nat, NEW n \in Nat, SentFrom(c, before, n)
    PROVE  /\ new.call # c => SentFrom(c, before, n)'
           /\ new.call = c /\ new.cell = n + 1 /\ before + n = Len(sent)
              => SentFrom(c, before, n + 1)'
<1>1. /\ Len(sent) \in Nat /\ Len(sent') = Len(sent) + 1 /\ sent'[Len(sent) + 1] = new
      /\ \A i \in 1..Len(sent) : sent'[i] = sent[i]
      /\ \A i \in 1..Len(sent') : i \in 1..Len(sent) \/ i = Len(sent) + 1
  OBVIOUS
<1>2. /\ before + n <= Len(sent)
      /\ \A i \in 1..Len(sent) : sent[i].call = c <=> i \in (before + 1)..(before + n)
      /\ \A i \in (before + 1)..(before + n) : sent[i].cell = i - before
  BY DEF SentFrom
<1>3. ASSUME new.call # c PROVE SentFrom(c, before, n)'
  BY <1>1, <1>2, <1>3 DEF SentFrom
<1>4. ASSUME new.call = c, new.cell = n + 1, before + n = Len(sent)
      PROVE  SentFrom(c, before, n + 1)'
  <2>1. before + (n + 1) = Len(sent')
    BY <1>1, <1>4
  <2>2. ASSUME NEW i \in 1..Len(sent')
        PROVE  /\ sent'[i].call = c <=> i \in (before + 1)..(before + (n + 1))
               /\ i \in (before + 1)..(before + (n + 1)) => sent'[i].cell = i - before
    <3>1. CASE i = Len(sent) + 1
      BY <3>1, <1>1, <1>4
    <3>2. CASE i \in 1..Len(sent)
      <4>1. i \in (before + 1)..(before + (n + 1)) <=> i \in (before + 1)..(before + n)
        BY <3>2, <1>1, <1>4
      <4> QED
        BY <3>2, <4>1, <1>1, <1>2
    <3> QED
      BY <3>1, <3>2, <1>1
  <2>3. \A i \in (before + 1)..(before + (n + 1)) : i \in 1..Len(sent')
    BY <1>1, <2>1
  <2> QED
    BY <2>1, <2>2, <2>3 DEF SentFrom
<1> QED
  BY <1>3, <1>4

LEMMA CallInit == Init => CallInv
<1> SUFFICES ASSUME Init PROVE CallInv
  OBVIOUS
<1>1. sent = <<>> /\ Len(sent) = 0 /\ pc = "ready" /\ result = NoResult /\ calls = 0
  BY DEF Init
<1>2. sent \in Seq(SendRecord)
  BY <1>1
<1>3. SendsAPrefix
  BY <1>1 DEF SendsAPrefix
<1> QED
  BY <1>1, <1>2, <1>3, InitInv
  DEF CallInv, LimiterInv, InProgress, ReturnsAllOrNothing, Idle

LEMMA SentPrefixesKeep ==
    ASSUME SendsAPrefix, UNCHANGED <<sent, calls>>
    PROVE  SendsAPrefix'
BY DEF SendsAPrefix, SentFrom

(* A step of a call that sends nothing and leaves the cursor alone. *)
LEMMA SameCellsKeep ==
    ASSUME CallInv, Typed', UNCHANGED <<sent, calls, matrix, cursor, observations, result>>,
           pc' \in Idle => (pc' = "raised" /\ pc \notin Idle) \/ pc' = pc,
           pc' \notin Idle => pc \notin Idle /\ (pc = "wait" <=> pc' = "wait")
    PROVE  CallInv'
<1>1. SendsAPrefix' /\ sent' \in Seq(SendRecord) /\ \A i \in 1..Len(sent') : sent'[i].call <= calls'
  BY DEF CallInv, SendsAPrefix, SentFrom
<1>2. InProgress'
  BY DEF CallInv, InProgress, CellsSent, SentFrom, InBudget, Total, Cell, SpecAt, ProfileAt
<1>3. ReturnsAllOrNothing'
  BY DEF CallInv, InProgress, ReturnsAllOrNothing, SentFrom, Total, Cell, SpecAt, ProfileAt
<1> QED
  BY <1>1, <1>2, <1>3 DEF CallInv

LEMMA CallBegins ==
    ASSUME CallInv, Typed', NEW m \in Matrices, CollectMatrix(m)
    PROVE  CallInv'
<1>0. PICK len \in Nat, call \in Nat : len = Len(sent) /\ call = calls + 1
  BY DEF CallInv, Typed
<1>1. /\ pc \in Idle /\ calls' = call /\ calls \in Nat /\ matrix' = m /\ cursor' = 1
      /\ observations' = <<>> /\ sent' = sent /\ sent \in Seq(SendRecord)
      /\ Total(m) \in Nat /\ MaxRequests \in Nat
  BY <1>0, TotalIsNat, LimitsAccepted DEF CollectMatrix, CallInv, Typed
<1>2. \A i \in 1..Len(sent) : sent[i].call \in Nat /\ sent[i].call <= calls
  BY <1>1, SentFacts DEF CallInv
<1>3. SentFrom(call, len, 0)'
  BY <1>0, <1>1, <1>2 DEF SentFrom
<1>4. SendsAPrefix'
  <2> SUFFICES ASSUME NEW c \in 1..call
               PROVE  \E before \in 0..len, n \in 0..MaxRequests : SentFrom(c, before, n)'
    BY <1>0, <1>1 DEF SendsAPrefix
  <2>1. CASE c = call
    BY <2>1, <1>1, <1>3
  <2>2. CASE c \in 1..calls
    <3>1. PICK before \in 0..len, n \in 0..MaxRequests : SentFrom(c, before, n)
      BY <2>2, <1>0 DEF CallInv, SendsAPrefix
    <3>2. SentFrom(c, before, n)'
      BY <3>1, <1>1 DEF SentFrom
    <3> QED
      BY <3>1, <3>2
  <2> QED
    BY <2>1, <2>2, <1>0, <1>1
<1>5. \/ pc' = "raised" /\ result' = NoResult
      \/ pc' = "ready" /\ result' = <<>> /\ Total(m) = 0
      \/ pc' = "next" /\ result' = NoResult /\ InBudget(m) /\ Total(m) > 0
  BY DEF CollectMatrix
<1>6. InProgress'
  <2>1. CASE pc' = "next"
    <3>1. CellsSent' = 0 /\ Len(sent)' - CellsSent' = len
      BY <2>1, <1>0, <1>1 DEF CellsSent
    <3>2. SentFrom(calls, Len(sent) - CellsSent, CellsSent)'
      BY <3>1, <1>1, <1>3 DEF SentFrom
    <3>3. observations' = [k \in 1..(1 - 1) |-> Cell(m, k)]
      BY <1>1
    <3>4. observations' = [k \in 1..(cursor - 1) |-> Cell(matrix, k)]'
      BY <3>3, <1>1 DEF Cell, SpecAt, ProfileAt
    <3>5. InBudget(matrix)' /\ cursor' \in 1..Total(matrix)' /\ calls' > 0
      <4>1. Total(matrix)' = Total(m)
        BY <1>1 DEF Total
      <4>2. Total(m) \in Nat /\ Total(m) > 0 /\ Total(m) <= MaxRequests
        BY <2>1, <1>1, <1>5 DEF InBudget
      <4> QED
        BY <4>1, <4>2, <1>0, <1>1 DEF InBudget
    <3> QED
      BY <2>1, <3>1, <3>2, <3>4, <3>5, <1>0, <1>1, <1>5 DEF InProgress
  <2>2. CASE pc' \in Idle
    BY <2>2 DEF InProgress
  <2> QED
    BY <2>1, <2>2, <1>5 DEF Idle
<1>7. ReturnsAllOrNothing'
  <2>1. CASE pc' = "ready" /\ result' = <<>> /\ Total(m) = 0
    <3>1. result' = [n \in 1..0 |-> Cell(m, n)]
      BY <2>1
    <3>2. result' = [n \in 1..Total(matrix) |-> Cell(matrix, n)]'
      BY <2>1, <3>1, <1>1 DEF Cell, SpecAt, ProfileAt, Total
    <3>3. SentFrom(calls, len, Total(matrix))'
      BY <2>1, <1>1, <1>3 DEF Total, SentFrom
    <3> QED
      BY <3>2, <3>3, <1>0, <1>1 DEF ReturnsAllOrNothing
  <2>2. CASE result' = NoResult
    BY <2>2 DEF ReturnsAllOrNothing
  <2> QED
    BY <2>1, <2>2, <1>5
<1> QED
  BY <1>0, <1>1, <1>2, <1>4, <1>6, <1>7 DEF CallInv

LEMMA CallOpens ==
    ASSUME CallInv, Typed', Open
    PROVE  CallInv'
<1>0. PICK len \in Nat, call \in Nat, at \in Nat :
        len = Len(sent) /\ call = calls /\ at = cursor
  BY DEF CallInv, Typed
<1> DEFINE new == [call |-> calls, cell |-> cursor, spec |-> SpecAt(matrix, cursor),
                   collector |-> collector, at |-> clock]
<1>1. /\ pc = "open" /\ pc' = "wait" /\ sent' = Append(sent, new) /\ sent \in Seq(SendRecord)
      /\ UNCHANGED <<calls, matrix, cursor, observations, result>>
  BY DEF Open, CallInv
<1>2. new \in SendRecord
  <2>1. SpecAt(matrix, cursor) \in Specs
    BY DEF CallInv, Typed, Specs, SpecsOf
  <2> QED
    BY <2>1 DEF CallInv, Typed, SendRecord
<1>3. /\ sent' \in Seq(SendRecord) /\ Len(sent') = len + 1 /\ sent'[len + 1] = new
      /\ \A i \in 1..len : sent'[i] = sent[i]
  BY <1>0, <1>1, <1>2
<1>4. /\ call > 0 /\ at \in 1..Total(matrix) /\ InBudget(matrix)
      /\ result = NoResult
      /\ observations = [k \in 1..(cursor - 1) |-> Cell(matrix, k)]
      /\ at - 1 <= len /\ SentFrom(call, len - (at - 1), at - 1)
  BY <1>0, <1>1 DEF CallInv, InProgress, Idle, CellsSent
<1>5. Total(matrix) \in Nat /\ Total(matrix) <= MaxRequests /\ MaxRequests \in Nat
  BY <1>4, TotalIsNat, LimitsAccepted DEF CallInv, Typed, InBudget
<1>6. SentFrom(call, len - (at - 1), at)'
  <2>1. /\ len - (at - 1) \in Nat /\ at - 1 \in Nat /\ (at - 1) + 1 = at
        /\ len - (at - 1) + (at - 1) = Len(sent)
    BY <1>0, <1>4, <1>5
  <2>2. new.call = call /\ new.cell = (at - 1) + 1
    BY <1>0
  <2>3. SentFrom(call, len - (at - 1), (at - 1) + 1)'
    BY <1>1, <1>2, <1>4, <2>1, <2>2, SentFromAppend
  <2> QED
    BY <2>1, <2>3
<1>7. SendsAPrefix'
  <2> SUFFICES ASSUME NEW c \in 1..call
               PROVE  \E before \in 0..(len + 1), n \in 0..MaxRequests : SentFrom(c, before, n)'
    BY <1>0, <1>1, <1>3 DEF SendsAPrefix
  <2>1. CASE c = call
    <3>1. len - (at - 1) \in 0..(len + 1) /\ at \in 0..MaxRequests
      BY <1>4, <1>5, <1>0
    <3> QED
      BY <2>1, <3>1, <1>6
  <2>2. CASE c # call
    <3>1. PICK before \in 0..len, n \in 0..MaxRequests : SentFrom(c, before, n)
      BY <2>2, <1>0 DEF CallInv, SendsAPrefix
    <3>2. SentFrom(c, before, n)'
      BY <2>2, <3>1, <1>0, <1>1, <1>2, <1>5, SentFromAppend
    <3> QED
      BY <3>1, <3>2
  <2> QED
    BY <2>1, <2>2
<1>8. InProgress'
  <2>1. CellsSent' = at /\ Len(sent)' - CellsSent' = len - (at - 1) /\ CellsSent' <= Len(sent')
    BY <1>0, <1>1, <1>3, <1>4 DEF CellsSent
  <2>2. SentFrom(calls, Len(sent) - CellsSent, CellsSent)'
    BY <2>1, <1>0, <1>1, <1>6 DEF SentFrom
  <2>3. observations' = [k \in 1..(cursor - 1) |-> Cell(matrix, k)]'
    BY <1>1, <1>4 DEF Cell, SpecAt, ProfileAt
  <2>4. cursor' \in 1..Total(matrix)' /\ InBudget(matrix)' /\ result' = NoResult /\ calls' > 0
    <3>1. Total(matrix)' = Total(matrix)
      BY <1>1 DEF Total
    <3> QED
      BY <3>1, <1>0, <1>1, <1>4 DEF InBudget
  <2> QED
    BY <2>1, <2>2, <2>3, <2>4 DEF InProgress
<1>9. ReturnsAllOrNothing'
  BY <1>1 DEF ReturnsAllOrNothing, Idle
<1>10. \A i \in 1..Len(sent') : sent'[i].call <= calls'
  <2> SUFFICES ASSUME NEW i \in 1..(len + 1) PROVE sent'[i].call <= calls
    BY <1>1, <1>3
  <2>1. CASE i = len + 1
    BY <2>1, <1>0, <1>3
  <2>2. CASE i \in 1..len
    BY <2>2, <1>0, <1>3 DEF CallInv
  <2> QED
    BY <2>1, <2>2, <1>0
<1> QED
  BY <1>3, <1>7, <1>8, <1>9, <1>10 DEF CallInv

LEMMA CallAnswered ==
    ASSUME CallInv, Typed', Respond
    PROVE  CallInv'
<1>0. PICK len \in Nat, call \in Nat, at \in Nat :
        len = Len(sent) /\ call = calls /\ at = cursor
  BY DEF CallInv, Typed
<1>1. /\ pc = "wait" /\ UNCHANGED <<sent, calls, matrix>>
      /\ observations' = Append(observations, Cell(matrix, at))
      /\ sent \in Seq(SendRecord)
  BY <1>0 DEF Respond, CallInv
<1>2. /\ call > 0 /\ at \in 1..Total(matrix) /\ InBudget(matrix)
      /\ result = NoResult
      /\ observations = [k \in 1..(at - 1) |-> Cell(matrix, k)]
      /\ at <= len /\ SentFrom(call, len - at, at)
  BY <1>0, <1>1 DEF CallInv, InProgress, Idle, CellsSent
<1>3. Total(matrix) \in Nat /\ Total(matrix)' = Total(matrix)
  BY <1>1, TotalIsNat DEF CallInv, Typed, Total
<1>4. observations' = [k \in 1..at |-> Cell(matrix, k)]
  <2> DEFINE CellOf(k) == Cell(matrix, k)
             S == {CellOf(k) : k \in 1..at}
  <2>1. at - 1 \in Nat
    BY <1>2, <1>3
  <2>2. /\ observations \in Seq(S) /\ Len(observations) = at - 1
        /\ \A k \in 1..(at - 1) : observations[k] = CellOf(k)
    <3>1. \A k \in 1..(at - 1) : CellOf(k) \in S
      BY <2>1
    <3> HIDE DEF CellOf, S
    <3>2. observations = [k \in 1..(at - 1) |-> CellOf(k)]
      BY <1>2 DEF CellOf
    <3> QED
      BY <2>1, <3>1, <3>2
  <2>3. CellOf(at) \in S
    BY <1>2
  <2> HIDE DEF CellOf, S
  <2>4. observations' = Append(observations, CellOf(at))
    BY <1>1 DEF CellOf
  <2>5. observations' = [k \in 1..at |-> CellOf(k)]
    <3>1. /\ observations' \in Seq(S) /\ Len(observations') = at
          /\ \A k \in 1..(at - 1) : observations'[k] = observations[k]
          /\ observations'[at] = CellOf(at)
      BY <2>1, <2>2, <2>3, <2>4
    <3>2. \A k \in 1..at : observations'[k] = CellOf(k)
      <4> TAKE k \in 1..at
      <4>1. k = at \/ k \in 1..(at - 1)
        BY <2>1
      <4> QED
        BY <4>1, <3>1, <2>2
    <3>3. observations' = [k \in 1..Len(observations') |-> observations'[k]]
      BY <3>1
    <3>4. observations' = [k \in 1..at |-> observations'[k]]
      BY <3>1, <3>3
    <3> QED
      BY <3>2, <3>4
  <2> QED
    BY <2>5 DEF CellOf
<1>5. SendsAPrefix' /\ \A i \in 1..Len(sent') : sent'[i].call <= calls'
  <2>1. sent' = sent /\ calls' = calls
    BY <1>1
  <2>2. SendsAPrefix'
    BY <2>1, SentPrefixesKeep DEF CallInv
  <2> QED
    BY <2>1, <2>2, Zenon DEF CallInv
<1>6. CASE cursor = Total(matrix)
  <2>1. pc' = "ready" /\ result' = observations'
    BY <1>6 DEF Respond
  <2>2. at = Total(matrix)
    BY <1>0, <1>6
  <2>3. result' = [n \in 1..Total(matrix) |-> Cell(matrix, n)]'
    BY <2>1, <2>2, <1>1, <1>3, <1>4 DEF Cell, SpecAt, ProfileAt
  <2>4. len - at \in 0..Len(sent)' /\ SentFrom(calls, len - at, Total(matrix))'
    BY <2>2, <1>0, <1>1, <1>2, <1>3 DEF SentFrom
  <2>5. InProgress' /\ ReturnsAllOrNothing'
    BY <2>1, <2>3, <2>4 DEF InProgress, ReturnsAllOrNothing, Idle
  <2> QED
    BY <2>5, <1>1, <1>5 DEF CallInv
<1>7. CASE cursor # Total(matrix)
  <2>1. pc' = "next" /\ cursor' = at + 1 /\ result' = NoResult
    BY <1>0, <1>2, <1>7 DEF Respond
  <2>2. /\ cursor' \in 1..Total(matrix)' /\ InBudget(matrix)' /\ calls' > 0
        /\ CellsSent' = at
    BY <2>1, <1>0, <1>1, <1>2, <1>3, <1>7 DEF InBudget, CellsSent
  <2>3. CellsSent' <= Len(sent)' /\ SentFrom(calls, Len(sent) - CellsSent, CellsSent)'
    BY <2>2, <1>0, <1>1, <1>2 DEF SentFrom
  <2>4. observations' = [k \in 1..(cursor - 1) |-> Cell(matrix, k)]'
    <3>1. (cursor - 1)' = at
      BY <2>1
    <3> QED
      BY <3>1, <1>1, <1>4 DEF Cell, SpecAt, ProfileAt
  <2>5. InProgress' /\ ReturnsAllOrNothing'
    BY <2>1, <2>2, <2>3, <2>4 DEF InProgress, ReturnsAllOrNothing, Idle
  <2> QED
    BY <2>5, <1>1, <1>5 DEF CallInv
<1> QED
  BY <1>6, <1>7

LEMMA CallStep == LimiterInv /\ CallInv /\ [Next]_vars => CallInv'
<1> SUFFICES ASSUME LimiterInv, CallInv, [Next]_vars PROVE CallInv'
  OBVIOUS
<1>t. Typed'
  BY StepInv DEF LimiterInv
<1>1. CASE NewCollector
  BY <1>1, <1>t, SameCellsKeep DEF NewCollector
<1>2. ASSUME NEW m \in Matrices, CollectMatrix(m) PROVE CallInv'
  BY <1>2, <1>t, CallBegins
<1>3. CASE Refuse \/ Fail
  BY <1>3, <1>t, SameCellsKeep DEF Refuse, Fail, Idle
<1>4. CASE Admit
  <2>1. /\ pc = "next" /\ pc' \in {"open", "sleep"}
        /\ UNCHANGED <<sent, calls, matrix, cursor, observations, result>>
    BY <1>4 DEF Admit, Record
  <2> QED
    BY <2>1, <1>t, SameCellsKeep DEF Idle
<1>5. CASE Wake
  <2>1. /\ pc = "sleep" /\ pc' = "open"
        /\ UNCHANGED <<sent, calls, matrix, cursor, observations, result>>
    BY <1>5 DEF Wake, Record
  <2> QED
    BY <2>1, <1>t, SameCellsKeep DEF Idle
<1>6. CASE Open
  BY <1>6, <1>t, CallOpens
<1>7. CASE Respond
  BY <1>7, <1>t, CallAnswered
<1>8. CASE Tick \/ UNCHANGED vars
  BY <1>8, <1>t, SameCellsKeep DEF Tick, vars
<1> QED
  BY <1>1, <1>2, <1>3, <1>4, <1>5, <1>6, <1>7, <1>8 DEF Next, Step

LEMMA CallInvariance == Spec => [](LimiterInv /\ CallInv)
<1>1. Init => LimiterInv /\ CallInv
  BY InitInv, CallInit
<1>2. (LimiterInv /\ CallInv) /\ [Next]_vars => (LimiterInv /\ CallInv)'
  BY StepInv, CallStep
<1> QED
  BY <1>1, <1>2, PTL DEF Spec

(* The collector's state keeps its types, and the list a call is building answers
   exactly the cells before its cursor (collector.py, collect_matrix). *)
THEOREM TypeCorrect == Spec => []TypeOK
<1>1. CallInv => TypeOK
  <2> SUFFICES ASSUME CallInv PROVE TypeOK
    OBVIOUS
  <2>1. ASSUME pc \notin Idle
        PROVE  /\ cursor <= Total(matrix)
               /\ observations = [n \in 1..(cursor - 1) |-> Cell(matrix, n)]
    <3>1. /\ cursor \in 1..Total(matrix)
          /\ observations = [k \in 1..(cursor - 1) |-> Cell(matrix, k)]
      BY <2>1 DEF CallInv, InProgress
    <3>2. cursor <= Total(matrix)
      BY <3>1
    <3> QED
      BY <3>1, <3>2, Zenon
  <2> QED
    BY <2>1 DEF CallInv, TypeOK
<1> QED
  BY <1>1, CallInvariance, PTL

(* Every call sends a prefix of its cells, each once and within the budget,
   and no request of another call among them (collector.py, collect_matrix). *)
THEOREM CallsSendPrefixes == Spec => []SendsAPrefix
<1>1. CallInv => SendsAPrefix
  BY DEF CallInv
<1> QED
  BY <1>1, CallInvariance, PTL

(* A call returns the observations of all its cells, in their order, or none
   (collector.py, collect_matrix). *)
THEOREM NoPartialList == Spec => []ReturnsAllOrNothing
<1>1. CallInv => ReturnsAllOrNothing
  BY DEF CallInv
<1> QED
  BY <1>1, CallInvariance, PTL
===============================================================================
