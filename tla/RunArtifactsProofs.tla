--------------------------- MODULE RunArtifactsProofs ---------------------------
(***************************************************************************)
(* Proofs about RunArtifacts: its types for any runs, and, for runs that    *)
(* follow one another, what a complete summary and a readable ledger say of *)
(* the directory, for any number of runs, any candidates and a stop         *)
(* anywhere.                                                                *)
(***************************************************************************)
EXTENDS RunArtifacts, LedgerFileProofs

Process == [pc : Active \cup Ended \cup {"new"}, next : Nat,
            entry : LedgerEntry \cup {NoEntry}]

(* The artifacts are files of their own, the summary is none of them
   (campaign.py and verifier.py, run). *)
LEMMA ArtifactFacts ==
    ASSUME NEW r \in Runs
    PROVE  /\ Len(Artifacts(r)) \in Nat \ {0}
           /\ \A i \in 1..Len(Artifacts(r)) :
                Artifacts(r)[i] \in FileNames /\ Artifacts(r)[i] # "summary"
<1>1. CASE Runner[r] = "campaign"
  BY <1>1 DEF Artifacts, CampaignArtifacts, FileNames
<1>2. CASE Runner[r] # "campaign"
  BY <1>2 DEF Artifacts, VerificationArtifacts, FileNames
<1> QED
  BY <1>1, <1>2

(* The events of a run are its calls, redacted. *)
LEMMA PlanFacts ==
    ASSUME NEW r \in Runs
    PROVE  /\ Len(AppendCalls(r)) \in Nat \ {0}
           /\ \A i \in 1..Len(AppendCalls(r)) :
                /\ AppendCalls(r)[i].kind \in Kinds
                /\ AppendCalls(r)[i].payload \in Payloads
           /\ PlannedEvents(r) \in Seq(Event)
           /\ Len(PlannedEvents(r)) = Len(AppendCalls(r))
<1>1. AppendCalls(r) \in Seq([kind : Kinds, payload : Payloads]) /\ AppendCalls(r) # <<>>
  BY RunsAssumption
<1>2. Len(AppendCalls(r)) \in Nat \ {0}
  BY <1>1
<1>3. \A i \in 1..Len(AppendCalls(r)) :
        AppendCalls(r)[i].kind \in Kinds /\ AppendCalls(r)[i].payload \in Payloads
  <2> TAKE i \in 1..Len(AppendCalls(r))
  <2>1. AppendCalls(r)[i] \in [kind : Kinds, payload : Payloads]
    BY <1>1, ElementOfSeq
  <2> QED
    BY <2>1
<1>4. \A i \in 1..Len(AppendCalls(r)) :
        [kind |-> AppendCalls(r)[i].kind, payload |-> Redact(AppendCalls(r)[i].payload)] \in Event
  BY <1>3 DEF Event, CleanPayload
<1> QED
  BY <1>2, <1>3, <1>4 DEF PlannedEvents

-------------------------------------------------------------------------------
(* Where each run is: what is left for it to write. *)

Local(r) ==
    /\ run[r].pc \in {"new", "analyse", "reset"} => run[r].next = 1
    /\ run[r].pc = "artifacts" => run[r].next \in 1..Len(Artifacts(r))
    /\ run[r].pc \in {"read", "write"} => run[r].next \in 1..Len(AppendCalls(r))
    /\ run[r].pc \in {"verify", "summary"} => run[r].next = Len(AppendCalls(r)) + 1
    /\ run[r].pc = "write" => run[r].entry \in LedgerEntry

TypeInv == TypeOK /\ \A r \in Runs : Local(r)

LEMMA TypeInit == Init => TypeInv
  BY DEF Init, TypeInv, TypeOK, Local, Absent, Active, Ended

(* A step of r that only moves it. *)
LEMMA MoveKeepsTypes ==
    ASSUME TypeInv, NEW r \in Runs, NEW pc \in Active \cup Ended, Goto(r, pc),
           pc \in {"analyse", "artifacts"} => run[r].next = 1,
           pc \notin {"reset", "write"},
           pc = "read" => run[r].pc = "reset",
           pc = "verify" => run[r].pc = "verify",
           pc = "summary" => run[r].pc = "verify"
    PROVE  run' \in [Runs -> Process] /\ \A q \in Runs : Local(q)'
<1>1. run \in [Runs -> Process]
  BY DEF TypeInv, TypeOK, Process
<1>2. /\ run' \in [Runs -> Process]
      /\ run'[r].pc = pc /\ run'[r].next = run[r].next /\ run'[r].entry = run[r].entry
      /\ \A q \in Runs : q # r => run'[q] = run[q]
  BY <1>1 DEF Goto, Process
<1>3. ASSUME NEW q \in Runs PROVE Local(q)'
  <2>1. CASE q # r
    BY <2>1, <1>2 DEF TypeInv, Local
  <2>2. CASE q = r
    <3>1. Len(Artifacts(r)) \in Nat \ {0} /\ Len(AppendCalls(r)) \in Nat \ {0} /\ Local(r)
      BY ArtifactFacts, PlanFacts DEF TypeInv
    <3>2. pc # "new"
      BY DEF Active, Ended
    <3> QED
      BY <2>2, <3>1, <3>2, <1>2 DEF Local
  <2> QED
    BY <2>1, <2>2
<1> QED
  BY <1>2, <1>3

(* A step of r that gives it a new record. *)
LEMMA RecordKeepsTypes ==
    ASSUME TypeInv, NEW r \in Runs, NEW p \in Process, run' = [run EXCEPT ![r] = p], Local(r)'
    PROVE  run' \in [Runs -> Process] /\ \A q \in Runs : Local(q)'
<1>1. run \in [Runs -> Process]
  BY DEF TypeInv, TypeOK, Process
<1>2. run' \in [Runs -> Process] /\ \A q \in Runs : q # r => run'[q] = run[q]
  BY <1>1
<1>3. ASSUME NEW q \in Runs, q # r PROVE Local(q)'
  BY <1>2, <1>3 DEF TypeInv, Local
<1> QED
  BY <1>2, <1>3

LEMMA TypeStep == TypeInv /\ [Next]_vars => TypeInv'
<1> SUFFICES ASSUME TypeInv, [Next]_vars PROVE TypeInv'
  OBVIOUS
<1>t. /\ ledger \in Seq(Line) /\ run \in [Runs -> Process]
      /\ disk \in [FileNames -> [by : Runs \cup {Nobody}, whole : BOOLEAN]]
      /\ last \in Runs \cup {Nobody} /\ owner \in Runs \cup {Nobody}
      /\ \A r \in Runs : Local(r)
  BY DEF TypeInv, TypeOK, Process
<1>o. ASSUME ledger' \in Seq(Line),
             disk' \in [FileNames -> [by : Runs \cup {Nobody}, whole : BOOLEAN]],
             last' \in Runs \cup {Nobody}, owner' \in Runs \cup {Nobody},
             run' \in [Runs -> Process], \A r \in Runs : Local(r)'
      PROVE  TypeInv'
  BY <1>o, Zenon DEF TypeInv, TypeOK, Process
<1>p. ASSUME NEW r \in Runs, NEW f, NEW w \in BOOLEAN,
             disk' = [disk EXCEPT ![f] = [by |-> r, whole |-> w]]
      PROVE  disk' \in [FileNames -> [by : Runs \cup {Nobody}, whole : BOOLEAN]]
  <2>1. [by |-> r, whole |-> w] \in [by : Runs \cup {Nobody}, whole : BOOLEAN]
    BY Zenon
  <2> QED
    BY <2>1, <1>p, <1>t
<1>1. ASSUME NEW r \in Runs,
             \/ Begin(r) \/ Analyse(r) \/ AnalysisRaises(r) \/ VerifyLedger(r) \/ Stop(r)
      PROVE  TypeInv'
  <2>1. PICK pc \in Active \cup Ended :
            /\ Goto(r, pc)
            /\ pc \notin {"reset", "write", "read", "verify"}
            /\ pc \in {"analyse", "artifacts"} => run[r].pc \in {"new", "analyse"}
            /\ pc = "summary" => run[r].pc = "verify"
    BY <1>1 DEF Begin, Analyse, AnalysisRaises, VerifyLedger, Stop, Active, Ended
  <2>2. pc \in {"analyse", "artifacts"} => run[r].next = 1
    BY <2>1, <1>t DEF Local
  <2>3. run' \in [Runs -> Process] /\ \A q \in Runs : Local(q)'
    BY <2>1, <2>2, MoveKeepsTypes
  <2>4. UNCHANGED <<ledger, disk, last, owner>>
    BY <1>1 DEF Begin, Analyse, AnalysisRaises, VerifyLedger, Stop
  <2> QED
    BY <2>3, <2>4, <1>t, <1>o
<1>2. ASSUME NEW r \in Runs, WriteArtifact(r) PROVE TypeInv'
  <2> DEFINE p == IF LastArtifact(r, run[r].next)
                  THEN [pc |-> "reset", next |-> 1, entry |-> NoEntry]
                  ELSE [run[r] EXCEPT !.next = run[r].next + 1]
  <2>1. /\ run[r].pc = "artifacts" /\ run' = [run EXCEPT ![r] = p]
        /\ disk' = [disk EXCEPT ![Artifacts(r)[run[r].next]] = [by |-> r, whole |-> TRUE]]
        /\ last' = r /\ UNCHANGED <<ledger, owner>>
    BY <1>2 DEF WriteArtifact
  <2>2. run[r] \in Process /\ run[r].next \in 1..Len(Artifacts(r)) /\ Len(Artifacts(r)) \in Nat
    BY <2>1, <1>t, ArtifactFacts DEF Local
  <2>3. p \in Process
    BY <2>2 DEF Process, Active
  <2>4. Local(r)'
    <3>1. run'[r] = p
      BY <2>1, <1>t
    <3>2. CASE LastArtifact(r, run[r].next)
      BY <3>1, <3>2 DEF Local
    <3>3. CASE ~LastArtifact(r, run[r].next)
      <4>1. /\ run'[r].pc = "artifacts" /\ run'[r].next = run[r].next + 1
            /\ run[r].next # Len(Artifacts(r))
        BY <3>1, <3>3, <2>1, <2>2 DEF LastArtifact, Process
      <4> QED
        BY <4>1, <2>2 DEF Local
    <3> QED
      BY <3>2, <3>3
  <2>5. run' \in [Runs -> Process] /\ \A q \in Runs : Local(q)'
    BY <2>1, <2>3, <2>4, RecordKeepsTypes
  <2>6. disk' \in [FileNames -> [by : Runs \cup {Nobody}, whole : BOOLEAN]]
    BY <2>1, <1>p
  <2> QED
    BY <2>1, <2>5, <2>6, <1>t, <1>o
<1>3. ASSUME NEW r \in Runs, ResetLedger(r) PROVE TypeInv'
  <2>1. run' \in [Runs -> Process] /\ \A q \in Runs : Local(q)'
    BY <1>3, <1>t, MoveKeepsTypes DEF ResetLedger, Local, Active
  <2>2. ledger' \in Seq(Line) /\ last' = r /\ owner' = r /\ disk' = disk
    BY <1>3 DEF ResetLedger
  <2> QED
    BY <2>1, <2>2, <1>t, <1>o
<1>4. ASSUME NEW r \in Runs, ReadLedger(r) PROVE TypeInv'
  <2>1. run[r].pc = "read" /\ UNCHANGED <<ledger, disk, last, owner>>
    BY <1>4 DEF ReadLedger
  <2>2. CASE Readable(ledger)
    <3> DEFINE call == AppendCalls(r)[run[r].next]
               e    == NewEntry(Entries(ledger), call.kind, call.payload)
               p    == [run[r] EXCEPT !.pc = "write", !.entry = e]
    <3>1. run' = [run EXCEPT ![r] = p]
      BY <1>4, <2>2, <1>t DEF ReadLedger, Process
    <3>2. run[r].next \in 1..Len(AppendCalls(r)) /\ call.kind \in Kinds /\ call.payload \in Payloads
      BY <2>1, <1>t, PlanFacts DEF Local
    <3>3. e \in LedgerEntry
      BY <3>2, <2>2, <1>t, EntriesType, NewEntryType
    <3>4. run[r] \in Process
      BY <1>t
    <3> HIDE DEF e
    <3>5. p \in Process /\ p.pc = "write" /\ p.next = run[r].next /\ p.entry = e
      BY <3>3, <3>4 DEF Process, Active
    <3>6. Local(r)'
      <4>1. run'[r] = p
        BY <3>1, <1>t
      <4> QED
        BY <4>1, <3>2, <3>3, <3>5 DEF Local
    <3>7. run' \in [Runs -> Process] /\ \A q \in Runs : Local(q)'
      BY <3>1, <3>5, <3>6, RecordKeepsTypes
    <3> QED
      BY <2>1, <3>7, <1>t, <1>o
  <2>3. CASE ~Readable(ledger)
    <3>1. run' \in [Runs -> Process] /\ \A q \in Runs : Local(q)'
      BY <1>4, <2>3, MoveKeepsTypes DEF ReadLedger, Ended
    <3> QED
      BY <2>1, <3>1, <1>t, <1>o
  <2> QED
    BY <2>2, <2>3
<1>5. ASSUME NEW r \in Runs, AppendLine(r) PROVE TypeInv'
  <2> DEFINE p == [pc    |-> IF LastCall(r, run[r].next) THEN "verify" ELSE "read",
                   next  |-> run[r].next + 1,
                   entry |-> NoEntry]
  <2>1. /\ run[r].pc = "write" /\ run' = [run EXCEPT ![r] = p]
        /\ ledger' = AddText(ledger, run[r].entry, TRUE) /\ last' = r
        /\ UNCHANGED <<disk, owner>>
    BY <1>5 DEF AppendLine
  <2>2. /\ run[r] \in Process /\ run[r].next \in 1..Len(AppendCalls(r))
        /\ Len(AppendCalls(r)) \in Nat /\ run[r].entry \in LedgerEntry
    BY <2>1, <1>t, PlanFacts DEF Local
  <2>3. ledger' \in Seq(Line)
    BY <2>1, <2>2, <1>t, AddTextType
  <2>4. p \in Process
    BY <2>2 DEF Process, Active
  <2>5. Local(r)'
    <3>1. run'[r] = p
      BY <2>1, <1>t
    <3> QED
      BY <3>1, <2>2 DEF Local, LastCall
  <2>6. run' \in [Runs -> Process] /\ \A q \in Runs : Local(q)'
    BY <2>1, <2>4, <2>5, RecordKeepsTypes
  <2> QED
    BY <2>1, <2>3, <2>6, <1>t, <1>o
<1>6. ASSUME NEW r \in Runs, WriteSummary(r) \/ StopInArtifact(r) PROVE TypeInv'
  <2>1. PICK pc \in Ended : Goto(r, pc)
    BY <1>6 DEF WriteSummary, StopInArtifact, Ended
  <2>2. run' \in [Runs -> Process] /\ \A q \in Runs : Local(q)'
    BY <2>1, MoveKeepsTypes DEF Ended
  <2>3. disk' \in [FileNames -> [by : Runs \cup {Nobody}, whole : BOOLEAN]]
    BY <1>6, <1>p DEF WriteSummary, StopInArtifact
  <2>4. last' = r /\ UNCHANGED <<ledger, owner>>
    BY <1>6 DEF WriteSummary, StopInArtifact
  <2> QED
    BY <2>2, <2>3, <2>4, <1>t, <1>o
<1>7. ASSUME NEW r \in Runs, StopInLedger(r) PROVE TypeInv'
  <2>1. /\ run[r].pc = "write" /\ Goto(r, "stopped") /\ last' = r /\ UNCHANGED <<disk, owner>>
    BY <1>7 DEF StopInLedger
  <2>2. run[r].entry \in LedgerEntry
    BY <2>1, <1>t DEF Local
  <2>3. ledger' \in Seq(Line)
    BY <1>7, <2>2, <1>t, AddTextType DEF StopInLedger
  <2>4. run' \in [Runs -> Process] /\ \A q \in Runs : Local(q)'
    BY <2>1, MoveKeepsTypes DEF Ended
  <2> QED
    BY <2>1, <2>3, <2>4, <1>t, <1>o
<1>8. CASE UNCHANGED vars
  BY <1>8 DEF vars, TypeInv, TypeOK, Local
<1> QED
  BY <1>1, <1>2, <1>3, <1>4, <1>5, <1>6, <1>7, <1>8 DEF Next

LEMMA TypeInvariance == Spec => []TypeInv
  BY TypeInit, TypeStep, PTL DEF Spec

(* The directory and the processes keep their types, whether runs overlap or
   not (campaign.py and verifier.py, run). *)
THEOREM TypeCorrect == Spec => []TypeOK
<1>1. TypeInv => TypeOK
  BY DEF TypeInv
<1> QED
  BY <1>1, TypeInvariance, PTL

-------------------------------------------------------------------------------
(* One event after the other: the ledger is a prefix of what a run planned. *)

HoldsPrefix(r) ==
    /\ Verifies(ledger)
    /\ Len(ledger) <= Len(PlannedEvents(r))
    /\ Events(ledger) = SubSeq(PlannedEvents(r), 1, Len(ledger))

\* The entry of the next event of r, computed from the whole ledger.
NextEntry(r) ==
    LET call == AppendCalls(r)[Len(ledger) + 1] IN
    NewEntry(Entries(ledger), call.kind, call.payload)

LEMMA PrefixByOne ==
    ASSUME NEW S, NEW s \in Seq(S), NEW n \in Nat, n < Len(s)
    PROVE  SubSeq(s, 1, n + 1) = Append(SubSeq(s, 1, n), s[n + 1])
<1>1. /\ SubSeq(s, 1, n) \in Seq(S) /\ Len(SubSeq(s, 1, n)) = n
      /\ \A i \in 1..n : SubSeq(s, 1, n)[i] = s[i]
      /\ SubSeq(s, 1, n + 1) \in Seq(S) /\ Len(SubSeq(s, 1, n + 1)) = n + 1
      /\ \A i \in 1..(n + 1) : SubSeq(s, 1, n + 1)[i] = s[i]
  OBVIOUS
<1>2. s[n + 1] \in S
  OBVIOUS
<1> DEFINE t == Append(SubSeq(s, 1, n), s[n + 1])
<1>3. /\ t \in Seq(S) /\ Len(t) = n + 1 /\ t[n + 1] = s[n + 1]
      /\ \A i \in 1..n : t[i] = s[i]
  BY <1>1, <1>2
<1>4. \A i \in 1..(n + 1) : t[i] = s[i]
  BY <1>3
<1> HIDE DEF t
<1>5. SubSeq(s, 1, n + 1) = t
  BY <1>1, <1>3, <1>4, SeqEqual
<1> QED
  BY <1>5 DEF t

(* A write of the next entry makes the prefix one longer. *)
LEMMA WriteExtendsPrefix ==
    ASSUME NEW r \in Runs, NEW ended \in BOOLEAN, ledger \in Seq(Line), ~Glued(ledger),
           HoldsPrefix(r), Len(ledger) < Len(AppendCalls(r)),
           ledger' = AddText(ledger, NextEntry(r), ended)
    PROVE  /\ HoldsPrefix(r)' /\ Len(ledger') = Len(ledger) + 1
           /\ ended => ~Glued(ledger')
<1> DEFINE n    == Len(ledger)
           call == AppendCalls(r)[n + 1]
           e    == NextEntry(r)
           new  == AddText(ledger, e, ended)
           plan == PlannedEvents(r)
<1>1. /\ n \in Nat /\ n + 1 \in 1..Len(AppendCalls(r))
      /\ call.kind \in Kinds /\ call.payload \in Payloads
      /\ plan \in Seq(Event) /\ Len(plan) = Len(AppendCalls(r))
      /\ Readable(ledger)
  BY PlanFacts DEF HoldsPrefix, Verifies
<1>2. Entries(ledger) \in Seq(LedgerEntry) /\ Len(Entries(ledger)) = n
  BY <1>1, EntriesType
<1>3. /\ e \in LedgerEntry
      /\ e.entry_hash = EntryHash(e.previous_hash, e.sequence, e.kind, e.payload)
  BY <1>1, <1>2, NewEntryType DEF NextEntry
<1>4. /\ e.sequence = n + 1 /\ e.previous_hash = LastHash(Entries(ledger))
      /\ EventOf(e) = plan[n + 1]
  BY <1>1, <1>2 DEF NextEntry, NewEntry, EventOf, PlannedEvents
<1> HIDE DEF e
<1>5. /\ Len(new) = n + 1 /\ new[n + 1].ended = ended
  BY <1>3, UngluedWrite
<1>6. Verifies(new)
  BY <1>3, <1>4, VerifiesWrite DEF HoldsPrefix
<1>7. Events(new) = Append(Events(ledger), EventOf(e))
  BY <1>1, <1>3, EventsWrite
<1>8. Events(new) = SubSeq(plan, 1, n + 1)
  <2>1. SubSeq(plan, 1, n + 1) = Append(SubSeq(plan, 1, n), plan[n + 1])
    BY <1>1, PrefixByOne
  <2>2. Events(ledger) = SubSeq(plan, 1, n)
    BY DEF HoldsPrefix
  <2> QED
    BY <2>1, <2>2, <1>4, <1>7
<1>9. ledger' = new
  BY DEF e
<1>10. Len(ledger') = Len(ledger) + 1
  BY <1>5, <1>9
<1>11. HoldsPrefix(r)'
  <2>1. Verifies(ledger') /\ Events(ledger') = SubSeq(plan, 1, Len(ledger')) /\ Len(ledger') <= Len(plan)
    BY <1>1, <1>5, <1>6, <1>8, <1>9
  <2> QED
    BY <2>1 DEF HoldsPrefix, PlannedEvents, AppendCalls, CampaignCalls, VerificationCalls
<1>12. ended => ~Glued(ledger')
  BY <1>5, <1>9, <1>10 DEF Glued
<1> QED
  BY <1>10, <1>11, <1>12

-------------------------------------------------------------------------------
(* The inductive invariant of runs that follow one another: one of them is at
   work, and everything it has left behind so far is its own. *)

Settled == {"reset", "read", "write", "verify", "summary"}
Filling == {"read", "write", "verify", "summary"}

Solo == \A q, r \in Runs : run[q].pc \in Active /\ run[r].pc \in Active => q = r

Progress(r) ==
    /\ run[r].pc = "artifacts" => \A i \in 1..(run[r].next - 1) : Written(Artifacts(r)[i], r)
    /\ run[r].pc \in Settled => \A i \in 1..Len(Artifacts(r)) : Written(Artifacts(r)[i], r)
    /\ run[r].pc \in Filling =>
        /\ owner = r
        /\ ~Glued(ledger) /\ HoldsPrefix(r) /\ Len(ledger) = run[r].next - 1
    /\ run[r].pc = "write" => run[r].entry = NextEntry(r)
    /\ Written("summary", r) => run[r].pc = "done"

RunInv ==
    /\ TypeInv
    /\ Solo
    /\ \A r \in Runs : Progress(r)
    /\ SummaryAttests
    /\ LedgerIsOwnersPrefix

LEMMA RunInit == Init => RunInv
<1> SUFFICES ASSUME Init PROVE RunInv
  OBVIOUS
<1>1. /\ \A r \in Runs : run[r].pc = "new" /\ ~Written("summary", r)
      /\ owner = Nobody
  <2>1. \A r \in Runs : r # Nobody
    BY RunsAssumption
  <2> QED
    BY <2>1 DEF Init, Written, Absent, FileNames
<1>2. Solo /\ \A r \in Runs : Progress(r)
  BY <1>1 DEF Solo, Progress, Active, Settled, Filling
<1>3. SummaryAttests /\ LedgerIsOwnersPrefix
  BY <1>1 DEF SummaryAttests, LedgerIsOwnersPrefix
<1> QED
  BY <1>2, <1>3, TypeInit DEF RunInv

LEMMA SameLedger ==
    ASSUME UNCHANGED ledger, NEW r \in Runs
    PROVE  /\ HoldsPrefix(r)' <=> HoldsPrefix(r)
           /\ NextEntry(r)' = NextEntry(r)
  BY DEF HoldsPrefix, NextEntry, PlannedEvents, AppendCalls, CampaignCalls, VerificationCalls

(* The runs that do not move are over or not begun. *)
LEMMA OthersKeep ==
    ASSUME RunInv, NEW r \in Runs, \A q \in Runs : q # r => run'[q] = run[q],
           \A q \in Runs : q # r => run[q].pc \notin Active,
           \/ disk'["summary"] = disk["summary"]
           \/ disk'["summary"].by = r
    PROVE  Solo' /\ \A q \in Runs : q # r => Progress(q)'
<1>1. Solo'
  BY DEF Solo
<1>2. ASSUME NEW q \in Runs, q # r PROVE Progress(q)'
  <2>1. run'[q] = run[q] /\ run[q].pc \notin Active
    BY <1>2
  <2>2. Written("summary", q)' => Written("summary", q)
    BY <1>2 DEF Written
  <2>3. Written("summary", q) => run[q].pc = "done"
    BY DEF RunInv, Progress
  <2> QED
    BY <2>1, <2>2, <2>3 DEF Progress, Active, Settled, Filling
<1> QED
  BY <1>1, <1>2

(* A run at work has no summary yet, so its writes leave nothing attested. *)
LEMMA WriterHasNoSummary ==
    ASSUME RunInv, NEW r \in Runs, run[r].pc \in Active, last' = r,
           \/ disk'["summary"] = disk["summary"]
           \/ disk'["summary"] = [by |-> r, whole |-> FALSE]
    PROVE  ~Written("summary", r)' /\ SummaryAttests'
<1>1. ~Written("summary", r)
  BY DEF RunInv, Progress, Active
<1>2. ~Written("summary", r)'
  BY <1>1 DEF Written
<1> QED
  BY <1>2 DEF SummaryAttests

LEMMA SameDirectory ==
    ASSUME RunInv, UNCHANGED <<ledger, disk, last, owner>>
    PROVE  SummaryAttests' /\ LedgerIsOwnersPrefix'
<1>1. \A r \in Runs : PlannedEvents(r)' = PlannedEvents(r)
  BY DEF PlannedEvents, AppendCalls, CampaignCalls, VerificationCalls
<1> QED
  BY <1>1 DEF RunInv, SummaryAttests, LedgerIsOwnersPrefix, Written

(* The step of one run, when no other is at work. *)
LEMMA MoveKeeps ==
    ASSUME RunInv, TypeInv', NEW r \in Runs, NEW pc, Goto(r, pc),
           \A q \in Runs : q # r => run[q].pc \notin Active,
           UNCHANGED <<ledger, disk, last, owner>>,
           run[r].pc # "done",
           \/ pc \in Ended \cup {"analyse"}
           \/ pc = "artifacts" /\ run[r].pc = "analyse"
           \/ pc = "summary" /\ run[r].pc = "verify"
    PROVE  RunInv'
<1>1. /\ run \in [Runs -> Process] /\ run'[r].pc = pc /\ run'[r].next = run[r].next
      /\ \A q \in Runs : q # r => run'[q] = run[q]
  BY DEF Goto, RunInv, TypeInv, TypeOK, Process
<1>2. Solo' /\ \A q \in Runs : q # r => Progress(q)'
  BY <1>1, OthersKeep
<1>3. Progress(r)'
  <2>1. Progress(r) /\ (run[r].pc = "analyse" => run[r].next = 1)
    BY DEF RunInv, TypeInv, Local
  <2>2. Written("summary", r)' = Written("summary", r) /\ ~Written("summary", r)
    BY <2>1 DEF Progress, Written
  <2>3. CASE pc \in Ended \cup {"analyse"}
    BY <2>2, <2>3, <1>1 DEF Progress, Ended, Settled, Filling
  <2>4. CASE pc = "artifacts" /\ run[r].pc = "analyse"
    BY <2>1, <2>2, <2>4, <1>1 DEF Progress, Settled, Filling
  <2>5. CASE pc = "summary" /\ run[r].pc = "verify"
    <3>1. /\ \A i \in 1..Len(Artifacts(r)) : Written(Artifacts(r)[i], r)'
          /\ owner' = r /\ ~Glued(ledger') /\ HoldsPrefix(r)'
          /\ Len(ledger') = run'[r].next - 1
      BY <2>1, <2>5, <1>1, SameLedger DEF Progress, Settled, Filling, Written
    <3> QED
      BY <2>2, <2>5, <3>1, <1>1 DEF Progress, Settled, Filling
  <2> QED
    BY <2>3, <2>4, <2>5
<1> QED
  BY <1>2, <1>3, SameDirectory DEF RunInv

LEMMA RunStep ==
    ASSUME ~Overlap, RunInv, [Next]_vars
    PROVE  RunInv'
<1>t. TypeInv /\ TypeInv' /\ run \in [Runs -> Process] /\ ledger \in Seq(Line)
  BY TypeStep DEF RunInv, TypeInv, TypeOK, Process
<1>d. disk \in [FileNames -> [by : Runs \cup {Nobody}, whole : BOOLEAN]]
  BY DEF RunInv, TypeInv, TypeOK
<1>s. ASSUME NEW r \in Runs, run[r].pc \in Active
      PROVE  \A q \in Runs : q # r => run[q].pc \notin Active
  BY <1>s DEF RunInv, Solo
<1>p. \A r \in Runs : Progress(r) /\ Local(r)
  BY DEF RunInv, TypeInv
<1>1. ASSUME NEW r \in Runs, Begin(r) PROVE RunInv'
  <2>1. \A q \in Runs : run[q].pc \notin Active
    BY <1>1 DEF Begin
  <2> QED
    BY <1>1, <2>1, <1>t, MoveKeeps DEF Begin
<1>2. ASSUME NEW r \in Runs,
             Analyse(r) \/ AnalysisRaises(r) \/ VerifyLedger(r) \/ Stop(r)
      PROVE  RunInv'
  <2>1. /\ run[r].pc \in Active /\ run[r].pc # "done"
        /\ UNCHANGED <<ledger, disk, last, owner>>
    BY <1>2 DEF Analyse, AnalysisRaises, VerifyLedger, Stop, Active
  <2>2. PICK pc : /\ Goto(r, pc)
                  /\ \/ pc \in Ended \cup {"analyse"}
                     \/ pc = "artifacts" /\ run[r].pc = "analyse"
                     \/ pc = "summary" /\ run[r].pc = "verify"
    BY <1>2 DEF Analyse, AnalysisRaises, VerifyLedger, Stop, Ended
  <2> QED
    BY <2>1, <2>2, <1>s, <1>t, MoveKeeps
<1>3. ASSUME NEW r \in Runs, WriteArtifact(r) PROVE RunInv'
  <2>1. /\ run[r].pc = "artifacts" /\ run[r].pc \in Active
        /\ disk' = [disk EXCEPT ![Artifacts(r)[run[r].next]] = [by |-> r, whole |-> TRUE]]
        /\ last' = r /\ UNCHANGED <<ledger, owner>>
        /\ \A q \in Runs : q # r => run'[q] = run[q]
        /\ run'[r] = IF LastArtifact(r, run[r].next)
                     THEN [pc |-> "reset", next |-> 1, entry |-> NoEntry]
                     ELSE [run[r] EXCEPT !.next = run[r].next + 1]
    BY <1>3, <1>t DEF WriteArtifact, Active
  <2>2. run[r].next \in 1..Len(Artifacts(r)) /\ Len(Artifacts(r)) \in Nat /\ run[r] \in Process
    BY <2>1, <1>p, <1>t, ArtifactFacts DEF Local
  <2>3. Artifacts(r)[run[r].next] \in FileNames /\ Artifacts(r)[run[r].next] # "summary"
    BY <2>2, ArtifactFacts
  <2>4. disk'["summary"] = disk["summary"]
    BY <2>1, <2>3, <1>d
  <2>5. Solo' /\ \A q \in Runs : q # r => Progress(q)'
    BY <2>1, <2>4, <1>s, OthersKeep
  <2>6. ~Written("summary", r)' /\ SummaryAttests'
    BY <2>1, <2>4, WriterHasNoSummary
  <2>7. \A i \in 1..run[r].next : Written(Artifacts(r)[i], r)'
    <3> TAKE i \in 1..run[r].next
    <3>1. i \in 1..Len(Artifacts(r)) /\ Artifacts(r)[i] \in FileNames
      BY <2>2, ArtifactFacts
    <3>2. i \in 1..(run[r].next - 1) => Written(Artifacts(r)[i], r)
      BY <2>1, <1>p DEF Progress
    <3>3. i = run[r].next \/ i \in 1..(run[r].next - 1)
      BY <2>2
    <3>4. disk'[Artifacts(r)[i]] \in {[by |-> r, whole |-> TRUE], disk[Artifacts(r)[i]]}
      BY <2>1, <3>1, <1>d
    <3>5. CASE i = run[r].next
      BY <2>1, <2>3, <3>5, <1>d DEF Written
    <3>6. CASE i \in 1..(run[r].next - 1)
      BY <3>2, <3>4, <3>6 DEF Written
    <3> QED
      BY <3>3, <3>5, <3>6
  <2>8. Progress(r)'
    <3>1. CASE LastArtifact(r, run[r].next)
      <4>1. run'[r].pc = "reset" /\ run[r].next = Len(Artifacts(r))
        BY <2>1, <3>1 DEF LastArtifact
      <4> QED
        BY <4>1, <2>6, <2>7 DEF Progress, Settled, Filling
    <3>2. CASE ~LastArtifact(r, run[r].next)
      <4>1. run'[r].pc = "artifacts" /\ run'[r].next - 1 = run[r].next
        BY <2>1, <2>2, <3>2 DEF Process
      <4> QED
        BY <4>1, <2>6, <2>7 DEF Progress, Settled, Filling
    <3> QED
      BY <3>1, <3>2
  <2>9. LedgerIsOwnersPrefix'
    BY <2>1 DEF RunInv, LedgerIsOwnersPrefix, PlannedEvents, AppendCalls,
                CampaignCalls, VerificationCalls
  <2> QED
    BY <2>5, <2>6, <2>8, <2>9, <1>t DEF RunInv
<1>4. ASSUME NEW r \in Runs, ResetLedger(r) PROVE RunInv'
  <2>1. /\ run[r].pc = "reset" /\ run[r].pc \in Active /\ ledger' = <<>> /\ last' = r
        /\ owner' = r /\ disk' = disk
        /\ run'[r].pc = "read" /\ run'[r].next = run[r].next
        /\ \A q \in Runs : q # r => run'[q] = run[q]
    BY <1>4, <1>t DEF ResetLedger, Goto, Active, Process
  <2>2. Solo' /\ \A q \in Runs : q # r => Progress(q)'
    BY <2>1, <1>s, OthersKeep
  <2>3. ~Written("summary", r)' /\ SummaryAttests'
    BY <2>1, WriterHasNoSummary
  <2>4. Len(ledger') = 0 /\ ~Glued(ledger') /\ Verifies(ledger')
    BY <2>1 DEF Glued, Verifies, Readable
  <2>5. HoldsPrefix(r)'
    <3>1. /\ PlannedEvents(r) \in Seq(Event) /\ Len(PlannedEvents(r)) \in Nat
          /\ PlannedEvents(r)' = PlannedEvents(r)
      BY PlanFacts DEF PlannedEvents, AppendCalls, CampaignCalls, VerificationCalls
    <3>2. Events(ledger') = <<>>
      BY <2>4 DEF Events
    <3>3. SubSeq(PlannedEvents(r), 1, Len(ledger')) = <<>>
      BY <2>4, SubSeqEmpty
    <3> QED
      BY <2>4, <3>1, <3>2, <3>3 DEF HoldsPrefix
  <2>6. Progress(r)'
    <3>1. /\ run[r].next = 1
          /\ \A i \in 1..Len(Artifacts(r)) : Written(Artifacts(r)[i], r)'
      BY <2>1, <1>p DEF Progress, Local, Settled, Written
    <3> QED
      BY <2>1, <2>3, <2>4, <2>5, <3>1 DEF Progress, Settled, Filling
  <2>7. LedgerIsOwnersPrefix'
    BY <2>1, <2>5 DEF LedgerIsOwnersPrefix, HoldsPrefix
  <2> QED
    BY <2>2, <2>3, <2>6, <2>7, <1>t DEF RunInv
<1>5. ASSUME NEW r \in Runs, ReadLedger(r) PROVE RunInv'
  <2>1. /\ run[r].pc = "read" /\ run[r].pc \in Active /\ UNCHANGED <<ledger, disk, last, owner>>
    BY <1>5 DEF ReadLedger, Active
  <2>2. /\ HoldsPrefix(r) /\ Readable(ledger) /\ ~Glued(ledger) /\ owner = r
        /\ Len(ledger) = run[r].next - 1 /\ run[r].next \in Nat
        /\ \A i \in 1..Len(Artifacts(r)) : Written(Artifacts(r)[i], r)
        /\ ~Written("summary", r)
    BY <2>1, <1>p, <1>t DEF Progress, Settled, Filling, HoldsPrefix, Verifies, Process
  <2>3. /\ run'[r].pc = "write" /\ run'[r].next = run[r].next
        /\ run'[r].entry = NextEntry(r)
        /\ \A q \in Runs : q # r => run'[q] = run[q]
    <3>1. run[r].next = Len(ledger) + 1
      BY <2>2
    <3> DEFINE e == NextEntry(r)
    <3>2. run' = [run EXCEPT ![r].pc = "write", ![r].entry = e]
      BY <1>5, <2>2, <3>1 DEF ReadLedger, NextEntry
    <3> HIDE DEF e
    <3>3. /\ run'[r].pc = "write" /\ run'[r].next = run[r].next /\ run'[r].entry = e
          /\ \A q \in Runs : q # r => run'[q] = run[q]
      BY <3>2, <1>t DEF Process
    <3> QED
      BY <3>3 DEF e
  <2>4. Solo' /\ \A q \in Runs : q # r => Progress(q)'
    BY <2>1, <2>3, <1>s, OthersKeep
  <2>5. Progress(r)'
    BY <2>1, <2>2, <2>3, SameLedger DEF Progress, Settled, Filling, Written
  <2> QED
    BY <2>1, <2>4, <2>5, <1>t, SameDirectory DEF RunInv
<1>6. ASSUME NEW r \in Runs, AppendLine(r) PROVE RunInv'
  <2>1. /\ run[r].pc = "write" /\ run[r].pc \in Active
        /\ ledger' = AddText(ledger, run[r].entry, TRUE) /\ last' = r
        /\ UNCHANGED <<disk, owner>>
        /\ run'[r].pc = (IF LastCall(r, run[r].next) THEN "verify" ELSE "read")
        /\ run'[r].next = run[r].next + 1
        /\ \A q \in Runs : q # r => run'[q] = run[q]
    BY <1>6, <1>t DEF AppendLine, Active
  <2>2. /\ owner = r /\ ~Glued(ledger) /\ HoldsPrefix(r) /\ run[r].entry = NextEntry(r)
        /\ Len(ledger) = run[r].next - 1 /\ run[r].next \in 1..Len(AppendCalls(r))
        /\ \A i \in 1..Len(Artifacts(r)) : Written(Artifacts(r)[i], r)
    BY <2>1, <1>p DEF Progress, Settled, Filling, Local
  <2>3. Len(ledger) < Len(AppendCalls(r)) /\ Len(AppendCalls(r)) \in Nat
    BY <2>2, PlanFacts
  <2>4. HoldsPrefix(r)' /\ Len(ledger') = run'[r].next - 1 /\ ~Glued(ledger')
    <3>1. ledger' = AddText(ledger, NextEntry(r), TRUE)
      BY <2>1, <2>2
    <3>2. HoldsPrefix(r)' /\ Len(ledger') = Len(ledger) + 1 /\ ~Glued(ledger')
      BY <2>2, <2>3, <3>1, <1>t, WriteExtendsPrefix
    <3>3. Len(ledger) + 1 = run'[r].next - 1
      BY <2>1, <2>2, <2>3
    <3> QED
      BY <3>2, <3>3
  <2>5. Solo' /\ \A q \in Runs : q # r => Progress(q)'
    BY <2>1, <1>s, OthersKeep
  <2>6. ~Written("summary", r)' /\ SummaryAttests'
    BY <2>1, WriterHasNoSummary
  <2>7. Progress(r)'
    BY <2>1, <2>2, <2>3, <2>4, <2>6 DEF Progress, Settled, Filling, Written
  <2>8. LedgerIsOwnersPrefix'
    BY <2>1, <2>2, <2>4 DEF LedgerIsOwnersPrefix, HoldsPrefix
  <2> QED
    BY <2>5, <2>6, <2>7, <2>8, <1>t DEF RunInv
<1>7. ASSUME NEW r \in Runs, WriteSummary(r) PROVE RunInv'
  <2>1. /\ run[r].pc = "summary" /\ run[r].pc \in Active
        /\ disk' = [disk EXCEPT !["summary"] = [by |-> r, whole |-> TRUE]]
        /\ last' = r /\ UNCHANGED <<ledger, owner>>
        /\ run'[r].pc = "done" /\ \A q \in Runs : q # r => run'[q] = run[q]
    BY <1>7, <1>t DEF WriteSummary, Goto, Active, Process
  <2>2. /\ disk'["summary"] = [by |-> r, whole |-> TRUE]
        /\ \A f \in FileNames : f # "summary" => disk'[f] = disk[f]
    BY <2>1, <1>d DEF FileNames
  <2>3. Solo' /\ \A q \in Runs : q # r => Progress(q)'
    BY <2>1, <2>2, <1>s, OthersKeep
  <2>4. Progress(r)'
    BY <2>1 DEF Progress, Settled, Filling
  <2>5. \A i \in 1..Len(Artifacts(r)) : Written(Artifacts(r)[i], r)'
    BY <2>1, <2>2, <1>p, ArtifactFacts DEF Progress, Settled, Written
  <2>6. Verifies(ledger) /\ Events(ledger) = PlannedEvents(r)
    <3>1. /\ HoldsPrefix(r) /\ Len(ledger) = run[r].next - 1
          /\ run[r].next = Len(AppendCalls(r)) + 1
      BY <2>1, <1>p DEF Progress, Filling, Local
    <3>2. /\ PlannedEvents(r) \in Seq(Event) /\ Len(ledger) = Len(PlannedEvents(r))
      BY <3>1, PlanFacts
    <3>3. SubSeq(PlannedEvents(r), 1, Len(PlannedEvents(r))) = PlannedEvents(r)
      BY <3>2
    <3> QED
      BY <3>1, <3>2, <3>3 DEF HoldsPrefix
  <2>7. PlannedEvents(r)' = PlannedEvents(r) /\ Verifies(ledger)' = Verifies(ledger)
    BY <2>1 DEF PlannedEvents, AppendCalls, CampaignCalls, VerificationCalls
  <2>8. SummaryAttests'
    BY <2>1, <2>5, <2>6, <2>7 DEF SummaryAttests
  <2>9. LedgerIsOwnersPrefix'
    BY <2>1 DEF RunInv, LedgerIsOwnersPrefix, PlannedEvents, AppendCalls,
                CampaignCalls, VerificationCalls
  <2> QED
    BY <2>3, <2>4, <2>8, <2>9, <1>t DEF RunInv
<1>8. ASSUME NEW r \in Runs, StopInArtifact(r) PROVE RunInv'
  <2>1. /\ run[r].pc \in {"artifacts", "summary"} /\ run[r].pc \in Active
        /\ last' = r /\ UNCHANGED <<ledger, owner>>
        /\ run'[r].pc = "stopped" /\ \A q \in Runs : q # r => run'[q] = run[q]
    BY <1>8, <1>t DEF StopInArtifact, Goto, Active, Process
  <2>2. \/ disk'["summary"] = disk["summary"]
        \/ disk'["summary"] = [by |-> r, whole |-> FALSE]
    BY <1>8, <1>d DEF StopInArtifact, FileNames
  <2>3. Solo' /\ \A q \in Runs : q # r => Progress(q)'
    BY <2>1, <2>2, <1>s, OthersKeep
  <2>4. ~Written("summary", r)' /\ SummaryAttests'
    BY <2>1, <2>2, WriterHasNoSummary
  <2>5. Progress(r)'
    BY <2>1, <2>4 DEF Progress, Settled, Filling
  <2>6. LedgerIsOwnersPrefix'
    BY <2>1 DEF RunInv, LedgerIsOwnersPrefix, PlannedEvents, AppendCalls,
                CampaignCalls, VerificationCalls
  <2> QED
    BY <2>3, <2>4, <2>5, <2>6, <1>t DEF RunInv
<1>9. ASSUME NEW r \in Runs, StopInLedger(r) PROVE RunInv'
  <2>1. /\ run[r].pc = "write" /\ run[r].pc \in Active
        /\ last' = r /\ UNCHANGED <<disk, owner>>
        /\ run'[r].pc = "stopped" /\ \A q \in Runs : q # r => run'[q] = run[q]
    BY <1>9, <1>t DEF StopInLedger, Goto, Active, Process
  <2>2. /\ owner = r /\ ~Glued(ledger) /\ HoldsPrefix(r) /\ run[r].entry = NextEntry(r)
        /\ Len(ledger) = run[r].next - 1 /\ run[r].next \in 1..Len(AppendCalls(r))
    BY <2>1, <1>p DEF Progress, Filling, Local
  <2>3. Len(ledger) < Len(AppendCalls(r))
    BY <2>2, PlanFacts
  <2>4. Solo' /\ \A q \in Runs : q # r => Progress(q)'
    BY <2>1, <1>s, OthersKeep
  <2>5. ~Written("summary", r)' /\ SummaryAttests'
    BY <2>1, WriterHasNoSummary
  <2>6. Progress(r)'
    BY <2>1, <2>5 DEF Progress, Settled, Filling
  <2>7. LedgerIsOwnersPrefix'
    <3>1. CASE ledger' = AddText(ledger, run[r].entry, FALSE)
      <4>1. HoldsPrefix(r)'
        BY <2>2, <2>3, <3>1, <1>t, WriteExtendsPrefix
      <4> QED
        BY <2>1, <2>2, <4>1 DEF LedgerIsOwnersPrefix, HoldsPrefix
    <3>2. CASE ledger' = AddText(ledger, Garbage, FALSE)
      <4>1. ~Readable(ledger')
        BY <3>2, <1>t, GarbageBreaks
      <4> QED
        BY <4>1 DEF LedgerIsOwnersPrefix
    <3> QED
      BY <1>9, <3>1, <3>2 DEF StopInLedger
  <2> QED
    BY <2>4, <2>5, <2>6, <2>7, <1>t DEF RunInv
<1>10. CASE UNCHANGED vars
  <2>1. UNCHANGED <<ledger, disk, run, last, owner>>
    BY <1>10 DEF vars
  <2>2. Solo' /\ \A r \in Runs : Progress(r)'
    BY <2>1, <1>p, SameLedger DEF RunInv, Solo, Progress, Written
  <2> QED
    BY <2>1, <2>2, <1>t, SameDirectory DEF RunInv
<1> QED
  BY <1>1, <1>2, <1>3, <1>4, <1>5, <1>6, <1>7, <1>8, <1>9, <1>10 DEF Next

LEMMA RunInvariance ==
    ASSUME ~Overlap
    PROVE  Spec => []RunInv
<1>1. RunInv /\ [Next]_vars => RunInv'
  BY RunStep
<1> QED
  BY <1>1, RunInit, PTL DEF Spec

(* For runs that follow one another a complete summary attests every artifact
   and the whole ledger, wherever earlier runs were cut short (campaign.py and
   verifier.py, run). *)
THEOREM SummaryIsTrue ==
    ASSUME ~Overlap
    PROVE  Spec => []SummaryAttests
<1>1. RunInv => SummaryAttests
  BY DEF RunInv
<1> QED
  BY <1>1, RunInvariance, PTL

(* For runs that follow one another a ledger that can be read is a prefix of
   the events of the run that emptied it (campaign.py and verifier.py, run). *)
THEOREM LedgerIsAPrefix ==
    ASSUME ~Overlap
    PROVE  Spec => []LedgerIsOwnersPrefix
<1>1. RunInv => LedgerIsOwnersPrefix
  BY DEF RunInv
<1> QED
  BY <1>1, RunInvariance, PTL

(* For runs that follow one another a ledger that is accepted holds the events
   of the run that accepts it, all of them and no other (campaign.py and
   verifier.py, run). *)
THEOREM AcceptedLedgerIsOwn ==
    ASSUME ~Overlap
    PROVE  Spec => AcceptsItsOwnLedger
<1>1. ASSUME RunInv, NEW r \in Runs, run[r].pc = "verify"
      PROVE  Events(ledger) = PlannedEvents(r)
  <2>1. /\ HoldsPrefix(r) /\ Len(ledger) = run[r].next - 1
        /\ run[r].next = Len(AppendCalls(r)) + 1
    BY <1>1 DEF RunInv, TypeInv, Progress, Filling, Local
  <2>2. PlannedEvents(r) \in Seq(Event) /\ Len(ledger) = Len(PlannedEvents(r))
    BY <2>1, PlanFacts
  <2>3. SubSeq(PlannedEvents(r), 1, Len(PlannedEvents(r))) = PlannedEvents(r)
    BY <2>2
  <2> QED
    BY <2>1, <2>2, <2>3 DEF HoldsPrefix
<1>2. RunInv => \A r \in Runs : run[r].pc = "verify" /\ run'[r].pc = "summary" =>
                    Events(ledger) = PlannedEvents(r)
  BY <1>1
<1> QED
  BY <1>2, RunInvariance, PTL DEF AcceptsItsOwnLedger
===============================================================================
