----------------------------- MODULE RunArtifacts -----------------------------
(***************************************************************************)
(* How CampaignRunner.run (campaign.py) and VerificationRunner.run         *)
(* (verifier.py) put a result on disk: analysis first, then the artifacts  *)
(* one after the other, then the ledger (emptied, filled event by event,   *)
(* verified), and the summary last.  Each run is a process; several may    *)
(* use one output directory, and a process can stop anywhere, in the       *)
(* middle of a write included.                                             *)
(*                                                                         *)
(* Abstractions.  A file's contents are who wrote it and whether the text  *)
(* is complete; an artifact written to the end is one step.  The analysis  *)
(* itself (engines, fusion) is its outcome: the ranked candidates, or an   *)
(* exception.                                                              *)
(***************************************************************************)
EXTENDS LedgerFile, TLC

CONSTANTS
    Runs,        \* the processes
    Runner,      \* Runner[r] \in {"campaign", "verification"}
    Ranked,      \* Ranked[r]: the candidates analysis finds, ranked
    Overlap,     \* TRUE: runs may overlap in time; FALSE: one after the other
    Nobody

VARIABLES
    ledger,      \* evidence-ledger.jsonl
    disk,        \* the other files of the output directory
    run,         \* per process: where it is in run()
    last,        \* history: the last process that wrote to the directory
    owner        \* history: the last process that emptied the ledger

vars == <<ledger, disk, run, last, owner>>

\* Files written before the ledger, in this order.
CampaignArtifacts == <<"report", "candidates", "test_plan", "sarif">>
VerificationArtifacts == <<"report", "findings", "evidence", "plan", "sarif">>

Artifacts(r) ==
    IF Runner[r] = "campaign" THEN CampaignArtifacts ELSE VerificationArtifacts

FileNames ==
    {"report", "candidates", "test_plan", "sarif", "findings", "evidence", "plan", "summary"}

\* The arguments of the append() calls, in order.
CampaignCalls(r) ==
    <<[kind |-> "campaign-start", payload |-> "campaign" :> r]>> \o
    [i \in 1..Len(Ranked[r]) |-> [kind |-> "candidate", payload |-> "id" :> Ranked[r][i]]]

VerificationCalls(r) ==
    <<[kind |-> "verification-start", payload |-> "campaign" :> r]>> \o
    [i \in 1..Len(Ranked[r]) |->
        [kind |-> "verified-candidate", payload |-> "id" :> Ranked[r][i]]]

AppendCalls(r) ==
    IF Runner[r] = "campaign" THEN CampaignCalls(r) ELSE VerificationCalls(r)

\* Every run records its start, whatever it found.
ASSUME RunsAssumption ==
    /\ Nobody \notin Runs
    /\ \A r \in Runs : AppendCalls(r) \in Seq([kind : Kinds, payload : Payloads]) \ {<<>>}

OneCallLeft(r, n) == n + 1 >= Len(AppendCalls(r))       \* a faulty LastCall

LastCall(r, n) == n = Len(AppendCalls(r))

OneArtifactLeft(r, i) == i + 1 = Len(Artifacts(r))     \* a faulty LastArtifact

LastArtifact(r, i) == i = Len(Artifacts(r))

\* What the ledger of r should hold when r is done.
PlannedEvents(r) ==
    [i \in 1..Len(AppendCalls(r)) |->
        [kind |-> AppendCalls(r)[i].kind, payload |-> Redact(AppendCalls(r)[i].payload)]]

Absent == [by |-> Nobody, whole |-> FALSE]

Active == {"analyse", "artifacts", "reset", "read", "write", "verify", "summary"}
Ended  == {"done", "raised", "stopped"}

NoEntry == <<>>

TypeOK ==
    /\ ledger \in Seq(Line)
    /\ disk \in [FileNames -> [by : Runs \cup {Nobody}, whole : BOOLEAN]]
    /\ run \in [Runs -> [pc : Active \cup Ended \cup {"new"}, next : Nat,
                         entry : LedgerEntry \cup {NoEntry}]]
    /\ last \in Runs \cup {Nobody}
    /\ owner \in Runs \cup {Nobody}

Init ==
    /\ ledger = <<>>
    /\ disk = [f \in FileNames |-> Absent]
    /\ run = [r \in Runs |-> [pc |-> "new", next |-> 1, entry |-> NoEntry]]
    /\ last = Nobody
    /\ owner = Nobody

Goto(r, pc) == run' = [run EXCEPT ![r].pc = pc]

Begin(r) ==
    /\ run[r].pc = "new"
    /\ Overlap \/ \A q \in Runs : run[q].pc \notin Active
    /\ Goto(r, "analyse")
    /\ UNCHANGED <<ledger, disk, last, owner>>

\* Inputs are read, requests sent, engines run: nothing is on disk before the
\* last of them succeeded.
Analyse(r) ==
    /\ run[r].pc = "analyse"
    /\ Goto(r, "artifacts")
    /\ UNCHANGED <<ledger, disk, last, owner>>

AnalysisRaises(r) ==
    /\ run[r].pc = "analyse"
    /\ Goto(r, "raised")
    /\ UNCHANGED <<ledger, disk, last, owner>>

WriteArtifact(r) ==
    /\ run[r].pc = "artifacts"
    /\ LET i == run[r].next IN
       /\ disk' = [disk EXCEPT ![Artifacts(r)[i]] = [by |-> r, whole |-> TRUE]]
       /\ run' = [run EXCEPT ![r] =
            IF LastArtifact(r, i)
            THEN [pc |-> "reset", next |-> 1, entry |-> NoEntry]
            ELSE [@ EXCEPT !.next = i + 1]]
    /\ last' = r
    /\ UNCHANGED <<ledger, owner>>

\* A faulty ResetLedger: an older ledger is continued.
ContinueLedger(r) ==
    /\ run[r].pc = "reset"
    /\ last' = r
    /\ owner' = r
    /\ Goto(r, "read")
    /\ UNCHANGED <<ledger, disk>>

\* "A run owns its ledger file."
ResetLedger(r) ==
    /\ run[r].pc = "reset"
    /\ ledger' = <<>>
    /\ last' = r
    /\ owner' = r
    /\ Goto(r, "read")
    /\ UNCHANGED disk

\* append(), first half; entries() raises on a line that does not parse.
ReadLedger(r) ==
    /\ run[r].pc = "read"
    /\ LET call == AppendCalls(r)[run[r].next] IN
       IF Readable(ledger)
       THEN run' = [run EXCEPT ![r].pc = "write",
                               ![r].entry = NewEntry(Entries(ledger), call.kind, call.payload)]
       ELSE Goto(r, "raised")
    /\ UNCHANGED <<ledger, disk, last, owner>>

\* append(), second half; after the last event the ledger is verified.
AppendLine(r) ==
    /\ run[r].pc = "write"
    /\ ledger' = AddText(ledger, run[r].entry, TRUE)
    /\ last' = r
    /\ run' = [run EXCEPT ![r] =
            [pc    |-> IF LastCall(r, run[r].next) THEN "verify" ELSE "read",
             next  |-> run[r].next + 1,
             entry |-> NoEntry]]
    /\ UNCHANGED <<disk, owner>>

VerifyLedger(r) ==
    /\ run[r].pc = "verify"
    /\ Goto(r, IF Verifies(ledger) THEN "summary" ELSE "raised")
    /\ UNCHANGED <<ledger, disk, last, owner>>

WriteSummary(r) ==
    /\ run[r].pc = "summary"
    /\ disk' = [disk EXCEPT !["summary"] = [by |-> r, whole |-> TRUE]]
    /\ last' = r
    /\ Goto(r, "done")
    /\ UNCHANGED <<ledger, owner>>

\* The process stops between two steps.
Stop(r) ==
    /\ run[r].pc \in Active
    /\ Goto(r, "stopped")
    /\ UNCHANGED <<ledger, disk, last, owner>>

\* The process stops inside write_text: the old text is gone, the new one cut.
StopInArtifact(r) ==
    /\ run[r].pc \in {"artifacts", "summary"}
    /\ LET f == IF run[r].pc = "summary" THEN "summary" ELSE Artifacts(r)[run[r].next] IN
       disk' = [disk EXCEPT ![f] = [by |-> r, whole |-> FALSE]]
    /\ last' = r
    /\ Goto(r, "stopped")
    /\ UNCHANGED <<ledger, owner>>

\* The process stops inside append()'s write.
StopInLedger(r) ==
    /\ run[r].pc = "write"
    /\ \E text \in {run[r].entry, Garbage} : ledger' = AddText(ledger, text, FALSE)
    /\ last' = r
    /\ Goto(r, "stopped")
    /\ UNCHANGED <<disk, owner>>

Next ==
    \E r \in Runs :
        \/ Begin(r) \/ Analyse(r) \/ AnalysisRaises(r)
        \/ WriteArtifact(r) \/ ResetLedger(r)
        \/ ReadLedger(r) \/ AppendLine(r) \/ VerifyLedger(r) \/ WriteSummary(r)
        \/ Stop(r) \/ StopInArtifact(r) \/ StopInLedger(r)

Spec == Init /\ [][Next]_vars

-------------------------------------------------------------------------------
Written(f, r) == disk[f] = [by |-> r, whole |-> TRUE]

(* A complete summary attests the whole directory: as long as no later run
   wrote there, every artifact of its run is complete and the ledger verifies
   and holds exactly the run's events.  It relies on the order of the writes
   and on the emptied ledger (campaign.py and verifier.py, run). *)
SummaryAttests ==
    \A r \in Runs : Written("summary", r) /\ last = r =>
        /\ \A i \in 1..Len(Artifacts(r)) : Written(Artifacts(r)[i], r)
        /\ Verifies(ledger)
        /\ Events(ledger) = PlannedEvents(r)

(* What a run leaves in the ledger wherever it is cut short, and whatever
   earlier runs left there: a readable ledger verifies and is a prefix of the
   events of the run that emptied it last (campaign.py and verifier.py, run). *)
LedgerIsOwnersPrefix ==
    owner # Nobody /\ Readable(ledger) =>
        /\ Verifies(ledger)
        /\ Len(ledger) <= Len(PlannedEvents(owner))
        /\ Events(ledger) = SubSeq(PlannedEvents(owner), 1, Len(ledger))

(* When a run accepts its ledger, the ledger holds that run's events, all of
   them and no other (campaign.py and verifier.py, run). *)
AcceptsItsOwnLedger ==
    [][\A r \in Runs :
        run[r].pc = "verify" /\ run'[r].pc = "summary" =>
            Events(ledger) = PlannedEvents(r)]_vars

(* A ledger a run accepts mixes in no event of another run: "Rebuilding it
   avoids silently mixing two campaigns" (campaign.py:213-214). *)
NeverMixesCampaigns ==
    [][\A r \in Runs :
        run[r].pc = "verify" /\ run'[r].pc = "summary" =>
            \A i \in 1..Len(ledger) : \E j \in 1..Len(PlannedEvents(r)) :
                Events(ledger)[i] = PlannedEvents(r)[j]]_vars
===============================================================================
