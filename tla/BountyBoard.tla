------------------------------ MODULE BountyBoard ------------------------------
(***************************************************************************)
(* The board, the report and the state file a bounty campaign keeps from    *)
(* run to run (bounty.py, BountyRunner.run) and the second half a run has   *)
(* when smart verification is configured (smart_verify.py,                  *)
(* SmartBountyRunner.run): it merges verification leads into the board and  *)
(* writes the same three files again.  Runs follow one another; a process   *)
(* can stop anywhere, in the middle of a write included.                    *)
(*                                                                          *)
(* Abstractions.  A lead is its id.  Reconnaissance, prioritization and     *)
(* verification are their outcome: a set of leads, or an exception.  Which  *)
(* leads come first on a board depends on their scores: any may.            *)
(***************************************************************************)
EXTENDS Naturals, FiniteSets

CONSTANTS
    Leads,
    MaxLeads,     \* max_leads of the manifest
    ReportSize,   \* leads a report has room for (50)
    MaxRuns,      \* bound: runs in a behaviour
    Faults,       \* FALSE: no run raises or stops
    Absent,       \* there is no such file
    Torn,         \* the text was cut, and no longer parses
    Undecodable   \* the text was cut inside a character

VARIABLES
    board,        \* bounty-board.json
    report,       \* bounty-report.md: leads listed, those marked NEW, and two counts
    state,        \* state.json
    run,          \* the run in progress, or the last one
    runs,         \* how many runs began
    announced,    \* history: leads a report that a run left behind marked NEW
    unlisted,     \* history: new leads a run saved that its report had no room for
    interrupted   \* history: some process stopped in the second half's writes

history == <<announced, unlisted, interrupted>>
vars == <<board, report, state, run, runs, history>>

Broken == {Absent, Torn, Undecodable}

Reports ==
    [listed : SUBSET Leads, new : SUBSET Leads, total : 0..MaxLeads, fresh : 0..MaxLeads]

ASSUME MarksAreNoContent ==
    (\A S \in SUBSET Leads : S \notin Broken) /\ (\A r \in Reports : r \notin Broken)

\* An id is a prefix and a digest of sixteen hexadecimal digits.
ASSUME LeadsAreFinite == IsFiniteSet(Leads)

ASSUME LimitsAccepted == MaxLeads \in Nat /\ ReportSize \in Nat /\ MaxRuns \in Nat

\* _previous_ids: a file that does not parse counts as none; a decoding error
\* is not caught and leaves run().
PreviousIds == IF state \in Broken THEN {} ELSE state

Ended == {"new", "done", "failed"}
Writing == {"board", "report", "state"}

Uncut(S) == {S}       \* a faulty Cuts: the merged list is not cut again

\* [:n] of a sorted list, for any order of the scores.
FirstOf(S, n) ==
    IF Cardinality(S) <= n
    THEN {S}
    ELSE {T \in SUBSET S : Cardinality(T) = n}

\* _dedupe_leads(...)[:max_leads].
Cuts(S) == FirstOf(S, MaxLeads)

TypeOK ==
    /\ board \in Broken \cup SUBSET Leads
    /\ report \in Broken \cup Reports
    /\ state \in Broken \cup SUBSET Leads
    /\ run \in [pc : Ended \cup Writing \cup {"recon", "verify"}, half : {"base", "smart"},
                smart : BOOLEAN, before : SUBSET Leads, leads : SUBSET Leads,
                new : SUBSET Leads]
    /\ Cardinality(run.leads) <= MaxLeads
    /\ runs \in 0..MaxRuns
    /\ announced \in SUBSET Leads
    /\ unlisted \in SUBSET Leads
    /\ interrupted \in BOOLEAN

Init ==
    /\ board = Absent /\ report = Absent /\ state = Absent
    /\ run = [pc |-> "new", half |-> "base", smart |-> FALSE,
              before |-> {}, leads |-> {}, new |-> {}]
    /\ runs = 0
    /\ announced = {} /\ unlisted = {}
    /\ interrupted = FALSE

\* What a run that ends here leaves for the reader, and the new leads among those
\* it saved that the reader is not shown.
LeaveReport(left, saved) ==
    /\ announced' = announced \cup (IF left \in Broken THEN {} ELSE left.new)
    /\ unlisted' = unlisted \cup (IF left \in Broken THEN {} ELSE saved \ left.listed)

\* Between its halves a run has saved what it found new.
SavedSoFar == IF run.pc = "verify" THEN run.new ELSE {}

\* SmartBountyRunner.run reads the state before the base run can change it.
Begin(smart) ==
    /\ run.pc \in Ended
    /\ runs < MaxRuns
    /\ runs' = runs + 1
    /\ run' = [pc |-> IF state = Undecodable THEN "failed" ELSE "recon",
               half |-> "base", smart |-> smart,
               before |-> PreviousIds, leads |-> {}, new |-> {}]
    /\ UNCHANGED <<board, report, state, history>>

\* BountyRunner.run up to the first write; it reads the state for itself.
Recon ==
    /\ run.pc = "recon"
    /\ \E found \in SUBSET Leads : \E leads \in Cuts(found) :
        run' = [run EXCEPT !.pc = "board", !.leads = leads, !.new = leads \ PreviousIds]
    /\ UNCHANGED <<board, report, state, runs, history>>

\* A faulty WriteBoard: the state is saved first.
WriteBoardAndState ==
    /\ run.pc = "board"
    /\ board' = run.leads
    /\ state' = run.leads
    /\ run' = [run EXCEPT !.pc = "report"]
    /\ UNCHANGED <<report, runs, history>>

WriteBoard ==
    /\ run.pc = "board"
    /\ board' = run.leads
    /\ run' = [run EXCEPT !.pc = "report"]
    /\ UNCHANGED <<report, state, runs, history>>

\* _report counts the leads and the new ones, and lists the first ReportSize.
WriteReport ==
    /\ run.pc = "report"
    /\ \E listed \in FirstOf(run.leads, ReportSize) :
        report' = [listed |-> listed, new |-> listed \cap run.new,
                   total |-> Cardinality(run.leads), fresh |-> Cardinality(run.new)]
    /\ run' = [run EXCEPT !.pc = "state"]
    /\ UNCHANGED <<board, state, runs, history>>

WriteState ==
    /\ run.pc = "state"
    /\ state' = run.leads
    /\ IF run.smart /\ run.half = "base"
       THEN run' = [run EXCEPT !.pc = "verify"] /\ UNCHANGED <<announced, unlisted>>
       ELSE run' = [run EXCEPT !.pc = "done"] /\ LeaveReport(report, run.new)
    /\ UNCHANGED <<board, report, runs, interrupted>>

\* A faulty Verify: what is new is taken from the state the base run just wrote.
VerifyAgainstOwnState ==
    /\ run.pc = "verify"
    /\ \E found \in SUBSET Leads : \E leads \in Cuts(board \cup found) :
        run' = [run EXCEPT !.pc = "board", !.half = "smart", !.leads = leads,
                           !.new = leads \ PreviousIds]
    /\ UNCHANGED <<board, report, state, runs, history>>

\* The verification ran; its leads join those read back from the board.
Verify ==
    /\ run.pc = "verify"
    /\ \E found \in SUBSET Leads : \E leads \in Cuts(board \cup found) :
        run' = [run EXCEPT !.pc = "board", !.half = "smart", !.leads = leads,
                           !.new = leads \ run.before]
    /\ UNCHANGED <<board, report, state, runs, history>>

\* The pipeline, a missing input or the verification raises.
Raise ==
    /\ Faults
    /\ run.pc \in {"recon", "verify"}
    /\ run' = [run EXCEPT !.pc = "failed"]
    /\ LeaveReport(report, SavedSoFar)
    /\ UNCHANGED <<board, report, state, runs, interrupted>>

\* The process stops between two steps.
Stop ==
    /\ Faults
    /\ run.pc \notin Ended
    /\ run' = [run EXCEPT !.pc = "failed"]
    /\ LeaveReport(report, SavedSoFar)
    /\ interrupted' = (interrupted \/ (run.half = "smart" /\ run.pc \in Writing))
    /\ UNCHANGED <<board, report, state, runs>>

\* The process stops inside a write.
StopInWrite ==
    /\ Faults
    /\ run.pc \in Writing
    /\ \E mark \in {Torn, Undecodable} :
        /\ board'  = IF run.pc = "board"  THEN mark ELSE board
        /\ report' = IF run.pc = "report" THEN mark ELSE report
        /\ state'  = IF run.pc = "state"  THEN mark ELSE state
    /\ run' = [run EXCEPT !.pc = "failed"]
    /\ LeaveReport(report', {})
    /\ interrupted' = (interrupted \/ run.half = "smart")
    /\ UNCHANGED runs

Next ==
    \/ \E smart \in BOOLEAN : Begin(smart)
    \/ Recon \/ WriteBoard \/ WriteReport \/ WriteState
    \/ Verify \/ Raise \/ Stop \/ StopInWrite

Spec == Init /\ [][Next]_vars
-------------------------------------------------------------------------------
(* When a run is done, its three files tell the same story: board and state hold
   the same leads, the report lists those of them it has room for and counts them
   all, and NEW are exactly those that the state file did not have when the run
   began, although the first half of a smart run already saved its own leads
   there (bounty.py:311-335 and 596-608, smart_verify.py:254 and 379-410). *)
DoneRunAgrees ==
    run.pc = "done" =>
        /\ board = run.leads /\ state = board
        /\ report.listed \in FirstOf(board, ReportSize)
        /\ report.new = report.listed \ run.before
        /\ report.total = Cardinality(board)
        /\ report.fresh = Cardinality(board \ run.before)

(* A lead is passed off as seen only if a report announced it, or had no room for
   it: the state file is written after the report it belongs to, but it holds the
   whole board, and of a board with more than ReportSize leads the rest is never
   shown.  Only a stop in the second round of writes loses another announcement
   (bounty.py:321-335 and 604, smart_verify.py:388-410). *)
SeenWasAnnounced ==
    run.pc \in Ended /\ report \notin Broken /\ ~interrupted =>
        report.listed \ report.new \subseteq announced \cup unlisted

(* A lead that was announced is not announced again: state.json holds "stable
   lead IDs used to distinguish new results from previously seen ones"
   (docs/BOUNTY_AUTOPILOT.md:66). *)
AnnouncedOnce ==
    [][run.pc # "done" /\ run'.pc = "done" => report.new \cap announced = {}]_vars
===============================================================================
