--------------------------- MODULE BountyBoardProofs ---------------------------
(***************************************************************************)
(* Proofs about BountyBoard: what the three files of a campaign say of one  *)
(* another, for any leads, any number of runs and any fault.                *)
(***************************************************************************)
EXTENDS BountyBoard, FiniteSetTheorems, TLAPS

USE MarksAreNoContent, LimitsAccepted

(* The first of some leads are of them, and no more than there is room for
   (bounty.py, the slices of the board and of the report). *)
LEMMA FirstAreLeads ==
    ASSUME NEW S \in SUBSET Leads, NEW n \in Nat, NEW T \in FirstOf(S, n)
    PROVE  T \in SUBSET S /\ Cardinality(T) <= n
  BY DEF FirstOf

LEMMA CutsAreLeads ==
    ASSUME NEW S \in SUBSET Leads, NEW T \in Cuts(S)
    PROVE  T \in SUBSET Leads /\ Cardinality(T) <= MaxLeads
  BY FirstAreLeads DEF Cuts

(* A part of some leads counts no more than they do. *)
LEMMA PartsCountLess ==
    ASSUME NEW S \in SUBSET Leads, NEW T \in SUBSET S
    PROVE  /\ Cardinality(S) \in Nat /\ Cardinality(T) \in Nat
           /\ Cardinality(T) <= Cardinality(S)
<1>1. IsFiniteSet(S)
  BY LeadsAreFinite, FS_Subset
<1> QED
  BY <1>1, FS_Subset, FS_CardinalityType

(* A report in one piece is one of leads. *)
LEMMA WholeReport ==
    ASSUME TypeOK, report \notin Broken
    PROVE  report \in Reports
  BY DEF TypeOK

LEMMA PreviousAreLeads == TypeOK => PreviousIds \in SUBSET Leads
  BY DEF TypeOK, PreviousIds

-------------------------------------------------------------------------------
(* How far the writes of the run in progress have come, and what it was told
   to compare with. *)

IsOwn(r) ==
    /\ r.listed \in FirstOf(run.leads, ReportSize)
    /\ r.new = r.listed \cap run.new
    /\ r.total = Cardinality(run.leads) /\ r.fresh = Cardinality(run.new)

WritesInOrder ==
    /\ run.pc = "recon" => run.before = PreviousIds /\ run.half = "base"
    /\ run.pc \in Writing \cup {"verify", "done"} => run.new = run.leads \ run.before
    /\ run.pc \in {"report", "state", "verify", "done"} => board = run.leads
    /\ run.pc \in {"state", "verify", "done"} => report \in Reports /\ IsOwn(report)
    /\ run.pc \in {"verify", "done"} => state = run.leads

\* Before the run wrote its first state, that file is the one it began with.
StateIsOld == run.half = "base" /\ run.pc \in {"recon"} \cup Writing

Known == announced \cup unlisted

(* Nothing is called seen that was not announced, or left out for want of room: the
   reports say so, and what the state file will make the next run say is known as
   soon as the run ends. *)
Announced ==
    ~interrupted =>
        /\ run.before \subseteq Known
        /\ run.pc \in Ended \/ StateIsOld => PreviousIds \subseteq Known
        /\ report \notin Broken => report.listed \ report.new \subseteq Known

(* Where a report has room for the whole board, none is left out. *)
RoomForAll == MaxLeads <= ReportSize => unlisted = {}

BoardInv == TypeOK /\ WritesInOrder /\ Announced /\ RoomForAll

LEMMA InitBoard == Init => BoardInv
<1> SUFFICES ASSUME Init PROVE BoardInv
  OBVIOUS
<1>0. Cardinality({}) = 0
  BY FS_EmptySet
<1>1. TypeOK
  <2>1. /\ board \in Broken /\ report \in Broken /\ state \in Broken
        /\ runs = 0 /\ announced = {} /\ unlisted = {} /\ interrupted = FALSE
    BY DEF Init, Broken
  <2>2. /\ run.leads = {}
        /\ run \in [pc : Ended \cup Writing \cup {"recon", "verify"}, half : {"base", "smart"},
                   smart : BOOLEAN, before : SUBSET Leads, leads : SUBSET Leads,
                   new : SUBSET Leads]
    BY DEF Init, Ended
  <2>3. Cardinality(run.leads) <= MaxLeads
    BY <1>0, <2>2
  <2>4. runs \in 0..MaxRuns
    BY <2>1
  <2>5. announced \in SUBSET Leads /\ unlisted \in SUBSET Leads /\ interrupted \in BOOLEAN
    BY <2>1, Zenon
  <2>6. /\ board \in Broken \cup SUBSET Leads /\ state \in Broken \cup SUBSET Leads
        /\ report \in Broken \cup Reports
    BY <2>1
  <2> QED
    BY <2>2, <2>3, <2>4, <2>5, <2>6, Zenon DEF TypeOK
<1>2. WritesInOrder /\ Announced /\ RoomForAll
  BY DEF Init, WritesInOrder, Announced, RoomForAll, PreviousIds, Broken, Writing
<1> QED
  BY <1>1, <1>2 DEF BoardInv

LEMMA BeginKeeps ==
    ASSUME BoardInv, NEW smart \in BOOLEAN, Begin(smart)
    PROVE  BoardInv'
<1>1. /\ run.pc \in Ended /\ PreviousIds \in SUBSET Leads
      /\ runs' = runs + 1 /\ runs < MaxRuns
      /\ run' = [pc |-> IF state = Undecodable THEN "failed" ELSE "recon",
                 half |-> "base", smart |-> smart,
                 before |-> PreviousIds, leads |-> {}, new |-> {}]
      /\ UNCHANGED <<board, report, state, announced, unlisted, interrupted>>
  BY PreviousAreLeads DEF Begin, BoardInv, history
<1>2. TypeOK'
  BY <1>1, FS_EmptySet DEF BoardInv, TypeOK, Ended
<1>3. PreviousIds' = PreviousIds
  BY <1>1 DEF PreviousIds
<1>4. WritesInOrder'
  BY <1>1, <1>3 DEF WritesInOrder, Writing
<1>5. Announced' /\ RoomForAll'
  BY <1>1, <1>3 DEF BoardInv, Announced, Known, StateIsOld, RoomForAll
<1> QED
  BY <1>2, <1>4, <1>5 DEF BoardInv

LEMMA ReconKeeps ==
    ASSUME BoardInv, Recon
    PROVE  BoardInv'
<1>1. PICK found \in SUBSET Leads : \E leads \in Cuts(found) :
        run' = [run EXCEPT !.pc = "board", !.leads = leads, !.new = leads \ PreviousIds]
  BY DEF Recon
<1>2. PICK leads \in Cuts(found) :
        run' = [run EXCEPT !.pc = "board", !.leads = leads, !.new = leads \ PreviousIds]
  BY <1>1
<1>3. leads \in SUBSET Leads /\ Cardinality(leads) <= MaxLeads
  BY CutsAreLeads
<1>4. run.pc = "recon" /\ UNCHANGED <<board, report, state, runs, announced, unlisted, interrupted>>
  BY DEF Recon, history
<1>5. TypeOK'
  BY <1>2, <1>3, <1>4 DEF BoardInv, TypeOK, Writing
<1>6. PreviousIds' = PreviousIds
  BY <1>4 DEF PreviousIds
<1>7. /\ run' \in [pc : {"board"}, half : {run.half}, smart : {run.smart}, before : {run.before},
                   leads : {leads}, new : {leads \ PreviousIds}]
  BY <1>2 DEF BoardInv, TypeOK
<1>8. WritesInOrder'
  BY <1>4, <1>7 DEF BoardInv, WritesInOrder, Writing
<1>9. Announced' /\ RoomForAll'
  BY <1>4, <1>6, <1>7
  DEF BoardInv, WritesInOrder, Announced, Known, StateIsOld, RoomForAll, Ended, Writing
<1> QED
  BY <1>5, <1>8, <1>9 DEF BoardInv

LEMMA WriteBoardKeeps ==
    ASSUME BoardInv, WriteBoard
    PROVE  BoardInv'
<1>1. /\ run.pc = "board" /\ board' = run.leads /\ run' = [run EXCEPT !.pc = "report"]
      /\ UNCHANGED <<report, state, runs, announced, unlisted, interrupted>>
  BY DEF WriteBoard, history
<1>2. TypeOK'
  BY <1>1 DEF BoardInv, TypeOK, Writing
<1>3. run' \in [pc : {"report"}, half : {run.half}, smart : {run.smart}, before : {run.before},
                leads : {run.leads}, new : {run.new}]
  BY <1>1 DEF BoardInv, TypeOK
<1>4. WritesInOrder'
  BY <1>1, <1>3 DEF BoardInv, WritesInOrder, Writing
<1>5. PreviousIds' = PreviousIds
  BY <1>1 DEF PreviousIds
<1>6. Announced' /\ RoomForAll'
  BY <1>1, <1>3, <1>5
  DEF BoardInv, WritesInOrder, Announced, Known, StateIsOld, RoomForAll, Ended, Writing
<1> QED
  BY <1>2, <1>4, <1>6 DEF BoardInv

(* What a run's own report says: the leads it lists are the run's, those it leaves
   unmarked the run found in the state file, and where it has room for a whole board
   it lists all of them. *)
LEMMA OwnReportFacts ==
    ASSUME BoardInv, run.pc \in Writing \cup {"verify", "done"}, NEW r, IsOwn(r)
    PROVE  /\ r.listed \subseteq run.leads
           /\ r.new = r.listed \ run.before
           /\ r.total \in 0..MaxLeads /\ r.fresh \in 0..MaxLeads
           /\ run.leads \subseteq run.before \cup r.new \cup (run.new \ r.listed)
           /\ MaxLeads <= ReportSize => r.listed = run.leads
<1>1. /\ run.leads \in SUBSET Leads /\ Cardinality(run.leads) <= MaxLeads
      /\ run.new = run.leads \ run.before
  BY DEF BoardInv, TypeOK, WritesInOrder
<1>2. /\ Cardinality(run.leads) \in Nat /\ Cardinality(run.new) \in Nat
      /\ Cardinality(run.new) <= Cardinality(run.leads)
  BY <1>1, PartsCountLess
<1>3. r.listed \subseteq run.leads
  BY <1>1, FirstAreLeads DEF IsOwn
<1>4. r.total \in 0..MaxLeads /\ r.fresh \in 0..MaxLeads
  BY <1>1, <1>2 DEF IsOwn
<1>5. MaxLeads <= ReportSize => r.listed = run.leads
  BY <1>1, <1>2 DEF IsOwn, FirstOf
<1>6. r.new = r.listed \ run.before
  BY <1>1, <1>3 DEF IsOwn
<1> QED
  BY <1>1, <1>3, <1>4, <1>5, <1>6

LEMMA WriteReportKeeps ==
    ASSUME BoardInv, WriteReport
    PROVE  BoardInv'
<1>1. /\ run.pc = "report" /\ run' = [run EXCEPT !.pc = "state"]
      /\ UNCHANGED <<board, state, runs, announced, unlisted, interrupted>>
  BY DEF WriteReport, history
<1>2. PICK listed \in FirstOf(run.leads, ReportSize) :
        report' = [listed |-> listed, new |-> listed \cap run.new,
                   total |-> Cardinality(run.leads), fresh |-> Cardinality(run.new)]
  BY DEF WriteReport
<1>3. IsOwn(report')
  BY <1>2 DEF IsOwn
<1>4. /\ report'.listed \subseteq run.leads
      /\ report'.new = report'.listed \ run.before
      /\ report'.total \in 0..MaxLeads /\ report'.fresh \in 0..MaxLeads
  BY <1>1, <1>3, OwnReportFacts DEF Writing
<1>5. report' \in Reports
  BY <1>2, <1>4 DEF Reports, BoardInv, TypeOK
<1>6. TypeOK'
  BY <1>1, <1>5 DEF BoardInv, TypeOK, Writing
<1>7. run' \in [pc : {"state"}, half : {run.half}, smart : {run.smart}, before : {run.before},
                leads : {run.leads}, new : {run.new}]
  BY <1>1 DEF BoardInv, TypeOK
<1>8. WritesInOrder'
  BY <1>1, <1>3, <1>5, <1>7 DEF BoardInv, WritesInOrder, Writing, IsOwn
<1>9. PreviousIds' = PreviousIds
  BY <1>1 DEF PreviousIds
<1>10. Announced' /\ RoomForAll'
  BY <1>1, <1>4, <1>7, <1>9
  DEF BoardInv, Announced, Known, StateIsOld, RoomForAll, Ended, Writing
<1> QED
  BY <1>6, <1>8, <1>10 DEF BoardInv

LEMMA WriteStateKeeps ==
    ASSUME BoardInv, WriteState
    PROVE  BoardInv'
<1>1. /\ run.pc = "state" /\ state' = run.leads
      /\ UNCHANGED <<board, report, runs, interrupted>>
  BY DEF WriteState
<1>2. report \in Reports /\ IsOwn(report) /\ report \notin Broken
  BY <1>1 DEF BoardInv, WritesInOrder
<1>3. /\ report.listed \subseteq run.leads
      /\ report.new = report.listed \ run.before
      /\ run.leads \subseteq run.before \cup report.new \cup (run.new \ report.listed)
      /\ MaxLeads <= ReportSize => report.listed = run.leads
  BY <1>1, <1>2, OwnReportFacts DEF Writing
<1>4. PreviousIds' = run.leads
  BY <1>1 DEF PreviousIds, BoardInv, TypeOK, Broken
<1>5. CASE run.smart /\ run.half = "base"
  <2>1. run' = [run EXCEPT !.pc = "verify"] /\ announced' = announced /\ unlisted' = unlisted
    BY <1>5 DEF WriteState
  <2>2. TypeOK'
    BY <1>1, <2>1 DEF BoardInv, TypeOK, Writing
  <2>3. run' \in [pc : {"verify"}, half : {run.half}, smart : {run.smart}, before : {run.before},
                  leads : {run.leads}, new : {run.new}]
    BY <2>1 DEF BoardInv, TypeOK
  <2>4. WritesInOrder'
    BY <1>1, <1>2, <2>3 DEF BoardInv, WritesInOrder, Writing, IsOwn
  <2>5. Announced' /\ RoomForAll'
    BY <1>1, <1>3, <2>1, <2>3
    DEF BoardInv, Announced, Known, StateIsOld, RoomForAll, Ended, Writing
  <2> QED
    BY <2>2, <2>4, <2>5 DEF BoardInv
<1>6. CASE ~(run.smart /\ run.half = "base")
  <2>1. /\ run' = [run EXCEPT !.pc = "done"]
        /\ announced' = announced \cup report.new
        /\ unlisted' = unlisted \cup (run.new \ report.listed)
    BY <1>2, <1>6 DEF WriteState, LeaveReport
  <2>2. TypeOK'
    BY <1>1, <1>2, <2>1 DEF BoardInv, TypeOK, Ended, Reports
  <2>3. run' \in [pc : {"done"}, half : {run.half}, smart : {run.smart}, before : {run.before},
                  leads : {run.leads}, new : {run.new}]
    BY <2>1 DEF BoardInv, TypeOK
  <2>4. WritesInOrder'
    BY <1>1, <1>2, <2>3 DEF BoardInv, WritesInOrder, Writing, IsOwn
  <2>5. Announced'
    BY <1>1, <1>3, <1>4, <2>1, <2>3 DEF BoardInv, Announced, Known
  <2>6. RoomForAll'
    <3>1. run.new \subseteq run.leads
      BY <1>1 DEF BoardInv, WritesInOrder, Writing
    <3> QED
      BY <1>3, <2>1, <3>1 DEF BoardInv, RoomForAll
  <2> QED
    BY <2>2, <2>4, <2>5, <2>6 DEF BoardInv
<1> QED
  BY <1>5, <1>6

LEMMA VerifyKeeps ==
    ASSUME BoardInv, Verify
    PROVE  BoardInv'
<1>1. /\ run.pc = "verify" /\ board \in SUBSET Leads
      /\ UNCHANGED <<board, report, state, runs, announced, unlisted, interrupted>>
  BY DEF Verify, BoardInv, TypeOK, WritesInOrder, history
<1>2. PICK found \in SUBSET Leads : \E leads \in Cuts(board \cup found) :
        run' = [run EXCEPT !.pc = "board", !.half = "smart", !.leads = leads,
                           !.new = leads \ run.before]
  BY DEF Verify
<1>3. PICK leads \in Cuts(board \cup found) :
        run' = [run EXCEPT !.pc = "board", !.half = "smart", !.leads = leads,
                           !.new = leads \ run.before]
  BY <1>2
<1>4. board \cup found \in SUBSET Leads
  BY <1>1
<1>5. leads \in SUBSET Leads /\ Cardinality(leads) <= MaxLeads
  BY <1>4, CutsAreLeads
<1>6. TypeOK'
  BY <1>1, <1>3, <1>5 DEF BoardInv, TypeOK, Writing
<1>7. run' \in [pc : {"board"}, half : {"smart"}, smart : {run.smart}, before : {run.before},
                leads : {leads}, new : {leads \ run.before}]
  BY <1>3 DEF BoardInv, TypeOK
<1>8. PreviousIds' = PreviousIds
  BY <1>1 DEF PreviousIds
<1>9. WritesInOrder'
  BY <1>7 DEF WritesInOrder, Writing
<1>10. Announced' /\ RoomForAll'
  BY <1>1, <1>7 DEF BoardInv, Announced, Known, StateIsOld, RoomForAll, Ended, Writing
<1> QED
  BY <1>6, <1>9, <1>10 DEF BoardInv

(* A run that ends, whatever ended it, unless in the second half's writes: all
   its state file holds was known before, is announced by the report it leaves, or
   had no room there. *)
LEMMA EndKeeps ==
    ASSUME BoardInv, run.pc \notin Ended,
           run' = [run EXCEPT !.pc = "failed"],
           runs' = runs, board' \in Broken \cup SUBSET Leads,
           report' = report \/ report' \in Broken,
           state' = state \/ state' \in Broken,
           announced' = announced \cup (IF report' \in Broken THEN {} ELSE report'.new),
           unlisted' = unlisted \cup
                (IF report' \in Broken THEN {} ELSE SavedSoFar \ report'.listed),
           interrupted' \in BOOLEAN,
           interrupted => interrupted',
           run.half = "smart" /\ run.pc \in Writing => interrupted',
           run.pc = "verify" => report' = report
    PROVE  BoardInv'
<1>1. run' \in [pc : {"failed"}, half : {run.half}, smart : {run.smart}, before : {run.before},
                leads : {run.leads}, new : {run.new}]
  BY DEF BoardInv, TypeOK
<1>2. /\ announced' \in SUBSET Leads /\ announced \subseteq announced'
      /\ unlisted' \in SUBSET Leads /\ unlisted \subseteq unlisted'
      /\ Known \subseteq Known'
  <2>1. report' \notin Broken => report' \in Reports
    BY DEF BoardInv, TypeOK
  <2>2. SavedSoFar \in SUBSET Leads
    BY DEF SavedSoFar, BoardInv, TypeOK
  <2> QED
    BY <2>1, <2>2 DEF BoardInv, TypeOK, Reports, Known
<1>3. TypeOK'
  BY <1>1, <1>2 DEF BoardInv, TypeOK, Ended
<1>4. WritesInOrder'
  BY <1>1 DEF WritesInOrder, Writing
<1>5. ASSUME run.pc = "verify"
      PROVE  /\ run.leads \subseteq run.before \cup announced' \cup unlisted'
             /\ PreviousIds \subseteq run.leads
             /\ MaxLeads <= ReportSize => unlisted' = unlisted
  <2>1. /\ report \in Reports /\ IsOwn(report) /\ state = run.leads
        /\ run.new = run.leads \ run.before
    BY <1>5 DEF BoardInv, WritesInOrder
  <2>2. /\ run.leads \subseteq run.before \cup report.new \cup (run.new \ report.listed)
        /\ MaxLeads <= ReportSize => report.listed = run.leads
    BY <1>5, <2>1, OwnReportFacts
  <2>3. /\ announced' = announced \cup report.new
        /\ unlisted' = unlisted \cup (run.new \ report.listed)
    BY <1>5, <2>1 DEF SavedSoFar
  <2>4. PreviousIds \subseteq run.leads
    BY <2>1 DEF PreviousIds
  <2> QED
    BY <2>1, <2>2, <2>3, <2>4
<1>6. ASSUME ~interrupted' PROVE PreviousIds' \subseteq Known'
  <2>1. ~interrupted
    BY <1>6 DEF BoardInv, TypeOK
  <2>2. PreviousIds' \subseteq PreviousIds
    BY DEF PreviousIds
  <2>3. CASE StateIsOld
    BY <1>2, <2>1, <2>2, <2>3 DEF BoardInv, Announced
  <2>4. CASE run.pc = "verify"
    <3>1. run.before \subseteq Known'
      BY <1>2, <2>1 DEF BoardInv, Announced
    <3> QED
      BY <1>5, <2>2, <2>4, <3>1 DEF Known
  <2>5. run.pc \in {"recon", "verify"} \cup Writing
    BY DEF BoardInv, TypeOK
  <2>6. run.pc = "recon" => run.half = "base"
    BY DEF BoardInv, WritesInOrder
  <2>7. run.pc \in Writing => run.half = "base"
    BY <1>6 DEF BoardInv, TypeOK
  <2> QED
    BY <2>3, <2>4, <2>5, <2>6, <2>7 DEF StateIsOld
<1>7. ASSUME ~interrupted', report' \notin Broken
      PROVE  report'.listed \ report'.new \subseteq Known'
  BY <1>2, <1>7 DEF BoardInv, TypeOK, Announced
<1>8. Announced'
  BY <1>1, <1>2, <1>6, <1>7 DEF BoardInv, TypeOK, Announced
<1>9. RoomForAll'
  BY <1>5 DEF BoardInv, RoomForAll, SavedSoFar
<1> QED
  BY <1>3, <1>4, <1>8, <1>9 DEF BoardInv

LEMMA NextBoard == BoardInv /\ [Next]_vars => BoardInv'
<1> SUFFICES ASSUME BoardInv, [Next]_vars PROVE BoardInv'
  OBVIOUS
<1>1. ASSUME NEW smart \in BOOLEAN, Begin(smart) PROVE BoardInv'
  BY <1>1, BeginKeeps
<1>2. CASE Recon
  BY <1>2, ReconKeeps
<1>3. CASE WriteBoard
  BY <1>3, WriteBoardKeeps
<1>4. CASE WriteReport
  BY <1>4, WriteReportKeeps
<1>5. CASE WriteState
  BY <1>5, WriteStateKeeps
<1>6. CASE Verify
  BY <1>6, VerifyKeeps
<1>7. CASE Raise
  <2>1. /\ run.pc \notin Ended /\ run.pc \notin Writing
        /\ board' \in Broken \cup SUBSET Leads /\ interrupted' \in BOOLEAN
    BY <1>7 DEF Raise, Ended, Writing, BoardInv, TypeOK
  <2> QED
    BY <1>7, <2>1, EndKeeps DEF Raise, LeaveReport
<1>8. CASE Stop
  <2>1. board' \in Broken \cup SUBSET Leads /\ interrupted' \in BOOLEAN
    BY <1>8 DEF Stop, BoardInv, TypeOK
  <2> QED
    BY <1>8, <2>1, EndKeeps DEF Stop, LeaveReport
<1>9. CASE StopInWrite
  <2>1. PICK mark \in {Torn, Undecodable} :
            /\ board'  = IF run.pc = "board"  THEN mark ELSE board
            /\ report' = IF run.pc = "report" THEN mark ELSE report
            /\ state'  = IF run.pc = "state"  THEN mark ELSE state
    BY <1>9 DEF StopInWrite
  <2>2. mark \in Broken
    BY DEF Broken
  <2>3. /\ board' \in Broken \cup SUBSET Leads
        /\ report' = report \/ report' \in Broken
        /\ state' = state \/ state' \in Broken
    BY <2>1, <2>2 DEF BoardInv, TypeOK
  <2>4. run.pc \notin Ended /\ run.pc # "verify" /\ interrupted' \in BOOLEAN
    BY <1>9 DEF StopInWrite, Ended, Writing, BoardInv, TypeOK
  <2>5. SavedSoFar = {}
    BY <2>4 DEF SavedSoFar
  <2> QED
    BY <1>9, <2>3, <2>4, <2>5, EndKeeps DEF StopInWrite, LeaveReport
<1>10. CASE UNCHANGED vars
  <2>1. UNCHANGED <<board, report, state, run, runs, announced, unlisted, interrupted>>
    BY <1>10 DEF vars, history
  <2>2. TypeOK' /\ WritesInOrder'
    BY <2>1 DEF BoardInv, TypeOK, WritesInOrder, PreviousIds, IsOwn
  <2>3. Announced' /\ RoomForAll'
    BY <2>1 DEF BoardInv, Announced, Known, StateIsOld, RoomForAll, PreviousIds
  <2> QED
    BY <2>2, <2>3 DEF BoardInv
<1> QED
  BY <1>1, <1>2, <1>3, <1>4, <1>5, <1>6, <1>7, <1>8, <1>9, <1>10 DEF Next

LEMMA BoardInvariance == Spec => []BoardInv
  BY InitBoard, NextBoard, PTL DEF Spec

-------------------------------------------------------------------------------
(* The three files hold leads, or what a stop left of them, and a board never
   more than max_leads (bounty.py, BountyRunner.run). *)
THEOREM TypeCorrect == Spec => []TypeOK
<1>1. BoardInv => TypeOK
  BY DEF BoardInv
<1> QED
  BY <1>1, BoardInvariance, PTL

(* Whatever earlier runs left behind, and after either half: the files of a run
   that is done tell the same story.  Board and state hold the same leads, the
   report lists those it has room for and counts them all, and NEW means "not in
   the state file when the run began" (bounty.py:311-335 and 596-608,
   smart_verify.py:254 and 379-410). *)
THEOREM DoneRunsAgree == Spec => []DoneRunAgrees
<1>1. ASSUME BoardInv, run.pc = "done"
      PROVE  /\ board = run.leads /\ state = board
             /\ report.listed \in FirstOf(board, ReportSize)
             /\ report.new = report.listed \ run.before
             /\ report.total = Cardinality(board)
             /\ report.fresh = Cardinality(board \ run.before)
  <2>1. /\ board = run.leads /\ state = run.leads /\ IsOwn(report)
        /\ run.new = run.leads \ run.before
    BY <1>1 DEF BoardInv, WritesInOrder
  <2>2. report.new = report.listed \ run.before
    BY <1>1, <2>1, OwnReportFacts
  <2> QED
    BY <2>1, <2>2 DEF IsOwn
<1>2. BoardInv => DoneRunAgrees
  BY <1>1 DEF DoneRunAgrees
<1> QED
  BY <1>2, BoardInvariance, PTL

(* Over any number of runs with any faults, a lead that a report calls seen was
   called NEW by an earlier one or was new on a board of more leads than its report
   lists, unless the second half's writes were stopped (bounty.py:321-335 and 604,
   smart_verify.py:388-410). *)
THEOREM NothingSeenUnannounced == Spec => []SeenWasAnnounced
<1>1. BoardInv => SeenWasAnnounced
  BY DEF BoardInv, Announced, Known, SeenWasAnnounced
<1> QED
  BY <1>1, BoardInvariance, PTL

(* A campaign whose max_leads is no more than a report lists passes nothing off as
   seen: what a report calls seen an earlier one called NEW (bounty.py:295 and
   604). *)
THEOREM ShortBoardsAreAnnounced ==
    MaxLeads <= ReportSize =>
        (Spec => [](run.pc \in Ended /\ report \notin Broken /\ ~interrupted
                        => report.listed \ report.new \subseteq announced))
<1> SUFFICES ASSUME MaxLeads <= ReportSize
             PROVE  Spec => [](run.pc \in Ended /\ report \notin Broken /\ ~interrupted
                                    => report.listed \ report.new \subseteq announced)
  OBVIOUS
<1>1. BoardInv => (run.pc \in Ended /\ report \notin Broken /\ ~interrupted
                       => report.listed \ report.new \subseteq announced)
  BY DEF BoardInv, Announced, Known, RoomForAll
<1> QED
  BY <1>1, BoardInvariance, PTL
===============================================================================
