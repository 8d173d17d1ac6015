------------------------- MODULE BountyCampaignProofs -------------------------
(***************************************************************************)
(* Proofs about BountyCampaign, for any manifests, any web and any budget.  *)
(* The tools keep the rate, the board speaks of this run, and a verified    *)
(* finding is not cut: from what a step does to files and leads.  What the  *)
(* plan costs, what it leaves out and what is sent of it: from what the     *)
(* folds and lists of smart_verify.py and verifier.py return, which the     *)
(* lemmas on operators say, and from PlanInv, which says that the plan is   *)
(* the one the URLs give.                                                   *)
(***************************************************************************)
EXTENDS BountyCampaign, FiniteSetTheorems, SequenceTheorems, WellFoundedInduction, TLAPS

-------------------------------------------------------------------------------
(* The tools keep the rate. *)

LEMMA LeastOfNats ==
    ASSUME NEW S, S \subseteq Nat, S # {}
    PROVE  Min(S) \in S /\ \A y \in S : Min(S) <= y
<1>1. PICK x \in S : \A y \in S : ~ (<<y, x>> \in OpToRel(<, Nat))
  BY NatLessThanWellFounded, WFMin
<1>2. \A y \in S : x <= y
  <2> TAKE y \in S
  <2>1. ~ (y < x)
    BY <1>1 DEF OpToRel
  <2> QED
    BY <2>1, SMT
<1> QED
  BY <1>2, Zenon DEF Min

BoundingRules ==
    UsableRules(campaign.policy, "name") \cup UsableRules(campaign.policy, "wildcard")

LEMMA CeilingIsLeast ==
    ASSUME campaign \in Campaigns, Launchable
    PROVE  /\ Ceiling(campaign.policy) \in Nat
           /\ \A i \in BoundingRules : Ceiling(campaign.policy) <= campaign.policy.targets[i].max_rps
<1> DEFINE S == {campaign.policy.targets[i].max_rps : i \in BoundingRules}
<1>1. Ceiling(campaign.policy) = Min(S)
  BY DEF Ceiling, BoundingRules
<1>2. S # {}
  BY DEF Launchable, Covered, BoundingRules
<1>3. S \subseteq Nat
  BY CampaignsAccepted DEF BoundingRules, UsableRules
<1> QED
  BY <1>1, <1>2, <1>3, LeastOfNats

RateInv ==
    /\ campaign \in Campaigns
    /\ pc = "new" => stage = "idle"
    /\ stage # "idle" => Launchable /\ rates = BoundedEnv

LEMMA RateInit == Init => RateInv
BY DEF Init, PipelineInit, RateInv

LEMMA SameManifest ==
    ASSUME UNCHANGED campaign
    PROVE  (Launchable <=> Launchable') /\ BoundedEnv' = BoundedEnv
BY DEF Launchable, Covered, BoundedEnv, Ceiling, UsableRules

LEMMA PipelineIsRunning ==
    ASSUME PipelineStep
    PROVE  stage # "idle" /\ stage' # "idle" /\ UNCHANGED campaign
<1>1. ASSUME NEW live \in 0..MaxLiveHosts + 1, Probe(live)
      PROVE  stage # "idle" /\ stage' # "idle" /\ UNCHANGED campaign
  BY <1>1 DEF Probe
<1>2. CASE Crawl
  BY <1>2 DEF Crawl
<1>3. CASE Clean
  BY <1>3 DEF Clean
<1>4. CASE Scan
  BY <1>4 DEF Scan
<1>5. CASE PipelineFails
  BY <1>5 DEF PipelineFails, Ran
<1>6. CASE OtherRun
  BY <1>6 DEF OtherRun, Ran
<1> QED
  BY <1>1, <1>2, <1>3, <1>4, <1>5, <1>6 DEF PipelineStep

\* The steps that start no tool.
LEMMA AfterThePipeline ==
    ASSUME \/ RefuseCampaign \/ PipelineRaises \/ ReadRun \/ PlanTemplates
           \/ VerificationRaises \/ VerifyAndMerge \/ UNCHANGED vars
    PROVE  /\ UNCHANGED <<campaign, pipelineVars, rates>>
           /\ pc' # "new" \/ UNCHANGED <<pc, readFrom, board, reported>>
<1>1. CASE RefuseCampaign
  BY <1>1 DEF RefuseCampaign
<1>2. CASE PipelineRaises
  BY <1>2 DEF PipelineRaises
<1>3. CASE ReadRun
  BY <1>3 DEF ReadRun
<1>4. CASE PlanTemplates
  <2>1. UNCHANGED <<campaign, pipelineVars, rates>> /\ pc' \in {"verify", "failed"}
    BY <1>4, Zenon DEF PlanTemplates
  <2> QED
    BY <2>1
<1>5. CASE VerificationRaises
  BY <1>5 DEF VerificationRaises
<1>6. CASE VerifyAndMerge
  BY <1>6 DEF VerifyAndMerge
<1>7. CASE UNCHANGED vars
  BY <1>7 DEF vars, bountyVars
<1> QED
  BY <1>1, <1>2, <1>3, <1>4, <1>5, <1>6, <1>7

LEMMA RateStep == RateInv /\ [Next]_vars => RateInv'
<1> SUFFICES ASSUME RateInv, [Next]_vars PROVE RateInv'
  OBVIOUS
<1>1. CASE StartPipeline
  <2>1. Launchable /\ UNCHANGED campaign /\ rates' = BoundedEnv /\ pc' = "recon"
    BY <1>1 DEF StartPipeline, MakeRun
  <2> QED
    BY <2>1, SameManifest DEF RateInv
<1>2. CASE RunPipeline
  <2>1. pc = "recon" /\ pc' = pc /\ rates' = rates /\ PipelineStep
    BY <1>2 DEF RunPipeline, bountyVars
  <2> QED
    BY <2>1, PipelineIsRunning, SameManifest DEF RateInv
<1>3. CASE \/ RefuseCampaign \/ PipelineRaises \/ ReadRun \/ PlanTemplates
           \/ VerificationRaises \/ VerifyAndMerge \/ UNCHANGED vars
  <2>1. /\ UNCHANGED <<campaign, stage, rates>>
        /\ pc' = "new" => pc = "new"
    BY <1>3, AfterThePipeline DEF pipelineVars
  <2> QED
    BY <2>1, SameManifest DEF RateInv
<1> QED
  BY <1>1, <1>2, <1>3 DEF Next

LEMMA RateInvariance == Spec => []RateInv
  BY RateInit, RateStep, PTL DEF Spec

LEMMA BoundedRates == RateInv => ToolsKeepTheRate
<1> SUFFICES ASSUME RateInv, stage # "idle", NEW t \in TOOLS, NEW i \in BoundingRules
             PROVE  rates[t] <= campaign.policy.targets[i].max_rps
  BY DEF ToolsKeepTheRate, BoundingRules
<1> DEFINE c == Ceiling(campaign.policy)
           r == campaign.policy.targets[i].max_rps
<1>1. campaign \in Campaigns /\ Launchable /\ rates = BoundedEnv
  BY DEF RateInv
<1>2. c \in Nat /\ c <= r
  BY <1>1, CeilingIsLeast
<1>3. r \in Nat
  BY <1>1, CampaignsAccepted DEF BoundingRules, UsableRules
<1>4. rates[t] = c \/ rates[t] \in 1..c
  BY <1>1 DEF BoundedEnv, Launchable
<1> HIDE DEF c, r
<1> QED
  BY <1>2, <1>3, <1>4 DEF r

-------------------------------------------------------------------------------
(* What the run directories hold. *)

Webs == campaign.web \cup campaign.oldWeb
Scans == campaign.scan \cup campaign.oldScan

Directories ==
    [made : BOOLEAN, scoped : SUBSET Webs, params : SUBSET Webs, logic : SUBSET Webs,
     nuclei : SUBSET Scans]

\* A second has a directory when a run of it began.
MadeByARun ==
    \A s \in Seconds :
        dirs[s].made => s \in campaign.old \/ (stage # "idle" /\ s = Stamp) \/ otherRan

\* What this run's own directory shows of it.
OwnDirectory ==
    /\ stage # "idle" => dirs[Stamp].made /\ dirs[Stamp].nuclei \subseteq campaign.scan
    /\ stage \in {"scan", "done"} =>
        dirs[Stamp].logic \cup dirs[Stamp].params \subseteq dirs[Stamp].scoped

DirectoriesInv ==
    /\ campaign \in Campaigns
    /\ dirs \in [Seconds -> Directories]
    /\ MadeByARun
    /\ OwnDirectory

\* The searches only leave URLs out.
LEMMA CandidatesAreFound ==
    ASSUME NEW urls
    PROVE  WithParameters(urls) \subseteq urls /\ LogicCandidates(urls) \subseteq urls
BY DEF WithParameters, LogicCandidates

LEMMA CompletedDirectory ==
    ASSUME NEW scoped \in SUBSET Webs, NEW nuclei \in SUBSET Scans
    PROVE  Completed(scoped, nuclei) \in Directories
<1>1. WithParameters(scoped) \in SUBSET Webs /\ LogicCandidates(scoped) \in SUBSET Webs
  BY CandidatesAreFound
<1> QED
  BY <1>1 DEF Completed, Files, Directories

LEMMA DirectoriesInit == Init => DirectoriesInv
<1> SUFFICES ASSUME Init PROVE DirectoriesInv
  OBVIOUS
<1>1. /\ campaign \in Campaigns /\ stage = "idle"
      /\ dirs = [s \in Seconds |->
                    IF s \in campaign.old THEN Completed(campaign.oldWeb, campaign.oldScan)
                    ELSE NoDirectory]
  BY DEF Init, PipelineInit
<1>2. NoDirectory \in Directories /\ ~NoDirectory.made
  BY DEF NoDirectory, Files, Directories
<1>3. Completed(campaign.oldWeb, campaign.oldScan) \in Directories
  BY CompletedDirectory DEF Webs, Scans
<1>4. dirs \in [Seconds -> Directories]
  BY <1>1, <1>2, <1>3
<1>5. MadeByARun
  BY <1>1, <1>2 DEF MadeByARun
<1>6. OwnDirectory
  BY <1>1 DEF OwnDirectory
<1> QED
  BY <1>1, <1>4, <1>5, <1>6 DEF DirectoriesInv

\* A step that leaves the manifest alone leaves the types of directories alone.
LEMMA SameDirectories ==
    ASSUME UNCHANGED campaign
    PROVE  Directories' = Directories
BY DEF Directories, Webs, Scans

LEMMA MakeRunKeepsDirectories ==
    ASSUME DirectoriesInv, MakeRun
    PROVE  DirectoriesInv'
<1>1. /\ stage = "idle" /\ stage' = "probe" /\ UNCHANGED <<campaign, otherRan>>
      /\ dirs' = [dirs EXCEPT ![Stamp].made = TRUE, ![Stamp].nuclei = {}]
  BY DEF MakeRun
<1>2. dirs \in [Seconds -> Directories] /\ Stamp \in Seconds
  BY DEF DirectoriesInv, Stamp, Seconds
<1>3. dirs'[Stamp] = [dirs[Stamp] EXCEPT !.made = TRUE, !.nuclei = {}]
  BY <1>1, <1>2
<1>4. \A s \in Seconds \ {Stamp} : dirs'[s] = dirs[s]
  BY <1>1, <1>2
<1>5. dirs' \in [Seconds -> Directories]
  BY <1>1, <1>2 DEF Directories
<1>6. dirs'[Stamp].made /\ dirs'[Stamp].nuclei = {}
  BY <1>2, <1>3 DEF Directories
<1>7. MadeByARun'
  BY <1>1, <1>4 DEF DirectoriesInv, MadeByARun
<1>8. OwnDirectory'
  BY <1>1, <1>6 DEF OwnDirectory
<1> QED
  BY <1>1, <1>5, <1>7, <1>8, SameDirectories DEF DirectoriesInv

LEMMA PipelineKeepsDirectories ==
    ASSUME DirectoriesInv, PipelineStep
    PROVE  DirectoriesInv'
<1>1. /\ UNCHANGED campaign /\ stage # "idle" /\ stage' # "idle"
      /\ Directories' = Directories
  BY PipelineIsRunning, SameDirectories
<1>2. dirs \in [Seconds -> Directories] /\ Stamp \in Seconds /\ dirs[Stamp] \in Directories
  BY DEF DirectoriesInv, Stamp, Seconds
<1>3. ASSUME UNCHANGED <<dirs, otherRan>>, stage' \notin {"scan", "done"}
      PROVE  DirectoriesInv'
  BY <1>1, <1>3 DEF DirectoriesInv, MadeByARun, OwnDirectory
<1>4. ASSUME NEW live \in 0..MaxLiveHosts + 1, Probe(live)
      PROVE  DirectoriesInv'
  BY <1>3, <1>4 DEF Probe
<1>5. CASE PipelineFails
  BY <1>3, <1>5 DEF PipelineFails
<1>6. ASSUME NEW d \in Directories, dirs' = [dirs EXCEPT ![Stamp] = d],
             d.made = dirs[Stamp].made, d.nuclei \subseteq campaign.scan,
             stage' \in {"scan", "done"} => d.logic \cup d.params \subseteq d.scoped,
             UNCHANGED otherRan
      PROVE  DirectoriesInv'
  <2>1. dirs' \in [Seconds -> Directories]
    BY <1>2, <1>6
  <2>2. dirs'[Stamp] = d /\ \A s \in Seconds : dirs'[s].made <=> dirs[s].made
    BY <1>2, <1>6
  <2>3. MadeByARun'
    BY <1>1, <1>6, <2>2 DEF DirectoriesInv, MadeByARun
  <2>4. OwnDirectory'
    BY <1>1, <1>6, <2>2 DEF DirectoriesInv, OwnDirectory
  <2> QED
    BY <1>1, <2>1, <2>3, <2>4 DEF DirectoriesInv
<1>7. dirs[Stamp].nuclei \subseteq campaign.scan
  BY <1>1 DEF DirectoriesInv, OwnDirectory
<1>8. CASE Crawl
  <2>1. PICK found \in SUBSET campaign.web : dirs' = [dirs EXCEPT ![Stamp].scoped = found]
    BY <1>8 DEF Crawl
  <2>2. stage' \in {"failed", "clean"} /\ UNCHANGED otherRan
    BY <1>8 DEF Crawl
  <2> DEFINE d == [dirs[Stamp] EXCEPT !.scoped = found]
  <2>3. d \in Directories /\ d.made = dirs[Stamp].made /\ d.nuclei = dirs[Stamp].nuclei
    BY <1>2 DEF Directories, Webs
  <2>4. dirs' = [dirs EXCEPT ![Stamp] = d]
    BY <1>2, <2>1
  <2> HIDE DEF d
  <2> QED
    BY <1>6, <1>7, <2>2, <2>3, <2>4
<1>9. CASE Clean
  <2>1. PICK clean \in SUBSET dirs[Stamp].scoped :
            dirs' = [dirs EXCEPT ![Stamp].params = WithParameters(clean),
                                 ![Stamp].logic = LogicCandidates(clean)]
    BY <1>9 DEF Clean
  <2>2. UNCHANGED otherRan
    BY <1>9 DEF Clean
  <2> DEFINE d == [dirs[Stamp] EXCEPT !.params = WithParameters(clean),
                                      !.logic = LogicCandidates(clean)]
  <2>3. /\ WithParameters(clean) \subseteq dirs[Stamp].scoped
        /\ LogicCandidates(clean) \subseteq dirs[Stamp].scoped
    BY CandidatesAreFound
  <2>4. dirs[Stamp].scoped \subseteq Webs
    BY <1>2 DEF Directories
  <2>5. /\ d \in Directories /\ d.made = dirs[Stamp].made /\ d.nuclei = dirs[Stamp].nuclei
        /\ d.logic \cup d.params \subseteq d.scoped
    BY <1>2, <2>3, <2>4 DEF Directories
  <2>6. dirs' = [dirs EXCEPT ![Stamp] = d]
    BY <1>2, <2>1
  <2> HIDE DEF d
  <2> QED
    BY <1>6, <1>7, <2>2, <2>5, <2>6
<1>10. CASE Scan
  <2>1. PICK findings \in SUBSET campaign.scan :
            dirs' = [dirs EXCEPT ![Stamp].nuclei = @ \cup findings]
    BY <1>10 DEF Scan
  <2>2. stage = "scan" /\ UNCHANGED otherRan
    BY <1>10 DEF Scan
  <2> DEFINE d == [dirs[Stamp] EXCEPT !.nuclei = @ \cup findings]
  <2>3. /\ d \in Directories /\ d.made = dirs[Stamp].made
        /\ d.nuclei = dirs[Stamp].nuclei \cup findings
        /\ d.logic = dirs[Stamp].logic /\ d.params = dirs[Stamp].params
        /\ d.scoped = dirs[Stamp].scoped
    BY <1>2 DEF Directories, Scans
  <2>4. dirs' = [dirs EXCEPT ![Stamp] = d]
    BY <1>2, <2>1
  <2>5. d.logic \cup d.params \subseteq d.scoped
    BY <2>2, <2>3 DEF DirectoriesInv, OwnDirectory
  <2> HIDE DEF d
  <2> QED
    BY <1>6, <1>7, <2>2, <2>3, <2>4, <2>5
<1>11. CASE OtherRun
  <2>1. /\ otherRan' = TRUE /\ UNCHANGED stage
        /\ dirs' = [dirs EXCEPT ![Stamp + 1] = Completed(campaign.web, campaign.scan)]
    BY <1>11 DEF OtherRun
  <2>2. Completed(campaign.web, campaign.scan) \in Directories
    BY CompletedDirectory DEF Webs, Scans
  <2>3. dirs' \in [Seconds -> Directories] /\ dirs'[Stamp] = dirs[Stamp]
    BY <1>2, <2>1, <2>2, Stamp # Stamp + 1 DEF Stamp
  <2>4. MadeByARun'
    BY <2>1 DEF MadeByARun
  <2>5. OwnDirectory'
    BY <1>1, <2>1, <2>3 DEF DirectoriesInv, OwnDirectory
  <2> QED
    BY <1>1, <2>3, <2>4, <2>5 DEF DirectoriesInv
<1> QED
  BY <1>4, <1>5, <1>8, <1>9, <1>10, <1>11 DEF PipelineStep

\* Only a running pipeline touches the directories.
LEMMA DirectoriesStep == DirectoriesInv /\ [Next]_vars => DirectoriesInv'
<1> SUFFICES ASSUME DirectoriesInv, [Next]_vars PROVE DirectoriesInv'
  OBVIOUS
<1>1. CASE StartPipeline
  BY <1>1, MakeRunKeepsDirectories DEF StartPipeline
<1>2. CASE RunPipeline
  BY <1>2, PipelineKeepsDirectories DEF RunPipeline
<1>3. CASE \/ RefuseCampaign \/ PipelineRaises \/ ReadRun \/ PlanTemplates
           \/ VerificationRaises \/ VerifyAndMerge \/ UNCHANGED vars
  <2>1. UNCHANGED <<campaign, stage, dirs, otherRan>>
    BY <1>3, AfterThePipeline DEF pipelineVars
  <2> QED
    BY <2>1, SameDirectories DEF DirectoriesInv, MadeByARun, OwnDirectory
<1> QED
  BY <1>1, <1>2, <1>3 DEF Next

-------------------------------------------------------------------------------
(* The board speaks of this run. *)

\* The directory that was read is frozen: the pipeline ran before.
BoardInv ==
    /\ pc \in {"new", "recon"} => readFrom = 0
    /\ BoardShowsThisRun

\* A cut keeps leads only.
LEMMA CutsAreLeads ==
    ASSUME NEW leads, NEW limit, NEW kept \in Cuts(leads, limit)
    PROVE  kept \subseteq leads
BY DEF Cuts

LEMMA DedupedAreLeads ==
    ASSUME NEW leads
    PROVE  Deduped(leads) \subseteq leads
BY DEF Deduped

\* Where a lead of the first board comes from.
LEMMA BaseLeadsComeFrom ==
    ASSUME NEW files, NEW leads \in BaseLeads(files), NEW lead \in leads
    PROVE  \/ \E u \in files.logic \cup files.params : Surfaces(u) # {} /\ lead = ReconLead(u)
           \/ \E f \in files.nuclei : lead = NucleiLead(f)
<1> DEFINE urls == files.logic \cup files.params
<1>1. PICK T \in Cuts(Leads(urls), campaign.max_leads) :
        leads = T \cup {NucleiLead(f) : f \in files.nuclei}
  BY Zenon DEF BaseLeads
<1>2. T \subseteq {ReconLead(u) : u \in {w \in urls : Surfaces(w) # {}}}
  BY <1>1, CutsAreLeads, DedupedAreLeads DEF Leads
<1> QED
  BY <1>1, <1>2

LEMMA OwnDirectoryIsLatest ==
    ASSUME DirectoriesInv, stage = "done", ~otherRan, \A s \in campaign.old : s <= Stamp
    PROVE  LatestRun = Stamp
<1>1. Stamp \in Made /\ \A s \in Made : s <= Stamp
  BY DEF DirectoriesInv, OwnDirectory, MadeByARun, Made, Stamp, Seconds
<1>2. ASSUME NEW m \in Made, \A s \in Made : m >= s
      PROVE  m = Stamp
  BY <1>1, <1>2 DEF Made, Seconds, Stamp
<1>3. \A s \in Made : Stamp >= s
  BY <1>1 DEF Made, Seconds, Stamp
<1> QED
  BY <1>1, <1>2, <1>3 DEF LatestRun, Max

LEMMA BoardInit == Init => BoardInv
BY DEF Init, BoardInv, BoardShowsThisRun

LEMMA ReadRunShowsThisRun ==
    ASSUME DirectoriesInv, ReadRun
    PROVE  BoardShowsThisRun'
<1>1. /\ stage = "done" /\ UNCHANGED <<campaign, dirs, otherRan>>
      /\ \E leads \in BaseLeads(dirs[LatestRun]) :
            board' \in Cuts(Deduped(leads), campaign.max_leads)
  BY DEF ReadRun, pipelineVars
<1>2. SUFFICES ASSUME ~otherRan, \A s \in campaign.old : s <= Stamp, NEW lead \in board'
               PROVE  /\ lead.source = "recon" => \E u \in dirs[Stamp].scoped :
                              lead.route = RouteSignature(u)
                      /\ lead.source = "nuclei" =>
                              \E f \in campaign.scan : Id(lead) = Id(NucleiLead(f))
  BY <1>1 DEF BoardShowsThisRun
<1>3. LatestRun = Stamp
  BY <1>1, <1>2, OwnDirectoryIsLatest
<1>4. PICK leads \in BaseLeads(dirs[Stamp]) :
        board' \in Cuts(Deduped(leads), campaign.max_leads)
  BY <1>1, <1>3
<1>5. lead \in leads
  BY <1>4, <1>2, CutsAreLeads, DedupedAreLeads
<1>6. /\ dirs[Stamp].nuclei \subseteq campaign.scan
      /\ dirs[Stamp].logic \cup dirs[Stamp].params \subseteq dirs[Stamp].scoped
  BY <1>1 DEF DirectoriesInv, OwnDirectory
<1>7. CASE \E u \in dirs[Stamp].logic \cup dirs[Stamp].params :
                Surfaces(u) # {} /\ lead = ReconLead(u)
  <2>1. PICK u \in dirs[Stamp].scoped : lead = ReconLead(u)
    BY <1>6, <1>7
  <2>2. lead.source = "recon" /\ lead.route = RouteSignature(u)
    BY <2>1 DEF ReconLead, Lead
  <2> QED
    BY <2>2
<1>8. CASE \E f \in dirs[Stamp].nuclei : lead = NucleiLead(f)
  <2>1. PICK f \in campaign.scan : lead = NucleiLead(f)
    BY <1>6, <1>8
  <2>2. lead.source = "nuclei"
    BY <2>1 DEF NucleiLead, Lead
  <2> QED
    BY <2>1, <2>2
<1> QED
  BY <1>4, <1>5, <1>7, <1>8, BaseLeadsComeFrom

\* What a verification adds claims nothing about recon.
LEMMA MergeShowsThisRun ==
    ASSUME BoardInv, VerifyAndMerge
    PROVE  BoardShowsThisRun'
<1>1. UNCHANGED <<campaign, dirs, otherRan, readFrom>>
  BY DEF VerifyAndMerge, pipelineVars
<1>2. board' \in Cuts(Deduped(board \cup {VerificationLead(f) : f \in reported'}),
                      campaign.max_leads)
  BY DEF VerifyAndMerge
<1>3. \A lead \in board' : lead \in board \/ \E f \in reported' : lead = VerificationLead(f)
  BY <1>2, CutsAreLeads, DedupedAreLeads
<1>4. \A lead \in board' : lead \in board \/ lead.source = "barq-verify"
  BY <1>3 DEF VerificationLead, Lead
<1> QED
  BY <1>1, <1>4 DEF BoardInv, BoardShowsThisRun

LEMMA BoardStep == DirectoriesInv /\ BoardInv /\ [Next]_vars => BoardInv'
<1> SUFFICES ASSUME DirectoriesInv, BoardInv, [Next]_vars PROVE BoardInv'
  OBVIOUS
<1>1. ASSUME pc \in {"new", "recon"}, UNCHANGED <<readFrom, board>>
      PROVE  BoardInv'
  BY <1>1 DEF BoardInv, BoardShowsThisRun
<1>2. ASSUME pc' \notin {"new", "recon"}, UNCHANGED <<campaign, dirs, otherRan, readFrom, board>>
      PROVE  BoardInv'
  BY <1>2 DEF BoardInv, BoardShowsThisRun
<1>3. CASE RefuseCampaign
  BY <1>1, <1>3 DEF RefuseCampaign
<1>4. CASE StartPipeline
  BY <1>1, <1>4 DEF StartPipeline
<1>5. CASE RunPipeline
  BY <1>1, <1>5 DEF RunPipeline, bountyVars
<1>6. CASE PipelineRaises
  BY <1>1, <1>6 DEF PipelineRaises
<1>7. CASE ReadRun
  <2>1. pc' \in {"smart", "done"}
    BY <1>7 DEF ReadRun
  <2> QED
    BY <1>7, <2>1, ReadRunShowsThisRun DEF BoardInv
<1>8. CASE PlanTemplates
  <2>1. pc' \in {"verify", "failed"} /\ UNCHANGED <<campaign, dirs, otherRan, readFrom, board>>
    BY <1>8, Zenon DEF PlanTemplates, pipelineVars
  <2> QED
    BY <1>2, <2>1
<1>9. CASE VerificationRaises
  BY <1>2, <1>9 DEF VerificationRaises, pipelineVars
<1>10. CASE VerifyAndMerge
  <2>1. pc' = "done"
    BY <1>10 DEF VerifyAndMerge
  <2> QED
    BY <1>10, <2>1, MergeShowsThisRun DEF BoardInv
<1>11. CASE UNCHANGED vars
  BY <1>11 DEF vars, pipelineVars, bountyVars, BoardInv, BoardShowsThisRun
<1> QED
  BY <1>3, <1>4, <1>5, <1>6, <1>7, <1>8, <1>9, <1>10, <1>11 DEF Next

-------------------------------------------------------------------------------
(* A verified finding is not cut. *)

\* What one makes of each member of a finite set is finite; f is the making.
LEMMA FiniteImage ==
    ASSUME NEW S, NEW T, IsFiniteSet(S), NEW f \in [S -> T], \A t \in T : \E s \in S : f[s] = t
    PROVE  IsFiniteSet(T)
<1>1. f \in Surjection(S, T)
  BY DEF Surjection
<1> QED
  BY <1>1, FS_Surjection

LEMMA GreatestOfBounded ==
    ASSUME NEW S, S \subseteq 0..100, S # {}
    PROVE  \E x \in S : \A y \in S : y <= x
<1> DEFINE T == {100 - x : x \in S}
<1>1. T \subseteq Nat /\ T # {}
  OBVIOUS
<1>2. Min(T) \in T /\ \A y \in T : Min(T) <= y
  BY <1>1, LeastOfNats
<1>3. PICK x \in S : Min(T) = 100 - x
  BY <1>2
<1>4. ASSUME NEW y \in S PROVE y <= x
  <2>1. 100 - x <= 100 - y
    BY <1>2, <1>3
  <2> QED
    BY <2>1
<1> QED
  BY <1>4

LEMMA SurfaceScores ==
    ASSUME NEW url, NEW s \in Surfaces(url)
    PROVE  s.score \in 0..88
<1>1. s \in SURFACES \cup {OBJECT_ACCESS, PARAMETERIZED}
  BY DEF Surfaces
<1>2. \A t \in SURFACES : t.score \in 0..88
  BY DEF SURFACES, Surface
<1>3. OBJECT_ACCESS.score = 88 /\ PARAMETERIZED.score = 25
  BY DEF OBJECT_ACCESS, PARAMETERIZED, Surface
<1> QED
  BY <1>1, <1>2, <1>3

LEMMA HighestIsASurface ==
    ASSUME NEW url, Surfaces(url) # {}
    PROVE  Highest(Surfaces(url)) \in Surfaces(url)
<1> DEFINE S == {s.score : s \in Surfaces(url)}
<1>1. S \subseteq 0..100 /\ S # {}
  BY SurfaceScores
<1>2. PICK x \in S : \A y \in S : y <= x
  BY <1>1, GreatestOfBounded
<1>3. \E s \in Surfaces(url) : \A other \in Surfaces(url) : other.score <= s.score
  BY <1>2
<1> QED
  BY <1>3 DEF Highest

\* Only a verified lead has the highest score (bounty.py:542).
Ranked(leads) ==
    \A lead \in leads :
        /\ lead.score \in 0..110
        /\ lead.score = 110 => lead.confidence = "verified"

LEMMA ReconLeadsRankLower ==
    ASSUME NEW url, Surfaces(url) # {}
    PROVE  ReconLead(url).score \in 0..100
<1>1. Highest(Surfaces(url)).score \in 0..88
  BY HighestIsASurface, SurfaceScores
<1>2. ScoreOf(url) \in 0..100
  BY <1>1 DEF ScoreOf, LeastOf
<1> QED
  BY <1>2 DEF ReconLead, Lead

LEMMA NucleiLeadsRankLower ==
    ASSUME NEW f
    PROVE  NucleiLead(f).score \in 0..100
<1>1. SeverityScore(f.severity) \in {100, 96, 78, 55, 50}
  BY DEF SeverityScore
<1> QED
  BY <1>1 DEF NucleiLead, Lead

LEMMA VerificationLeadsRank ==
    ASSUME NEW f
    PROVE  /\ VerificationLead(f).score \in 0..110
           /\ VerificationLead(f).score = 110 <=> f.strength = "verified"
           /\ f.strength = "verified" => VerificationLead(f).confidence = "verified"
BY DEF VerificationLead, Lead

LEMMA BaseLeadsRank ==
    ASSUME NEW files, NEW leads \in BaseLeads(files)
    PROVE  Ranked(leads)
<1> SUFFICES ASSUME NEW lead \in leads PROVE lead.score \in 0..100
  BY DEF Ranked
<1> QED
  BY BaseLeadsComeFrom, ReconLeadsRankLower, NucleiLeadsRankLower

LEMMA BaseLeadsAreFinite ==
    ASSUME NEW files, NEW leads \in BaseLeads(files),
           IsFiniteSet(files.logic), IsFiniteSet(files.params), IsFiniteSet(files.nuclei)
    PROVE  IsFiniteSet(leads)
<1> DEFINE urls == files.logic \cup files.params
           worth == {u \in urls : Surfaces(u) # {}}
           recon == {ReconLead(u) : u \in worth}
           nuclei == {NucleiLead(f) : f \in files.nuclei}
<1>1. IsFiniteSet(urls)
  BY FS_Union
<1>2. IsFiniteSet(worth)
  BY <1>1, FS_Subset
<1>3. IsFiniteSet(recon)
  <2> DEFINE g == [u \in worth |-> ReconLead(u)]
  <2>1. g \in [worth -> recon]
    OBVIOUS
  <2>2. \A t \in recon : \E u \in worth : g[u] = t
    OBVIOUS
  <2> HIDE DEF g, recon
  <2> QED
    BY <1>2, <2>1, <2>2, FiniteImage
<1>4. IsFiniteSet(nuclei)
  <2> DEFINE g == [f \in files.nuclei |-> NucleiLead(f)]
  <2>1. g \in [files.nuclei -> nuclei]
    OBVIOUS
  <2>2. \A t \in nuclei : \E f \in files.nuclei : g[f] = t
    OBVIOUS
  <2> HIDE DEF g, nuclei
  <2> QED
    BY <2>1, <2>2, FiniteImage
<1>5. leads \subseteq recon \cup nuclei
  BY BaseLeadsComeFrom
<1> HIDE DEF recon, nuclei
<1> QED
  BY <1>3, <1>4, <1>5, FS_Union, FS_Subset

\* A cut keeps every lead that outranks all others, if there is room.
LEMMA CutKeepsTheHighest ==
    ASSUME NEW leads, IsFiniteSet(leads), NEW limit \in Nat, NEW kept \in Cuts(leads, limit),
           NEW lead \in leads, lead \notin kept
    PROVE  Cardinality(kept) = limit /\ \A k \in kept : lead.score <= k.score
<1>1. /\ kept \in SUBSET leads /\ kept # leads
      /\ Cardinality(kept) = LeastOf(limit, Cardinality(leads))
      /\ \A k \in kept, dropped \in leads \ kept : dropped.score <= k.score
  BY DEF Cuts
<1>2. Cardinality(leads) # Cardinality(kept)
  BY <1>1, FS_Subset
<1>3. Cardinality(kept) = limit
  BY <1>1, <1>2 DEF LeastOf
<1> QED
  BY <1>1, <1>3

RankInv ==
    /\ IsFiniteSet(board) /\ Ranked(board)
    /\ pc # "done" => reported = {}
    /\ VerifiedIsNeverCut

LEMMA RankInit == Init => RankInv
BY FS_EmptySet DEF Init, RankInv, Ranked, VerifiedIsNeverCut

LEMMA CutsRank ==
    ASSUME NEW leads, IsFiniteSet(leads), Ranked(leads), NEW limit,
           NEW kept \in Cuts(Deduped(leads), limit)
    PROVE  IsFiniteSet(kept) /\ Ranked(kept)
<1>1. kept \subseteq leads
  BY CutsAreLeads, DedupedAreLeads
<1> QED
  BY <1>1, FS_Subset DEF Ranked

LEMMA ReadRunRanks ==
    ASSUME DirectoriesInv, RankInv, ReadRun
    PROVE  RankInv'
<1>1. PICK leads \in BaseLeads(dirs[LatestRun]) :
        board' \in Cuts(Deduped(leads), campaign.max_leads)
  BY DEF ReadRun
<1>2. pc = "recon" /\ reported' = reported /\ stage = "done"
  BY DEF ReadRun
<1>3. reported' = {}
  BY <1>2 DEF RankInv
<1>4. LatestRun \in Seconds
  <2>1. Stamp \in Made /\ \A s \in Made : s \in Seconds
    BY <1>2 DEF DirectoriesInv, OwnDirectory, Made, Seconds, Stamp
  <2>2. \E m \in Made : \A s \in Made : m >= s
    <3>1. CASE 3 \in Made
      BY <2>1, <3>1 DEF Seconds
    <3>2. CASE 3 \notin Made
      BY <2>1, <3>2 DEF Seconds, Stamp
    <3> QED
      BY <3>1, <3>2
  <2> QED
    BY <2>1, <2>2 DEF LatestRun, Max
<1>5. /\ IsFiniteSet(campaign.web) /\ IsFiniteSet(campaign.oldWeb)
      /\ IsFiniteSet(campaign.scan) /\ IsFiniteSet(campaign.oldScan)
  BY CampaignsAccepted DEF DirectoriesInv
<1>6. IsFiniteSet(Webs) /\ IsFiniteSet(Scans)
  BY <1>5, FS_Union DEF Webs, Scans
<1>7. dirs[LatestRun] \in Directories
  BY <1>4 DEF DirectoriesInv
<1>8. /\ IsFiniteSet(dirs[LatestRun].logic) /\ IsFiniteSet(dirs[LatestRun].params)
      /\ IsFiniteSet(dirs[LatestRun].nuclei)
  BY <1>6, <1>7, FS_Subset DEF Directories
<1>9. IsFiniteSet(leads) /\ Ranked(leads)
  BY <1>8, BaseLeadsRank, BaseLeadsAreFinite
<1>10. IsFiniteSet(board') /\ Ranked(board')
  BY <1>1, <1>9, CutsRank
<1>11. (IsFiniteSet(board) /\ Ranked(board))'
  BY <1>10 DEF Ranked
<1> QED
  BY <1>3, <1>11 DEF RankInv, VerifiedIsNeverCut

LEMMA MergeRanks ==
    ASSUME DirectoriesInv, RankInv, VerifyAndMerge
    PROVE  RankInv'
<1>1. PICK findings \in SUBSET campaign.findings :
        /\ reported' \in SUBSET findings
        /\ board' \in Cuts(Deduped(board \cup {VerificationLead(f) : f \in reported'}),
                           campaign.max_leads)
  BY DEF VerifyAndMerge
<1>2. UNCHANGED campaign /\ pc' = "done"
  BY DEF VerifyAndMerge
<1>3. IsFiniteSet(campaign.findings) /\ campaign.max_leads \in Nat
  BY CampaignsAccepted DEF DirectoriesInv
<1>4. IsFiniteSet(reported')
  BY <1>1, <1>3, FS_Subset
<1> DEFINE added == {VerificationLead(f) : f \in reported'}
           leads == board \cup added
           limit == campaign.max_leads
<1>5. IsFiniteSet(added)
  <2> DEFINE g == [f \in reported' |-> VerificationLead(f)]
  <2>1. g \in [reported' -> added]
    OBVIOUS
  <2>2. \A t \in added : \E f \in reported' : g[f] = t
    OBVIOUS
  <2> HIDE DEF g, added
  <2> QED
    BY <1>4, <2>1, <2>2, FiniteImage
<1>6. IsFiniteSet(leads)
  BY <1>5, FS_Union DEF RankInv
<1>7. Ranked(leads)
  BY VerificationLeadsRank DEF RankInv, Ranked
<1>8. board' \in Cuts(Deduped(leads), limit)
  BY <1>1
<1>9. IsFiniteSet(board') /\ Ranked(board')
  BY <1>6, <1>7, <1>8, CutsRank
<1>10. ASSUME NEW f \in reported', f.strength = "verified"
       PROVE  \/ \E lead \in board' : Id(lead) = Id(VerificationLead(f)) /\ lead.confidence = "verified"
              \/ /\ Cardinality(board') = limit
                 /\ \A lead \in board' : lead.confidence = "verified"
  <2> DEFINE v == VerificationLead(f)
  <2>1. v \in leads /\ v.score = 110 /\ v.confidence = "verified"
    BY <1>10, VerificationLeadsRank
  <2> HIDE DEF v, leads, limit
  <2>2. v \in Deduped(leads)
    BY <1>7, <2>1 DEF Deduped, Ranked
  <2>3. CASE v \in board'
    BY <2>1, <2>3 DEF v
  <2>4. CASE v \notin board'
    <3>1. IsFiniteSet(Deduped(leads))
      BY <1>6, DedupedAreLeads, FS_Subset
    <3>2. limit \in Nat
      BY <1>3 DEF limit
    <3>3. Cardinality(board') = limit /\ \A k \in board' : v.score <= k.score
      BY <1>8, <2>2, <2>4, <3>1, <3>2, CutKeepsTheHighest
    <3>4. \A k \in board' : k.score = 110
      BY <1>9, <2>1, <3>3 DEF Ranked
    <3> QED
      BY <1>9, <3>3, <3>4 DEF Ranked
  <2> QED
    BY <2>3, <2>4
<1>11. VerifiedIsNeverCut'
  BY <1>2, <1>10 DEF VerifiedIsNeverCut
<1>12. (IsFiniteSet(board) /\ Ranked(board))'
  BY <1>9 DEF Ranked
<1> QED
  BY <1>2, <1>11, <1>12 DEF RankInv

LEMMA RankStep == DirectoriesInv /\ RankInv /\ [Next]_vars => RankInv'
<1> SUFFICES ASSUME DirectoriesInv, RankInv, [Next]_vars PROVE RankInv'
  OBVIOUS
<1>1. ASSUME UNCHANGED <<board, reported>>, pc' # "done", pc # "done"
      PROVE  RankInv'
  BY <1>1 DEF RankInv, Ranked, VerifiedIsNeverCut
<1>2. CASE RefuseCampaign
  BY <1>1, <1>2 DEF RefuseCampaign
<1>3. CASE StartPipeline
  BY <1>1, <1>3 DEF StartPipeline
<1>4. CASE RunPipeline
  BY <1>1, <1>4 DEF RunPipeline, bountyVars
<1>5. CASE PipelineRaises
  BY <1>1, <1>5 DEF PipelineRaises
<1>6. CASE PlanTemplates
  <2>1. pc = "smart" /\ pc' \in {"verify", "failed"} /\ UNCHANGED <<board, reported>>
    BY <1>6, Zenon DEF PlanTemplates
  <2> QED
    BY <1>1, <2>1
<1>7. CASE VerificationRaises
  BY <1>1, <1>7 DEF VerificationRaises
<1>8. CASE UNCHANGED vars
  BY <1>8 DEF vars, bountyVars, RankInv, Ranked, VerifiedIsNeverCut
<1> QED
  BY <1>2, <1>3, <1>4, <1>5, <1>6, <1>7, <1>8, ReadRunRanks, MergeRanks DEF Next

-------------------------------------------------------------------------------
(* Lists. *)

LEMMA EveryNat ==
    ASSUME NEW S, 0 \in S, \A n \in Nat : n \in S => n + 1 \in S
    PROVE  \A n \in Nat : n \in S
<1> SUFFICES ASSUME Nat \ S # {} PROVE FALSE
  OBVIOUS
<1>1. PICK n \in Nat \ S : \A m \in Nat \ S : ~ (<<m, n>> \in OpToRel(<, Nat))
  BY NatLessThanWellFounded, WFMin, Nat \ S \subseteq Nat
<1>2. n # 0 /\ n - 1 \in Nat /\ n - 1 < n
  BY SMT
<1>3. n - 1 \in S
  BY <1>1, <1>2 DEF OpToRel
<1> QED
  BY <1>2, <1>3, (n - 1) + 1 = n

LEMMA ConcatElements ==
    ASSUME NEW X, NEW a \in Seq(X), NEW b \in Seq(X)
    PROVE  /\ a \o b \in Seq(X)
           /\ \A x : x \in ToSet(a \o b) <=> x \in ToSet(a) \/ x \in ToSet(b)
<1>1. /\ a \o b \in Seq(X) /\ Len(a \o b) = Len(a) + Len(b)
      /\ \A i \in 1..(Len(a) + Len(b)) :
            (a \o b)[i] = IF i <= Len(a) THEN a[i] ELSE b[i - Len(a)]
  BY ConcatProperties
<1>2. /\ DOMAIN a = 1..Len(a) /\ DOMAIN b = 1..Len(b)
      /\ DOMAIN (a \o b) = 1..(Len(a) + Len(b))
      /\ Len(a) \in Nat /\ Len(b) \in Nat
  BY <1>1
<1>3. ASSUME NEW x, x \in ToSet(a) PROVE x \in ToSet(a \o b)
  BY <1>1, <1>2, <1>3 DEF ToSet
<1>4. ASSUME NEW x, x \in ToSet(b) PROVE x \in ToSet(a \o b)
  <2>1. PICK i \in 1..Len(b) : x = b[i]
    BY <1>2, <1>4 DEF ToSet
  <2>2. /\ Len(a) + i \in 1..(Len(a) + Len(b)) /\ ~(Len(a) + i <= Len(a))
        /\ (Len(a) + i) - Len(a) = i
    BY <1>2
  <2>3. (a \o b)[Len(a) + i] = x
    BY <1>1, <2>1, <2>2
  <2> QED
    BY <1>2, <2>2, <2>3 DEF ToSet
<1>5. ASSUME NEW x, x \in ToSet(a \o b) PROVE x \in ToSet(a) \/ x \in ToSet(b)
  <2>1. PICK i \in 1..(Len(a) + Len(b)) : x = (a \o b)[i]
    BY <1>2, <1>5 DEF ToSet
  <2>2. CASE i <= Len(a)
    BY <1>1, <1>2, <2>1, <2>2 DEF ToSet
  <2>3. CASE ~(i <= Len(a))
    <3>1. i - Len(a) \in 1..Len(b)
      BY <1>2, <2>3
    <3> QED
      BY <1>1, <1>2, <2>1, <2>3, <3>1 DEF ToSet
  <2> QED
    BY <2>2, <2>3
<1> QED
  BY <1>1, <1>3, <1>4, <1>5

(* The function FlattenSeq is defined by. *)
Flattened(s) ==
    CHOOSE f : f = [i \in 1..Len(s) |-> IF i = 1 THEN s[i] ELSE f[i - 1] \o s[i]]

LEMMA FlattenedExists ==
    ASSUME NEW X, NEW s \in Seq(Seq(X))
    PROVE  \A i \in 1..Len(s) :
              Flattened(s)[i] = IF i = 1 THEN s[i] ELSE Flattened(s)[i - 1] \o s[i]
<1> DEFINE n == Len(s)
           F == [1..n -> Seq(X)]
           Step(f, i) == IF i = 1 THEN s[i] ELSE f[i - 1] \o s[i]
           S == {m \in Nat : \E f \in F : \A i \in 1..n : i <= m => f[i] = Step(f, i)}
<1>0. n \in Nat /\ s \in [1..n -> Seq(X)]
  OBVIOUS
<1>1. 0 \in S
  <2>1. [i \in 1..n |-> s[i]] \in F
    BY <1>0
  <2>2. \A i \in 1..n : ~(i <= 0)
    BY <1>0
  <2> QED
    BY <2>1, <2>2
<1>2. ASSUME NEW m \in Nat, m \in S PROVE m + 1 \in S
  <2>1. PICK f \in F : \A i \in 1..n : i <= m => f[i] = Step(f, i)
    BY <1>2
  <2> DEFINE g == [i \in 1..n |-> IF i = m + 1 THEN Step(f, i) ELSE f[i]]
  <2>2. g \in F
    <3> SUFFICES ASSUME NEW i \in 1..n PROVE g[i] \in Seq(X)
      BY DEF F
    <3>1. f[i] \in Seq(X) /\ s[i] \in Seq(X)
      BY <1>0
    <3>2. i # 1 => i - 1 \in 1..n
      BY <1>0
    <3>3. i # 1 => f[i - 1] \in Seq(X)
      BY <3>2
    <3>4. i # 1 => f[i - 1] \o s[i] \in Seq(X)
      BY <3>1, <3>3, ConcatProperties
    <3> QED
      BY <3>1, <3>4
  <2>3. \A i \in 1..n : i <= m + 1 => g[i] = Step(g, i)
    <3> SUFFICES ASSUME NEW i \in 1..n, i <= m + 1 PROVE g[i] = Step(g, i)
      BY Zenon
    <3>1. i # 1 => i - 1 \in 1..n /\ i - 1 # m + 1
      BY <1>0
    <3>2. i # 1 => g[i - 1] = f[i - 1]
      BY <3>1
    <3>3. Step(g, i) = Step(f, i)
      BY <3>2
    <3>4. CASE i = m + 1
      BY <3>3, <3>4
    <3>5. CASE i # m + 1
      <4>1. i <= m
        BY <1>0, <3>5
      <4> QED
        BY <4>1, <3>3, <3>5, <2>1
    <3> QED
      BY <3>4, <3>5
  <2> HIDE DEF g
  <2> QED
    BY <2>2, <2>3, m + 1 \in Nat, Zenon
<1>3. n \in S
  BY ONLY <1>0, <1>1, <1>2, EveryNat
<1>4. PICK f \in F : \A i \in 1..n : f[i] = Step(f, i)
  BY <1>0, <1>3
<1>5. f = [i \in 1..n |-> Step(f, i)]
  BY <1>4
<1>6. Flattened(s) = [i \in 1..n |-> Step(Flattened(s), i)]
  BY <1>5, Zenon DEF Flattened
<1> QED
  BY <1>6

LEMMA FlattenElements ==
    ASSUME NEW X, NEW s \in Seq(Seq(X))
    PROVE  /\ FlattenSeq(s) \in Seq(X)
           /\ \A x : x \in ToSet(FlattenSeq(s)) <=> \E i \in DOMAIN s : x \in ToSet(s[i])
<1>1. Len(s) \in Nat /\ DOMAIN s = 1..Len(s) /\ s \in [1..Len(s) -> Seq(X)]
  OBVIOUS
<1>2. CASE Len(s) = 0
  <2>1. FlattenSeq(s) = s /\ s = <<>>
    BY <1>2 DEF FlattenSeq
  <2> QED
    BY <1>1, <1>2, <2>1 DEF ToSet
<1>3. CASE Len(s) # 0
  <2> DEFINE f == Flattened(s)
             Held(m) == /\ f[m] \in Seq(X)
                        /\ \A x : x \in ToSet(f[m]) <=> \E i \in 1..m : x \in ToSet(s[i])
             S == {m \in Nat : m \in 1..Len(s) => Held(m)}
  <2>1. FlattenSeq(s) = f[Len(s)]
    BY <1>3 DEF FlattenSeq, Flattened
  <2>2. \A i \in 1..Len(s) : f[i] = IF i = 1 THEN s[i] ELSE f[i - 1] \o s[i]
    BY FlattenedExists
  <2> HIDE DEF f
  <2>3. 0 \in S
    BY <1>1
  <2>4. ASSUME NEW m \in Nat, m \in S PROVE m + 1 \in S
    <3> SUFFICES ASSUME m + 1 \in 1..Len(s) PROVE Held(m + 1)
      BY <1>1
    <3>1. s[m + 1] \in Seq(X)
      BY <1>1
    <3>2. CASE m = 0
      <4>1. f[1] = s[1] /\ 1 \in 1..Len(s) /\ 1..1 = {1}
        BY <2>2, <3>2
      <4> QED
        BY <4>1, <3>1, <3>2
    <3>3. CASE m # 0
      <4>1. m \in 1..Len(s) /\ m + 1 # 1 /\ (m + 1) - 1 = m
        BY <1>1, <3>3
      <4>2. Held(m) /\ f[m + 1] = f[m] \o s[m + 1]
        BY <4>1, <2>2, <2>4
      <4>3. /\ f[m + 1] \in Seq(X)
            /\ \A x : x \in ToSet(f[m + 1]) <=> x \in ToSet(f[m]) \/ x \in ToSet(s[m + 1])
        BY <3>1, <4>2, ConcatElements
      <4>4. \A i : i \in 1..(m + 1) <=> i \in 1..m \/ i = m + 1
        OBVIOUS
      <4> QED
        BY <4>2, <4>3, <4>4
    <3> QED
      BY <3>2, <3>3
  <2> HIDE DEF S
  <2>5. Len(s) \in S
    BY <1>1, <2>3, <2>4, EveryNat
  <2> USE DEF S
  <2>6. Held(Len(s))
    BY <1>1, <1>3, <2>5
  <2> QED
    BY <1>1, <2>1, <2>6
<1> QED
  BY <1>2, <1>3

LEMMA OverItsElements ==
    ASSUME NEW X, NEW s \in Seq(X)
    PROVE  s \in Seq(ToSet(s))
<1>1. Len(s) \in Nat /\ s = [i \in 1..Len(s) |-> s[i]] /\ DOMAIN s = 1..Len(s)
  OBVIOUS
<1>2. s \in [1..Len(s) -> ToSet(s)]
  BY <1>1 DEF ToSet
<1> QED
  BY <1>1, <1>2

LEMMA OverMore ==
    ASSUME NEW X, NEW Y, X \subseteq Y, NEW s \in Seq(X)
    PROVE  s \in Seq(Y)
<1>1. Len(s) \in Nat /\ s \in [1..Len(s) -> X]
  OBVIOUS
<1>2. s \in [1..Len(s) -> Y]
  BY <1>1
<1> QED
  BY <1>1, <1>2

-------------------------------------------------------------------------------
(* The requests of a matrix. *)

RequestOf(t, r) == Request(Substituted(t.url, r.value), t, r.key, r.tenant)

LEMMA RenderedElements ==
    ASSUME NEW t, NEW resources, resources \in Seq(ToSet(resources))
    PROVE  /\ Rendered(t, resources) \in Seq(ToSet(Rendered(t, resources)))
           /\ \A q : q \in ToSet(Rendered(t, resources)) <=>
                IF HasKind(t)
                THEN \E r \in ToSet(resources) : r.kind = t.kind /\ q = RequestOf(t, r)
                ELSE q = Request(t.url, t, None, None)
<1>1. CASE ~HasKind(t)
  <2> DEFINE one == Request(t.url, t, None, None)
  <2>1. Rendered(t, resources) = <<one>>
    BY <1>1 DEF Rendered
  <2> HIDE DEF one
  <2>2. <<one>> \in Seq({one}) /\ ToSet(<<one>>) = {one}
    BY DEF ToSet
  <2>3. \A q : q \in ToSet(Rendered(t, resources)) <=> q = one
    BY <2>1, <2>2
  <2> QED
    BY <1>1, <2>1, <2>2, <2>3 DEF one
<1>2. CASE HasKind(t)
  <2> DEFINE X == {RequestOf(t, r) : r \in ToSet(resources)}
             s == [i \in DOMAIN resources |-> RequestsFor(t, resources[i])]
  <2>1. Rendered(t, resources) = FlattenSeq(s)
    BY <1>2 DEF Rendered
  <2>2. Len(resources) \in Nat /\ DOMAIN resources = 1..Len(resources)
    OBVIOUS
  <2>3. ASSUME NEW i \in DOMAIN resources
        PROVE  /\ s[i] \in Seq(X)
               /\ \A q : q \in ToSet(s[i]) <=>
                    resources[i].kind = t.kind /\ q = RequestOf(t, resources[i])
    <3> DEFINE q0 == RequestOf(t, resources[i])
    <3>1. resources[i] \in ToSet(resources)
      BY DEF ToSet
    <3>2. q0 \in X
      BY <3>1
    <3>3. s[i] = IF resources[i].kind = t.kind THEN <<q0>> ELSE <<>>
      BY DEF RequestsFor, RequestOf
    <3> HIDE DEF q0, X, s
    <3>4. <<q0>> \in Seq(X) /\ <<>> \in Seq(X)
      BY <3>2
    <3>5. ToSet(<<q0>>) = {q0} /\ ToSet(<<>>) = {}
      BY DEF ToSet
    <3>6. CASE resources[i].kind = t.kind
      <4>1. s[i] = <<q0>>
        BY <3>3, <3>6
      <4> QED
        BY <4>1, <3>4, <3>5, <3>6 DEF q0
    <3>7. CASE resources[i].kind # t.kind
      <4>1. s[i] = <<>>
        BY <3>3, <3>7
      <4> QED
        BY <4>1, <3>4, <3>5, <3>7
    <3> QED
      BY <3>6, <3>7
  <2>4. s \in Seq(Seq(X)) /\ DOMAIN s = DOMAIN resources
    <3>1. s \in [1..Len(resources) -> Seq(X)]
      BY <2>2, <2>3
    <3> HIDE DEF X, s
    <3> QED
      BY <2>2, <3>1
  <2> HIDE DEF X, s
  <2>5. /\ FlattenSeq(s) \in Seq(X)
        /\ \A q : q \in ToSet(FlattenSeq(s)) <=> \E i \in DOMAIN s : q \in ToSet(s[i])
    BY <2>4, FlattenElements
  <2>6. \A q : q \in ToSet(FlattenSeq(s)) <=>
            \E r \in ToSet(resources) : r.kind = t.kind /\ q = RequestOf(t, r)
    <3>1. \A r : r \in ToSet(resources) <=> \E i \in DOMAIN resources : r = resources[i]
      BY DEF ToSet
    <3> QED
      BY <3>1, <2>3, <2>4, <2>5
  <2> QED
    BY <1>2, <2>1, <2>5, <2>6, OverItsElements
<1> QED
  BY <1>1, <1>2

LEMMA RequestsElements ==
    ASSUME NEW in, IsList(in.resources), IsList(in.templates)
    PROVE  /\ Requests(in) \in Seq(ToSet(Requests(in)))
           /\ \A q : q \in ToSet(Requests(in)) <=>
                \E t \in ToSet(in.templates) : q \in ToSet(Rendered(t, in.resources))
<1> DEFINE X == UNION {ToSet(Rendered(t, in.resources)) : t \in ToSet(in.templates)}
           s == [i \in DOMAIN in.templates |-> Rendered(in.templates[i], in.resources)]
<1>1. /\ in.resources \in Seq(ToSet(in.resources))
      /\ in.templates \in Seq(ToSet(in.templates))
  BY DEF IsList
<1>2. Len(in.templates) \in Nat /\ DOMAIN in.templates = 1..Len(in.templates)
  BY <1>1
<1>3. \A i \in DOMAIN in.templates : s[i] \in Seq(X)
  <2> TAKE i \in DOMAIN in.templates
  <2>1. in.templates[i] \in ToSet(in.templates)
    BY DEF ToSet
  <2>2. ToSet(Rendered(in.templates[i], in.resources)) \subseteq X
    BY <2>1
  <2>3. Rendered(in.templates[i], in.resources)
            \in Seq(ToSet(Rendered(in.templates[i], in.resources)))
    BY <1>1, RenderedElements
  <2> HIDE DEF X
  <2> QED
    BY <2>2, <2>3, OverMore
<1>4. s \in Seq(Seq(X)) /\ DOMAIN s = DOMAIN in.templates
  <2>1. s \in [1..Len(in.templates) -> Seq(X)]
    BY <1>2, <1>3
  <2> HIDE DEF X, s
  <2> QED
    BY <1>2, <2>1
<1>5. \A q : (\E i \in DOMAIN s : q \in ToSet(s[i])) <=>
              \E t \in ToSet(in.templates) : q \in ToSet(Rendered(t, in.resources))
  <2>1. \A t : t \in ToSet(in.templates) <=> \E i \in DOMAIN in.templates : t = in.templates[i]
    BY DEF ToSet
  <2> QED
    BY <2>1, <1>4
<1>6. Requests(in) = FlattenSeq(s)
  BY DEF Requests
<1> HIDE DEF X, s
<1>7. /\ FlattenSeq(s) \in Seq(X)
      /\ \A q : q \in ToSet(FlattenSeq(s)) <=> \E i \in DOMAIN s : q \in ToSet(s[i])
  BY <1>4, FlattenElements
<1> QED
  BY <1>5, <1>6, <1>7, OverItsElements

LEMMA ElementAt ==
    ASSUME NEW s, NEW x
    PROVE  x \in ToSet(s) <=> \E i \in DOMAIN s : x = s[i]
BY DEF ToSet


-------------------------------------------------------------------------------
(* Folds of a list.  FoldLeft recurs on sets of positions and takes the last of
   them; what it makes of the first k elements is a state, and the fold a run of
   states. *)

LEMMA LastPosition ==
    ASSUME NEW n \in Nat, NEW s \in SUBSET (1..n), s # {}
    PROVE  /\ Max(s) \in s /\ \A i \in s : i <= Max(s)
           /\ Max(s) \in Nat
<1> DEFINE T == {n - i : i \in s}
<1>0. \A i \in s : i \in Nat /\ i <= n /\ n - i \in Nat
  BY SMT
<1>1. T \subseteq Nat /\ T # {}
  BY <1>0
<1>2. Min(T) \in T /\ \A y \in T : Min(T) <= y
  BY <1>1, LeastOfNats
<1>3. PICK m \in s : Min(T) = n - m
  BY <1>2
<1>4. ASSUME NEW i \in s PROVE m >= i
  <2>1. n - m <= n - i /\ i \in Nat /\ m \in Nat
    BY <1>0, <1>2, <1>3
  <2> QED
    BY <2>1
<1>5. Max(s) \in s /\ \A i \in s : Max(s) >= i
  BY <1>4, Zenon DEF Max
<1>6. Max(s) \in Nat
  BY <1>0, <1>5
<1>7. \A i \in s : i <= Max(s)
  BY <1>0, <1>5, <1>6
<1> QED
  BY <1>5, <1>6, <1>7

LEMMA LastOfFirst ==
    ASSUME NEW n \in Nat, NEW k \in Nat, k < n
    PROVE  /\ 1..(k + 1) \in SUBSET (1..n) /\ 1..(k + 1) # {}
           /\ Max(1..(k + 1)) = k + 1 /\ (1..(k + 1)) \ {k + 1} = 1..k
<1>1. 1..(k + 1) \in SUBSET (1..n) /\ k + 1 \in 1..(k + 1)
  OBVIOUS
<1>2. /\ Max(1..(k + 1)) \in 1..(k + 1) /\ \A i \in 1..(k + 1) : i <= Max(1..(k + 1))
      /\ Max(1..(k + 1)) \in Nat
  BY <1>1, LastPosition
<1>3. Max(1..(k + 1)) = k + 1
  BY <1>1, <1>2
<1>4. (1..(k + 1)) \ {k + 1} = 1..k
  OBVIOUS
<1> QED
  BY <1>1, <1>3, <1>4, Zenon

\* h makes the next state of a state and a position.
IsFold(f, n, A, base, h) ==
    /\ f \in [SUBSET (1..n) -> A]
    /\ \A s \in SUBSET (1..n) :
        f[s] = IF s = {} THEN base ELSE h[<<f[s \ {Max(s)}], Max(s)>>]

\* What FoldLeft computes: a step wherever the state before it is one.
Folds(iter, n, A, base, h) ==
    /\ iter[{}] = base
    /\ \A s \in SUBSET (1..n) :
        s # {} /\ iter[s \ {Max(s)}] \in A => iter[s] = h[<<iter[s \ {Max(s)}], Max(s)>>]

IsRun(run, n, A, base, h, last) ==
    /\ run \in [0..n -> A] /\ run[0] = base /\ run[n] = last
    /\ \A k \in Nat : k < n => run[k + 1] = h[<<run[k], k + 1>>]

LEMMA FoldExists ==
    ASSUME NEW A, NEW base \in A, NEW n \in Nat, NEW h \in [A \X (1..n) -> A]
    PROVE  \E f : IsFold(f, n, A, base, h)
<1> DEFINE F == [SUBSET (1..n) -> A]
           Next_(f, s) == IF s = {} THEN base ELSE h[<<f[s \ {Max(s)}], Max(s)>>]
           N == {m \in Nat : \E f \in F : \A s \in SUBSET (1..n) :
                    s \subseteq 1..m => f[s] = Next_(f, s)}
<1>1. 0 \in N
  <2> DEFINE f == [s \in SUBSET (1..n) |-> base]
  <2>1. f \in F
    OBVIOUS
  <2>2. \A s \in SUBSET (1..n) : s \subseteq 1..0 => f[s] = Next_(f, s)
    OBVIOUS
  <2> HIDE DEF f
  <2> QED
    BY <2>1, <2>2
<1>2. ASSUME NEW f \in F, NEW s \in SUBSET (1..n) PROVE Next_(f, s) \in A
  <2>1. CASE s = {}
    BY <2>1
  <2>2. CASE s # {}
    <3>1. Max(s) \in 1..n /\ s \ {Max(s)} \in SUBSET (1..n)
      BY <2>2, LastPosition
    <3> QED
      BY <2>2, <3>1
  <2> QED
    BY <2>1, <2>2
<1>3. ASSUME NEW m \in Nat, m \in N PROVE m + 1 \in N
  <2>1. PICK f \in F : \A s \in SUBSET (1..n) : s \subseteq 1..m => f[s] = Next_(f, s)
    BY <1>3
  <2> DEFINE g == [s \in SUBSET (1..n) |-> Next_(f, s)]
  <2>2. g \in F
    BY <1>2
  <2>3. ASSUME NEW s \in SUBSET (1..n), s \subseteq 1..(m + 1) PROVE g[s] = Next_(g, s)
    <3>1. CASE s = {}
      BY <3>1
    <3>2. CASE s # {}
      <4> DEFINE r == s \ {Max(s)}
      <4>1. r \in SUBSET (1..n) /\ r \subseteq 1..m
        <5>1. Max(s) \in s /\ (\A i \in s : i <= Max(s)) /\ Max(s) \in Nat
          BY <3>2, LastPosition
        <5>2. ASSUME NEW i \in s, i # Max(s) PROVE i \in 1..m
          <6>1. i \in 1..(m + 1) /\ Max(s) \in 1..(m + 1) /\ i <= Max(s)
            BY <2>3, <5>1
          <6> QED
            BY <5>2, <6>1
        <5> QED
          BY <5>2
      <4>2. g[r] = f[r]
        BY <2>1, <4>1
      <4> QED
        BY <3>2, <4>2
    <3> QED
      BY <3>1, <3>2
  <2> HIDE DEF g, Next_
  <2> QED
    BY <2>2, <2>3, m + 1 \in Nat, Zenon
<1>4. n \in N
  BY ONLY <1>1, <1>3, EveryNat
<1>5. PICK f \in F : \A s \in SUBSET (1..n) : f[s] = Next_(f, s)
  BY <1>4
<1> QED
  BY <1>5 DEF IsFold

\* The states of a fold, of the first 0, 1, ..., n elements.
LEMMA FoldRuns ==
    ASSUME NEW A, NEW base \in A, NEW n \in Nat, NEW h \in [A \X (1..n) -> A], NEW iter,
           Folds(iter, n, A, base, h)
    PROVE  \E run : IsRun(run, n, A, base, h, iter[1..n])
<1> DEFINE run == [k \in 0..n |-> iter[1..k]]
           N == {k \in Nat : k <= n => iter[1..k] \in A}
<1>1. iter[1..0] = base
  <2>1. 1..0 = {}
    OBVIOUS
  <2> QED
    BY <2>1 DEF Folds
<1>2. ASSUME NEW k \in Nat, k < n, iter[1..k] \in A
      PROVE  iter[1..(k + 1)] = h[<<iter[1..k], k + 1>>] /\ iter[1..(k + 1)] \in A
  <2>1. iter[1..(k + 1)] = h[<<iter[1..k], k + 1>>]
    BY <1>2, LastOfFirst DEF Folds
  <2>2. k + 1 \in 1..n
    BY <1>2
  <2> QED
    BY <1>2, <2>1, <2>2
<1>3. 0 \in N
  BY <1>1
<1>4. ASSUME NEW k \in Nat, k \in N PROVE k + 1 \in N
  <2>1. k + 1 <= n => k < n /\ k <= n
    OBVIOUS
  <2>2. k + 1 <= n => iter[1..(k + 1)] \in A
    BY <1>2, <1>4, <2>1
  <2> QED
    BY <2>2
<1>5. \A k \in Nat : k \in N
  BY ONLY <1>3, <1>4, EveryNat
<1>6. \A k \in 0..n : iter[1..k] \in A
  BY <1>5
<1>7. run \in [0..n -> A]
  BY <1>6
<1>8. \A k \in Nat : k < n => run[k + 1] = h[<<run[k], k + 1>>]
  <2> TAKE k \in Nat
  <2> HAVE k < n
  <2>1. k \in 0..n /\ k + 1 \in 0..n
    OBVIOUS
  <2> QED
    BY <1>2, <1>6, <2>1
<1>9. run[0] = base /\ run[n] = iter[1..n]
  BY <1>1
<1> HIDE DEF run
<1> QED
  BY <1>7, <1>8, <1>9 DEF IsRun

-------------------------------------------------------------------------------
(* What templates are expected to cost. *)

UnitsSummed(ts, resources) ==
    CHOOSE iter : iter =
        [s \in SUBSET DOMAIN ts |->
            IF s = {} THEN 0
            ELSE iter[s \ {Max(s)}] + Expansion(ts[Max(s)], resources)]

LEMMA UnitsAreSummed ==
    ASSUME NEW ts, NEW resources
    PROVE  BaseUnits(ts, resources) = UnitsSummed(ts, resources)[DOMAIN ts]
BY Zenon DEF BaseUnits, FoldLeft, MapThenFoldSet, UnitsSummed

LEMMA ExpansionIsNatural ==
    ASSUME NEW t, NEW resources, IsList(resources)
    PROVE  Expansion(t, resources) \in Nat
<1>1. Len(resources) \in Nat /\ DOMAIN resources = 1..Len(resources)
  BY DEF IsList
<1>2. IsFiniteSet(1..Len(resources))
  BY <1>1, FS_Interval
<1>3. IsFiniteSet({i \in DOMAIN resources : resources[i].kind = t.kind})
  BY <1>1, <1>2, FS_Subset
<1>4. Cardinality({i \in DOMAIN resources : resources[i].kind = t.kind}) \in Nat
  BY <1>3, FS_CardinalityType
<1> QED
  BY <1>4 DEF Expansion

LEMMA UnitsRun ==
    ASSUME NEW ts, IsList(ts), NEW resources, IsList(resources)
    PROVE  \E run \in [0..Len(ts) -> Nat] :
              /\ run[0] = 0 /\ run[Len(ts)] = BaseUnits(ts, resources)
              /\ \A k \in Nat : k < Len(ts) =>
                    run[k + 1] = run[k] + Expansion(ts[k + 1], resources)
<1> DEFINE n == Len(ts)
           P == SUBSET (1..n)
           h == [p \in Nat \X (1..n) |-> p[1] + Expansion(ts[p[2]], resources)]
           iter == UnitsSummed(ts, resources)
<1>1. n \in Nat /\ DOMAIN ts = 1..n
  BY DEF IsList
<1>2. h \in [Nat \X (1..n) -> Nat]
  BY ExpansionIsNatural
<1>3. \A a \in Nat, i \in 1..n : h[<<a, i>>] = a + Expansion(ts[i], resources)
  OBVIOUS
<1> HIDE DEF h, n
<1>4. PICK f : IsFold(f, n, Nat, 0, h)
  BY <1>1, <1>2, 0 \in Nat, FoldExists
<1>5. \A s \in P : f[s] = IF s = {} THEN 0 ELSE f[s \ {Max(s)}] + Expansion(ts[Max(s)], resources)
  <2> TAKE s \in P
  <2> USE DEF IsFold
  <2>1. CASE s = {}
    BY <1>4, <2>1
  <2>2. CASE s # {}
    <3>1. Max(s) \in 1..n /\ s \ {Max(s)} \in P
      BY <1>1, <2>2, LastPosition
    <3>2. f[s \ {Max(s)}] \in Nat
      BY <1>4, <3>1
    <3> QED
      BY <1>3, <1>4, <2>2, <3>1, <3>2
  <2> QED
    BY <2>1, <2>2
<1>6. f = [s \in P |-> IF s = {} THEN 0 ELSE f[s \ {Max(s)}] + Expansion(ts[Max(s)], resources)]
  BY <1>4, <1>5 DEF IsFold
<1>7. iter = [s \in P |-> IF s = {} THEN 0
                         ELSE iter[s \ {Max(s)}] + Expansion(ts[Max(s)], resources)]
  BY <1>1, <1>6, Zenon DEF UnitsSummed
<1> HIDE DEF iter
<1>8. iter[{}] = 0
  <2>1. {} \in P
    OBVIOUS
  <2> QED
    BY <1>7, <2>1
<1>9. \A s \in P : s # {} /\ iter[s \ {Max(s)}] \in Nat =>
            iter[s] = h[<<iter[s \ {Max(s)}], Max(s)>>]
  <2> TAKE s \in P
  <2> HAVE s # {} /\ iter[s \ {Max(s)}] \in Nat
  <2>1. Max(s) \in 1..n
    BY <1>1, LastPosition
  <2> QED
    BY <1>3, <1>7, <2>1
<1>10. PICK run : IsRun(run, n, Nat, 0, h, iter[1..n])
  <2>1. Folds(iter, n, Nat, 0, h)
    BY <1>8, <1>9 DEF Folds
  <2> QED
    BY <1>1, <1>2, <2>1, 0 \in Nat, FoldRuns
<1>11. run[n] = BaseUnits(ts, resources)
  BY <1>1, <1>10, UnitsAreSummed DEF iter, IsRun
<1>12. \A k \in Nat : k < n => run[k + 1] = run[k] + Expansion(ts[k + 1], resources)
  <2> TAKE k \in Nat
  <2> HAVE k < n
  <2>1. k \in 0..n /\ k + 1 \in 1..n
    BY <1>1
  <2> QED
    BY <1>3, <1>10, <2>1 DEF IsRun
<1> QED
  BY <1>10, <1>11, <1>12 DEF n, IsRun

FitStep(acc, c, resources, profileCount, maxRequests) ==
    LET cost == Expansion(SmartTemplate(c), resources) * profileCount
    IN  IF cost >= 1 /\ acc.used + cost <= maxRequests
        THEN [selected |-> Append(acc.selected, c), used |-> acc.used + cost]
        ELSE acc

Fitted(start, candidates, resources, profileCount, maxRequests) ==
    CHOOSE iter : iter =
        [s \in SUBSET DOMAIN candidates |->
            IF s = {} THEN start
            ELSE FitStep(iter[s \ {Max(s)}], candidates[Max(s)], resources, profileCount,
                         maxRequests)]

LEMMA BudgetIsFitted ==
    ASSUME NEW base, NEW candidates, NEW resources, NEW profileCount, NEW maxRequests
    PROVE  FitBudget(base, candidates, resources, profileCount, maxRequests) =
              Fitted([selected |-> <<>>, used |-> base * profileCount], candidates, resources,
                     profileCount, maxRequests)[DOMAIN candidates]
BY Zenon DEF FitBudget, FoldLeft, MapThenFoldSet, Fitted, FitStep

KeepStep(kept, t) ==
    IF \E k \in ToSet(kept) : <<k.method, k.url, k.kind>> = <<t.method, t.url, t.kind>>
    THEN kept ELSE Append(kept, t)

Kept(ts) ==
    CHOOSE iter : iter =
        [s \in SUBSET DOMAIN ts |->
            IF s = {} THEN <<>> ELSE KeepStep(iter[s \ {Max(s)}], ts[Max(s)])]

LEMMA UniqueAreKept ==
    ASSUME NEW ts
    PROVE  UniqueTemplates(ts) = Kept(ts)[DOMAIN ts]
BY Zenon DEF UniqueTemplates, FoldLeft, MapThenFoldSet, Kept, KeepStep

PlanStep(document, config, made, op) ==
    IF Plannable(document, config, op) /\ Len(made) < config.max_templates
    THEN Append(made, OperationTemplate(config, op))
    ELSE made

Planned(document, config) ==
    CHOOSE iter : iter =
        [s \in SUBSET DOMAIN document.operations |->
            IF s = {} THEN <<>>
            ELSE PlanStep(document, config, iter[s \ {Max(s)}], document.operations[Max(s)])]

LEMMA ContractIsPlanned ==
    ASSUME NEW document, NEW config
    PROVE  OpenApiPlan(document, config) =
              UniqueTemplates(Planned(document, config)[DOMAIN document.operations])
BY Zenon DEF OpenApiPlan, FoldLeft, MapThenFoldSet, Planned, PlanStep

\* What a step of each fold makes is again a state of it.
LEMMA FitStepState ==
    ASSUME NEW C, NEW acc \in [selected : Seq(C), used : Nat], NEW c \in C,
           NEW resources, IsList(resources), NEW profileCount \in Nat, NEW maxRequests
    PROVE  FitStep(acc, c, resources, profileCount, maxRequests) \in [selected : Seq(C), used : Nat]
<1> DEFINE cost == Expansion(SmartTemplate(c), resources) * profileCount
<1>1. cost \in Nat
  BY ExpansionIsNatural
<1>2. FitStep(acc, c, resources, profileCount, maxRequests) =
         IF cost >= 1 /\ acc.used + cost <= maxRequests
         THEN [selected |-> Append(acc.selected, c), used |-> acc.used + cost]
         ELSE acc
  BY DEF FitStep
<1> HIDE DEF cost
<1>3. Append(acc.selected, c) \in Seq(C) /\ acc.used + cost \in Nat
  BY <1>1
<1> QED
  BY <1>2, <1>3

LEMMA KeepStepState ==
    ASSUME NEW X, NEW kept \in Seq(X), NEW t \in X
    PROVE  KeepStep(kept, t) \in Seq(X)
<1>1. Append(kept, t) \in Seq(X)
  OBVIOUS
<1> QED
  BY <1>1 DEF KeepStep

\* The templates a contract can give.
ContractTemplates(document, config) ==
    {OperationTemplate(config, op) :
        op \in {op \in ToSet(document.operations) : Plannable(document, config, op)}}

LEMMA PlanStepState ==
    ASSUME NEW document, NEW config, NEW made \in Seq(ContractTemplates(document, config)),
           NEW op \in ToSet(document.operations)
    PROVE  PlanStep(document, config, made, op) \in Seq(ContractTemplates(document, config))
<1> DEFINE X == ContractTemplates(document, config)
<1>1. Plannable(document, config, op) => OperationTemplate(config, op) \in X
  BY DEF ContractTemplates
<1> HIDE DEF X
<1>2. Plannable(document, config, op) => Append(made, OperationTemplate(config, op)) \in Seq(X)
  BY <1>1 DEF X
<1> QED
  BY <1>2 DEF PlanStep, X

\* What the first 0, 1, ... candidates make of the budget.
IsFitRun(run, start, candidates, resources, profileCount, maxRequests) ==
    /\ run[0] = start
    /\ run[Len(candidates)] =
          Fitted(start, candidates, resources, profileCount, maxRequests)[DOMAIN candidates]
    /\ \A k \in Nat : k < Len(candidates) =>
          run[k + 1] = FitStep(run[k], candidates[k + 1], resources, profileCount, maxRequests)

LEMMA FitRun ==
    ASSUME NEW candidates, IsList(candidates),
           NEW start \in [selected : Seq(ToSet(candidates)), used : Nat],
           NEW resources, IsList(resources), NEW profileCount \in Nat, NEW maxRequests
    PROVE  \E run : IsFitRun(run, start, candidates, resources, profileCount, maxRequests)
<1> DEFINE n == Len(candidates)
           A == [selected : Seq(ToSet(candidates)), used : Nat]
           P == SUBSET (1..n)
           K(acc, i) == FitStep(acc, candidates[i], resources, profileCount, maxRequests)
           h == [p \in A \X (1..n) |-> K(p[1], p[2])]
           iter == Fitted(start, candidates, resources, profileCount, maxRequests)
<1>1. n \in Nat /\ DOMAIN candidates = 1..n /\ \A i \in 1..n : candidates[i] \in ToSet(candidates)
  BY DEF IsList
<1>2. start \in A
  OBVIOUS
<1>3. \A a \in A, i \in 1..n : K(a, i) \in A
  BY <1>1, FitStepState
<1>4. iter = CHOOSE f : f = [s \in P |-> IF s = {} THEN start ELSE K(f[s \ {Max(s)}], Max(s))]
  BY <1>1, Zenon DEF Fitted
<1>5. h \in [A \X (1..n) -> A]
  BY <1>3
<1>6. \A a \in A, i \in 1..n : h[<<a, i>>] = K(a, i)
  OBVIOUS
<1> HIDE DEF h, n, K, A, iter
<1>7. PICK f : IsFold(f, n, A, start, h)
  BY <1>1, <1>2, <1>5, FoldExists
<1>8. f = [s \in P |-> IF s = {} THEN start ELSE K(f[s \ {Max(s)}], Max(s))]
  <2>1. ASSUME NEW s \in P, s # {} PROVE f[s] = K(f[s \ {Max(s)}], Max(s))
    <3>1. Max(s) \in 1..n /\ s \ {Max(s)} \in P
      BY <1>1, <2>1, LastPosition
    <3> QED
      BY <1>6, <1>7, <2>1, <3>1 DEF IsFold
  <2> QED
    BY <1>7, <2>1 DEF IsFold
<1>9. iter = [s \in P |-> IF s = {} THEN start ELSE K(iter[s \ {Max(s)}], Max(s))]
  BY <1>4, <1>8, Zenon
<1>10. Folds(iter, n, A, start, h)
  <2>1. iter[{}] = start
    BY <1>9, {} \in P
  <2>2. ASSUME NEW s \in P, s # {}, iter[s \ {Max(s)}] \in A
        PROVE  iter[s] = h[<<iter[s \ {Max(s)}], Max(s)>>]
    <3>1. Max(s) \in 1..n
      BY <1>1, <2>2, LastPosition
    <3> QED
      BY <1>6, <1>9, <2>2, <3>1
  <2> QED
    BY <2>1, <2>2 DEF Folds
<1>11. PICK run : IsRun(run, n, A, start, h, iter[1..n])
  BY <1>1, <1>2, <1>5, <1>10, FoldRuns
<1>12. ASSUME NEW k \in Nat, k < n PROVE run[k + 1] = K(run[k], k + 1)
  <2>1. k \in 0..n /\ k + 1 \in 1..n
    BY <1>1, <1>12
  <2> QED
    BY <1>6, <1>11, <1>12, <2>1 DEF IsRun
<1>13. IsFitRun(run, start, candidates, resources, profileCount, maxRequests)
  BY <1>1, <1>11, <1>12 DEF n, K, iter, IsRun, IsFitRun
<1> QED
  BY <1>13

\* What is kept of the first 0, 1, ... templates.
IsKeepRun(run, ts) ==
    /\ run[0] = <<>> /\ run[Len(ts)] = UniqueTemplates(ts)
    /\ \A k \in Nat : k < Len(ts) => run[k + 1] = KeepStep(run[k], ts[k + 1])

LEMMA UniqueRun ==
    ASSUME NEW ts, IsList(ts)
    PROVE  \E run : IsKeepRun(run, ts)
<1> DEFINE n == Len(ts)
           A == Seq(ToSet(ts))
           P == SUBSET (1..n)
           K(acc, i) == KeepStep(acc, ts[i])
           h == [p \in A \X (1..n) |-> K(p[1], p[2])]
           iter == Kept(ts)
<1>1. n \in Nat /\ DOMAIN ts = 1..n /\ \A i \in 1..n : ts[i] \in ToSet(ts)
  BY DEF IsList
<1>2. <<>> \in A
  OBVIOUS
<1>3. \A a \in A, i \in 1..n : K(a, i) \in A
  BY <1>1, KeepStepState
<1>4. iter = CHOOSE f : f = [s \in P |-> IF s = {} THEN <<>> ELSE K(f[s \ {Max(s)}], Max(s))]
  BY <1>1, Zenon DEF Kept
<1>5. h \in [A \X (1..n) -> A]
  BY <1>3
<1>6. \A a \in A, i \in 1..n : h[<<a, i>>] = K(a, i)
  OBVIOUS
<1> HIDE DEF h, n, K, A, iter
<1>7. PICK f : IsFold(f, n, A, <<>>, h)
  BY <1>1, <1>2, <1>5, FoldExists
<1>8. f = [s \in P |-> IF s = {} THEN <<>> ELSE K(f[s \ {Max(s)}], Max(s))]
  <2>1. ASSUME NEW s \in P, s # {} PROVE f[s] = K(f[s \ {Max(s)}], Max(s))
    <3>1. Max(s) \in 1..n /\ s \ {Max(s)} \in P
      BY <1>1, <2>1, LastPosition
    <3> QED
      BY <1>6, <1>7, <2>1, <3>1 DEF IsFold
  <2> QED
    BY <1>7, <2>1 DEF IsFold
<1>9. iter = [s \in P |-> IF s = {} THEN <<>> ELSE K(iter[s \ {Max(s)}], Max(s))]
  BY <1>4, <1>8, Zenon
<1>10. Folds(iter, n, A, <<>>, h)
  <2>1. iter[{}] = <<>>
    BY <1>9, {} \in P
  <2>2. ASSUME NEW s \in P, s # {}, iter[s \ {Max(s)}] \in A
        PROVE  iter[s] = h[<<iter[s \ {Max(s)}], Max(s)>>]
    <3>1. Max(s) \in 1..n
      BY <1>1, <2>2, LastPosition
    <3> QED
      BY <1>6, <1>9, <2>2, <3>1
  <2> QED
    BY <2>1, <2>2 DEF Folds
<1>11. PICK run : IsRun(run, n, A, <<>>, h, iter[1..n])
  BY <1>1, <1>2, <1>5, <1>10, FoldRuns
<1>12. ASSUME NEW k \in Nat, k < n PROVE run[k + 1] = K(run[k], k + 1)
  <2>1. k \in 0..n /\ k + 1 \in 1..n
    BY <1>1, <1>12
  <2> QED
    BY <1>6, <1>11, <1>12, <2>1 DEF IsRun
<1>13. IsKeepRun(run, ts)
  BY <1>1, <1>11, <1>12, UniqueAreKept DEF n, K, iter, IsRun, IsKeepRun
<1> QED
  BY <1>13

\* What is made of the first 0, 1, ... operations.
IsPlanRun(run, document, config, ops) ==
    /\ run \in [0..Len(ops) -> Seq(ContractTemplates(document, config))]
    /\ run[0] = <<>>
    /\ UniqueTemplates(run[Len(ops)]) = OpenApiPlan(document, config)
    /\ \A k \in Nat : k < Len(ops) =>
          run[k + 1] = PlanStep(document, config, run[k], ops[k + 1])

LEMMA PlanRun ==
    ASSUME NEW document, NEW config, NEW ops, ops = document.operations, IsList(ops)
    PROVE  \E run : IsPlanRun(run, document, config, ops)
<1> DEFINE n == Len(ops)
           A == Seq(ContractTemplates(document, config))
           P == SUBSET (1..n)
           K(acc, i) == PlanStep(document, config, acc, ops[i])
           h == [p \in A \X (1..n) |-> K(p[1], p[2])]
           iter == Planned(document, config)
<1>1. n \in Nat /\ DOMAIN ops = 1..n /\ \A i \in 1..n : ops[i] \in ToSet(ops)
  BY DEF IsList
<1>2. <<>> \in A
  OBVIOUS
<1>3. \A a \in A, i \in 1..n : K(a, i) \in A
  BY <1>1, PlanStepState
<1>4. iter = CHOOSE f : f = [s \in P |-> IF s = {} THEN <<>> ELSE K(f[s \ {Max(s)}], Max(s))]
  BY <1>1, Zenon DEF Planned
<1>5. h \in [A \X (1..n) -> A]
  BY <1>3
<1>6. \A a \in A, i \in 1..n : h[<<a, i>>] = K(a, i)
  OBVIOUS
<1> HIDE DEF h, n, K, A, iter
<1>7. PICK f : IsFold(f, n, A, <<>>, h)
  BY <1>1, <1>2, <1>5, FoldExists
<1>8. f = [s \in P |-> IF s = {} THEN <<>> ELSE K(f[s \ {Max(s)}], Max(s))]
  <2>1. ASSUME NEW s \in P, s # {} PROVE f[s] = K(f[s \ {Max(s)}], Max(s))
    <3>1. Max(s) \in 1..n /\ s \ {Max(s)} \in P
      BY <1>1, <2>1, LastPosition
    <3> QED
      BY <1>6, <1>7, <2>1, <3>1 DEF IsFold
  <2> QED
    BY <1>7, <2>1 DEF IsFold
<1>9. iter = [s \in P |-> IF s = {} THEN <<>> ELSE K(iter[s \ {Max(s)}], Max(s))]
  BY <1>4, <1>8, Zenon
<1>10. Folds(iter, n, A, <<>>, h)
  <2>1. iter[{}] = <<>>
    BY <1>9, {} \in P
  <2>2. ASSUME NEW s \in P, s # {}, iter[s \ {Max(s)}] \in A
        PROVE  iter[s] = h[<<iter[s \ {Max(s)}], Max(s)>>]
    <3>1. Max(s) \in 1..n
      BY <1>1, <2>2, LastPosition
    <3> QED
      BY <1>6, <1>9, <2>2, <3>1
  <2> QED
    BY <2>1, <2>2 DEF Folds
<1>11. PICK run : IsRun(run, n, A, <<>>, h, iter[1..n])
  BY <1>1, <1>2, <1>5, <1>10, FoldRuns
<1>12. ASSUME NEW k \in Nat, k < n PROVE run[k + 1] = K(run[k], k + 1)
  <2>1. k \in 0..n /\ k + 1 \in 1..n
    BY <1>1, <1>12
  <2> QED
    BY <1>6, <1>11, <1>12, <2>1 DEF IsRun
<1>13. IsPlanRun(run, document, config, ops)
  BY <1>1, <1>11, <1>12, ContractIsPlanned DEF n, A, K, iter, IsRun, IsPlanRun
<1> QED
  BY <1>13

-------------------------------------------------------------------------------
(* Candidates in the order of their scores. *)

Scored(S) == IsFiniteSet(S) /\ \A c \in S : c.score \in 0..100

LEMMA HighestOfScored ==
    ASSUME NEW S, Scored(S), NEW s \in SUBSET S, s # {}
    PROVE  /\ Highest(s) \in s /\ \A c \in s : c.score <= Highest(s).score
           /\ s \ {Highest(s)} \in SUBSET S
           /\ Cardinality(s) \in Nat /\ Cardinality(s \ {Highest(s)}) = Cardinality(s) - 1
<1> DEFINE scores == {c.score : c \in s}
<1>1. scores \subseteq 0..100 /\ scores # {}
  BY DEF Scored
<1>2. PICK x \in scores : \A y \in scores : y <= x
  BY <1>1, GreatestOfBounded
<1>3. \E c \in s : \A other \in s : other.score <= c.score
  BY <1>2
<1>4. Highest(s) \in s /\ \A c \in s : c.score <= Highest(s).score
  BY <1>3 DEF Highest
<1>5. IsFiniteSet(s)
  BY FS_Subset DEF Scored
<1>6. Cardinality(s) \in Nat /\ Cardinality(s \ {Highest(s)}) = Cardinality(s) - 1
  BY <1>4, <1>5, FS_CardinalityType, FS_RemoveElement
<1> QED
  BY <1>4, <1>6

Listed(listing, s) ==
    IF s = {} THEN <<>> ELSE <<Highest(s)>> \o listing[s \ {Highest(s)}]

Listing(S) == CHOOSE listing : listing = [s \in SUBSET S |-> Listed(listing, s)]

LEMMA OrderedIsListed ==
    ASSUME NEW S
    PROVE  Ordered(S) = Listing(S)[S]
BY Zenon DEF Ordered, Listing, Listed

LEMMA ListingExists ==
    ASSUME NEW S, Scored(S)
    PROVE  \A s \in SUBSET S : Listing(S)[s] = Listed(Listing(S), s)
<1> DEFINE F == [SUBSET S -> Seq(S)]
           N == {m \in Nat : \E f \in F : \A s \in SUBSET S :
                    Cardinality(s) <= m => f[s] = Listed(f, s)}
<1>0. \A s \in SUBSET S : /\ IsFiniteSet(s) /\ Cardinality(s) \in Nat
                          /\ Cardinality(s) <= Cardinality(S)
  BY FS_Subset, FS_CardinalityType DEF Scored
<1>1. ASSUME NEW f \in F, NEW s \in SUBSET S PROVE Listed(f, s) \in Seq(S)
  <2>1. CASE s = {}
    BY <2>1 DEF Listed
  <2>2. CASE s # {}
    <3>1. Highest(s) \in S /\ s \ {Highest(s)} \in SUBSET S
      BY <2>2, HighestOfScored
    <3>2. <<Highest(s)>> \in Seq(S) /\ f[s \ {Highest(s)}] \in Seq(S)
      BY <3>1
    <3>3. <<Highest(s)>> \o f[s \ {Highest(s)}] \in Seq(S)
      BY <3>2, ConcatProperties
    <3> QED
      BY <2>2, <3>3 DEF Listed
  <2> QED
    BY <2>1, <2>2
<1>2. 0 \in N
  <2> DEFINE f == [s \in SUBSET S |-> <<>>]
  <2>1. f \in F
    <3>1. <<>> \in Seq(S)
      OBVIOUS
    <3> QED
      BY <3>1
  <2>2. ASSUME NEW s \in SUBSET S, Cardinality(s) <= 0 PROVE f[s] = Listed(f, s)
    <3>1. s = {}
      BY <1>0, <2>2, FS_EmptySet
    <3> QED
      BY <3>1 DEF Listed
  <2> HIDE DEF f
  <2> QED
    BY <2>1, <2>2
<1>3. ASSUME NEW m \in Nat, m \in N PROVE m + 1 \in N
  <2>1. PICK f \in F : \A s \in SUBSET S : Cardinality(s) <= m => f[s] = Listed(f, s)
    BY <1>3
  <2> DEFINE g == [s \in SUBSET S |-> Listed(f, s)]
  <2>2. g \in F
    BY <1>1
  <2>3. ASSUME NEW s \in SUBSET S, Cardinality(s) <= m + 1 PROVE g[s] = Listed(g, s)
    <3>1. CASE s = {}
      BY <3>1 DEF Listed
    <3>2. CASE s # {}
      <4> DEFINE r == s \ {Highest(s)}
      <4>1. r \in SUBSET S /\ Cardinality(r) <= m
        BY <1>0, <2>3, <3>2, HighestOfScored
      <4>2. g[r] = f[r]
        BY <2>1, <4>1
      <4> QED
        BY <3>2, <4>2 DEF Listed
    <3> QED
      BY <3>1, <3>2
  <2> HIDE DEF g
  <2> QED
    BY <2>2, <2>3, m + 1 \in Nat, Zenon
<1>4. \A n \in Nat : n \in N
  BY ONLY <1>2, <1>3, EveryNat
<1>5. PICK f \in F : \A s \in SUBSET S : f[s] = Listed(f, s)
  <2>1. Cardinality(S) \in N
    BY <1>0, <1>4
  <2> QED
    BY <1>0, <2>1
<1>6. f = [s \in SUBSET S |-> Listed(f, s)]
  BY <1>5
<1>7. Listing(S) = [s \in SUBSET S |-> Listed(Listing(S), s)]
  BY <1>6, Zenon DEF Listing
<1> QED
  BY <1>7

\* A list in which no score follows a lower one.
Descending(list) ==
    \A i, j \in DOMAIN list : i <= j => list[j].score <= list[i].score

Lists(list, s) == list \in Seq(s) /\ ToSet(list) = s /\ Descending(list)

LEMMA FirstThenRest ==
    ASSUME NEW S, Scored(S), NEW s \in SUBSET S, s # {},
           NEW rest, Lists(rest, s \ {Highest(s)})
    PROVE  Lists(<<Highest(s)>> \o rest, s)
<1> DEFINE c == Highest(s)
           one == <<c>>
           all == one \o rest
<1>1. c \in s /\ \A other \in s : other.score <= c.score
  BY HighestOfScored
<1> HIDE DEF c
<1>2. one \in Seq(s) /\ rest \in Seq(s) /\ ToSet(one) = {c}
  <2>1. rest \in Seq(s)
    BY s \ {c} \subseteq s, OverMore DEF Lists, c
  <2> QED
    BY <1>1, <2>1 DEF ToSet
<1>3. all \in Seq(s) /\ ToSet(all) = s
  <2>1. /\ all \in Seq(s)
        /\ \A x : x \in ToSet(all) <=> x \in ToSet(one) \/ x \in ToSet(rest)
    BY <1>2, ConcatElements
  <2>2. ToSet(rest) = s \ {c}
    BY DEF Lists, c
  <2> QED
    BY <1>1, <1>2, <2>1, <2>2
<1>4. /\ Len(one) = 1 /\ Len(rest) \in Nat /\ DOMAIN rest = 1..Len(rest)
      /\ DOMAIN all = 1..(1 + Len(rest))
      /\ all[1] = c /\ \A i \in 2..(1 + Len(rest)) : all[i] = rest[i - 1]
  <2>1. /\ Len(one) = 1 /\ one[1] = c /\ Len(rest) \in Nat /\ DOMAIN rest = 1..Len(rest)
    BY <1>2
  <2>2. /\ Len(all) = Len(one) + Len(rest)
        /\ \A i \in 1..(Len(one) + Len(rest)) :
              all[i] = IF i <= Len(one) THEN one[i] ELSE rest[i - Len(one)]
    BY <1>2, ConcatProperties
  <2> HIDE DEF all, one
  <2>3. DOMAIN all = 1..(1 + Len(rest))
    BY <1>3, <2>1, <2>2
  <2> QED
    BY <2>1, <2>2, <2>3
<1>5. ASSUME NEW i \in DOMAIN all, NEW j \in DOMAIN all, i <= j
      PROVE  all[j].score <= all[i].score
  <2> HIDE DEF all
  <2>1. CASE i = 1
    <3>1. all[j] \in s /\ all[i] = c
      BY <1>3, <1>4, <2>1 DEF ToSet
    <3> QED
      BY <1>1, <3>1
  <2>2. CASE i # 1
    <3>1. /\ i - 1 \in DOMAIN rest /\ j - 1 \in DOMAIN rest /\ i - 1 <= j - 1
          /\ all[i] = rest[i - 1] /\ all[j] = rest[j - 1]
      BY <1>4, <1>5, <2>2
    <3>2. \A a, b \in DOMAIN rest : a <= b => rest[b].score <= rest[a].score
      BY DEF Lists, Descending
    <3> QED
      BY <3>1, <3>2
  <2> QED
    BY <2>1, <2>2
<1> HIDE DEF all
<1>6. Lists(all, s)
  BY <1>3, <1>5 DEF Lists, Descending
<1> QED
  BY <1>6 DEF all, one, c

LEMMA OrderedLists ==
    ASSUME NEW S, Scored(S)
    PROVE  Lists(Ordered(S), S)
<1> DEFINE L == Listing(S)
           N == {m \in Nat : \A s \in SUBSET S : Cardinality(s) <= m => Lists(L[s], s)}
<1>0. \A s \in SUBSET S : IsFiniteSet(s) /\ Cardinality(s) \in Nat
  BY FS_Subset, FS_CardinalityType DEF Scored
<1>1. \A s \in SUBSET S : L[s] = Listed(L, s)
  BY ListingExists
<1> HIDE DEF L
<1>2. Lists(L[{}], {})
  <2>1. L[{}] = <<>>
    BY <1>1, {} \in SUBSET S DEF Listed
  <2> QED
    BY <2>1 DEF Lists, Descending, ToSet
<1>3. 0 \in N
  <2>1. \A s \in SUBSET S : Cardinality(s) <= 0 => s = {}
    BY <1>0, FS_EmptySet
  <2> QED
    BY <1>2, <2>1
<1>4. ASSUME NEW m \in Nat, m \in N PROVE m + 1 \in N
  <2>1. ASSUME NEW s \in SUBSET S, Cardinality(s) <= m + 1 PROVE Lists(L[s], s)
    <3>1. CASE s = {}
      BY <1>2, <3>1
    <3>2. CASE s # {}
      <4> DEFINE r == s \ {Highest(s)}
      <4>1. r \in SUBSET S /\ Cardinality(r) <= m
        BY <1>0, <2>1, <3>2, HighestOfScored
      <4>2. Lists(L[r], r)
        BY <1>4, <4>1
      <4>3. L[s] = <<Highest(s)>> \o L[r]
        BY <1>1, <3>2 DEF Listed
      <4> QED
        BY <3>2, <4>2, <4>3, FirstThenRest
    <3> QED
      BY <3>1, <3>2
  <2> QED
    BY <2>1, m + 1 \in Nat, Zenon
<1>5. \A n \in Nat : n \in N
  BY ONLY <1>3, <1>4, EveryNat
<1>6. Lists(L[S], S)
  <2>1. Cardinality(S) \in Nat /\ S \in SUBSET S
    BY <1>0
  <2>2. Cardinality(S) \in N /\ Cardinality(S) <= Cardinality(S)
    BY <1>5, <2>1
  <2> QED
    BY <2>1, <2>2
<1> QED
  BY <1>6, OrderedIsListed DEF L

-------------------------------------------------------------------------------
(* The candidates a campaign m makes of the URLs it found. *)

LEMMA ListFacts ==
    ASSUME NEW s, IsList(s)
    PROVE  /\ Len(s) \in Nat /\ DOMAIN s = 1..Len(s) /\ \A i \in DOMAIN s : s[i] \in ToSet(s)
           /\ IsFiniteSet(DOMAIN s) /\ IsFiniteSet(ToSet(s))
<1>1. Len(s) \in Nat /\ DOMAIN s = 1..Len(s)
  BY DEF IsList
<1>2. IsFiniteSet(DOMAIN s)
  BY <1>1, FS_Interval
<1>3. s \in [DOMAIN s -> ToSet(s)] /\ \A x \in ToSet(s) : \E i \in DOMAIN s : s[i] = x
  <2>1. s \in [1..Len(s) -> ToSet(s)]
    BY <1>1 DEF IsList
  <2> QED
    BY <1>1, <2>1 DEF ToSet
<1>4. IsFiniteSet(ToSet(s))
  BY <1>2, <1>3, FiniteImage
<1> QED
  BY <1>1, <1>2, <1>3, <1>4

Found(m) == m.web \cup m.oldWeb

Pool(m, urls) ==
    UNION {Candidates(u, m.resources, m.bindings) : u \in {u \in urls : Permitted(m.policy, u)}}

\* What smart verification has checked before it synthesizes.
BindingsServed(m) ==
    \A k \in DOMAIN m.bindings : \E r \in ToSet(m.resources) : r.kind = m.bindings[k]

KindsOf(m) ==
    {r.kind : r \in ToSet(m.resources)} \cup {LowerCase[r.kind] : r \in ToSet(m.resources)}

\* A place that one of the three ways to make a template takes for an identifier.
NamesSomething(m, u, p) ==
    \/ TextAt(u, p) \in DynamicValues \cup {r.value : r \in ToSet(m.resources)}
    \/ p[1] = "query" /\ u.query[p[2]].key \in DOMAIN m.bindings

MadeFrom(m, u, c) ==
    \E p \in Places(u), k \in KindsOf(m), bonus \in {6, 8, 10, 12} :
        c = Candidate(u, p, k, bonus) /\ NamesSomething(m, u, p)

LEMMA CandidatesMade ==
    ASSUME NEW m \in Campaigns, BindingsServed(m), NEW u \in Found(m),
           NEW c \in Candidates(u, m.resources, m.bindings)
    PROVE  MadeFrom(m, u, c)
<1>1. \A r \in ToSet(m.resources) : r.kind \in KindsOf(m) /\ LowerCase[r.kind] \in KindsOf(m)
  BY DEF KindsOf
<1>2. ASSUME NEW r \in ToSet(m.resources), NEW p \in Places(u), TextAt(u, p) = r.value,
             c = Candidate(u, p, r.kind, IF p[1] = "path" THEN 12 ELSE 10)
      PROVE  MadeFrom(m, u, c)
  <2>1. NamesSomething(m, u, p)
    BY <1>2 DEF NamesSomething
  <2>2. (IF p[1] = "path" THEN 12 ELSE 10) \in {6, 8, 10, 12}
    OBVIOUS
  <2> QED
    BY <1>1, <1>2, <2>1, <2>2 DEF MadeFrom
<1>3. CASE c \in ExactCandidates(u, m.resources)
  BY <1>2, <1>3, Zenon DEF ExactCandidates
<1>4. CASE c \in BoundQueryCandidates(u, m.bindings)
  <2>1. PICK i \in DOMAIN u.query :
          u.query[i].key \in DOMAIN m.bindings
          /\ c = Candidate(u, <<"query", i>>, m.bindings[u.query[i].key], 8)
    BY <1>4 DEF BoundQueryCandidates
  <2>2. <<"query", i>> \in Places(u) /\ NamesSomething(m, u, <<"query", i>>)
    BY <2>1 DEF Places, NamesSomething
  <2>3. m.bindings[u.query[i].key] \in KindsOf(m)
    BY <1>1, <2>1 DEF BindingsServed
  <2> QED
    BY <2>1, <2>2, <2>3, 8 \in {6, 8, 10, 12}, Zenon DEF MadeFrom
<1>5. CASE c \in KindPathCandidates(u, m.resources)
  <2>1. PICK kind \in {LowerCase[r.kind] : r \in ToSet(m.resources)} :
          \E i \in KindPlaces(u, kind) : c = Candidate(u, <<"path", i>>, kind, 6)
    BY <1>5 DEF KindPathCandidates
  <2>2. PICK i \in KindPlaces(u, kind) : c = Candidate(u, <<"path", i>>, kind, 6)
    BY <2>1
  <2>3. i \in DOMAIN u.path /\ u.path[i] \in DynamicValues
    <3>1. Len(u.path) \in Nat /\ DOMAIN u.path = 1..Len(u.path)
      BY UrlsParsed, ListFacts DEF Found
    <3> QED
      BY <2>2, <3>1 DEF KindPlaces
  <2>4. <<"path", i>> \in Places(u) /\ NamesSomething(m, u, <<"path", i>>)
    BY <2>3 DEF Places, NamesSomething, TextAt
  <2>5. kind \in KindsOf(m)
    BY <1>1, <2>1
  <2> QED
    BY <2>2, <2>4, <2>5, 6 \in {6, 8, 10, 12}, Zenon DEF MadeFrom
<1> QED
  BY <1>3, <1>4, <1>5 DEF Candidates

LEMMA ScoresAreBounded ==
    ASSUME NEW u, NEW p, NEW k, NEW bonus \in {6, 8, 10, 12}
    PROVE  Candidate(u, p, k, bonus).score \in 0..100
<1>1. BaseScore(u) \in 0..100
  <2>1. CASE Surfaces(u) = {}
    BY <2>1 DEF BaseScore
  <2>2. CASE Surfaces(u) # {}
    BY <2>2, ReconLeadsRankLower DEF BaseScore, ReconLead, Lead
  <2> QED
    BY <2>1, <2>2
<1>2. LeastOf(100, BaseScore(u) + bonus) \in 0..100
  BY <1>1 DEF LeastOf
<1> QED
  BY <1>2 DEF Candidate

LEMMA PlacesAreFinite ==
    ASSUME NEW m \in Campaigns, NEW u \in Found(m)
    PROVE  IsFiniteSet(Places(u))
<1>1. IsFiniteSet(DOMAIN u.path) /\ IsFiniteSet(DOMAIN u.query)
  BY UrlsParsed, ListFacts DEF Found
<1>2. IsFiniteSet({"path"}) /\ IsFiniteSet({"query"})
  BY FS_Singleton
<1>3. IsFiniteSet({"path"} \X DOMAIN u.path) /\ IsFiniteSet({"query"} \X DOMAIN u.query)
  BY <1>1, <1>2, FS_Product
<1> QED
  BY <1>3, FS_Union DEF Places

LEMMA KindsAreFinite ==
    ASSUME NEW m \in Campaigns
    PROVE  IsFiniteSet(KindsOf(m))
<1> DEFINE R == ToSet(m.resources)
           asked == {r.kind : r \in R}
           lower == {LowerCase[r.kind] : r \in R}
<1>1. IsFiniteSet(R)
  BY FixturesLoaded, ListFacts
<1> HIDE DEF R
<1>2. IsFiniteSet(asked)
  <2> DEFINE g == [r \in R |-> r.kind]
  <2>1. g \in [R -> asked] /\ \A t \in asked : \E r \in R : g[r] = t
    OBVIOUS
  <2> HIDE DEF g, asked
  <2> QED
    BY <1>1, <2>1, FiniteImage
<1>3. IsFiniteSet(lower)
  <2> DEFINE g == [r \in R |-> LowerCase[r.kind]]
  <2>1. g \in [R -> lower] /\ \A t \in lower : \E r \in R : g[r] = t
    OBVIOUS
  <2> HIDE DEF g, lower
  <2> QED
    BY <1>1, <2>1, FiniteImage
<1>4. KindsOf(m) = asked \cup lower
  BY DEF KindsOf, R
<1> QED
  BY <1>2, <1>3, <1>4, FS_Union

LEMMA CandidatesAreFinite ==
    ASSUME NEW m \in Campaigns, BindingsServed(m), NEW u \in Found(m)
    PROVE  IsFiniteSet(Candidates(u, m.resources, m.bindings))
<1> DEFINE B == {6, 8, 10, 12}
           spots == Places(u) \X (KindsOf(m) \X B)
           all == {Candidate(u, s[1], s[2][1], s[2][2]) : s \in spots}
<1>1. IsFiniteSet(B)
  <2> PICK a \in Int, b \in Int : a = 6 /\ b = 12
    OBVIOUS
  <2>1. IsFiniteSet(a..b)
    BY FS_Interval
  <2>2. B \subseteq a..b
    OBVIOUS
  <2> QED
    BY <2>1, <2>2, FS_Subset
<1>2. IsFiniteSet(spots)
  BY <1>1, PlacesAreFinite, KindsAreFinite, FS_Product
<1>3. IsFiniteSet(all)
  <2> DEFINE g == [s \in spots |-> Candidate(u, s[1], s[2][1], s[2][2])]
  <2> HIDE DEF spots
  <2>1. g \in [spots -> all] /\ \A t \in all : \E s \in spots : g[s] = t
    OBVIOUS
  <2> HIDE DEF g, all
  <2> QED
    BY <1>2, <2>1, FiniteImage
<1>4. ASSUME NEW c \in Candidates(u, m.resources, m.bindings) PROVE c \in all
  <2>1. PICK p \in Places(u), k \in KindsOf(m), bonus \in B : c = Candidate(u, p, k, bonus)
    BY <1>4, CandidatesMade, Zenon DEF MadeFrom
  <2>2. <<p, <<k, bonus>>>> \in spots
    BY <2>1
  <2>3. <<p, <<k, bonus>>>>[1] = p /\ <<p, <<k, bonus>>>>[2][1] = k /\ <<p, <<k, bonus>>>>[2][2] = bonus
    OBVIOUS
  <2> HIDE DEF spots
  <2> QED
    BY <2>1, <2>2, <2>3
<1> QED
  BY <1>3, <1>4, FS_Subset

LEMMA PoolIsScored ==
    ASSUME NEW m \in Campaigns, BindingsServed(m), NEW urls \in SUBSET Found(m)
    PROVE  Scored(Pool(m, urls)) /\ Scored(Best(Pool(m, urls)))
<1> DEFINE kept == {u \in urls : Permitted(m.policy, u)}
           sets == {Candidates(u, m.resources, m.bindings) : u \in kept}
<1>1. IsFiniteSet(kept)
  <2>1. IsFiniteSet(m.web) /\ IsFiniteSet(m.oldWeb)
    BY CampaignsAccepted
  <2>2. IsFiniteSet(Found(m))
    BY <2>1, FS_Union DEF Found
  <2> QED
    BY <2>2, FS_Subset
<1>2. IsFiniteSet(sets)
  <2> DEFINE g == [u \in kept |-> Candidates(u, m.resources, m.bindings)]
  <2>1. g \in [kept -> sets] /\ \A t \in sets : \E u \in kept : g[u] = t
    OBVIOUS
  <2> HIDE DEF g, sets
  <2> QED
    BY <1>1, <2>1, FiniteImage
<1>3. \A t \in sets : IsFiniteSet(t)
  BY CandidatesAreFinite
<1>4. Pool(m, urls) = UNION sets
  BY DEF Pool
<1>5. IsFiniteSet(Pool(m, urls))
  BY <1>2, <1>3, <1>4, FS_UNION
<1>6. \A c \in Pool(m, urls) : c.score \in 0..100
  <2> TAKE c \in Pool(m, urls)
  <2>1. PICK u \in kept : c \in Candidates(u, m.resources, m.bindings)
    BY <1>4
  <2>2. MadeFrom(m, u, c)
    BY <2>1, CandidatesMade
  <2> QED
    BY <2>2, ScoresAreBounded, Zenon DEF MadeFrom
<1>7. Best(Pool(m, urls)) \subseteq Pool(m, urls)
  BY DEF Best
<1> QED
  BY <1>5, <1>6, <1>7, FS_Subset DEF Scored

\* For each URL and kind there is a best candidate.
LEMMA BestExists ==
    ASSUME NEW P, Scored(P), NEW c \in P
    PROVE  \E b \in Best(P) : b.url = c.url /\ b.kind = c.kind
<1> DEFINE same == {d \in P : d.url = c.url /\ d.kind = c.kind}
<1>1. same \in SUBSET P /\ same # {}
  OBVIOUS
<1>2. Highest(same) \in same /\ \A d \in same : d.score <= Highest(same).score
  BY <1>1, HighestOfScored
<1>3. Highest(same) \in Best(P)
  BY <1>2 DEF Best
<1> QED
  BY <1>2, <1>3

-------------------------------------------------------------------------------
(* The list that is cut. *)

LEMMA FirstOfList ==
    ASSUME NEW X, NEW s \in Seq(X), NEW k \in Nat, k <= Len(s)
    PROVE  /\ SubSeq(s, 1, k) \in Seq(X) /\ Len(SubSeq(s, 1, k)) = k
           /\ \A i \in 1..k : SubSeq(s, 1, k)[i] = s[i]
<1>1. \A i \in 1..k : s[i] \in X
  BY ElementOfSeq
<1>2. /\ SubSeq(s, 1, k) \in Seq(X)
      /\ Len(SubSeq(s, 1, k)) = IF 1 <= k THEN k - 1 + 1 ELSE 0
      /\ \A i \in 1..k - 1 + 1 : SubSeq(s, 1, k)[i] = s[1 + i - 1]
  BY <1>1, SubSeqProperties
<1> QED
  BY <1>2

LEMMA SynthesizedFacts ==
    ASSUME NEW m \in Campaigns, BindingsServed(m), NEW urls \in SUBSET Found(m), NEW list,
           list = Synthesized(urls, m.policy, m.resources, m.bindings, m.max_templates)
    PROVE  /\ list \in Seq(Best(Pool(m, urls))) /\ IsList(list)
           /\ Descending(list) /\ Len(list) <= m.max_templates
           /\ list = AllSynthesized(urls, m.policy, m.resources, m.bindings)
                => ToSet(list) = Best(Pool(m, urls))
<1> DEFINE X == Best(Pool(m, urls))
           all == AllSynthesized(urls, m.policy, m.resources, m.bindings)
           k == LeastOf(m.max_templates, Len(all))
<1>1. all = Ordered(X)
  BY Zenon DEF AllSynthesized, Pool
<1>2. all \in Seq(X) /\ ToSet(all) = X /\ Descending(all)
  BY <1>1, PoolIsScored, OrderedLists DEF Lists
<1>3. list = SubSeq(all, 1, k)
  BY DEF Synthesized
<1> HIDE DEF all, X
<1>4. Len(all) \in Nat /\ m.max_templates \in Nat
  BY <1>2, CampaignsAccepted
<1>5. k \in Nat /\ k <= Len(all) /\ k <= m.max_templates
  BY <1>4 DEF LeastOf
<1> HIDE DEF k
<1>6. /\ list \in Seq(X) /\ Len(list) = k
      /\ \A i \in 1..k : list[i] = all[i]
  BY <1>2, <1>3, <1>5, FirstOfList
<1>7. DOMAIN list = 1..k /\ DOMAIN all = 1..Len(all)
  BY <1>2, <1>6
<1>8. Descending(list)
  <2> SUFFICES ASSUME NEW i \in DOMAIN list, NEW j \in DOMAIN list, i <= j
               PROVE  list[j].score <= list[i].score
    BY DEF Descending
  <2>1. i \in DOMAIN all /\ j \in DOMAIN all
    BY <1>4, <1>5, <1>7
  <2>2. list[i] = all[i] /\ list[j] = all[j]
    BY <1>6, <1>7
  <2>3. all[j].score <= all[i].score
    BY <1>2, <2>1 DEF Descending
  <2> QED
    BY <2>2, <2>3
<1>9. IsList(list)
  BY <1>6, OverItsElements DEF IsList
<1> QED
  BY <1>2, <1>5, <1>6, <1>8, <1>9 DEF all, X

-------------------------------------------------------------------------------
(* Units add up along lists. *)

LEMMA UnitsOfConcat ==
    ASSUME NEW X, NEW a \in Seq(X), NEW b \in Seq(X), NEW resources, IsList(resources)
    PROVE  /\ BaseUnits(a, resources) \in Nat /\ BaseUnits(b, resources) \in Nat
           /\ BaseUnits(a \o b, resources) = BaseUnits(a, resources) + BaseUnits(b, resources)
<1> DEFINE la == Len(a)
           lb == Len(b)
           ab == a \o b
           E(t) == Expansion(t, resources)
<1>1. /\ la \in Nat /\ lb \in Nat /\ IsList(a) /\ IsList(b) /\ IsList(ab)
      /\ Len(ab) = la + lb
      /\ \A i \in 1..la + lb : ab[i] = IF i <= la THEN a[i] ELSE b[i - la]
  <2>1. /\ ab \in Seq(X) /\ Len(ab) = la + lb /\ la \in Nat /\ lb \in Nat
        /\ \A i \in 1..la + lb : ab[i] = IF i <= la THEN a[i] ELSE b[i - la]
    BY ConcatProperties
  <2> HIDE DEF ab
  <2>2. IsList(a) /\ IsList(b) /\ IsList(ab)
    BY <2>1, OverItsElements DEF IsList
  <2> QED
    BY <2>1, <2>2
<1>2. PICK ra \in [0..la -> Nat] :
        /\ ra[0] = 0 /\ ra[la] = BaseUnits(a, resources)
        /\ \A k \in Nat : k < la => ra[k + 1] = ra[k] + E(a[k + 1])
  BY <1>1, UnitsRun
<1>3. PICK rb \in [0..lb -> Nat] :
        /\ rb[0] = 0 /\ rb[lb] = BaseUnits(b, resources)
        /\ \A k \in Nat : k < lb => rb[k + 1] = rb[k] + E(b[k + 1])
  BY <1>1, UnitsRun
<1>4. PICK r \in [0..la + lb -> Nat] :
        /\ r[0] = 0 /\ r[la + lb] = BaseUnits(ab, resources)
        /\ \A k \in Nat : k < la + lb => r[k + 1] = r[k] + E(ab[k + 1])
  <2>1. \E r \in [0..Len(ab) -> Nat] :
        /\ r[0] = 0 /\ r[Len(ab)] = BaseUnits(ab, resources)
        /\ \A k \in Nat : k < Len(ab) => r[k + 1] = r[k] + E(ab[k + 1])
    BY <1>1, UnitsRun
  <2> QED
    BY <1>1, <2>1
<1> HIDE DEF la, lb, ab, E
<1> DEFINE A == {k \in Nat : k <= la => r[k] = ra[k]}
           B == {k \in Nat : k <= lb => r[la + k] = r[la] + rb[k]}
<1>5. 0 \in A
  BY <1>2, <1>4
<1>6. ASSUME NEW k \in Nat, k \in A PROVE k + 1 \in A
  <2>1. ASSUME k + 1 <= la PROVE r[k + 1] = ra[k + 1]
    <3>1. k < la /\ k <= la /\ k < la + lb /\ k + 1 \in 1..la + lb
      BY <1>1, <2>1
    <3>2. ab[k + 1] = a[k + 1]
      BY <1>1, <2>1, <3>1
    <3> QED
      BY <1>2, <1>4, <1>6, <3>1, <3>2
  <2> QED
    BY <2>1
<1>7. \A k \in Nat : k \in A
  BY ONLY <1>5, <1>6, EveryNat
<1>8. r[la] = ra[la] /\ r[la] \in Nat
  <2>1. la \in A /\ la <= la /\ la \in 0..la + lb
    BY <1>1, <1>7
  <2> QED
    BY <1>4, <2>1
<1>9. 0 \in B
  BY <1>1, <1>3, <1>8
<1>10. ASSUME NEW k \in Nat, k \in B PROVE k + 1 \in B
  <2>1. ASSUME k + 1 <= lb PROVE r[la + (k + 1)] = r[la] + rb[k + 1]
    <3>1. /\ k < lb /\ k <= lb /\ la + k < la + lb /\ la + k \in Nat
          /\ la + (k + 1) \in 1..la + lb /\ ~(la + (k + 1) <= la)
          /\ (la + k) + 1 = la + (k + 1) /\ (la + (k + 1)) - la = k + 1
          /\ k + 1 \in 1..lb /\ k \in 0..lb
      BY <1>1, <2>1
    <3>2. ab[la + (k + 1)] = b[k + 1]
      BY <1>1, <3>1
    <3>3. r[la + (k + 1)] = r[la + k] + E(b[k + 1])
      BY <1>4, <3>1, <3>2
    <3>4. r[la + k] = r[la] + rb[k] /\ rb[k] \in Nat
      BY <1>3, <1>10, <3>1
    <3>5. rb[k + 1] = rb[k] + E(b[k + 1])
      BY <1>3, <3>1
    <3>6. E(b[k + 1]) \in Nat
      BY ExpansionIsNatural DEF E
    <3> QED
      BY <1>8, <3>3, <3>4, <3>5, <3>6
  <2> QED
    BY <2>1
<1>11. \A k \in Nat : k \in B
  BY ONLY <1>9, <1>10, EveryNat
<1>12. r[la + lb] = r[la] + rb[lb]
  <2>1. lb \in B /\ lb <= lb
    BY <1>1, <1>11
  <2> QED
    BY <2>1
<1>13. ra[la] \in Nat /\ rb[lb] \in Nat
  <2>1. la \in 0..la /\ lb \in 0..lb
    BY <1>1
  <2> QED
    BY <1>2, <1>3, <2>1
<1> QED
  BY <1>2, <1>3, <1>4, <1>8, <1>12, <1>13 DEF ab

LEMMA UnitsOfOne ==
    ASSUME NEW t, NEW resources, IsList(resources)
    PROVE  BaseUnits(<<t>>, resources) = Expansion(t, resources)
<1>1. IsList(<<t>>) /\ Len(<<t>>) = 1 /\ <<t>>[1] = t
  BY DEF IsList, ToSet
<1>2. PICK r \in [0..Len(<<t>>) -> Nat] :
        /\ r[0] = 0 /\ r[Len(<<t>>)] = BaseUnits(<<t>>, resources)
        /\ \A k \in Nat : k < Len(<<t>>) => r[k + 1] = r[k] + Expansion(<<t>>[k + 1], resources)
  BY <1>1, UnitsRun
<1>3. r[0 + 1] = r[0] + Expansion(<<t>>[0 + 1], resources)
  BY <1>1, <1>2
<1>4. r[1] = 0 + Expansion(t, resources)
  BY <1>1, <1>2, <1>3
<1>5. Expansion(t, resources) \in Nat
  BY ExpansionIsNatural
<1> QED
  BY <1>1, <1>2, <1>4, <1>5

LEMMA UnitsOfAppend ==
    ASSUME NEW X, NEW ts \in Seq(X), NEW t \in X, NEW resources, IsList(resources)
    PROVE  /\ BaseUnits(ts, resources) \in Nat
           /\ BaseUnits(Append(ts, t), resources) =
                BaseUnits(ts, resources) + Expansion(t, resources)
<1> DEFINE one == <<t>>
<1>1. one \in Seq(X) /\ Append(ts, t) = ts \o one
  BY AppendIsConcat
<1>2. BaseUnits(one, resources) = Expansion(t, resources)
  BY UnitsOfOne
<1> HIDE DEF one
<1>3. /\ BaseUnits(ts, resources) \in Nat
      /\ BaseUnits(ts \o one, resources) = BaseUnits(ts, resources) + BaseUnits(one, resources)
  BY <1>1, UnitsOfConcat
<1> QED
  BY <1>1, <1>2, <1>3

LEMMA NoUnits ==
    ASSUME NEW resources, IsList(resources)
    PROVE  BaseUnits(<<>>, resources) = 0
<1>1. IsList(<<>>) /\ Len(<<>>) = 0
  BY DEF IsList, ToSet
<1>2. PICK r \in [0..Len(<<>>) -> Nat] : r[0] = 0 /\ r[Len(<<>>)] = BaseUnits(<<>>, resources)
  BY <1>1, UnitsRun
<1> QED
  BY <1>1, <1>2

\* The templates of a list of candidates.
TemplatesOf(list) == [i \in DOMAIN list |-> SmartTemplate(list[i])]

LEMMA TemplatesOfList ==
    ASSUME NEW C, NEW list \in Seq(C)
    PROVE  /\ TemplatesOf(list) \in Seq({SmartTemplate(c) : c \in C})
           /\ Len(TemplatesOf(list)) = Len(list)
           /\ \A i \in 1..Len(list) : TemplatesOf(list)[i] = SmartTemplate(list[i])
<1> DEFINE T == {SmartTemplate(c) : c \in C}
           ts == TemplatesOf(list)
<1>1. Len(list) \in Nat /\ DOMAIN list = 1..Len(list) /\ \A i \in 1..Len(list) : list[i] \in C
  OBVIOUS
<1>2. ts = [i \in 1..Len(list) |-> SmartTemplate(list[i])]
  BY <1>1 DEF TemplatesOf
<1>3. \A i \in 1..Len(list) : SmartTemplate(list[i]) \in T
  BY <1>1
<1> HIDE DEF T, ts
<1>4. ts \in [1..Len(list) -> T]
  BY <1>2, <1>3
<1>5. ts \in Seq(T) /\ Len(ts) = Len(list)
  BY <1>1, <1>4
<1> QED
  BY <1>2, <1>5 DEF T, ts

LEMMA TemplatesOfAppend ==
    ASSUME NEW C, NEW list \in Seq(C), NEW c \in C
    PROVE  TemplatesOf(Append(list, c)) = Append(TemplatesOf(list), SmartTemplate(c))
<1> DEFINE T == {SmartTemplate(x) : x \in C}
           a == TemplatesOf(Append(list, c))
           b == Append(TemplatesOf(list), SmartTemplate(c))
           n == Len(list)
<1>1. Append(list, c) \in Seq(C) /\ Len(Append(list, c)) = n + 1 /\ n \in Nat
  BY AppendProperties
<1>2. \A i \in 1..n + 1 : Append(list, c)[i] = IF i <= n THEN list[i] ELSE c
  BY AppendProperties, <1>1
<1>3. a \in Seq(T) /\ Len(a) = n + 1 /\ \A i \in 1..n + 1 : a[i] = SmartTemplate(Append(list, c)[i])
  BY <1>1, TemplatesOfList
<1>4. /\ TemplatesOf(list) \in Seq(T) /\ Len(TemplatesOf(list)) = n
      /\ \A i \in 1..n : TemplatesOf(list)[i] = SmartTemplate(list[i])
  BY TemplatesOfList
<1>5. SmartTemplate(c) \in T
  OBVIOUS
<1> HIDE DEF T, a, n
<1>6. /\ b \in Seq(T) /\ Len(b) = n + 1
      /\ \A i \in 1..n + 1 : b[i] = IF i <= n THEN TemplatesOf(list)[i] ELSE SmartTemplate(c)
  BY <1>1, <1>4, <1>5, AppendProperties
<1>7. \A i \in 1..n + 1 : a[i] = b[i]
  <2> TAKE i \in 1..n + 1
  <2>1. CASE i <= n
    <3>1. i \in 1..n
      BY <1>1, <2>1
    <3> QED
      BY <1>2, <1>3, <1>4, <1>6, <2>1, <3>1
  <2>2. CASE ~(i <= n)
    BY <1>2, <1>3, <1>6, <2>2
  <2> QED
    BY <2>1, <2>2
<1> HIDE DEF b
<1>8. a = b
  BY <1>3, <1>6, <1>7, SeqEqual
<1> QED
  BY <1>8 DEF a, b

-------------------------------------------------------------------------------
(* What the budget admits. *)

CostOf(c, resources, count) == Expansion(SmartTemplate(c), resources) * count

ChargedFor(base, chosen, resources, count) ==
    (base + BaseUnits(TemplatesOf(chosen), resources)) * count

FirstOf(s, l) == SubSeq(s, 1, l)

\* The first l of the selected ones, which come no later than position j of the
\* list, leave no room for the one there.
NoRoomAfter(l, selected, j, base, list, resources, count, limit) ==
    /\ \A i \in 1..l : \E h \in 1..j : selected[i] = list[h]
    /\ ~(ChargedFor(base, FirstOf(selected, l), resources, count)
            + CostOf(list[j], resources, count) <= limit)

PassedOver(selected, j, base, list, resources, count, limit) ==
    \E l \in 0..Len(selected) : NoRoomAfter(l, selected, j, base, list, resources, count, limit)

\* What the first k of a list make of the budget.
FitState(acc, k, base, list, resources, count, limit) ==
    /\ acc.selected \in Seq(ToSet(list))
    /\ Len(acc.selected) <= k
    /\ Len(acc.selected) = k => \A i \in 1..k : acc.selected[i] = list[i]
    /\ \A i \in 1..Len(acc.selected) : \E h \in 1..k : acc.selected[i] = list[h]
    /\ \A i \in 1..Len(acc.selected) : CostOf(acc.selected[i], resources, count) >= 1
    /\ acc.used = ChargedFor(base, acc.selected, resources, count)
    /\ base * count <= limit => acc.used <= limit
    /\ \A j \in 1..k :
        \/ list[j] \in ToSet(acc.selected)
        \/ ~(CostOf(list[j], resources, count) >= 1)
        \/ PassedOver(acc.selected, j, base, list, resources, count, limit)

LEMMA AppendFacts ==
    ASSUME NEW X, NEW s \in Seq(X), NEW c \in X
    PROVE  /\ Append(s, c) \in Seq(X) /\ Len(Append(s, c)) = Len(s) + 1 /\ Len(s) \in Nat
           /\ \A i \in 1..Len(s) : Append(s, c)[i] = s[i]
           /\ Append(s, c)[Len(s) + 1] = c
           /\ ToSet(s) \subseteq ToSet(Append(s, c)) /\ c \in ToSet(Append(s, c))
           /\ ToSet(Append(s, c)) \subseteq ToSet(s) \cup {c}
<1> DEFINE a == Append(s, c)
<1>1. /\ a \in Seq(X) /\ Len(a) = Len(s) + 1 /\ Len(s) \in Nat
      /\ \A i \in 1..Len(s) : a[i] = s[i]
      /\ a[Len(s) + 1] = c
  BY AppendProperties
<1>2. DOMAIN s = 1..Len(s)
  OBVIOUS
<1> HIDE DEF a
<1>3. DOMAIN a = 1..Len(s) + 1
  BY <1>1
<1>4. \A i \in 1..Len(s) : i \in 1..Len(s) + 1
  BY <1>1
<1>5. Len(s) + 1 \in 1..Len(s) + 1 /\ \A i \in 1..Len(s) + 1 : i \in 1..Len(s) \/ i = Len(s) + 1
  BY <1>1
<1>6. ToSet(s) \subseteq ToSet(a) /\ c \in ToSet(a) /\ ToSet(a) \subseteq ToSet(s) \cup {c}
  BY <1>1, <1>2, <1>3, <1>4, <1>5 DEF ToSet
<1> QED
  BY <1>1, <1>6 DEF a

LEMMA FirstOfAppend ==
    ASSUME NEW X, NEW s \in Seq(X), NEW c \in X, NEW l \in Nat, l <= Len(s)
    PROVE  FirstOf(Append(s, c), l) = FirstOf(s, l)
<1> DEFINE a == Append(s, c)
<1>1. /\ a \in Seq(X) /\ Len(a) = Len(s) + 1 /\ Len(s) \in Nat
      /\ \A i \in 1..Len(s) : a[i] = s[i]
  BY AppendFacts
<1> HIDE DEF a
<1>2. /\ FirstOf(s, l) \in Seq(X) /\ Len(FirstOf(s, l)) = l
      /\ \A i \in 1..l : FirstOf(s, l)[i] = s[i]
  BY FirstOfList DEF FirstOf
<1>3. l <= Len(a)
  BY <1>1
<1>4. /\ FirstOf(a, l) \in Seq(X) /\ Len(FirstOf(a, l)) = l
      /\ \A i \in 1..l : FirstOf(a, l)[i] = a[i]
  BY <1>1, <1>3, FirstOfList DEF FirstOf
<1>5. \A i \in 1..l : FirstOf(a, l)[i] = FirstOf(s, l)[i]
  <2>1. \A i \in 1..l : i \in 1..Len(s)
    BY <1>1
  <2> QED
    BY <1>1, <1>2, <1>4, <2>1
<1> HIDE DEF FirstOf
<1>6. FirstOf(a, l) = FirstOf(s, l)
  BY <1>2, <1>4, <1>5, SeqEqual
<1> QED
  BY <1>6 DEF a

LEMMA AllOfList ==
    ASSUME NEW X, NEW s \in Seq(X)
    PROVE  FirstOf(s, Len(s)) = s
<1>1. /\ FirstOf(s, Len(s)) \in Seq(X) /\ Len(FirstOf(s, Len(s))) = Len(s)
      /\ \A i \in 1..Len(s) : FirstOf(s, Len(s))[i] = s[i]
  BY FirstOfList DEF FirstOf
<1> HIDE DEF FirstOf
<1> QED
  BY <1>1, SeqEqual

LEMMA ChargesAddUp ==
    ASSUME NEW base \in Nat, NEW C, NEW chosen \in Seq(C), NEW c \in C,
           NEW resources, IsList(resources), NEW count \in Nat
    PROVE  /\ ChargedFor(base, chosen, resources, count) \in Nat
           /\ CostOf(c, resources, count) \in Nat
           /\ ChargedFor(base, Append(chosen, c), resources, count) =
                ChargedFor(base, chosen, resources, count) + CostOf(c, resources, count)
<1> DEFINE ts == TemplatesOf(chosen)
           t == SmartTemplate(c)
           b == BaseUnits(ts, resources)
           e == Expansion(t, resources)
<1>1. TemplatesOf(Append(chosen, c)) = Append(ts, t)
  BY TemplatesOfAppend
<1>2. ts \in Seq({SmartTemplate(x) : x \in C}) /\ t \in {SmartTemplate(x) : x \in C}
  BY TemplatesOfList
<1> HIDE DEF ts, t
<1>3. BaseUnits(ts, resources) \in Nat
      /\ BaseUnits(Append(ts, t), resources) = BaseUnits(ts, resources) + Expansion(t, resources)
  BY <1>2, UnitsOfAppend
<1>4. b \in Nat /\ BaseUnits(Append(ts, t), resources) = b + e
  BY <1>3
<1>5. e \in Nat
  BY ExpansionIsNatural
<1> HIDE DEF b, e
<1>6. (base + (b + e)) * count = (base + b) * count + e * count
      /\ (base + b) * count \in Nat /\ e * count \in Nat
  BY <1>4, <1>5
<1> QED
  BY <1>1, <1>4, <1>6 DEF ChargedFor, CostOf, ts, t, b, e


\* One that is passed over is so whatever is admitted after it.
LEMMA PassedOverStays ==
    ASSUME NEW selected, NEW C, selected \in Seq(C), NEW c \in C, NEW j,
           NEW base, NEW list, NEW resources, NEW count, NEW limit,
           PassedOver(selected, j, base, list, resources, count, limit)
    PROVE  PassedOver(Append(selected, c), j, base, list, resources, count, limit)
<1>1. PICK l \in 0..Len(selected) : NoRoomAfter(l, selected, j, base, list, resources, count, limit)
  BY DEF PassedOver
<1> DEFINE more == Append(selected, c)
<1>2. Len(more) = Len(selected) + 1 /\ Len(selected) \in Nat
      /\ \A i \in 1..Len(selected) : more[i] = selected[i]
  BY AppendFacts
<1>3. FirstOf(more, l) = FirstOf(selected, l)
  BY <1>2, FirstOfAppend
<1> HIDE DEF more
<1>4. l \in 0..Len(more) /\ \A i \in 1..l : i \in 1..Len(selected)
  BY <1>2
<1>5. NoRoomAfter(l, more, j, base, list, resources, count, limit)
  <2>1. \A i \in 1..l : \E h \in 1..j : more[i] = list[h]
    BY <1>1, <1>2, <1>4 DEF NoRoomAfter
  <2> QED
    BY <1>1, <1>3, <2>1 DEF NoRoomAfter
<1> QED
  BY <1>4, <1>5 DEF PassedOver, more

LEMMA FitStepKeeps ==
    ASSUME NEW base \in Nat, NEW list, IsList(list), NEW resources, IsList(resources),
           NEW count \in Nat, NEW limit \in Nat, NEW k \in Nat, k < Len(list),
           NEW acc, FitState(acc, k, base, list, resources, count, limit)
    PROVE  FitState(FitStep(acc, list[k + 1], resources, count, limit), k + 1,
                    base, list, resources, count, limit)
<1> DEFINE c == list[k + 1]
           s == acc.selected
           C == ToSet(list)
           cost == CostOf(c, resources, count)
           new == FitStep(acc, c, resources, count, limit)
<1>1. Len(list) \in Nat /\ k + 1 \in 1..Len(list) /\ c \in C
  BY ListFacts
<1>2. s \in Seq(C) /\ Len(s) \in Nat /\ Len(s) <= k
  BY DEF FitState
<1>3. cost \in Nat /\ ChargedFor(base, s, resources, count) \in Nat
      /\ ChargedFor(base, Append(s, c), resources, count) =
            ChargedFor(base, s, resources, count) + cost
  <2> HIDE DEF c, s, C
  <2>1. /\ ChargedFor(base, s, resources, count) \in Nat
        /\ CostOf(c, resources, count) \in Nat
        /\ ChargedFor(base, Append(s, c), resources, count) =
            ChargedFor(base, s, resources, count) + CostOf(c, resources, count)
    BY <1>1, <1>2, ChargesAddUp
  <2> QED
    BY <2>1
<1>4. acc.used = ChargedFor(base, s, resources, count)
  BY DEF FitState
<1>5. new = IF cost >= 1 /\ acc.used + cost <= limit
            THEN [selected |-> Append(s, c), used |-> acc.used + cost] ELSE acc
  BY DEF FitStep, CostOf
<1>6. \A j \in 1..k + 1 : j \in 1..k \/ j = k + 1
  OBVIOUS
<1> HIDE DEF cost, new, C
<1>7. CASE cost >= 1 /\ acc.used + cost <= limit
  <2> DEFINE more == Append(s, c)
  <2>1. /\ new.selected = more /\ new.used = acc.used + cost
    BY <1>5, <1>7
  <2>2. /\ more \in Seq(C) /\ Len(more) = Len(s) + 1
        /\ \A i \in 1..Len(s) : more[i] = s[i]
        /\ more[Len(s) + 1] = c
        /\ ToSet(s) \subseteq ToSet(more) /\ c \in ToSet(more)
    BY <1>1, <1>2, AppendFacts
  <2>3. ASSUME NEW j \in 1..k, PassedOver(s, j, base, list, resources, count, limit)
        PROVE  PassedOver(more, j, base, list, resources, count, limit)
    BY <1>1, <1>2, <2>3, PassedOverStays
  <2>4. new.used = ChargedFor(base, more, resources, count)
    BY <1>3, <1>4, <2>1
  <2> HIDE DEF more
  <2>5. \A i \in 1..Len(more) : i \in 1..Len(s) \/ i = Len(s) + 1
    BY <1>2, <2>2
  <2>6. \A i \in 1..Len(more) : \E h \in 1..k + 1 : more[i] = list[h]
    <3>1. \A i \in 1..Len(s) : \E h \in 1..k + 1 : more[i] = list[h]
      <4> TAKE i \in 1..Len(s)
      <4>1. PICK h \in 1..k : s[i] = list[h]
        BY DEF FitState
      <4>2. h \in 1..k + 1 /\ more[i] = list[h]
        BY <2>2, <4>1
      <4> QED
        BY <4>2
    <3>2. k + 1 \in 1..k + 1
      OBVIOUS
    <3> QED
      BY <2>2, <2>5, <3>1, <3>2
  <2>7. \A i \in 1..Len(more) : CostOf(more[i], resources, count) >= 1
    BY <1>7, <2>2, <2>5 DEF FitState, cost
  <2>8. Len(more) = k + 1 => \A i \in 1..k + 1 : more[i] = list[i]
    <3> SUFFICES ASSUME Len(more) = k + 1, NEW i \in 1..k + 1 PROVE more[i] = list[i]
      OBVIOUS
    <3>1. Len(s) = k
      BY <1>2, <2>2
    <3> QED
      BY <1>6, <2>2, <3>1 DEF FitState
  <2>9. \A j \in 1..k + 1 :
          \/ list[j] \in ToSet(more)
          \/ ~(CostOf(list[j], resources, count) >= 1)
          \/ PassedOver(more, j, base, list, resources, count, limit)
    BY <1>6, <2>2, <2>3 DEF FitState
  <2>10. Len(more) <= k + 1
    BY <1>2, <2>2
  <2>11. base * count <= limit => new.used <= limit
    BY <1>7, <2>1
  <2>12. FitState(new, k + 1, base, list, resources, count, limit)
    BY <2>1, <2>2, <2>4, <2>6, <2>7, <2>8, <2>9, <2>10, <2>11 DEF FitState, C
  <2> QED
    BY <2>12 DEF new
<1>8. CASE ~(cost >= 1 /\ acc.used + cost <= limit)
  <2>1. new = acc
    BY <1>5, <1>8
  <2>2. cost >= 1 => PassedOver(s, k + 1, base, list, resources, count, limit)
    <3> SUFFICES ASSUME cost >= 1 PROVE PassedOver(s, k + 1, base, list, resources, count, limit)
      OBVIOUS
    <3>1. FirstOf(s, Len(s)) = s
      BY <1>2, AllOfList
    <3>2. ~(ChargedFor(base, FirstOf(s, Len(s)), resources, count) + cost <= limit)
      BY <1>4, <1>8, <3>1
    <3>3. \A i \in 1..Len(s) : \E h \in 1..k + 1 : s[i] = list[h]
      <4> TAKE i \in 1..Len(s)
      <4>1. PICK h \in 1..k : s[i] = list[h]
        BY DEF FitState
      <4>2. h \in 1..k + 1
        OBVIOUS
      <4> QED
        BY <4>1, <4>2
    <3>4. NoRoomAfter(Len(s), s, k + 1, base, list, resources, count, limit)
      BY <3>2, <3>3 DEF NoRoomAfter, cost
    <3> QED
      BY <1>2, <3>4 DEF PassedOver
  <2>3. \A j \in 1..k + 1 :
          \/ list[j] \in ToSet(s)
          \/ ~(CostOf(list[j], resources, count) >= 1)
          \/ PassedOver(s, j, base, list, resources, count, limit)
    BY <1>6, <2>2 DEF FitState, cost
  <2>4. \A i \in 1..Len(s) : \E h \in 1..k + 1 : s[i] = list[h]
    <3> TAKE i \in 1..Len(s)
    <3>1. PICK h \in 1..k : s[i] = list[h]
      BY DEF FitState
    <3>2. h \in 1..k + 1
      OBVIOUS
    <3> QED
      BY <3>1, <3>2
  <2>5. Len(s) <= k + 1 /\ Len(s) # k + 1
    BY <1>2
  <2>6. FitState(acc, k + 1, base, list, resources, count, limit)
    BY <2>3, <2>4, <2>5 DEF FitState
  <2> QED
    BY <2>1, <2>6 DEF new
<1> QED
  BY <1>7, <1>8

LEMMA BudgetFacts ==
    ASSUME NEW base \in Nat, NEW list, IsList(list), NEW resources, IsList(resources),
           NEW count \in Nat, NEW limit \in Nat
    PROVE  FitState(FitBudget(base, list, resources, count, limit), Len(list),
                    base, list, resources, count, limit)
<1> DEFINE start == [selected |-> <<>>, used |-> base * count]
           n == Len(list)
<1>1. n \in Nat /\ start \in [selected : Seq(ToSet(list)), used : Nat]
  BY ListFacts
<1> HIDE DEF start
<1>2. PICK run : IsFitRun(run, start, list, resources, count, limit)
  BY <1>1, FitRun
<1> DEFINE N == {k \in Nat : k <= n => FitState(run[k], k, base, list, resources, count, limit)}
<1>3. 0 \in N
  <2>1. TemplatesOf(<<>>) = <<>>
    BY DEF TemplatesOf
  <2>2. BaseUnits(<<>>, resources) = 0
    BY NoUnits
  <2>3. ChargedFor(base, <<>>, resources, count) = (base + 0) * count
    BY <2>1, <2>2 DEF ChargedFor
  <2>4. base + 0 = base
    OBVIOUS
  <2>5. FitState(start, 0, base, list, resources, count, limit)
    BY <1>1, <2>3, <2>4 DEF FitState, start
  <2>6. run[0] = start
    BY <1>2 DEF IsFitRun
  <2> QED
    BY <2>5, <2>6
<1> HIDE DEF n
<1>4. ASSUME NEW k \in Nat, k \in N PROVE k + 1 \in N
  <2> SUFFICES ASSUME k + 1 <= n
               PROVE  FitState(run[k + 1], k + 1, base, list, resources, count, limit)
    OBVIOUS
  <2>1. k < n /\ k <= n
    BY <1>1
  <2>2. FitState(run[k], k, base, list, resources, count, limit)
    BY <1>4, <2>1
  <2>3. FitState(FitStep(run[k], list[k + 1], resources, count, limit), k + 1,
                 base, list, resources, count, limit)
    BY <2>1, <2>2, FitStepKeeps DEF n
  <2> QED
    BY <1>2, <2>1, <2>3 DEF IsFitRun, n
<1>5. \A k \in Nat : k \in N
  BY ONLY <1>3, <1>4, EveryNat
<1>6. FitState(run[n], n, base, list, resources, count, limit)
  BY <1>1, <1>5
<1> QED
  BY <1>2, <1>6, BudgetIsFitted DEF n, start, IsFitRun

-------------------------------------------------------------------------------
(* What is left when repeated templates are left out. *)

SameRequests(k, t) == k.method = t.method /\ k.url = t.url /\ k.kind = t.kind

\* What is kept of the first k, which cost as much as they do at most.
KeepState(kept, k, ts, cost, resources) ==
    /\ kept \in Seq(ToSet(ts))
    /\ BaseUnits(kept, resources) <= cost
    /\ \A j \in 1..k : \E t \in ToSet(kept) : SameRequests(t, ts[j])

LEMMA KeepStepKeeps ==
    ASSUME NEW ts, IsList(ts), NEW resources, IsList(resources), NEW k \in Nat, k < Len(ts),
           NEW cost \in Nat, NEW kept, KeepState(kept, k, ts, cost, resources)
    PROVE  KeepState(KeepStep(kept, ts[k + 1]), k + 1, ts,
                     cost + Expansion(ts[k + 1], resources), resources)
<1> DEFINE t == ts[k + 1]
           X == ToSet(ts)
           e == Expansion(t, resources)
           new == KeepStep(kept, t)
<1>1. Len(ts) \in Nat /\ k + 1 \in 1..Len(ts) /\ t \in X
  BY ListFacts
<1>2. kept \in Seq(X) /\ BaseUnits(kept, resources) <= cost
  BY DEF KeepState
<1>3. \A j \in 1..k + 1 : j \in 1..k \/ j = k + 1
  OBVIOUS
<1>4. e \in Nat
  BY ExpansionIsNatural
<1> HIDE DEF t, X, e
<1>5. BaseUnits(kept, resources) \in Nat
      /\ BaseUnits(Append(kept, t), resources) = BaseUnits(kept, resources) + e
  BY <1>1, <1>2, UnitsOfAppend DEF e
<1>6. CASE \E o \in ToSet(kept) : SameRequests(o, t)
  <2>1. new = kept
    BY <1>6 DEF KeepStep, SameRequests
  <2>2. BaseUnits(kept, resources) <= cost + e
    BY <1>2, <1>4, <1>5
  <2>3. \A j \in 1..k + 1 : \E o \in ToSet(kept) : SameRequests(o, ts[j])
    BY <1>3, <1>6 DEF KeepState, t
  <2> QED
    BY <1>2, <2>1, <2>2, <2>3 DEF KeepState, X, e, t
<1>7. CASE ~\E o \in ToSet(kept) : SameRequests(o, t)
  <2>1. new = Append(kept, t)
    BY <1>7 DEF KeepStep, SameRequests
  <2>2. /\ Append(kept, t) \in Seq(X)
        /\ ToSet(kept) \subseteq ToSet(Append(kept, t)) /\ t \in ToSet(Append(kept, t))
    BY <1>1, <1>2, AppendFacts
  <2>3. BaseUnits(Append(kept, t), resources) <= cost + e
    BY <1>2, <1>4, <1>5
  <2>4. SameRequests(t, t)
    BY DEF SameRequests
  <2>5. \A j \in 1..k + 1 : \E o \in ToSet(Append(kept, t)) : SameRequests(o, ts[j])
    BY <1>3, <2>2, <2>4 DEF KeepState, t
  <2> HIDE DEF new
  <2> QED
    BY <2>1, <2>2, <2>3, <2>5 DEF KeepState, X, e, t, new
<1> QED
  BY <1>6, <1>7

LEMMA UniqueFacts ==
    ASSUME NEW ts, IsList(ts), NEW resources, IsList(resources)
    PROVE  KeepState(UniqueTemplates(ts), Len(ts), ts, BaseUnits(ts, resources), resources)
<1> DEFINE n == Len(ts)
<1>1. n \in Nat
  BY ListFacts
<1>2. PICK run : IsKeepRun(run, ts)
  BY UniqueRun
<1>3. PICK sum \in [0..n -> Nat] :
        /\ sum[0] = 0 /\ sum[n] = BaseUnits(ts, resources)
        /\ \A k \in Nat : k < n => sum[k + 1] = sum[k] + Expansion(ts[k + 1], resources)
  BY UnitsRun
<1> DEFINE N == {k \in Nat : k <= n => KeepState(run[k], k, ts, sum[k], resources)}
<1>4. 0 \in N
  <2>1. run[0] = <<>> /\ BaseUnits(<<>>, resources) = 0 /\ sum[0] = 0
    BY <1>2, <1>3, NoUnits DEF IsKeepRun
  <2>2. KeepState(<<>>, 0, ts, 0, resources)
    BY <2>1 DEF KeepState
  <2> QED
    BY <2>1, <2>2
<1> HIDE DEF n
<1>5. ASSUME NEW k \in Nat, k \in N PROVE k + 1 \in N
  <2> SUFFICES ASSUME k + 1 <= n
               PROVE  KeepState(run[k + 1], k + 1, ts, sum[k + 1], resources)
    OBVIOUS
  <2>1. k < n /\ k <= n /\ k \in 0..n
    BY <1>1
  <2>2. KeepState(run[k], k, ts, sum[k], resources) /\ sum[k] \in Nat
    BY <1>3, <1>5, <2>1
  <2>3. run[k + 1] = KeepStep(run[k], ts[k + 1])
        /\ sum[k + 1] = sum[k] + Expansion(ts[k + 1], resources)
    BY <1>2, <1>3, <2>1 DEF IsKeepRun, n
  <2>4. KeepState(KeepStep(run[k], ts[k + 1]), k + 1, ts,
                  sum[k] + Expansion(ts[k + 1], resources), resources)
    BY <2>1, <2>2, KeepStepKeeps DEF n
  <2> QED
    BY <2>3, <2>4
<1>6. \A k \in Nat : k \in N
  BY ONLY <1>4, <1>5, EveryNat
<1>7. KeepState(run[n], n, ts, sum[n], resources)
  BY <1>1, <1>6
<1> QED
  BY <1>2, <1>3, <1>7 DEF IsKeepRun, n

LEMMA UniqueAreTheSame ==
    ASSUME NEW ts, IsList(ts), NEW resources, IsList(resources)
    PROVE  /\ IsList(UniqueTemplates(ts)) /\ ToSet(UniqueTemplates(ts)) \subseteq ToSet(ts)
           /\ UniqueTemplates(ts) \in Seq(ToSet(ts))
           /\ \A t \in ToSet(ts) : \E k \in ToSet(UniqueTemplates(ts)) : SameRequests(k, t)
           /\ BaseUnits(UniqueTemplates(ts), resources) <= BaseUnits(ts, resources)
<1> DEFINE u == UniqueTemplates(ts)
<1>1. KeepState(u, Len(ts), ts, BaseUnits(ts, resources), resources)
  BY UniqueFacts
<1> HIDE DEF u
<1>2. u \in Seq(ToSet(ts)) /\ BaseUnits(u, resources) <= BaseUnits(ts, resources)
  BY <1>1 DEF KeepState
<1>3. IsList(u)
  BY <1>2, OverItsElements DEF IsList
<1>4. ToSet(u) \subseteq ToSet(ts)
  <2>1. \A i \in DOMAIN u : u[i] \in ToSet(ts)
    BY <1>2
  <2> QED
    BY <2>1 DEF ToSet
<1>5. \A t \in ToSet(ts) : \E k \in ToSet(u) : SameRequests(k, t)
  <2> TAKE t \in ToSet(ts)
  <2>1. PICK j \in 1..Len(ts) : t = ts[j]
    BY ElementAt, ListFacts
  <2> QED
    BY <1>1, <2>1 DEF KeepState
<1> QED
  BY <1>2, <1>3, <1>4, <1>5 DEF u

-------------------------------------------------------------------------------
(* How long the list of requests is. *)

\* The lengths of the first 0, 1, ... lists, one after the other.
IsLengthRun(run, s) ==
    /\ run \in [0..Len(s) -> Nat] /\ run[0] = 0 /\ run[Len(s)] = Len(FlattenSeq(s))
    /\ \A k \in Nat : k < Len(s) => run[k + 1] = run[k] + Len(s[k + 1])

LEMMA LengthRun ==
    ASSUME NEW X, NEW s \in Seq(Seq(X))
    PROVE  \E run : IsLengthRun(run, s)
<1> DEFINE n == Len(s)
           f == Flattened(s)
           run == [k \in 0..n |-> IF k = 0 THEN 0 ELSE Len(f[k])]
<1>1. n \in Nat /\ DOMAIN s = 1..n /\ \A i \in 1..n : s[i] \in Seq(X)
  OBVIOUS
<1>2. \A i \in 1..n : f[i] = IF i = 1 THEN s[i] ELSE f[i - 1] \o s[i]
  BY FlattenedExists
<1> HIDE DEF n, f
<1> DEFINE N == {k \in Nat : k \in 1..n => f[k] \in Seq(X)}
<1>3. 0 \in N
  BY <1>1
<1>4. ASSUME NEW k \in Nat, k \in N PROVE k + 1 \in N
  <2> SUFFICES ASSUME k + 1 \in 1..n PROVE f[k + 1] \in Seq(X)
    OBVIOUS
  <2>1. CASE k = 0
    <3>1. f[1] = s[1] /\ 1 \in 1..n
      BY <1>2, <2>1
    <3> QED
      BY <1>1, <2>1, <3>1
  <2>2. CASE k # 0
    <3>1. k \in 1..n /\ k + 1 # 1 /\ (k + 1) - 1 = k
      BY <1>1, <2>2
    <3>2. f[k + 1] = f[k] \o s[k + 1] /\ f[k] \in Seq(X) /\ s[k + 1] \in Seq(X)
      BY <1>1, <1>2, <1>4, <3>1
    <3> QED
      BY <3>2, ConcatProperties
  <2> QED
    BY <2>1, <2>2
<1>5. \A k \in Nat : k \in N
  BY ONLY <1>3, <1>4, EveryNat
<1>6. \A k \in 1..n : f[k] \in Seq(X) /\ Len(f[k]) \in Nat
  BY <1>1, <1>5
<1>7. run \in [0..n -> Nat]
  <2>1. \A k \in 0..n : k # 0 => k \in 1..n
    BY <1>1
  <2> QED
    BY <1>6, <2>1
<1>8. run[0] = 0
  BY <1>1
<1>9. run[n] = Len(FlattenSeq(s))
  <2>1. CASE n = 0
    <3>1. FlattenSeq(s) = s /\ Len(s) = 0
      BY <2>1 DEF FlattenSeq, n
    <3> QED
      BY <2>1, <3>1, <1>8
  <2>2. CASE n # 0
    <3>1. FlattenSeq(s) = f[n]
      BY <2>2 DEF FlattenSeq, Flattened, n, f
    <3> QED
      BY <1>1, <2>2, <3>1
  <2> QED
    BY <2>1, <2>2
<1>10. ASSUME NEW k \in Nat, k < n PROVE run[k + 1] = run[k] + Len(s[k + 1])
  <2>1. k + 1 \in 1..n /\ k + 1 \in 0..n /\ k \in 0..n /\ k + 1 # 0
    BY <1>1, <1>10
  <2>2. run[k + 1] = Len(f[k + 1])
    BY <2>1
  <2>3. s[k + 1] \in Seq(X) /\ Len(s[k + 1]) \in Nat
    BY <1>1, <2>1
  <2>4. CASE k = 0
    <3>1. f[k + 1] = s[k + 1] /\ run[k] = 0
      BY <1>2, <1>8, <2>1, <2>4
    <3> QED
      BY <2>2, <2>3, <3>1
  <2>5. CASE k # 0
    <3>1. k \in 1..n /\ k + 1 # 1 /\ (k + 1) - 1 = k
      BY <1>1, <2>1, <2>5
    <3>2. f[k + 1] = f[k] \o s[k + 1] /\ f[k] \in Seq(X)
      BY <1>2, <1>6, <2>1, <3>1
    <3>4. run[k] = Len(f[k])
      BY <2>1, <2>5
    <3>3. Len(f[k] \o s[k + 1]) = Len(f[k]) + Len(s[k + 1])
      BY <2>3, <3>2, ConcatProperties
    <3> QED
      BY <2>2, <3>2, <3>3, <3>4
  <2> QED
    BY <2>4, <2>5
<1> HIDE DEF run
<1>11. IsLengthRun(run, s)
  BY <1>7, <1>8, <1>9, <1>10 DEF IsLengthRun, n
<1> QED
  BY <1>11

\* The members of I among the first k.
LEMMA CountNext ==
    ASSUME NEW I, NEW k \in Nat
    PROVE  /\ Cardinality({i \in 1..k : i \in I}) \in Nat
           /\ Cardinality({i \in 1..k + 1 : i \in I}) =
                Cardinality({i \in 1..k : i \in I}) + IF k + 1 \in I THEN 1 ELSE 0
<1> DEFINE a == {i \in 1..k : i \in I}
           b == {i \in 1..k + 1 : i \in I}
<1>1. IsFiniteSet(a)
  <2>1. IsFiniteSet(1..k)
    BY FS_Interval
  <2> QED
    BY <2>1, FS_Subset
<1>2. Cardinality(a) \in Nat
  BY <1>1, FS_CardinalityType
<1>3. k + 1 \notin a
  OBVIOUS
<1>4. /\ k + 1 \in I => b = a \cup {k + 1}
      /\ k + 1 \notin I => b = a
  OBVIOUS
<1> HIDE DEF a, b
<1>5. Cardinality(a \cup {k + 1}) = Cardinality(a) + 1
  BY <1>1, <1>3, FS_AddElement
<1>6. CASE k + 1 \in I
  <2>1. Cardinality(b) = Cardinality(a) + 1
    BY <1>4, <1>5, <1>6
  <2> QED
    BY <1>2, <1>6, <2>1 DEF a, b
<1>7. CASE k + 1 \notin I
  <2>1. Cardinality(b) = Cardinality(a) + 0
    BY <1>2, <1>4, <1>7
  <2> QED
    BY <1>2, <1>7, <2>1 DEF a, b
<1> QED
  BY <1>6, <1>7

\* A kind that is stored is one wherever it is tested.
Named(t) == t.kind # ""

LEMMA NamedHasKind ==
    ASSUME NEW t, Named(t)
    PROVE  HasKind(t) <=> t.kind # None
BY Zenon DEF Named, HasKind

LEMMA RenderedLength ==
    ASSUME NEW t, Named(t), NEW resources, IsList(resources)
    PROVE  Len(Rendered(t, resources)) = Expansion(t, resources)
<1>1. CASE t.kind = None
  <2> DEFINE one == Request(t.url, t, None, None)
  <2>1. Rendered(t, resources) = <<one>>
    BY <1>1, NamedHasKind DEF Rendered
  <2> HIDE DEF one
  <2> QED
    BY <1>1, <2>1 DEF Expansion
<1>2. CASE t.kind # None
  <2> DEFINE X == {RequestOf(t, r) : r \in ToSet(resources)}
             n == Len(resources)
             s == [i \in 1..n |-> RequestsFor(t, resources[i])]
             I == {i \in 1..n : resources[i].kind = t.kind}
             upTo(k) == Cardinality({i \in 1..k : i \in I})
  <2>1. n \in Nat /\ DOMAIN resources = 1..n /\ \A i \in 1..n : resources[i] \in ToSet(resources)
    BY ListFacts
  <2>2. Rendered(t, resources) = FlattenSeq(s)
    BY <1>2, <2>1, NamedHasKind DEF Rendered
  <2>3. Expansion(t, resources) = Cardinality(I)
    BY <1>2, <2>1 DEF Expansion
  <2>4. ASSUME NEW i \in 1..n
        PROVE  s[i] \in Seq(X) /\ Len(s[i]) = IF i \in I THEN 1 ELSE 0
    <3> DEFINE q0 == RequestOf(t, resources[i])
    <3>1. q0 \in X
      BY <2>1
    <3>2. s[i] = IF resources[i].kind = t.kind THEN <<q0>> ELSE <<>>
      BY DEF RequestsFor, RequestOf
    <3>3. i \in I <=> resources[i].kind = t.kind
      OBVIOUS
    <3> HIDE DEF q0, X, s, I
    <3> HIDE DEF n, upTo
    <3>4. /\ <<q0>> \in Seq(X) /\ Len(<<q0>>) = 1
          /\ <<>> \in Seq(X) /\ Len(<<>>) = 0
      <4>1. <<q0>> \in Seq(X) /\ Len(<<q0>>) = 1
        BY <3>1
      <4>2. <<>> \in Seq(X) /\ Len(<<>>) = 0
        OBVIOUS
      <4> QED
        BY <4>1, <4>2
    <3>5. CASE resources[i].kind = t.kind
      <4>1. s[i] = <<q0>>
        BY <3>2, <3>5
      <4> QED
        BY <4>1, <3>3, <3>4, <3>5
    <3>6. CASE resources[i].kind # t.kind
      <4>1. s[i] = <<>>
        BY <3>2, <3>6
      <4> QED
        BY <4>1, <3>3, <3>4, <3>6
    <3> QED
      BY <3>5, <3>6
  <2>5. s \in Seq(Seq(X)) /\ Len(s) = n
    <3>1. s \in [1..n -> Seq(X)]
      BY <2>4
    <3> HIDE DEF X, s, n, upTo
    <3> QED
      BY <2>1, <3>1
  <2> HIDE DEF X, s, n
  <2>6. PICK run : IsLengthRun(run, s)
    BY <2>5, LengthRun
  <2>7. {i \in 1..n : i \in I} = I /\ {i \in 1..0 : i \in I} = {}
    OBVIOUS
  <2> HIDE DEF I
  <2> DEFINE N == {k \in Nat : k <= n => run[k] = upTo(k)}
  <2>8. 0 \in N
    BY <2>6, <2>7, FS_EmptySet DEF IsLengthRun
  <2>9. ASSUME NEW k \in Nat, k \in N PROVE k + 1 \in N
    <3> SUFFICES ASSUME k + 1 <= n PROVE run[k + 1] = upTo(k + 1)
      OBVIOUS
    <3>1. k < n /\ k <= n /\ k + 1 \in 1..n
      BY <2>1
    <3>2. run[k] = upTo(k)
      BY <2>9, <3>1
    <3>3. upTo(k) \in Nat /\ upTo(k + 1) = upTo(k) + IF k + 1 \in I THEN 1 ELSE 0
      BY CountNext
    <3> HIDE DEF upTo
    <3>4. run[k + 1] = run[k] + Len(s[k + 1])
      BY <2>5, <2>6, <3>1 DEF IsLengthRun
    <3>5. Len(s[k + 1]) = IF k + 1 \in I THEN 1 ELSE 0
      BY <2>4, <3>1
    <3> QED
      BY <3>2, <3>3, <3>4, <3>5
  <2>10. \A k \in Nat : k \in N
    BY ONLY <2>8, <2>9, EveryNat
  <2>11. run[n] = Cardinality(I)
    BY <2>1, <2>7, <2>10
  <2> QED
    BY <2>2, <2>3, <2>5, <2>6, <2>11 DEF IsLengthRun
<1> QED
  BY <1>1, <1>2

\* The requests are as many as the templates are expected to cost.
LEMMA RequestsLength ==
    ASSUME NEW in, IsList(in.resources), IsList(in.templates),
           \A t \in ToSet(in.templates) : Named(t)
    PROVE  Len(Requests(in)) = BaseUnits(in.templates, in.resources)
<1> DEFINE ts == in.templates
           n == Len(ts)
           X == UNION {ToSet(Rendered(t, in.resources)) : t \in ToSet(ts)}
           s == [i \in 1..n |-> Rendered(ts[i], in.resources)]
<1>1. n \in Nat /\ DOMAIN ts = 1..n /\ \A i \in 1..n : ts[i] \in ToSet(ts)
  BY ListFacts
<1>2. Requests(in) = FlattenSeq(s)
  BY <1>1 DEF Requests
<1>3. \A i \in 1..n : s[i] \in Seq(X) /\ Len(s[i]) = Expansion(ts[i], in.resources)
  <2> TAKE i \in 1..n
  <2>1. ToSet(Rendered(ts[i], in.resources)) \subseteq X
    BY <1>1
  <2>2. Rendered(ts[i], in.resources) \in Seq(ToSet(Rendered(ts[i], in.resources)))
    BY RenderedElements DEF IsList
  <2>3. Len(Rendered(ts[i], in.resources)) = Expansion(ts[i], in.resources)
    BY <1>1, RenderedLength
  <2> HIDE DEF X
  <2> QED
    BY <2>1, <2>2, <2>3, OverMore
<1>4. s \in Seq(Seq(X)) /\ Len(s) = n
  <2>1. s \in [1..n -> Seq(X)]
    BY <1>3
  <2> HIDE DEF X, s, n
  <2> QED
    BY <1>1, <2>1
<1> HIDE DEF X, s
<1>5. PICK run : IsLengthRun(run, s)
  BY <1>4, LengthRun
<1>6. PICK sum \in [0..n -> Nat] :
        /\ sum[0] = 0 /\ sum[n] = BaseUnits(ts, in.resources)
        /\ \A k \in Nat : k < n => sum[k + 1] = sum[k] + Expansion(ts[k + 1], in.resources)
  BY UnitsRun
<1> HIDE DEF n, ts
<1> DEFINE N == {k \in Nat : k <= n => run[k] = sum[k]}
<1>7. 0 \in N
  BY <1>5, <1>6 DEF IsLengthRun
<1>8. ASSUME NEW k \in Nat, k \in N PROVE k + 1 \in N
  <2> SUFFICES ASSUME k + 1 <= n PROVE run[k + 1] = sum[k + 1]
    OBVIOUS
  <2>1. k < n /\ k <= n /\ k + 1 \in 1..n
    BY <1>1
  <2>2. run[k] = sum[k]
    BY <1>8, <2>1
  <2>3. run[k + 1] = run[k] + Len(s[k + 1])
    BY <1>4, <1>5, <2>1 DEF IsLengthRun
  <2> QED
    BY <1>3, <1>6, <2>1, <2>2, <2>3
<1>9. \A k \in Nat : k \in N
  BY ONLY <1>7, <1>8, EveryNat
<1>10. run[n] = sum[n]
  BY <1>1, <1>9
<1> QED
  BY <1>2, <1>4, <1>5, <1>6, <1>10 DEF IsLengthRun, ts

-------------------------------------------------------------------------------
(* What a campaign m makes of its contract and of its fixtures. *)

ContractOf(m) ==
    IF m.openapi = <<>> THEN <<>>
    ELSE OpenApiPlan(m.openapi[1].document, m.openapi[1].config)

ContractTemplatesOf(m) ==
    IF m.openapi = <<>> THEN {}
    ELSE ContractTemplates(m.openapi[1].document, m.openapi[1].config)

LEMMA ContractParsed ==
    ASSUME NEW m \in Campaigns, m.openapi # <<>>
    PROVE  /\ m.openapi[1].config.max_templates \in Nat
           /\ IsList(m.openapi[1].document.operations)
           /\ \A op \in ToSet(m.openapi[1].document.operations) : IsList(op.path)
           /\ \A op, other \in ToSet(m.openapi[1].document.operations) :
                RouteOf(op) = RouteOf(other) => op.path = other.path
<1>1. IsList(m.openapi)
  BY ContractsParsed
<1>2. m.openapi[1] \in ToSet(m.openapi)
  <2>1. Len(m.openapi) \in Nat /\ DOMAIN m.openapi = 1..Len(m.openapi)
        /\ \A i \in DOMAIN m.openapi : m.openapi[i] \in ToSet(m.openapi)
    BY <1>1, ListFacts
  <2>2. Len(m.openapi) # 0
    BY <1>1, EmptySeq DEF IsList
  <2> QED
    BY <2>1, <2>2
<1> QED
  BY <1>2, ContractsParsed, Zenon

LEMMA OneIsLeast ==
    ASSUME NEW i \in Nat
    PROVE  Min({i}) = i
BY LeastOfNats

\* The parameter of an operation that becomes a template with a kind.
LEMMA PlannedOperation ==
    ASSUME NEW document, NEW config, NEW op, IsList(op.path), Plannable(document, config, op),
           Parameters(op) # {}
    PROVE  \E i \in Parameters(op) :
              /\ i \in DOMAIN op.path /\ Parameters(op) = {i} /\ Min(Parameters(op)) = i
              /\ op.path[i].text \in DOMAIN config.bindings
              /\ OperationTemplate(config, op).kind = config.bindings[op.path[i].text]
              /\ Named(OperationTemplate(config, op))
<1>1. PICK i \in Parameters(op) :
        /\ Parameters(op) = {i} /\ op.path[i].text \in DOMAIN config.bindings
        /\ config.bindings[op.path[i].text] # ""
  BY Zenon DEF Plannable
<1>2. i \in DOMAIN op.path /\ i \in Nat
  <2>1. DOMAIN op.path = 1..Len(op.path) /\ Len(op.path) \in Nat
    BY ListFacts
  <2>2. i \in DOMAIN op.path
    BY Zenon DEF Parameters
  <2>3. \A j \in 1..Len(op.path) : j \in Nat
    OBVIOUS
  <2> QED
    BY <2>1, <2>2, <2>3, Zenon
<1>3. Min(Parameters(op)) = i
  BY <1>1, <1>2, OneIsLeast, Zenon
<1>4. OperationTemplate(config, op).kind = config.bindings[op.path[Min(Parameters(op))].text]
  <2> DEFINE bound == Min(Parameters(op))
  <2> HIDE DEF bound
  <2>1. OperationTemplate(config, op).kind =
            IF Parameters(op) = {} THEN None ELSE config.bindings[op.path[bound].text]
    BY DEF OperationTemplate, Template, bound
  <2> QED
    BY <2>1 DEF bound
<1> QED
  BY <1>1, <1>2, <1>3, <1>4, Zenon DEF Named

LEMMA ContractTemplatesAreNamed ==
    ASSUME NEW m \in Campaigns, NEW t \in ContractTemplatesOf(m)
    PROVE  Named(t)
<1>1. m.openapi # <<>>
  BY DEF ContractTemplatesOf
<1> DEFINE document == m.openapi[1].document
           config == m.openapi[1].config
<1>2. PICK op \in ToSet(document.operations) :
        Plannable(document, config, op) /\ t = OperationTemplate(config, op)
  BY <1>1, Zenon DEF ContractTemplatesOf, ContractTemplates
<1>3. IsList(op.path)
  BY <1>1, <1>2, ContractParsed
<1>4. CASE Parameters(op) = {}
  <2>1. OperationTemplate(config, op).kind = None
    BY <1>4 DEF OperationTemplate, Template
  <2>2. None # ""
    BY Zenon DEF None
  <2> QED
    BY <1>2, <2>1, <2>2, Zenon DEF Named
<1>5. CASE Parameters(op) # {}
  BY <1>2, <1>3, <1>5, PlannedOperation
<1> QED
  BY <1>4, <1>5

LEMMA ContractFacts ==
    ASSUME NEW m \in Campaigns
    PROVE  /\ IsList(ContractOf(m)) /\ ToSet(ContractOf(m)) \subseteq ContractTemplatesOf(m)
           /\ \A t \in ToSet(ContractOf(m)) : Named(t)
<1>1. CASE m.openapi = <<>>
  <2>1. ContractOf(m) = <<>>
    BY <1>1 DEF ContractOf
  <2> QED
    BY <2>1 DEF IsList, ToSet
<1>2. CASE m.openapi # <<>>
  <2> DEFINE document == m.openapi[1].document
             config == m.openapi[1].config
             ops == document.operations
             X == ContractTemplates(document, config)
             n == Len(ops)
  <2>1. IsList(ops) /\ n \in Nat
    BY <1>2, ContractParsed, ListFacts
  <2>2. PICK run : IsPlanRun(run, document, config, ops)
    <3> HIDE DEF document, config
    <3> QED
      BY <2>1, PlanRun
  <2>3. ContractOf(m) = UniqueTemplates(run[n]) /\ ContractTemplatesOf(m) = X
    BY <1>2, <2>2 DEF IsPlanRun, ContractOf, ContractTemplatesOf
  <2> HIDE DEF document, config, ops, X, n
  <2>4. run[n] \in Seq(X)
    BY <2>1, <2>2 DEF IsPlanRun, X, n
  <2> DEFINE ts == run[n]
  <2>5. IsList(ts) /\ ToSet(ts) \subseteq X
    <3>1. \A i \in DOMAIN ts : ts[i] \in X
      BY <2>4
    <3> QED
      BY <2>4, <3>1, OverItsElements DEF IsList, ToSet
  <2> HIDE DEF ts
  <2>6. IsList(UniqueTemplates(ts)) /\ ToSet(UniqueTemplates(ts)) \subseteq ToSet(ts)
    BY <2>1, <2>5, UniqueAreTheSame
  <2> QED
    BY <2>3, <2>5, <2>6, ContractTemplatesAreNamed DEF ts
<1> QED
  BY <1>1, <1>2

LEMMA KindsAreNamed ==
    ASSUME NEW m \in Campaigns, NEW k \in KindsOf(m)
    PROVE  k # None /\ k # ""
<1>1. PICK r \in ToSet(m.resources) : k = r.kind \/ k = LowerCase[r.kind]
  BY Zenon DEF KindsOf
<1>2. {r.kind, LowerCase[r.kind]} \cap {None, ""} = {}
  BY FixturesLoaded, Zenon
<1> QED
  BY <1>1, <1>2, Zenon

-------------------------------------------------------------------------------
(* Identities of the matrix. *)

LEMMA IdentitiesCounted ==
    ASSUME NEW in, IsList(in.profiles)
    PROVE  /\ Len(EnrichedProfiles(in)) = ProfileCount(in) /\ ProfileCount(in) \in Nat
           /\ in.profiles # <<>> => ProfileCount(in) >= 1
<1> DEFINE n == Len(in.profiles)
           owned == OwnedProfiles(in)
           X == ToSet(owned)
           anonymous == Identity("anonymous", "anonymous", None, {})
<1>1. n \in Nat /\ DOMAIN in.profiles = 1..n /\ (in.profiles # <<>> => n >= 1)
  <2>1. n \in Nat /\ DOMAIN in.profiles = 1..n
    BY ListFacts
  <2>2. in.profiles # <<>> => n # 0
    BY EmptySeq DEF IsList
  <2> QED
    BY <2>1, <2>2
<1>2. owned \in Seq(X) /\ Len(owned) = n
  <2>1. owned = [i \in 1..n |-> owned[i]]
    BY <1>1, Zenon DEF OwnedProfiles
  <2> HIDE DEF owned, n
  <2>2. DOMAIN owned = 1..n
    BY <2>1
  <2>3. owned \in [1..n -> X]
    BY <2>1, <2>2 DEF ToSet
  <2> HIDE DEF X
  <2> QED
    BY <1>1, <2>3
<1>3. Len(Append(owned, anonymous)) = n + 1
  <2>1. X \subseteq X \cup {anonymous} /\ anonymous \in X \cup {anonymous}
    OBVIOUS
  <2> HIDE DEF X, owned, anonymous, n
  <2>2. owned \in Seq(X \cup {anonymous})
    BY <1>2, <2>1, OverMore
  <2> QED
    BY <1>2, <2>1, <2>2, AppendProperties
<1>4. CASE in.anonymous /\ \A p \in ToSet(in.profiles) : ~LooksAnonymous(p)
  <2>1. EnrichedProfiles(in) = Append(owned, anonymous) /\ ProfileCount(in) = n + 1
    BY <1>4, Zenon DEF EnrichedProfiles, ProfileCount
  <2> HIDE DEF n, owned, anonymous
  <2> QED
    BY <1>1, <1>3, <2>1
<1>5. CASE ~(in.anonymous /\ \A p \in ToSet(in.profiles) : ~LooksAnonymous(p))
  <2>1. EnrichedProfiles(in) = owned /\ ProfileCount(in) = n
    BY <1>5, Zenon DEF EnrichedProfiles, ProfileCount
  <2> HIDE DEF n, owned
  <2> QED
    BY <1>1, <1>2, <2>1
<1> QED
  BY <1>4, <1>5

-------------------------------------------------------------------------------
(* A plan p that campaign m makes of the URLs it read. *)

BaseOf(m) == BaseUnits(m.templates \o ContractOf(m), m.resources)

FitOf(m, list) ==
    FitBudget(BaseOf(m), list, m.resources, ProfileCount(m), m.max_requests)

AllOf(m, urls) == AllSynthesized(urls, m.policy, m.resources, m.bindings)

SynthesizedOf(m, urls) ==
    Synthesized(urls, m.policy, m.resources, m.bindings, m.max_templates)

TemplatesWith(m, selected) == m.templates \o TemplatesOf(selected) \o ContractOf(m)

DerivedOf(m, selected) ==
    [profiles |-> m.profiles, resources |-> m.resources, anonymous |-> m.anonymous,
     templates |-> UniqueTemplates(TemplatesWith(m, selected))]

IsPlan(m, urls, p) ==
    /\ BindingsServed(m)
    /\ urls \in SUBSET Found(m)
    /\ p.synthesized = SynthesizedOf(m, urls)
    /\ p.selected = FitOf(m, p.synthesized).selected
    /\ p.estimated = FitOf(m, p.synthesized).used
    /\ ~p.cut => p.synthesized = AllOf(m, urls)
    /\ BaseOf(m) * ProfileCount(m) <= m.max_requests

LEMMA FixturesAreLists ==
    ASSUME NEW m \in Campaigns
    PROVE  /\ IsList(m.profiles) /\ IsList(m.resources) /\ IsList(m.templates)
           /\ m.max_requests \in Nat /\ m.max_templates \in Nat /\ ProfileCount(m) \in Nat
<1>1. IsList(m.profiles) /\ IsList(m.resources) /\ IsList(m.templates)
  BY FixturesLoaded, Zenon
<1>2. m.max_requests \in Nat /\ m.max_templates \in Nat
  BY CampaignsAccepted
<1>3. ProfileCount(m) \in Nat
  BY <1>1, IdentitiesCounted
<1> QED
  BY <1>1, <1>2, <1>3

\* The templates of the manifest, of the candidates and of the contract in one list.
LEMMA TemplatesTogether ==
    ASSUME NEW m \in Campaigns, NEW C, NEW selected \in Seq(C)
    PROVE  /\ IsList(TemplatesWith(m, selected))
           /\ \A t : t \in ToSet(TemplatesWith(m, selected)) <=>
                \/ t \in ToSet(m.templates)
                \/ \E c \in ToSet(selected) : t = SmartTemplate(c)
                \/ t \in ToSet(ContractOf(m))
           /\ BaseOf(m) \in Nat
           /\ BaseUnits(TemplatesOf(selected), m.resources) \in Nat
           /\ BaseUnits(TemplatesWith(m, selected), m.resources) =
                BaseOf(m) + BaseUnits(TemplatesOf(selected), m.resources)
<1> DEFINE a == m.templates
           b == TemplatesOf(selected)
           c == ContractOf(m)
           R == m.resources
           X == ToSet(a) \cup ToSet(b) \cup ToSet(c)
<1>1. IsList(a) /\ IsList(c) /\ IsList(R)
  BY FixturesAreLists, ContractFacts
<1>2. /\ b \in Seq({SmartTemplate(d) : d \in C}) /\ Len(b) = Len(selected)
      /\ \A i \in 1..Len(selected) : b[i] = SmartTemplate(selected[i])
  BY TemplatesOfList
<1> HIDE DEF b
<1>3. \A t : t \in ToSet(b) <=> \E d \in ToSet(selected) : t = SmartTemplate(d)
  <2>1. DOMAIN b = 1..Len(selected) /\ DOMAIN selected = 1..Len(selected)
    BY <1>2
  <2> QED
    BY <1>2, <2>1, ElementAt
<1>4. b \in Seq(ToSet(b))
  BY <1>2, OverItsElements
<1> HIDE DEF a, c, R
<1>5. a \in Seq(X) /\ b \in Seq(X) /\ c \in Seq(X)
  <2>1. a \in Seq(ToSet(a)) /\ c \in Seq(ToSet(c))
    BY <1>1 DEF IsList
  <2>2. ToSet(a) \subseteq X /\ ToSet(b) \subseteq X /\ ToSet(c) \subseteq X
    OBVIOUS
  <2> HIDE DEF X
  <2> QED
    BY <1>4, <2>1, <2>2, OverMore
<1> HIDE DEF X
<1>6. /\ a \o b \in Seq(X)
      /\ \A x : x \in ToSet(a \o b) <=> x \in ToSet(a) \/ x \in ToSet(b)
  BY <1>5, ConcatElements
<1>7. /\ (a \o b) \o c \in Seq(X)
      /\ \A x : x \in ToSet((a \o b) \o c) <=> x \in ToSet(a \o b) \/ x \in ToSet(c)
  BY <1>5, <1>6, ConcatElements
<1>8. /\ BaseUnits(a, R) \in Nat /\ BaseUnits(b, R) \in Nat
      /\ BaseUnits(a \o b, R) = BaseUnits(a, R) + BaseUnits(b, R)
  BY <1>1, <1>5, UnitsOfConcat
<1>9. /\ BaseUnits(c, R) \in Nat
      /\ BaseUnits((a \o b) \o c, R) = BaseUnits(a \o b, R) + BaseUnits(c, R)
  BY <1>1, <1>5, <1>6, UnitsOfConcat
<1>10. BaseUnits(a \o c, R) = BaseUnits(a, R) + BaseUnits(c, R)
  BY <1>1, <1>5, UnitsOfConcat
<1>11. TemplatesWith(m, selected) = (a \o b) \o c /\ BaseOf(m) = BaseUnits(a \o c, R)
  BY DEF TemplatesWith, BaseOf, a, b, c, R
<1>12. IsList((a \o b) \o c)
  BY <1>7, OverItsElements DEF IsList
<1>13. /\ \A t : t \in ToSet((a \o b) \o c) <=>
              \/ t \in ToSet(a) \/ \E d \in ToSet(selected) : t = SmartTemplate(d)
              \/ t \in ToSet(c)
  BY <1>3, <1>6, <1>7
<1>14. BaseUnits((a \o b) \o c, R) = BaseUnits(a \o c, R) + BaseUnits(b, R)
       /\ BaseUnits(a \o c, R) \in Nat
  BY <1>8, <1>9, <1>10
<1> QED
  BY <1>8, <1>11, <1>12, <1>13, <1>14 DEF a, b, c, R

LEMMA PlanFacts ==
    ASSUME NEW m \in Campaigns, NEW urls, NEW p, IsPlan(m, urls, p)
    PROVE  /\ p.synthesized \in Seq(Best(Pool(m, urls))) /\ IsList(p.synthesized)
           /\ Descending(p.synthesized) /\ Len(p.synthesized) <= m.max_templates
           /\ ~p.cut => ToSet(p.synthesized) = Best(Pool(m, urls))
           /\ FitState([selected |-> p.selected, used |-> p.estimated], Len(p.synthesized),
                       BaseOf(m), p.synthesized, m.resources, ProfileCount(m), m.max_requests)
<1> DEFINE list == p.synthesized
           fit == FitOf(m, list)
<1>1. /\ list \in Seq(Best(Pool(m, urls))) /\ IsList(list)
      /\ Descending(list) /\ Len(list) <= m.max_templates
      /\ list = AllOf(m, urls) => ToSet(list) = Best(Pool(m, urls))
  <2>1. BindingsServed(m) /\ urls \in SUBSET Found(m) /\ list = SynthesizedOf(m, urls)
    BY DEF IsPlan
  <2> HIDE DEF list
  <2> QED
    BY <2>1, SynthesizedFacts DEF SynthesizedOf, AllOf
<1>2. BaseOf(m) \in Nat
  <2>1. <<>> \in Seq({})
    OBVIOUS
  <2> QED
    BY <2>1, TemplatesTogether
<1> HIDE DEF list
<1>3. FitState(fit, Len(list), BaseOf(m), list, m.resources, ProfileCount(m), m.max_requests)
  BY <1>1, <1>2, FixturesAreLists, BudgetFacts DEF FitOf
<1>4. p.selected = fit.selected /\ p.estimated = fit.used
  BY DEF IsPlan, list
<1>5. FitState([selected |-> p.selected, used |-> p.estimated], Len(list),
               BaseOf(m), list, m.resources, ProfileCount(m), m.max_requests)
  BY <1>3, <1>4 DEF FitState
<1>6. ~p.cut => list = AllOf(m, urls)
  BY DEF IsPlan, list
<1> QED
  BY <1>1, <1>5, <1>6 DEF list


\* Where a selected candidate comes from.
LEMMA SelectedAreMade ==
    ASSUME NEW m \in Campaigns, NEW urls, NEW p, IsPlan(m, urls, p), NEW c \in ToSet(p.selected)
    PROVE  /\ c \in ToSet(p.synthesized) /\ c \in Best(Pool(m, urls)) /\ c.score \in 0..100
           /\ \E u \in urls : Permitted(m.policy, u) /\ MadeFrom(m, u, c)
           /\ SmartTemplate(c).kind \in KindsOf(m) /\ SmartTemplate(c).kind = c.kind
<1>1. BindingsServed(m) /\ urls \in SUBSET Found(m)
  BY DEF IsPlan
<1>2. c \in ToSet(p.synthesized)
  <2>1. FitState([selected |-> p.selected, used |-> p.estimated], Len(p.synthesized),
                 BaseOf(m), p.synthesized, m.resources, ProfileCount(m), m.max_requests)
    BY PlanFacts
  <2>2. p.selected \in Seq(ToSet(p.synthesized))
    BY <2>1 DEF FitState
  <2> QED
    BY <2>2, ElementAt
<1>3. c \in Best(Pool(m, urls))
  <2>1. p.synthesized \in Seq(Best(Pool(m, urls)))
    BY PlanFacts
  <2> QED
    BY <1>2, <2>1, ElementAt
<1>4. c \in Pool(m, urls) /\ c.score \in 0..100
  <2>1. Scored(Pool(m, urls))
    BY <1>1, PoolIsScored
  <2> QED
    BY <1>3, <2>1 DEF Best, Scored
<1>5. PICK u \in urls : Permitted(m.policy, u) /\ c \in Candidates(u, m.resources, m.bindings)
  BY <1>4 DEF Pool
<1>6. MadeFrom(m, u, c)
  BY <1>1, <1>5, CandidatesMade
<1>7. c.kind \in KindsOf(m)
  <2>1. PICK q \in Places(u), k \in KindsOf(m), bonus \in {6, 8, 10, 12} :
          c = Candidate(u, q, k, bonus)
    BY <1>6, Zenon DEF MadeFrom
  <2> QED
    BY <2>1 DEF Candidate
<1>8. SmartTemplate(c).kind = c.kind
  BY DEF SmartTemplate, Template
<1> QED
  BY <1>2, <1>3, <1>4, <1>5, <1>6, <1>7, <1>8

LEMMA SynthesizedAreNamed ==
    ASSUME NEW m \in Campaigns, NEW urls, NEW p, IsPlan(m, urls, p),
           NEW c \in ToSet(p.synthesized)
    PROVE  /\ c.score \in 0..100 /\ SmartTemplate(c).kind = c.kind
           /\ c.kind \in KindsOf(m) /\ Named(SmartTemplate(c))
<1>1. BindingsServed(m) /\ urls \in SUBSET Found(m)
  BY DEF IsPlan
<1>2. c \in Best(Pool(m, urls))
  <2>1. p.synthesized \in Seq(Best(Pool(m, urls)))
    BY PlanFacts
  <2> QED
    BY <2>1, ElementAt
<1>3. c \in Pool(m, urls) /\ c.score \in 0..100
  <2>1. Scored(Pool(m, urls))
    BY <1>1, PoolIsScored
  <2> QED
    BY <1>2, <2>1 DEF Best, Scored
<1>4. PICK u \in urls : c \in Candidates(u, m.resources, m.bindings)
  BY <1>3 DEF Pool
<1>5. MadeFrom(m, u, c)
  BY <1>1, <1>4, CandidatesMade
<1>6. c.kind \in KindsOf(m)
  <2>1. PICK q \in Places(u), k \in KindsOf(m), bonus \in {6, 8, 10, 12} :
          c = Candidate(u, q, k, bonus)
    BY <1>5, Zenon DEF MadeFrom
  <2> QED
    BY <2>1 DEF Candidate
<1>7. SmartTemplate(c).kind = c.kind
  BY DEF SmartTemplate, Template
<1>8. Named(SmartTemplate(c))
  BY <1>6, <1>7, KindsAreNamed, Zenon DEF Named
<1> QED
  BY <1>3, <1>6, <1>7, <1>8

\* What is derived from a plan costs no more than was estimated.
LEMMA PlanIsPaidFor ==
    ASSUME NEW m \in Campaigns, NEW urls, NEW p, IsPlan(m, urls, p),
           \A t \in ToSet(m.templates) : Named(t)
    PROVE  Len(Requests(DerivedOf(m, p.selected))) * Len(EnrichedProfiles(DerivedOf(m, p.selected)))
              <= p.estimated
<1> DEFINE in == DerivedOf(m, p.selected)
           ts == TemplatesWith(m, p.selected)
           R == m.resources
<1>1. /\ p.selected \in Seq(ToSet(p.synthesized))
      /\ p.estimated = ChargedFor(BaseOf(m), p.selected, R, ProfileCount(m))
  <2>1. FitState([selected |-> p.selected, used |-> p.estimated], Len(p.synthesized),
                 BaseOf(m), p.synthesized, m.resources, ProfileCount(m), m.max_requests)
    BY PlanFacts
  <2> QED
    BY <2>1 DEF FitState
<1>2. IsList(R) /\ IsList(m.profiles) /\ ProfileCount(m) \in Nat
  BY FixturesAreLists
<1>3. /\ in.templates = UniqueTemplates(ts) /\ in.resources = R /\ in.profiles = m.profiles
      /\ in.anonymous = m.anonymous
  BY DEF DerivedOf
<1> HIDE DEF in, R
<1>4. /\ IsList(ts) /\ BaseOf(m) \in Nat
      /\ BaseUnits(TemplatesOf(p.selected), R) \in Nat
      /\ BaseUnits(ts, R) = BaseOf(m) + BaseUnits(TemplatesOf(p.selected), R)
  BY <1>1, TemplatesTogether DEF R
<1>5. \A t \in ToSet(ts) : Named(t)
  <2> TAKE t \in ToSet(ts)
  <2>1. \/ t \in ToSet(m.templates)
        \/ \E c \in ToSet(p.selected) : t = SmartTemplate(c)
        \/ t \in ToSet(ContractOf(m))
    BY <1>1, TemplatesTogether
  <2>2. \A c \in ToSet(p.selected) : Named(SmartTemplate(c))
    BY SelectedAreMade, SynthesizedAreNamed
  <2>3. \A u \in ToSet(ContractOf(m)) : Named(u)
    BY ContractFacts
  <2> QED
    BY <2>1, <2>2, <2>3
<1> HIDE DEF ts
<1>6. /\ IsList(in.templates) /\ ToSet(in.templates) \subseteq ToSet(ts)
      /\ BaseUnits(in.templates, R) <= BaseUnits(ts, R)
  BY <1>2, <1>3, <1>4, UniqueAreTheSame
<1>7. Len(Requests(in)) = BaseUnits(in.templates, R)
  BY <1>2, <1>3, <1>5, <1>6, RequestsLength
<1>8. Len(EnrichedProfiles(in)) = ProfileCount(m)
  <2>1. Len(EnrichedProfiles(in)) = ProfileCount(in)
    BY <1>2, <1>3, IdentitiesCounted
  <2>2. ProfileCount(in) = ProfileCount(m)
    BY <1>3, Zenon DEF ProfileCount
  <2> QED
    BY <2>1, <2>2
<1>9. BaseUnits(in.templates, R) \in Nat
  <2>1. <<>> \in Seq(ToSet(in.templates)) /\ in.templates \in Seq(ToSet(in.templates))
    BY <1>6 DEF IsList
  <2> QED
    BY <1>2, <2>1, UnitsOfConcat
<1>10. \A x, y, z, n \in Nat : x <= y + z => x * n <= (y + z) * n
  OBVIOUS
<1>11. p.estimated = (BaseOf(m) + BaseUnits(TemplatesOf(p.selected), R)) * ProfileCount(m)
  BY <1>1 DEF ChargedFor
<1>12. BaseUnits(in.templates, R) <= BaseOf(m) + BaseUnits(TemplatesOf(p.selected), R)
  BY <1>4, <1>6
<1> QED
  BY <1>2, <1>4, <1>7, <1>8, <1>9, <1>10, <1>11, <1>12 DEF in

\* One that was passed over does not fit beside what comes before it.
LEMMA PassedOverDoNotFit ==
    ASSUME NEW m \in Campaigns, NEW urls, NEW p, IsPlan(m, urls, p),
           NEW c \in ToSet(p.synthesized), c \notin ToSet(p.selected),
           CostOf(c, m.resources, ProfileCount(m)) >= 1
    PROVE  \E k \in 0..Len(p.selected) :
              /\ \A i \in 1..k : p.selected[i].score >= c.score
              /\ ChargedFor(BaseOf(m), FirstOf(p.selected, k), m.resources, ProfileCount(m))
                    + CostOf(c, m.resources, ProfileCount(m)) > m.max_requests
<1> DEFINE list == p.synthesized
           n == Len(list)
           S == p.selected
           base == BaseOf(m)
           R == m.resources
           count == ProfileCount(m)
           limit == m.max_requests
<1>1. /\ IsList(list) /\ Descending(list)
      /\ FitState([selected |-> S, used |-> p.estimated], n, base, list, R, count, limit)
  BY PlanFacts
<1>2. n \in Nat /\ DOMAIN list = 1..n /\ \A i \in 1..n : list[i] \in ToSet(list)
  BY <1>1, ListFacts
<1>3. PICK j \in 1..n : c = list[j]
  BY <1>2, ElementAt
<1>4. PassedOver(S, j, base, list, R, count, limit)
  BY <1>1, <1>3 DEF FitState
<1>5. PICK k \in 0..Len(S) : NoRoomAfter(k, S, j, base, list, R, count, limit)
  BY <1>4 DEF PassedOver
<1>6. \A i \in 1..n : list[i].score \in 0..100
  BY <1>2, SynthesizedAreNamed
<1>7. \A i \in 1..k : S[i].score >= c.score
  <2> TAKE i \in 1..k
  <2>1. PICK h \in 1..j : S[i] = list[h]
    BY <1>5 DEF NoRoomAfter
  <2>2. h \in 1..n /\ h <= j
    BY <1>2
  <2>3. list[j].score <= list[h].score
    BY <1>1, <1>2, <2>2 DEF Descending
  <2> QED
    BY <1>3, <1>6, <2>1, <2>2, <2>3
<1>8. ChargedFor(base, FirstOf(S, k), R, count) + CostOf(c, R, count) > limit
  <2>1. ~(ChargedFor(base, FirstOf(S, k), R, count) + CostOf(c, R, count) <= limit)
    BY <1>3, <1>5 DEF NoRoomAfter
  <2>2. limit \in Nat /\ count \in Nat /\ IsList(R)
    BY FixturesAreLists
  <2>3. S \in Seq(ToSet(list)) /\ Len(S) \in Nat
    BY <1>1 DEF FitState
  <2> HIDE DEF S, R, count, limit, base, list, n
  <2>4. FirstOf(S, k) \in Seq(ToSet(list))
    BY <2>3, FirstOfList DEF FirstOf
  <2>5. base \in Nat
    BY <2>3, TemplatesTogether DEF base
  <2>6. ChargedFor(base, FirstOf(S, k), R, count) \in Nat /\ CostOf(c, R, count) \in Nat
    BY <2>2, <2>4, <2>5, ChargesAddUp DEF list
  <2> QED
    BY <2>1, <2>2, <2>6
<1> QED
  BY <1>7, <1>8

-------------------------------------------------------------------------------
(* The plan is the one the URLs give, and what is sent is what it says. *)

IsSent(m, p, requests) ==
    LET in == DerivedOf(m, p.selected)
    IN  /\ ValidInputs(in)
        /\ Len(Requests(in)) * Len(EnrichedProfiles(in)) <= m.max_requests
        /\ requests = Requests(in)

PlanInv ==
    /\ pc \in {"smart", "verify"} \/ plan.made => readFrom \in Seconds
    /\ pc = "verify" => plan.made
    /\ plan.made => pc \notin {"new", "recon", "smart"} /\ IsPlan(campaign, DiscoveryUrls, plan)
    /\ ~plan.made => plan = NoPlan
    /\ pc = "done" /\ plan.made => IsSent(campaign, plan, sent)
    /\ ~(pc = "done" /\ plan.made) => sent = <<>>

LEMMA StateOfContract ==
    /\ OpenApi = ContractOf(campaign)
    /\ \A selected : Derived(selected) = DerivedOf(campaign, selected)
<1>1. OpenApi = ContractOf(campaign)
  BY Zenon DEF OpenApi, ContractOf
<1>2. \A selected : Derived(selected) = DerivedOf(campaign, selected)
  BY <1>1, Zenon DEF Derived, DerivedOf, TemplatesWith, TemplatesOf
<1> QED
  BY <1>1, <1>2

LEMMA PlanInit == Init => PlanInv
<1> SUFFICES ASSUME Init PROVE PlanInv
  OBVIOUS
<1>1. pc = "new" /\ plan = NoPlan /\ sent = <<>>
  BY DEF Init
<1>2. ~NoPlan.made
  BY DEF NoPlan
<1> QED
  BY <1>1, <1>2 DEF PlanInv

LEMMA LatestIsASecond ==
    ASSUME DirectoriesInv, stage = "done"
    PROVE  LatestRun \in Made /\ LatestRun \in Seconds
<1>1. Stamp \in Made /\ \A s \in Made : s \in Seconds
  BY DEF DirectoriesInv, OwnDirectory, Made, Seconds, Stamp
<1>2. \E m \in Made : \A s \in Made : m >= s
  <2>1. CASE 3 \in Made
    BY <1>1, <2>1 DEF Seconds
  <2>2. CASE 3 \notin Made
    BY <1>1, <2>2 DEF Seconds, Stamp
  <2> QED
    BY <2>1, <2>2
<1> QED
  BY <1>1, <1>2 DEF LatestRun, Max

LEMMA PlanTemplatesPlans ==
    ASSUME DirectoriesInv, PlanInv, PlanTemplates
    PROVE  PlanInv'
<1> DEFINE m == campaign
           urls == DiscoveryUrls
           list == SynthesizedOf(m, urls)
           fit == FitOf(m, list)
<1>1. /\ pc = "smart" /\ UNCHANGED <<campaign, dirs, readFrom, sent>>
      /\ \/ /\ pc' = "verify" /\ SmartInputs /\ BaseOf(m) * ProfileCount(m) <= m.max_requests
            /\ plan' = [made |-> TRUE, synthesized |-> list, selected |-> fit.selected,
                        estimated |-> fit.used, cut |-> list # AllOf(m, urls)]
         \/ pc' = "failed" /\ plan' = NoPlan
  BY StateOfContract, Zenon
     DEF PlanTemplates, SynthesizedOf, FitOf, BaseOf, AllOf, pipelineVars
<1>2. readFrom \in Seconds /\ ~plan.made /\ sent = <<>>
  BY <1>1 DEF PlanInv
<1>3. DiscoveryUrls' = urls
  BY <1>1 DEF DiscoveryUrls
<1>4. urls \in SUBSET Found(m)
  <2>1. dirs[readFrom] \in Directories
    BY <1>2 DEF DirectoriesInv
  <2> QED
    BY <2>1 DEF Directories, DiscoveryUrls, Webs, Found
<1>5. CASE pc' = "failed" /\ plan' = NoPlan
  <2>1. ~NoPlan.made
    BY DEF NoPlan
  <2> QED
    BY <1>1, <1>2, <1>5, <2>1 DEF PlanInv
<1>6. CASE /\ pc' = "verify" /\ SmartInputs /\ BaseOf(m) * ProfileCount(m) <= m.max_requests
           /\ plan' = [made |-> TRUE, synthesized |-> list, selected |-> fit.selected,
                       estimated |-> fit.used, cut |-> list # AllOf(m, urls)]
  <2>1. BindingsServed(m)
    BY <1>1, <1>6, Zenon DEF SmartInputs, BindingsServed
  <2> HIDE DEF m, urls, list, fit
  <2>2. /\ plan'.made /\ plan'.synthesized = list /\ plan'.selected = fit.selected
        /\ plan'.estimated = fit.used /\ (plan'.cut <=> list # AllOf(m, urls))
        /\ pc' = "verify" /\ BaseOf(m) * ProfileCount(m) <= m.max_requests
    <3> DEFINE isCut == list # AllOf(m, urls)
    <3>1. plan'.cut <=> isCut
      <4> HIDE DEF isCut
      <4>1. plan' = [made |-> TRUE, synthesized |-> list, selected |-> fit.selected,
                     estimated |-> fit.used, cut |-> isCut]
        BY <1>6 DEF isCut
      <4> QED
        BY <4>1
    <3>2. /\ plan'.made /\ plan'.synthesized = list /\ plan'.selected = fit.selected
          /\ plan'.estimated = fit.used
      <4> HIDE DEF isCut
      <4>1. plan' = [made |-> TRUE, synthesized |-> list, selected |-> fit.selected,
                     estimated |-> fit.used, cut |-> isCut]
        BY <1>6 DEF isCut
      <4> QED
        BY <4>1
    <3> QED
      BY <1>6, <3>1, <3>2 DEF isCut
  <2>3. IsPlan(m, urls, plan')
    BY <1>4, <2>1, <2>2 DEF IsPlan, list, fit
  <2>4. m' = m /\ readFrom' = readFrom /\ sent' = sent
    BY <1>1 DEF m
  <2>5. IsPlan(campaign, DiscoveryUrls, plan)'
    BY <1>3, <2>3, <2>4 DEF m
  <2> QED
    BY <1>2, <2>2, <2>4, <2>5 DEF PlanInv
<1> QED
  BY <1>1, <1>5, <1>6

LEMMA PlanInvStep == DirectoriesInv /\ PlanInv /\ [Next]_vars => PlanInv'
<1> SUFFICES ASSUME DirectoriesInv, PlanInv, [Next]_vars PROVE PlanInv'
  OBVIOUS
<1>1. ASSUME ~plan.made, UNCHANGED <<plan, sent>>, pc' \notin {"smart", "verify"}
      PROVE  PlanInv'
  BY <1>1 DEF PlanInv
<1>2. CASE RefuseCampaign
  <2>1. pc = "new" /\ pc' = "failed" /\ UNCHANGED <<plan, sent>>
    BY <1>2 DEF RefuseCampaign
  <2> QED
    BY <1>1, <2>1 DEF PlanInv
<1>3. CASE StartPipeline
  <2>1. pc = "new" /\ pc' = "recon" /\ UNCHANGED <<plan, sent>>
    BY <1>3 DEF StartPipeline
  <2> QED
    BY <1>1, <2>1 DEF PlanInv
<1>4. CASE RunPipeline
  <2>1. pc = "recon" /\ pc' = "recon" /\ UNCHANGED <<plan, sent>>
    BY <1>4 DEF RunPipeline, bountyVars
  <2> QED
    BY <1>1, <2>1 DEF PlanInv
<1>5. CASE PipelineRaises
  <2>1. pc = "recon" /\ pc' = "failed" /\ UNCHANGED <<plan, sent>>
    BY <1>5 DEF PipelineRaises
  <2> QED
    BY <1>1, <2>1 DEF PlanInv
<1>6. CASE ReadRun
  <2>1. /\ pc = "recon" /\ stage = "done" /\ readFrom' = LatestRun
        /\ pc' \in {"smart", "done"} /\ UNCHANGED <<plan, sent>>
    BY <1>6 DEF ReadRun
  <2>2. readFrom' \in Seconds
    BY <2>1, LatestIsASecond
  <2>3. ~plan.made
    BY <2>1 DEF PlanInv
  <2> QED
    BY <2>1, <2>2, <2>3 DEF PlanInv, Seconds
<1>7. CASE PlanTemplates
  BY <1>7, PlanTemplatesPlans
<1>8. ASSUME UNCHANGED <<campaign, dirs, readFrom, plan>>, pc \notin {"new", "recon", "smart"},
             pc' \in {"done", "failed"},
             IF pc' = "done" /\ plan.made THEN IsSent(campaign, plan, sent') ELSE sent' = <<>>
      PROVE  PlanInv'
  <2>1. DiscoveryUrls' = DiscoveryUrls
    BY <1>8 DEF DiscoveryUrls
  <2>2. IsPlan(campaign, DiscoveryUrls, plan)' <=> IsPlan(campaign, DiscoveryUrls, plan)
    BY <1>8, <2>1
  <2>3. IsSent(campaign, plan, sent)' <=> IsSent(campaign, plan, sent')
    BY <1>8
  <2> QED
    BY <1>8, <2>2, <2>3 DEF PlanInv, Seconds
<1>9. CASE VerificationRaises
  <2>1. /\ pc = "verify" /\ pc' = "failed"
        /\ UNCHANGED <<campaign, dirs, readFrom, plan, sent>>
    BY <1>9 DEF VerificationRaises, pipelineVars
  <2> QED
    BY <1>8, <2>1 DEF PlanInv
<1>10. CASE VerifyAndMerge
  <2>1. /\ pc = "verify" /\ pc' = "done"
        /\ UNCHANGED <<campaign, dirs, readFrom, plan>>
    BY <1>10 DEF VerifyAndMerge, pipelineVars
  <2>2. IsSent(campaign, plan, sent')
    BY <1>10, StateOfContract, Zenon DEF VerifyAndMerge, IsSent, MatrixSize
  <2> QED
    BY <1>8, <2>1, <2>2 DEF PlanInv
<1>11. CASE UNCHANGED vars
  <2>1. UNCHANGED <<campaign, dirs, pc, readFrom, plan, sent>>
    BY <1>11 DEF vars, pipelineVars, bountyVars
  <2>2. DiscoveryUrls' = DiscoveryUrls
    BY <2>1 DEF DiscoveryUrls
  <2> QED
    BY <2>1, <2>2 DEF PlanInv, IsPlan, IsSent, Seconds
<1> QED
  BY <1>2, <1>3, <1>4, <1>5, <1>6, <1>7, <1>9, <1>10, <1>11 DEF Next

-------------------------------------------------------------------------------
(* What the invariant says of the plan. *)

CampaignInv == DirectoriesInv /\ PlanInv

LEMMA CampaignInit == Init => CampaignInv
  BY DirectoriesInit, PlanInit DEF CampaignInv

LEMMA CampaignStep == CampaignInv /\ [Next]_vars => CampaignInv'
  BY DirectoriesStep, PlanInvStep DEF CampaignInv

LEMMA CampaignInvariance == Spec => []CampaignInv
  BY CampaignInit, CampaignStep, PTL DEF Spec

LEMMA AffordablePlan == CampaignInv => PlanIsAffordable
<1> DEFINE in == DerivedOf(campaign, plan.selected)
           named == \A t \in ToSet(campaign.templates) : Named(t)
<1>1. PlanIsAffordable <=>
        (pc = "verify" /\ named =>
            /\ Len(Requests(in)) * Len(EnrichedProfiles(in)) <= plan.estimated
            /\ plan.estimated <= campaign.max_requests)
  BY StateOfContract, Zenon DEF PlanIsAffordable, MatrixSize, Named
<1> SUFFICES ASSUME CampaignInv, pc = "verify", named
             PROVE  /\ Len(Requests(in)) * Len(EnrichedProfiles(in)) <= plan.estimated
                    /\ plan.estimated <= campaign.max_requests
  BY <1>1, Zenon
<1>2. campaign \in Campaigns /\ IsPlan(campaign, DiscoveryUrls, plan)
  BY DEF CampaignInv, DirectoriesInv, PlanInv
<1>3. Len(Requests(in)) * Len(EnrichedProfiles(in)) <= plan.estimated
  BY <1>2, PlanIsPaidFor
<1>4. plan.estimated <= campaign.max_requests
  <2>1. FitState([selected |-> plan.selected, used |-> plan.estimated], Len(plan.synthesized),
                 BaseOf(campaign), plan.synthesized, campaign.resources,
                 ProfileCount(campaign), campaign.max_requests)
    BY <1>2, PlanFacts
  <2>2. BaseOf(campaign) * ProfileCount(campaign) <= campaign.max_requests
    BY <1>2 DEF IsPlan
  <2> QED
    BY <2>1, <2>2 DEF FitState
<1> QED
  BY <1>3, <1>4

LEMMA PassedOverForWantOfRoom == CampaignInv => PassedOverOnlyForWantOfRoom
<1> SUFFICES ASSUME CampaignInv, plan.made,
                    NEW c \in ToSet(plan.synthesized) \ ToSet(plan.selected),
                    Cost(SmartTemplate(c), campaign) > 0
             PROVE  \E k \in 0..Len(plan.selected) :
                        /\ \A i \in 1..k : plan.selected[i].score >= c.score
                        /\ Charged(SubSeq(plan.selected, 1, k)) + Cost(SmartTemplate(c), campaign)
                              > campaign.max_requests
  BY Zenon DEF PassedOverOnlyForWantOfRoom
<1> DEFINE count == ProfileCount(campaign)
           cost == CostOf(c, campaign.resources, count)
<1>1. campaign \in Campaigns /\ IsPlan(campaign, DiscoveryUrls, plan)
  BY DEF CampaignInv, DirectoriesInv, PlanInv
<1>2. IsList(campaign.resources) /\ IsList(campaign.profiles) /\ count \in Nat
  BY <1>1, FixturesAreLists
<1>3. Cost(SmartTemplate(c), campaign) = cost
  <2>1. Named(SmartTemplate(c))
    BY <1>1, SynthesizedAreNamed
  <2>2. Len(Rendered(SmartTemplate(c), campaign.resources)) =
          Expansion(SmartTemplate(c), campaign.resources)
    BY <1>2, <2>1, RenderedLength
  <2>3. Len(EnrichedProfiles(campaign)) = count
    BY <1>2, IdentitiesCounted
  <2> QED
    BY <2>2, <2>3 DEF Cost, CostOf
<1>4. cost >= 1
  <2>1. <<>> \in Seq({c}) /\ BaseOf(campaign) \in Nat
    <3>1. <<>> \in Seq({c})
      OBVIOUS
    <3> QED
      BY <1>1, <3>1, TemplatesTogether
  <2>2. cost \in Nat
    <3>1. Expansion(SmartTemplate(c), campaign.resources) \in Nat
      BY <1>2, ExpansionIsNatural
    <3> QED
      BY <1>2, <3>1 DEF CostOf
  <2> HIDE DEF cost
  <2> QED
    BY <1>3, <2>2
<1>5. \A s : Charged(s) = ChargedFor(BaseOf(campaign), s, campaign.resources, count)
  BY StateOfContract, Zenon DEF Charged, ChargedFor, BaseOf, TemplatesOf
<1>6. PICK k \in 0..Len(plan.selected) :
        /\ \A i \in 1..k : plan.selected[i].score >= c.score
        /\ ChargedFor(BaseOf(campaign), FirstOf(plan.selected, k), campaign.resources, count)
             + cost > campaign.max_requests
  BY <1>1, <1>4, PassedOverDoNotFit
<1> QED
  BY <1>3, <1>5, <1>6 DEF FirstOf

-------------------------------------------------------------------------------
(* Stages, seconds and sizes. *)

SizesInv ==
    /\ pc \in {"new", "recon", "smart", "verify", "done", "failed"}
    /\ stage \in Ran \cup {"probe", "crawl", "clean", "scan"}
    /\ \A s \in Seconds \ {Stamp} : dirs[s].logic \cup dirs[s].params \subseteq dirs[s].scoped
    /\ readFrom \in {0} \cup Seconds
    /\ Cardinality(board) <= campaign.max_leads
    /\ Cardinality(reported) <= TopCandidates

LEMMA LeastIsNoMore ==
    ASSUME NEW S, IsFiniteSet(S), NEW limit \in Nat, NEW other,
           Cardinality(S) = LeastOf(limit, other)
    PROVE  Cardinality(S) <= limit
<1>1. Cardinality(S) \in Nat
  BY FS_CardinalityType
<1>2. CASE limit <= other
  BY <1>2 DEF LeastOf
<1>3. CASE ~(limit <= other)
  BY <1>1, <1>3 DEF LeastOf
<1> QED
  BY <1>2, <1>3

LEMMA CompletedIsScoped ==
    ASSUME NEW scoped, NEW nuclei
    PROVE  LET d == Completed(scoped, nuclei) IN d.logic \cup d.params \subseteq d.scoped
BY CandidatesAreFound DEF Completed, Files

LEMMA SizesInit == Init => SizesInv
<1> SUFFICES ASSUME Init PROVE SizesInv
  OBVIOUS
<1>1. /\ campaign \in Campaigns /\ stage = "idle" /\ pc = "new" /\ readFrom = 0
      /\ board = {} /\ reported = {}
      /\ dirs = [s \in Seconds |->
                    IF s \in campaign.old THEN Completed(campaign.oldWeb, campaign.oldScan)
                    ELSE NoDirectory]
  BY DEF Init, PipelineInit
<1>2. \A s \in Seconds \ {Stamp} : dirs[s].logic \cup dirs[s].params \subseteq dirs[s].scoped
  <2>1. NoDirectory.logic \cup NoDirectory.params \subseteq NoDirectory.scoped
    BY DEF NoDirectory, Files
  <2> QED
    BY <1>1, <2>1, CompletedIsScoped
<1>3. Cardinality({}) = 0
  BY FS_EmptySet
<1>4. 0 <= campaign.max_leads /\ 0 <= TopCandidates
  BY <1>1, CampaignsAccepted, TopIsANumber
<1> QED
  BY <1>1, <1>2, <1>3, <1>4 DEF SizesInv, Ran

\* What a step of the pipeline does to stages and to other seconds.
LEMMA PipelineKeepsOthers ==
    ASSUME DirectoriesInv, SizesInv, PipelineStep
    PROVE  /\ stage' \in Ran \cup {"probe", "crawl", "clean", "scan"}
           /\ \A s \in Seconds \ {Stamp} :
                dirs'[s].logic \cup dirs'[s].params \subseteq dirs'[s].scoped
<1>1. /\ stage \in Ran \cup {"probe", "crawl", "clean", "scan"}
      /\ \A s \in Seconds \ {Stamp} : dirs[s].logic \cup dirs[s].params \subseteq dirs[s].scoped
  BY DEF SizesInv
<1>2. dirs \in [Seconds -> Directories]
  BY DEF DirectoriesInv
<1>3. ASSUME NEW live \in 0..MaxLiveHosts + 1, Probe(live)
      PROVE  stage' \in {"crawl", "failed"} /\ dirs' = dirs
  BY <1>3 DEF Probe
<1>4. CASE Crawl
  <2>1. stage' \in {"failed", "clean"} /\ \A s \in Seconds \ {Stamp} : dirs'[s] = dirs[s]
    BY <1>2, <1>4 DEF Crawl
  <2> QED
    BY <1>1, <2>1 DEF Ran
<1>5. CASE Clean
  <2>1. stage' = "scan" /\ \A s \in Seconds \ {Stamp} : dirs'[s] = dirs[s]
    BY <1>2, <1>5 DEF Clean
  <2> QED
    BY <1>1, <2>1 DEF Ran
<1>6. CASE Scan
  <2>1. stage' = "done" /\ \A s \in Seconds \ {Stamp} : dirs'[s] = dirs[s]
    BY <1>2, <1>6 DEF Scan
  <2> QED
    BY <1>1, <2>1 DEF Ran
<1>7. CASE PipelineFails
  <2>1. stage' = "failed" /\ dirs' = dirs
    BY <1>7 DEF PipelineFails
  <2> QED
    BY <1>1, <2>1 DEF Ran
<1>8. CASE OtherRun
  <2>1. stage' = stage /\ dirs' = [dirs EXCEPT ![Stamp + 1] = Completed(campaign.web, campaign.scan)]
    BY <1>8 DEF OtherRun
  <2>2. \A s \in Seconds : dirs'[s] = dirs[s] \/ dirs'[s] = Completed(campaign.web, campaign.scan)
    BY <1>2, <2>1
  <2> QED
    BY <1>1, <2>1, <2>2, CompletedIsScoped
<1> QED
  BY <1>1, <1>3, <1>4, <1>5, <1>6, <1>7, <1>8 DEF PipelineStep, Ran

\* A step after which nothing was added to the board or the directories.
LEMMA SizesStay ==
    ASSUME SizesInv, UNCHANGED <<campaign, stage, dirs, readFrom, board, reported>>,
           pc' \in {"new", "recon", "smart", "verify", "done", "failed"}
    PROVE  SizesInv'
BY DEF SizesInv

LEMMA SizesStep == DirectoriesInv /\ RankInv /\ SizesInv /\ [Next]_vars => SizesInv'
<1> SUFFICES ASSUME DirectoriesInv, RankInv, SizesInv, [Next]_vars PROVE SizesInv'
  OBVIOUS
<1> DEFINE PCs == {"new", "recon", "smart", "verify", "done", "failed"}
<1>1. campaign \in Campaigns /\ campaign.max_leads \in Nat
  BY CampaignsAccepted DEF DirectoriesInv
<1>2. IsFiniteSet(board')
  BY RankStep DEF RankInv
<1>3. CASE RefuseCampaign
  BY <1>3, SizesStay DEF RefuseCampaign, pipelineVars
<1>4. CASE StartPipeline
  <2>1. /\ pc' = "recon" /\ stage' = "probe" /\ UNCHANGED <<campaign, readFrom, board, reported>>
        /\ dirs' = [dirs EXCEPT ![Stamp].made = TRUE, ![Stamp].nuclei = {}]
    BY <1>4 DEF StartPipeline, MakeRun
  <2>2. \A s \in Seconds \ {Stamp} : dirs'[s] = dirs[s]
    BY <2>1 DEF DirectoriesInv
  <2> QED
    BY <2>1, <2>2 DEF SizesInv
<1>5. CASE RunPipeline
  <2>1. PipelineStep /\ UNCHANGED <<campaign, pc, readFrom, board, reported>>
    BY <1>5, PipelineIsRunning DEF RunPipeline, bountyVars
  <2> QED
    BY <2>1, PipelineKeepsOthers DEF SizesInv
<1>6. CASE PipelineRaises
  BY <1>6, SizesStay DEF PipelineRaises, pipelineVars
<1>7. CASE ReadRun
  <2>1. /\ stage = "done" /\ readFrom' = LatestRun /\ pc' \in {"smart", "done"}
        /\ UNCHANGED <<campaign, stage, dirs, reported>>
    BY <1>7 DEF ReadRun, pipelineVars
  <2>2. LatestRun \in Seconds
    BY <2>1, LatestIsASecond
  <2>3. PICK leads : board' \in Cuts(leads, campaign.max_leads)
    BY <1>7 DEF ReadRun
  <2>4. Cardinality(board') <= campaign.max_leads
    BY <1>1, <1>2, <2>3, LeastIsNoMore DEF Cuts
  <2> QED
    BY <2>1, <2>2, <2>4 DEF SizesInv
<1>8. CASE PlanTemplates
  <2>1. /\ pc' \in {"verify", "failed"}
        /\ UNCHANGED <<campaign, stage, dirs, readFrom, board, reported>>
    BY <1>8, Zenon DEF PlanTemplates, pipelineVars
  <2> QED
    BY <2>1, SizesStay
<1>9. CASE VerificationRaises
  BY <1>9, SizesStay DEF VerificationRaises, pipelineVars
<1>10. CASE VerifyAndMerge
  <2>1. pc' = "done" /\ UNCHANGED <<campaign, stage, dirs, readFrom>>
    BY <1>10 DEF VerifyAndMerge, pipelineVars
  <2>2. PICK findings \in SUBSET campaign.findings :
          /\ reported' \in SUBSET findings
          /\ Cardinality(reported') = LeastOf(TopCandidates, Cardinality(findings))
          /\ board' \in Cuts(Deduped(board \cup {VerificationLead(f) : f \in reported'}),
                             campaign.max_leads)
    BY <1>10 DEF VerifyAndMerge
  <2>3. IsFiniteSet(reported')
    <3>1. IsFiniteSet(campaign.findings)
      BY <1>1, CampaignsAccepted
    <3> QED
      BY <2>2, <3>1, FS_Subset
  <2>4. Cardinality(reported') <= TopCandidates
    BY <2>2, <2>3, LeastIsNoMore, TopIsANumber
  <2>5. Cardinality(board') <= campaign.max_leads
    BY <1>1, <1>2, <2>2, LeastIsNoMore DEF Cuts
  <2> QED
    BY <2>1, <2>4, <2>5 DEF SizesInv
<1>11. CASE UNCHANGED vars
  BY <1>11, SizesStay DEF SizesInv, vars, pipelineVars, bountyVars
<1> QED
  BY <1>3, <1>4, <1>5, <1>6, <1>7, <1>8, <1>9, <1>10, <1>11 DEF Next

\* No plan is longer than it may be, nor what is sent.
LEMMA LengthsBounded ==
    ASSUME CampaignInv
    PROVE  /\ Len(plan.selected) <= Len(plan.synthesized)
           /\ Len(plan.synthesized) <= campaign.max_templates
           /\ Len(sent) <= campaign.max_requests
<1>1. campaign \in Campaigns /\ campaign.max_templates \in Nat /\ campaign.max_requests \in Nat
  BY FixturesAreLists DEF CampaignInv, DirectoriesInv
<1>2. plan.made => IsPlan(campaign, DiscoveryUrls, plan)
  BY DEF CampaignInv, PlanInv
<1>3. Len(plan.selected) <= Len(plan.synthesized) /\ Len(plan.synthesized) <= campaign.max_templates
  <2>1. CASE plan.made
    <3>1. FitState([selected |-> plan.selected, used |-> plan.estimated], Len(plan.synthesized),
                   BaseOf(campaign), plan.synthesized, campaign.resources,
                   ProfileCount(campaign), campaign.max_requests)
      BY <1>1, <1>2, <2>1, PlanFacts
    <3>2. Len(plan.selected) <= Len(plan.synthesized)
      BY <3>1 DEF FitState
    <3>3. Len(plan.synthesized) <= campaign.max_templates
      BY <1>1, <1>2, <2>1, PlanFacts
    <3> QED
      BY <3>2, <3>3
  <2>2. CASE ~plan.made
    <3>1. plan = NoPlan
      BY <2>2 DEF CampaignInv, PlanInv
    <3>2. plan.selected = <<>> /\ plan.synthesized = <<>>
      BY <3>1 DEF NoPlan
    <3>3. Len(<<>>) = 0
      OBVIOUS
    <3> QED
      BY <1>1, <3>2, <3>3
  <2> QED
    BY <2>1, <2>2
<1>4. CASE pc = "done" /\ plan.made
  <2> DEFINE in == DerivedOf(campaign, plan.selected)
  <2>1. IsSent(campaign, plan, sent)
    BY <1>4 DEF CampaignInv, PlanInv
  <2>2. /\ in.profiles # <<>> /\ in.profiles = campaign.profiles
        /\ sent = Requests(in) /\ Len(Requests(in)) * Len(EnrichedProfiles(in)) <= campaign.max_requests
    <3>1. ValidInputs(in) /\ sent = Requests(in)
          /\ Len(Requests(in)) * Len(EnrichedProfiles(in)) <= campaign.max_requests
      BY <2>1 DEF IsSent
    <3>2. in.profiles # <<>>
      BY <3>1, Zenon DEF ValidInputs
    <3> QED
      BY <3>1, <3>2 DEF DerivedOf
  <2>3. in.resources = campaign.resources /\ in.templates = UniqueTemplates(TemplatesWith(campaign, plan.selected))
    BY DEF DerivedOf
  <2> HIDE DEF in
  <2>4. IsList(campaign.profiles) /\ IsList(campaign.resources)
    BY <1>1, FixturesAreLists
  <2>5. Len(EnrichedProfiles(in)) \in Nat /\ Len(EnrichedProfiles(in)) >= 1
    BY <2>2, <2>4, IdentitiesCounted
  <2>6. IsList(in.templates)
    <3>1. plan.selected \in Seq(ToSet(plan.synthesized))
      <4>1. FitState([selected |-> plan.selected, used |-> plan.estimated], Len(plan.synthesized),
                     BaseOf(campaign), plan.synthesized, campaign.resources,
                     ProfileCount(campaign), campaign.max_requests)
        BY <1>1, <1>2, <1>4, PlanFacts
      <4> QED
        BY <4>1 DEF FitState
    <3>2. IsList(TemplatesWith(campaign, plan.selected))
      BY <1>1, <3>1, TemplatesTogether
    <3> QED
      BY <2>3, <2>4, <3>2, UniqueAreTheSame
  <2>7. Len(Requests(in)) \in Nat
    BY <2>3, <2>4, <2>6, RequestsElements
  <2>8. \A a, b, l \in Nat : b >= 1 /\ a * b <= l => a <= l
    <3> SUFFICES ASSUME NEW a \in Nat, NEW b \in Nat, NEW l \in Nat, b >= 1, a * b <= l
                 PROVE  a <= l
      OBVIOUS
    <3>1. b - 1 \in Nat
      OBVIOUS
    <3>2. a * (b - 1) \in Nat
      BY <3>1
    <3>3. a * b = a * (b - 1) + a
      OBVIOUS
    <3> QED
      BY <3>2, <3>3
  <2> QED
    BY <1>1, <1>3, <2>2, <2>5, <2>7, <2>8
<1>5. CASE ~(pc = "done" /\ plan.made)
  <2>1. sent = <<>>
    BY <1>5 DEF CampaignInv, PlanInv
  <2>2. Len(<<>>) = 0
    OBVIOUS
  <2> QED
    BY <1>1, <1>3, <2>1, <2>2
<1> QED
  BY <1>4, <1>5

-------------------------------------------------------------------------------
(* A URL with one place replaced. *)

IsUrl(u) ==
    /\ u = [host |-> u.host, path |-> u.path, query |-> u.query]
    /\ u.path \in Seq(ToSet(u.path)) /\ u.query \in Seq(ToSet(u.query))
    /\ \A i \in DOMAIN u.query : u.query[i] = [key |-> u.query[i].key, value |-> u.query[i].value]

Placeholders(u) == {q \in Places(u) : TextAt(u, q) = Placeholder}

LEMMA FoundAreUrls ==
    ASSUME NEW m \in Campaigns, NEW u \in Found(m)
    PROVE  IsUrl(u)
<1>1. /\ u = [host |-> u.host, path |-> u.path, query |-> u.query]
      /\ IsList(u.path) /\ IsList(u.query)
      /\ \A pair \in ToSet(u.query) : pair = [key |-> pair.key, value |-> pair.value]
  BY UrlsParsed DEF Found
<1>2. \A i \in DOMAIN u.query : u.query[i] \in ToSet(u.query)
  BY <1>1, ListFacts
<1>3. \A i \in DOMAIN u.query : u.query[i] = [key |-> u.query[i].key, value |-> u.query[i].value]
  BY <1>1, <1>2
<1> QED
  BY <1>1, <1>3 DEF IsUrl, IsList

LEMMA PlaceParts ==
    ASSUME NEW u, NEW p \in Places(u)
    PROVE  /\ p = <<p[1], p[2]>>
           /\ \/ p[1] = "path" /\ p[2] \in DOMAIN u.path
              \/ p[1] = "query" /\ p[2] \in DOMAIN u.query
BY DEF Places

LEMMA PutParts ==
    ASSUME NEW u, IsUrl(u), NEW p \in Places(u), NEW v
    PROVE  LET w == Put(u, p, v)
           IN  /\ w = [host |-> u.host, path |-> w.path, query |-> w.query]
               /\ DOMAIN w.path = DOMAIN u.path /\ DOMAIN w.query = DOMAIN u.query
               /\ p[1] = "path" =>
                    w.path = [u.path EXCEPT ![p[2]] = v] /\ w.query = u.query
               /\ p[1] = "query" =>
                    /\ w.path = u.path
                    /\ w.query = [u.query EXCEPT ![p[2]] =
                                     [key |-> u.query[p[2]].key, value |-> v]]
<1> DEFINE w == Put(u, p, v)
<1>1. /\ u = [host |-> u.host, path |-> u.path, query |-> u.query]
      /\ \A i \in DOMAIN u.query : u.query[i] = [key |-> u.query[i].key, value |-> u.query[i].value]
  BY DEF IsUrl
<1>2. CASE p[1] = "path"
  <2>1. w = [u EXCEPT !.path = [@ EXCEPT ![p[2]] = v]]
    BY <1>2 DEF Put
  <2>2. w = [host |-> u.host, path |-> [u.path EXCEPT ![p[2]] = v], query |-> u.query]
    BY <1>1, <2>1
  <2> HIDE DEF w
  <2> QED
    BY <1>2, <2>2 DEF w
<1>3. CASE p[1] = "query"
  <2> DEFINE q == u.query
             pair == [key |-> q[p[2]].key, value |-> v]
  <2>1. p[2] \in DOMAIN q
    BY <1>3, PlaceParts
  <2>2. [q[p[2]] EXCEPT !.value = v] = pair
    BY <1>1, <2>1
  <2>3. w = [u EXCEPT !.query = [q EXCEPT ![p[2]] = [q[p[2]] EXCEPT !.value = v]]]
    BY <1>3 DEF Put
  <2>4. w = [u EXCEPT !.query = [q EXCEPT ![p[2]] = pair]]
    BY <2>1, <2>2, <2>3
  <2>5. w = [host |-> u.host, path |-> u.path, query |-> [q EXCEPT ![p[2]] = pair]]
    BY <1>1, <2>4
  <2> HIDE DEF w
  <2> QED
    BY <1>3, <2>5 DEF w
<1> QED
  BY <1>2, <1>3, PlaceParts

\* The text of the replaced place, and of any other.
LEMMA PutTexts ==
    ASSUME NEW u, IsUrl(u), NEW p \in Places(u), NEW v
    PROVE  /\ Places(Put(u, p, v)) = Places(u) /\ TextAt(Put(u, p, v), p) = v
           /\ \A q \in Places(u) : q # p => TextAt(Put(u, p, v), q) = TextAt(u, q)
<1> DEFINE w == Put(u, p, v)
<1>1. u.path \in Seq(ToSet(u.path)) /\ u.query \in Seq(ToSet(u.query))
  BY DEF IsUrl
<1>2. /\ DOMAIN w.path = DOMAIN u.path /\ DOMAIN w.query = DOMAIN u.query
      /\ p[1] = "path" => w.path = [u.path EXCEPT ![p[2]] = v] /\ w.query = u.query
      /\ p[1] = "query" =>
            /\ w.path = u.path
            /\ w.query = [u.query EXCEPT ![p[2]] = [key |-> u.query[p[2]].key, value |-> v]]
  BY PutParts
<1> HIDE DEF w
<1>3. Places(w) = Places(u)
  BY <1>2 DEF Places
<1>4. TextAt(w, p) = v
  BY <1>1, <1>2, PlaceParts DEF TextAt
<1>5. ASSUME NEW q \in Places(u), q # p PROVE TextAt(w, q) = TextAt(u, q)
  <2>1. q[1] # p[1] \/ q[2] # p[2]
    BY <1>5, PlaceParts
  <2> QED
    BY <1>1, <1>2, <2>1, PlaceParts DEF TextAt
<1> QED
  BY <1>3, <1>4, <1>5 DEF w

LEMMA BothReplaced ==
    ASSUME NEW w, NEW a, NEW b, w = [host |-> w.host, path |-> w.path, query |-> w.query]
    PROVE  [w EXCEPT !.path = a, !.query = b] = [host |-> w.host, path |-> a, query |-> b]
<1> DEFINE e == [w EXCEPT !.path = a, !.query = b]
<1>1. e.host = w.host /\ e.path = a /\ e.query = b
  OBVIOUS
<1>2. DOMAIN e = {"host", "path", "query"} /\ e = [x \in {"host", "path", "query"} |-> e[x]]
  OBVIOUS
<1> HIDE DEF e
<1>3. e = [host |-> e.host, path |-> e.path, query |-> e.query]
  BY <1>2
<1> QED
  BY <1>1, <1>3 DEF e

\* With a single placeholder, a value put in its stead was put in its place.
LEMMA SwapOfOne ==
    ASSUME NEW u, IsUrl(u), NEW p \in Places(u), NEW v,
           Placeholders(Put(u, p, Placeholder)) = {p}
    PROVE  Substituted(Put(u, p, Placeholder), v) = Put(u, p, v)
<1> DEFINE w == Put(u, p, Placeholder)
           x == Put(u, p, v)
           path == [i \in DOMAIN w.path |-> IF w.path[i] = Placeholder THEN v ELSE w.path[i]]
           query == [i \in DOMAIN w.query |->
                        IF w.query[i].value = Placeholder THEN [w.query[i] EXCEPT !.value = v]
                        ELSE w.query[i]]
<1>1. /\ u.path \in Seq(ToSet(u.path)) /\ u.query \in Seq(ToSet(u.query))
      /\ \A i \in DOMAIN u.query : u.query[i] = [key |-> u.query[i].key, value |-> u.query[i].value]
  BY DEF IsUrl
<1>2. /\ w = [host |-> u.host, path |-> w.path, query |-> w.query]
      /\ DOMAIN w.path = DOMAIN u.path /\ DOMAIN w.query = DOMAIN u.query
      /\ p[1] = "path" => w.path = [u.path EXCEPT ![p[2]] = Placeholder] /\ w.query = u.query
      /\ p[1] = "query" =>
            /\ w.path = u.path
            /\ w.query = [u.query EXCEPT ![p[2]] =
                             [key |-> u.query[p[2]].key, value |-> Placeholder]]
  BY PutParts
<1>3. /\ x = [host |-> u.host, path |-> x.path, query |-> x.query]
      /\ DOMAIN x.path = DOMAIN u.path /\ DOMAIN x.query = DOMAIN u.query
      /\ p[1] = "path" => x.path = [u.path EXCEPT ![p[2]] = v] /\ x.query = u.query
      /\ p[1] = "query" =>
            /\ x.path = u.path
            /\ x.query = [u.query EXCEPT ![p[2]] = [key |-> u.query[p[2]].key, value |-> v]]
  BY PutParts
<1>4. \A q \in Places(w) : TextAt(w, q) = Placeholder => q = p
  BY DEF Placeholders
<1>5. Substituted(w, v) = [w EXCEPT !.path = path, !.query = query]
  BY DEF Substituted
<1> HIDE DEF w, x
<1>6. \A i \in DOMAIN w.path : w.path[i] = Placeholder => p = <<"path", i>>
  <2> SUFFICES ASSUME NEW i \in DOMAIN w.path, w.path[i] = Placeholder PROVE p = <<"path", i>>
    OBVIOUS
  <2>1. <<"path", i>> \in Places(w) /\ TextAt(w, <<"path", i>>) = Placeholder
    BY DEF Places, TextAt
  <2> QED
    BY <1>4, <2>1
<1>7. \A i \in DOMAIN w.query : w.query[i].value = Placeholder => p = <<"query", i>>
  <2> SUFFICES ASSUME NEW i \in DOMAIN w.query, w.query[i].value = Placeholder
               PROVE  p = <<"query", i>>
    OBVIOUS
  <2>1. <<"query", i>> \in Places(w) /\ TextAt(w, <<"query", i>>) = Placeholder
    BY DEF Places, TextAt
  <2> QED
    BY <1>4, <2>1
<1>8. path = x.path
  <2>1. CASE p[1] = "path"
    <3>1. \A i \in DOMAIN u.path : (w.path[i] = Placeholder) <=> (i = p[2])
      BY <1>1, <1>2, <1>6, <2>1, PlaceParts
    <3>2. \A i \in DOMAIN u.path : path[i] = [u.path EXCEPT ![p[2]] = v][i]
      BY <1>1, <1>2, <2>1, <3>1
    <3>3. path = [i \in DOMAIN u.path |-> path[i]]
      BY <1>2
    <3> HIDE DEF path
    <3> QED
      BY <1>1, <1>3, <2>1, <3>2, <3>3
  <2>2. CASE p[1] = "query"
    <3>1. \A i \in DOMAIN u.path : w.path[i] # Placeholder
      BY <1>2, <1>6, <2>2
    <3> QED
      BY <1>1, <1>2, <1>3, <2>2, <3>1
  <2> QED
    BY <2>1, <2>2, PlaceParts
<1>9. query = x.query
  <2>1. CASE p[1] = "path"
    <3>1. \A i \in DOMAIN u.query : w.query[i].value # Placeholder
      BY <1>2, <1>7, <2>1
    <3> QED
      BY <1>1, <1>2, <1>3, <2>1, <3>1
  <2>2. CASE p[1] = "query"
    <3> DEFINE pair == [key |-> u.query[p[2]].key, value |-> v]
    <3>1. \A i \in DOMAIN u.query : i # p[2] => w.query[i].value # Placeholder /\ w.query[i] = u.query[i]
      BY <1>1, <1>2, <1>7, <2>2
    <3>2. w.query[p[2]] = [key |-> u.query[p[2]].key, value |-> Placeholder] /\ p[2] \in DOMAIN u.query
      BY <1>1, <1>2, <2>2, PlaceParts
    <3>3. query[p[2]] = pair
      BY <1>2, <3>2
    <3>4. \A i \in DOMAIN u.query : i # p[2] => query[i] = u.query[i]
      BY <1>2, <3>1
    <3>5. query = [i \in DOMAIN u.query |-> query[i]]
      BY <1>2
    <3> HIDE DEF query, pair
    <3>6. query = [u.query EXCEPT ![p[2]] = pair]
      BY <1>1, <3>2, <3>3, <3>4, <3>5
    <3> QED
      BY <1>3, <2>2, <3>6 DEF pair
  <2> QED
    BY <2>1, <2>2, PlaceParts
<1> HIDE DEF path, query
<1>10. Substituted(w, v) = [host |-> u.host, path |-> path, query |-> query]
  <2>1. w.host = u.host
    BY <1>2
  <2>2. w = [host |-> w.host, path |-> w.path, query |-> w.query]
    BY <1>2, <2>1
  <2>3. [w EXCEPT !.path = path, !.query = query] = [host |-> w.host, path |-> path, query |-> query]
    BY <2>2, BothReplaced
  <2> QED
    BY <1>5, <2>1, <2>3
<1> QED
  BY <1>3, <1>8, <1>9, <1>10 DEF w, x

-------------------------------------------------------------------------------
(* What is sent of a plan. *)

\* Template t is sent with resource r.
SentWith(t, r, requests) ==
    \E q \in ToSet(requests) :
        q.method = t.method /\ q.resource = r.key /\ q.url = Substituted(t.url, r.value)

\* Request q is what template t makes, with a resource of its kind if it has one.
MadeOf(m, t, q) ==
    IF HasKind(t) THEN \E r \in ToSet(m.resources) : r.kind = t.kind /\ q = RequestOf(t, r)
    ELSE q = Request(t.url, t, None, None)

SentOf(m, t, requests) ==
    \A r \in ToSet(m.resources) : HasKind(t) /\ r.kind = t.kind => SentWith(t, r, requests)

LEMMA PlaceholdersOfValid ==
    ASSUME NEW t, NEW k, ValidTemplate(k), SameRequests(k, t)
    PROVE  Cardinality(Placeholders(t.url)) = IF HasKind(t) THEN 1 ELSE 0
<1>1. (HasKind(k) <=> HasKind(t)) /\ k.url = t.url
  BY Zenon DEF HasKind, SameRequests
<1>2. ValidTemplate(k) <=> Cardinality(Placeholders(k.url)) = IF HasKind(k) THEN 1 ELSE 0
  BY Zenon DEF ValidTemplate, Placeholders
<1> QED
  BY <1>1, <1>2

LEMMA SentFacts ==
    ASSUME NEW m \in Campaigns, NEW urls, NEW p, IsPlan(m, urls, p),
           NEW requests, IsSent(m, p, requests)
    PROVE  /\ \A q \in ToSet(requests) :
                \E t \in ToSet(TemplatesWith(m, p.selected)) : MadeOf(m, t, q)
           /\ \A t \in ToSet(TemplatesWith(m, p.selected)) :
                /\ SentOf(m, t, requests)
                /\ Cardinality(Placeholders(t.url)) = IF HasKind(t) THEN 1 ELSE 0
<1> DEFINE in == DerivedOf(m, p.selected)
           ts == TemplatesWith(m, p.selected)
<1>1. /\ in.templates = UniqueTemplates(ts) /\ in.resources = m.resources
  BY DEF DerivedOf
<1>2. requests = Requests(in)
  BY DEF IsSent
<1>3. \A k \in ToSet(in.templates) : ValidTemplate(k)
  BY Zenon DEF IsSent, ValidInputs
<1>4. IsList(m.resources)
  BY FixturesAreLists
<1>5. p.selected \in Seq(ToSet(p.synthesized))
  <2>1. FitState([selected |-> p.selected, used |-> p.estimated], Len(p.synthesized),
                 BaseOf(m), p.synthesized, m.resources, ProfileCount(m), m.max_requests)
    BY PlanFacts
  <2> QED
    BY <2>1 DEF FitState
<1>6. IsList(ts)
  BY <1>5, TemplatesTogether
<1> HIDE DEF in, ts
<1>7. /\ IsList(in.templates) /\ ToSet(in.templates) \subseteq ToSet(ts)
      /\ \A t \in ToSet(ts) : \E k \in ToSet(in.templates) : SameRequests(k, t)
  BY <1>1, <1>4, <1>6, UniqueAreTheSame
<1>8. \A q : q \in ToSet(Requests(in)) <=>
          \E t \in ToSet(in.templates) : q \in ToSet(Rendered(t, in.resources))
  BY <1>1, <1>4, <1>7, RequestsElements
<1>9. \A t, q : q \in ToSet(Rendered(t, in.resources)) <=> MadeOf(m, t, q)
  <2> TAKE t, q
  <2>1. in.resources \in Seq(ToSet(in.resources))
    BY <1>1, <1>4 DEF IsList
  <2> QED
    BY <1>1, <2>1, RenderedElements DEF MadeOf
<1>10. \A q \in ToSet(requests) : \E t \in ToSet(ts) : MadeOf(m, t, q)
  BY <1>2, <1>7, <1>8, <1>9
<1>11. ASSUME NEW t \in ToSet(ts)
       PROVE  /\ SentOf(m, t, requests)
              /\ Cardinality(Placeholders(t.url)) = IF HasKind(t) THEN 1 ELSE 0
  <2>1. PICK k \in ToSet(in.templates) : SameRequests(k, t)
    BY <1>7
  <2>2. Cardinality(Placeholders(t.url)) = IF HasKind(t) THEN 1 ELSE 0
    BY <1>3, <2>1, PlaceholdersOfValid
  <2>3. ASSUME NEW r \in ToSet(m.resources), HasKind(t), r.kind = t.kind
        PROVE  SentWith(t, r, requests)
    <3> DEFINE q == RequestOf(k, r)
    <3>1. k.method = t.method /\ k.url = t.url /\ k.kind = t.kind
      BY <2>1 DEF SameRequests
    <3>2. HasKind(k)
      BY <2>3, <3>1, Zenon DEF HasKind
    <3>3. MadeOf(m, k, q)
      BY <2>3, <3>1, <3>2 DEF MadeOf
    <3>4. q \in ToSet(requests)
      BY <1>2, <1>8, <1>9, <2>1, <3>3
    <3>5. q.method = k.method /\ q.resource = r.key /\ q.url = Substituted(k.url, r.value)
      BY DEF RequestOf, Request
    <3> HIDE DEF q
    <3> QED
      BY <3>1, <3>4, <3>5 DEF SentWith
  <2> QED
    BY <2>2, <2>3 DEF SentOf
<1> QED
  BY <1>10, <1>11 DEF ts

\* The template of a selected candidate swaps what it was made to swap.
LEMMA SelectedAreSwaps ==
    ASSUME NEW m \in Campaigns, NEW urls, NEW p, IsPlan(m, urls, p),
           NEW requests, IsSent(m, p, requests), NEW c \in ToSet(p.selected),
           NEW u \in Found(m), NEW q \in Places(u), c.url = Put(u, q, Placeholder)
    PROVE  /\ SmartTemplate(c) \in ToSet(TemplatesWith(m, p.selected))
           /\ HasKind(SmartTemplate(c)) /\ SmartTemplate(c).kind = c.kind
           /\ \A v : Substituted(SmartTemplate(c).url, v) = Put(u, q, v)
<1> DEFINE t == SmartTemplate(c)
<1>1. p.selected \in Seq(ToSet(p.synthesized))
  <2>1. FitState([selected |-> p.selected, used |-> p.estimated], Len(p.synthesized),
                 BaseOf(m), p.synthesized, m.resources, ProfileCount(m), m.max_requests)
    BY PlanFacts
  <2> QED
    BY <2>1 DEF FitState
<1>2. t \in ToSet(TemplatesWith(m, p.selected))
  BY <1>1, TemplatesTogether
<1>3. t.url = c.url /\ t.kind = c.kind
  BY DEF SmartTemplate, Template
<1>4. HasKind(t)
  <2>1. c \in ToSet(p.synthesized)
    BY <1>1, ElementAt
  <2>2. Named(t) /\ c.kind \in KindsOf(m)
    BY <2>1, SynthesizedAreNamed
  <2>3. c.kind # None
    BY <2>2, KindsAreNamed
  <2> HIDE DEF t
  <2> QED
    BY <1>3, <2>2, <2>3, NamedHasKind
<1> HIDE DEF t
<1>5. Cardinality(Placeholders(Put(u, q, Placeholder))) = 1
  BY <1>2, <1>3, <1>4, SentFacts
<1>6. IsUrl(u)
  BY FoundAreUrls
<1>7. Placeholders(Put(u, q, Placeholder)) = {q}
  <2> DEFINE H == Placeholders(Put(u, q, Placeholder))
  <2>1. q \in H /\ H \in SUBSET Places(u)
    BY <1>6, PutTexts DEF Placeholders
  <2>2. IsFiniteSet(H)
    BY <2>1, PlacesAreFinite, FS_Subset
  <2> HIDE DEF H
  <2>3. PICK x : H = {x}
    BY <1>5, <2>2, FS_Singleton DEF H
  <2> QED
    BY <2>1, <2>3 DEF H
<1>8. \A v : Substituted(Put(u, q, Placeholder), v) = Put(u, q, v)
  BY <1>6, <1>7, SwapOfOne
<1> QED
  BY <1>2, <1>3, <1>4, <1>8 DEF t

LEMMA TwoMembers ==
    ASSUME NEW S, IsFiniteSet(S), NEW x \in S, NEW y \in S, x # y
    PROVE  Cardinality(S) > 1
<1>1. Cardinality(S) \in Nat /\ Cardinality(S) # 0 /\ Cardinality(S) # 1
  BY FS_CardinalityType, FS_EmptySet, FS_Singleton
<1> QED
  BY <1>1

LEMMA SingleIdentifiersSwapped == CampaignInv => SingleIdentifierIsSwapped
<1> SUFFICES ASSUME CampaignInv, pc = "done", NEW r \in Swaps
             PROVE  /\ Origins(r) # {}
                    /\ Foreign(r.url) = {} \/ \E d \in Origins(r) : Cardinality(Identifiers(d)) > 1
  BY DEF SingleIdentifierIsSwapped
<1> DEFINE m == campaign
<1>1. PICK c \in ToSet(plan.selected), v \in ControlledValues : r.url = Substituted(c.url, v)
  BY DEF Swaps
<1>2. m \in Campaigns /\ plan.made
  <2>1. ToSet(<<>>) = {}
    BY DEF ToSet
  <2>2. ~plan.made => plan.selected = <<>>
    BY DEF CampaignInv, PlanInv, NoPlan
  <2> QED
    BY <1>1, <2>1, <2>2 DEF CampaignInv, DirectoriesInv
<1>3. IsPlan(m, DiscoveryUrls, plan) /\ IsSent(m, plan, sent)
  BY <1>2 DEF CampaignInv, PlanInv
<1>4. PICK u \in DiscoveryUrls : Permitted(m.policy, u) /\ MadeFrom(m, u, c)
  BY <1>1, <1>2, <1>3, SelectedAreMade
<1>5. u \in Found(m)
  BY <1>3 DEF IsPlan
<1>6. PICK p \in Places(u) : c.url = Put(u, p, Placeholder) /\ NamesSomething(m, u, p)
  <2>1. PICK p \in Places(u), k \in KindsOf(m), bonus \in {6, 8, 10, 12} :
          c = Candidate(u, p, k, bonus) /\ NamesSomething(m, u, p)
    BY <1>4, Zenon DEF MadeFrom
  <2> QED
    BY <2>1 DEF Candidate
<1>7. r.url = Put(u, p, v)
  <2>1. SmartTemplate(c).url = c.url
    BY DEF SmartTemplate, Template
  <2> QED
    BY <1>1, <1>2, <1>3, <1>5, <1>6, <2>1, SelectedAreSwaps
<1>8. u \in Origins(r)
  BY <1>1, <1>4, <1>6, <1>7 DEF Origins
<1>9. ASSUME NEW q \in Foreign(r.url) PROVE Cardinality(Identifiers(u)) > 1
  <2>1. /\ Places(Put(u, p, v)) = Places(u) /\ TextAt(Put(u, p, v), p) = v
        /\ \A o \in Places(u) : o # p => TextAt(Put(u, p, v), o) = TextAt(u, o)
    BY <1>2, <1>5, FoundAreUrls, PutTexts
  <2>2. q \in Places(u) /\ q # p
    BY <1>1, <1>7, <1>9, <2>1 DEF Foreign
  <2>3. q \in Identifiers(u)
    BY <1>7, <1>9, <2>1, <2>2 DEF Foreign, Identifiers
  <2>4. p \in Identifiers(u)
    BY <1>6 DEF NamesSomething, Identifiers, ControlledValues
  <2>5. IsFiniteSet(Identifiers(u))
    <3>1. Identifiers(u) \in SUBSET Places(u)
      BY DEF Identifiers
    <3> QED
      BY <1>2, <1>5, <3>1, PlacesAreFinite, FS_Subset
  <2> QED
    BY <2>2, <2>3, <2>4, <2>5, TwoMembers
<1> QED
  BY <1>8, <1>9

LEMMA DiscoveredEdgesTested == CampaignInv => DiscoveredEdgeIsTested
<1> SUFFICES ASSUME CampaignInv, pc = "done", plan.made, ~plan.cut,
                    Len(plan.selected) = Len(plan.synthesized),
                    NEW d \in dirs[readFrom].scoped, NEW r \in ToSet(campaign.resources),
                    Permitted(campaign.policy, d), NEW i \in KindPlaces(d, r.kind)
             PROVE  \E q \in ToSet(sent) :
                        q.resource = r.key /\ q.url = Put(d, <<"path", i>>, r.value)
  BY DEF DiscoveredEdgeIsTested
<1> DEFINE m == campaign
           pl == <<"path", i>>
           c == Candidate(d, pl, r.kind, 6)
           P == Pool(m, DiscoveryUrls)
<1>1. m \in Campaigns /\ IsPlan(m, DiscoveryUrls, plan) /\ IsSent(m, plan, sent)
  BY DEF CampaignInv, DirectoriesInv, PlanInv
<1>2. d \in DiscoveryUrls /\ d \in Found(m) /\ BindingsServed(m) /\ DiscoveryUrls \in SUBSET Found(m)
  BY <1>1 DEF DiscoveryUrls, IsPlan
<1>3. LowerCase[r.kind] = r.kind
  <2>1. i \in DOMAIN d.path /\ i - 1 \in DOMAIN d.path /\ d.path[i - 1] \in Aliases(r.kind)
    <3>1. IsList(d.path)
      BY <1>1, <1>2, UrlsParsed DEF Found
    <3> QED
      BY <3>1, ListFacts DEF KindPlaces
  <2>2. d.path[i - 1] \in ToSet(d.path)
    BY <2>1 DEF ToSet
  <2>3. Aliases(r.kind) \cap ToSet(d.path) # {}
    BY <2>1, <2>2
  <2> QED
    BY <1>1, <1>2, <2>3, UrlsParsed DEF Found
<1>4. pl \in Places(d)
  <2>1. IsList(d.path)
    BY <1>1, <1>2, UrlsParsed DEF Found
  <2>2. i \in DOMAIN d.path
    BY <2>1, ListFacts DEF KindPlaces
  <2> QED
    BY <2>2 DEF Places
<1>5. c \in P
  <2> DEFINE K == {LowerCase[o.kind] : o \in ToSet(m.resources)}
             Of(k) == {Candidate(d, <<"path", j>>, k, 6) : j \in KindPlaces(d, k)}
  <2>1. r.kind \in K
    BY <1>3
  <2>2. c \in KindPathCandidates(d, m.resources)
    <3>1. c \in Of(r.kind)
      OBVIOUS
    <3>2. KindPathCandidates(d, m.resources) = UNION {Of(k) : k \in K}
      BY DEF KindPathCandidates
    <3> HIDE DEF c, K, Of
    <3> QED
      BY <2>1, <3>1, <3>2
  <2>3. c \in Candidates(d, m.resources, m.bindings)
    BY <2>2 DEF Candidates
  <2> HIDE DEF c
  <2> QED
    BY <1>2, <2>3 DEF Pool
<1>6. c.url = Put(d, pl, Placeholder) /\ c.kind = r.kind
  BY DEF Candidate
<1> HIDE DEF c
<1>7. PICK b \in Best(P) : b.url = c.url /\ b.kind = c.kind
  <2>1. Scored(P)
    BY <1>1, <1>2, PoolIsScored
  <2> HIDE DEF P
  <2> QED
    BY <1>5, <2>1, BestExists
<1>8. b \in ToSet(plan.selected)
  <2> DEFINE list == plan.synthesized
             S == plan.selected
  <2>1. /\ IsList(list) /\ ToSet(list) = Best(P)
        /\ FitState([selected |-> S, used |-> plan.estimated], Len(list),
                    BaseOf(m), list, m.resources, ProfileCount(m), m.max_requests)
    BY <1>1, PlanFacts
  <2>2. /\ S \in Seq(ToSet(list)) /\ \A j \in 1..Len(list) : S[j] = list[j]
    BY <2>1 DEF FitState
  <2>3. PICK j \in 1..Len(list) : b = list[j]
    BY <1>7, <2>1, ElementAt, ListFacts
  <2>4. j \in DOMAIN S
    BY <2>2
  <2> QED
    BY <2>2, <2>3, <2>4, ElementAt
<1>9. /\ SmartTemplate(b) \in ToSet(TemplatesWith(m, plan.selected))
      /\ HasKind(SmartTemplate(b)) /\ SmartTemplate(b).kind = r.kind
      /\ Substituted(SmartTemplate(b).url, r.value) = Put(d, pl, r.value)
  BY <1>1, <1>2, <1>4, <1>6, <1>7, <1>8, SelectedAreSwaps
<1>10. SentOf(m, SmartTemplate(b), sent)
  BY <1>1, <1>9, SentFacts
<1>11. SentWith(SmartTemplate(b), r, sent)
  BY <1>9, <1>10 DEF SentOf
<1> QED
  BY <1>9, <1>11 DEF SentWith

-------------------------------------------------------------------------------
(* What is sent of a contract. *)

\* A route with a placeholder at position j.
WithHole(route, j) ==
    [path |-> [k \in DOMAIN route |-> IF k = j THEN Placeholder ELSE route[k]], query |-> <<>>]

LEMMA OperationUrl ==
    ASSUME NEW op, NEW config, NEW j, Parameters(op) = {j}, Min(Parameters(op)) = j
    PROVE  LET t == OperationTemplate(config, op)
           IN  t.method = op.method /\ t.route = RouteOf(op) /\ t.url = WithHole(RouteOf(op), j)
<1>1. DOMAIN RouteOf(op) = DOMAIN op.path
  BY DEF RouteOf
<1>2. Parameters(op) # {}
  OBVIOUS
<1> DEFINE bound == Min(Parameters(op))
           path == [i \in DOMAIN op.path |->
                       IF Parameters(op) # {} /\ i = bound THEN Placeholder ELSE RouteOf(op)[i]]
<1>3. /\ OperationTemplate(config, op).method = op.method
      /\ OperationTemplate(config, op).route = RouteOf(op)
      /\ OperationTemplate(config, op).url = [path |-> path, query |-> <<>>]
  BY DEF OperationTemplate, Template
<1>4. path = [k \in DOMAIN RouteOf(op) |-> IF k = j THEN Placeholder ELSE RouteOf(op)[k]]
  BY <1>1, <1>2
<1> HIDE DEF path
<1> QED
  BY <1>3, <1>4 DEF WithHole

IsRoute(route, n) == DOMAIN route = 1..n /\ route = [k \in 1..n |-> route[k]]

\* Value v fills URL u, made of the route, at position j, if it has no other placeholder.
Fills(u, route, j, v) ==
    /\ Cardinality(Placeholders(u)) # 0
    /\ Substituted(u, v).path[j] = v
    /\ Cardinality(Placeholders(u)) = 1 => Substituted(u, v).path = [route EXCEPT ![j] = v]

LEMMA FiniteSegment ==
    ASSUME NEW n \in Nat
    PROVE  IsFiniteSet(1..n)
<1>1. PICK a \in Int : a = 1
  OBVIOUS
<1>2. IsFiniteSet(a..n)
  BY FS_Interval
<1> QED
  BY <1>1, <1>2

LEMMA HoleIsFilled ==
    ASSUME NEW n \in Nat, NEW route, IsRoute(route, n),
           NEW j \in 1..n, NEW v
    PROVE  Fills(WithHole(route, j), route, j, v)
<1> DEFINE u == WithHole(route, j)
           path == [k \in 1..n |-> IF k = j THEN Placeholder ELSE route[k]]
           filled == [k \in DOMAIN path |-> IF path[k] = Placeholder THEN v ELSE path[k]]
           P == Placeholders(u)
<1>0. DOMAIN route = 1..n /\ route = [k \in 1..n |-> route[k]]
  BY DEF IsRoute
<1>1. u = [path |-> path, query |-> <<>>]
  BY <1>0 DEF WithHole
<1>2. DOMAIN path = 1..n /\ path[j] = Placeholder /\ \A k \in 1..n : k # j => path[k] = route[k]
  OBVIOUS
<1>3. Substituted(u, v).path = filled
  <2> DEFINE f == [k \in DOMAIN u.path |-> IF u.path[k] = Placeholder THEN v ELSE u.path[k]]
             g == [k \in DOMAIN u.query |->
                      IF u.query[k].value = Placeholder THEN [u.query[k] EXCEPT !.value = v]
                      ELSE u.query[k]]
  <2>1. Substituted(u, v) = [u EXCEPT !.path = f, !.query = g]
    BY DEF Substituted
  <2>2. f = filled
    <3> HIDE DEF u, path
    <3>1. u.path = path
      BY <1>1
    <3> QED
      BY <3>1
  <2> HIDE DEF f, g, u, path, filled
  <2>3. [u EXCEPT !.path = f, !.query = g].path = f
    BY <1>1
  <2> QED
    BY <2>1, <2>2, <2>3
<1>4. filled = [k \in 1..n |-> filled[k]] /\ filled[j] = v
  BY <1>2
<1>5. \A k \in 1..n : path[k] # Placeholder => filled[k] = path[k]
  BY <1>2
<1> HIDE DEF u, path, filled, P
<1>6. Places(u) = {"path"} \X (1..n)
  <2>1. DOMAIN u.path = 1..n /\ DOMAIN u.query = {}
    BY <1>1, <1>2
  <2> QED
    BY <2>1 DEF Places
<1>7. IsFiniteSet(P)
  <2>0. IsFiniteSet(1..n) /\ IsFiniteSet({"path"})
    BY FS_Singleton, FiniteSegment
  <2>1. IsFiniteSet({"path"} \X (1..n))
    BY <2>0, FS_Product
  <2>2. P \in SUBSET ({"path"} \X (1..n))
    BY <1>6 DEF P, Placeholders
  <2> QED
    BY <2>1, <2>2, FS_Subset
<1>8. \A k \in 1..n : path[k] = Placeholder => <<"path", k>> \in P
  BY <1>1, <1>6 DEF P, Placeholders, TextAt
<1>9. Cardinality(P) # 0
  BY <1>2, <1>7, <1>8, FS_EmptySet
<1>10. ASSUME Cardinality(P) = 1 PROVE filled = [route EXCEPT ![j] = v]
  <2>1. PICK x : P = {x}
    BY <1>7, <1>10, FS_Singleton
  <2>2. \A k \in 1..n : k # j => path[k] # Placeholder
    BY <1>2, <1>8, <2>1
  <2>3. \A k \in 1..n : k # j => filled[k] = route[k]
    BY <1>2, <1>5, <2>2
  <2> QED
    BY <1>0, <1>4, <2>3
<1> QED
  BY <1>3, <1>4, <1>9, <1>10 DEF u, P, Fills

\* Every planned operation has its template in a contract that was not cut.
LEMMA AllArePlanned ==
    ASSUME NEW document, NEW config, NEW ops, ops = document.operations, IsList(ops),
           config.max_templates \in Nat, NEW planned,
           planned = {i \in DOMAIN ops : Plannable(document, config, ops[i])},
           Cardinality(planned) <= config.max_templates,
           NEW k \in planned
    PROVE  \E t \in ToSet(OpenApiPlan(document, config)) :
              SameRequests(t, OperationTemplate(config, ops[k]))
<1> DEFINE n == Len(ops)
           X == ContractTemplates(document, config)
           count(l) == Cardinality({i \in 1..l : i \in planned})
           T(i) == OperationTemplate(config, ops[i])
<1>1. n \in Nat /\ DOMAIN ops = 1..n /\ \A i \in 1..n : ops[i] \in ToSet(ops)
  BY ListFacts
<1>2. PICK run : IsPlanRun(run, document, config, ops)
  BY PlanRun
<1>3. /\ run[0] = <<>> /\ UniqueTemplates(run[n]) = OpenApiPlan(document, config)
      /\ \A l \in 0..n : run[l] \in Seq(X)
      /\ \A l \in Nat : l < n => run[l + 1] = PlanStep(document, config, run[l], ops[l + 1])
  BY <1>2 DEF IsPlanRun
<1>4. \A i \in 1..n : i \in planned <=> Plannable(document, config, ops[i])
  BY <1>1
<1>5. planned \in SUBSET (1..n)
  BY <1>1
<1> HIDE DEF n, X
<1>6. IsFiniteSet(planned) /\ Cardinality(planned) \in Nat
  <2>1. IsFiniteSet(1..n)
    BY <1>1, FiniteSegment
  <2> QED
    BY <1>5, <2>1, FS_Subset, FS_CardinalityType
<1>7. \A l \in Nat : count(l) \in Nat /\ count(l) <= Cardinality(planned)
  <2> TAKE l \in Nat
  <2>1. {i \in 1..l : i \in planned} \in SUBSET planned
    OBVIOUS
  <2> QED
    BY <1>6, <2>1, FS_Subset, FS_CardinalityType
<1>8. \A l \in Nat : count(l + 1) = count(l) + IF l + 1 \in planned THEN 1 ELSE 0
  BY CountNext
<1>9. count(0) = 0
  <2>1. {i \in 1..0 : i \in planned} = {}
    OBVIOUS
  <2> QED
    BY <2>1, FS_EmptySet
<1> HIDE DEF count
<1> DEFINE State(l) == /\ Len(run[l]) <= count(l)
                       /\ \A i \in 1..l : i \in planned => T(i) \in ToSet(run[l])
           N == {l \in Nat : l <= n => State(l)}
<1>10. 0 \in N
  <2>1. Len(run[0]) = 0
    BY <1>3
  <2>2. 0 \in Nat /\ 1..0 = {}
    OBVIOUS
  <2> QED
    BY <1>9, <2>1, <2>2
<1>11. ASSUME NEW l \in Nat, l \in N PROVE l + 1 \in N
  <2> SUFFICES ASSUME l + 1 <= n PROVE State(l + 1)
    OBVIOUS
  <2> DEFINE made == run[l]
             op == ops[l + 1]
  <2>1. l < n /\ l <= n /\ l + 1 \in 1..n /\ l \in 0..n
    BY <1>1
  <2>2. State(l) /\ made \in Seq(X) /\ Len(made) \in Nat
    BY <1>3, <1>11, <2>1
  <2>3. run[l + 1] = PlanStep(document, config, made, op)
    BY <1>3, <2>1
  <2>4. \A i \in 1..l + 1 : i \in 1..l \/ i = l + 1
    OBVIOUS
  <2>5. CASE l + 1 \in planned
    <3>1. count(l + 1) = count(l) + 1 /\ count(l) \in Nat
      BY <1>7, <1>8, <2>5
    <3>2. count(l + 1) <= Cardinality(planned)
      BY <1>7
    <3>3. Len(made) < config.max_templates
      BY <1>6, <2>2, <3>1, <3>2
    <3>4. Plannable(document, config, op)
      BY <1>4, <2>1, <2>5
    <3>5. run[l + 1] = Append(made, T(l + 1))
      BY <2>3, <3>3, <3>4 DEF PlanStep
    <3>6. T(l + 1) \in X
      BY <1>1, <2>1, <3>4 DEF X, ContractTemplates
    <3> DEFINE a == Append(made, T(l + 1))
    <3>7. /\ Len(a) = Len(made) + 1
          /\ ToSet(made) \subseteq ToSet(a) /\ T(l + 1) \in ToSet(a)
      BY <2>2, <3>6, AppendFacts
    <3> HIDE DEF a, made, T
    <3>8. Len(a) <= count(l + 1)
      BY <2>2, <3>1, <3>7 DEF made
    <3>9. \A i \in 1..l + 1 : i \in planned => T(i) \in ToSet(a)
      BY <2>2, <2>4, <3>7 DEF made
    <3> QED
      BY <3>5, <3>8, <3>9 DEF a
  <2>6. CASE l + 1 \notin planned
    <3>1. count(l + 1) = count(l)
      BY <1>7, <1>8, <2>6
    <3>2. ~Plannable(document, config, op)
      BY <1>4, <2>1, <2>6
    <3>3. run[l + 1] = made
      BY <2>3, <3>2 DEF PlanStep
    <3> HIDE DEF T
    <3> QED
      BY <2>2, <2>4, <2>6, <3>1, <3>3
  <2> QED
    BY <2>5, <2>6
<1>12. \A l \in Nat : l \in N
  BY ONLY <1>10, <1>11, EveryNat
<1>13. T(k) \in ToSet(run[n])
  BY <1>1, <1>5, <1>12
<1>14. IsList(run[n])
  <2>1. run[n] \in Seq(X)
    BY <1>1, <1>3
  <2> QED
    BY <2>1, OverItsElements DEF IsList
<1> HIDE DEF T
<1>15. \E t \in ToSet(UniqueTemplates(run[n])) : SameRequests(t, T(k))
  <2>1. IsList(<<>>)
    BY DEF IsList
  <2> QED
    BY <1>13, <1>14, <2>1, UniqueAreTheSame
<1> QED
  BY <1>3, <1>15 DEF T

\* Resource r is of the kind that parameter i of an operation is bound to.
BoundTo(config, op, i, r) ==
    /\ op.path[i].text \in DOMAIN config.bindings
    /\ r.kind = config.bindings[op.path[i].text]

LEMMA RouteFacts ==
    ASSUME NEW op, IsList(op.path)
    PROVE  /\ Len(op.path) \in Nat /\ DOMAIN op.path = 1..Len(op.path)
           /\ IsRoute(RouteOf(op), Len(op.path))
<1> DEFINE n == Len(op.path)
           route == RouteOf(op)
<1>1. n \in Nat /\ DOMAIN op.path = 1..n
  BY ListFacts
<1>2. DOMAIN route = DOMAIN op.path /\ route = [k \in DOMAIN op.path |-> route[k]]
  BY DEF RouteOf
<1> HIDE DEF n, route
<1> QED
  BY <1>1, <1>2 DEF n, route, IsRoute

\* Templates of a contract hold a controlled value at the parameter.
LEMMA ContractRequestIsControlled ==
    ASSUME NEW m \in Campaigns, m.openapi # <<>>, NEW t \in ToSet(ContractOf(m)),
           Cardinality(Placeholders(t.url)) = IF HasKind(t) THEN 1 ELSE 0,
           NEW q, MadeOf(m, t, q),
           NEW op \in ToSet(m.openapi[1].document.operations), q.route = RouteOf(op),
           NEW i \in Parameters(op)
    PROVE  \E r \in ToSet(m.resources) :
              BoundTo(m.openapi[1].config, op, i, r) /\ q.url.path[i] = r.value
<1> DEFINE document == m.openapi[1].document
           config == m.openapi[1].config
<1>1. PICK made \in ToSet(document.operations) :
        Plannable(document, config, made) /\ t = OperationTemplate(config, made)
  <2>1. t \in ContractTemplates(document, config)
    BY ContractFacts DEF ContractTemplatesOf
  <2> QED
    BY <2>1, Zenon DEF ContractTemplates
<1>2. t.route = RouteOf(made)
  BY <1>1 DEF OperationTemplate, Template
<1>3. q.route = t.route
  BY DEF MadeOf, RequestOf, Request
<1>4. made.path = op.path
  BY <1>1, <1>2, <1>3, ContractParsed
<1>5. Parameters(made) = Parameters(op)
  BY <1>4, Zenon DEF Parameters
<1>6. IsList(made.path)
  BY <1>1, ContractParsed
<1> HIDE DEF document, config
<1>7. PICK j \in Parameters(made) :
        /\ j \in DOMAIN made.path /\ Parameters(made) = {j} /\ Min(Parameters(made)) = j
        /\ made.path[j].text \in DOMAIN config.bindings
        /\ OperationTemplate(config, made).kind = config.bindings[made.path[j].text]
  BY <1>1, <1>5, <1>6, PlannedOperation
<1>8. i = j
  BY <1>5, <1>7
<1> DEFINE n == Len(made.path)
           route == RouteOf(made)
<1>9. t.url = WithHole(route, j)
  BY <1>1, <1>7, OperationUrl
<1>10. /\ n \in Nat /\ j \in 1..n /\ IsRoute(route, n)
  BY <1>6, <1>7, RouteFacts
<1> HIDE DEF n, route
<1>11. /\ Cardinality(Placeholders(t.url)) # 0
       /\ \A v : Substituted(t.url, v).path[j] = v
  <2>1. \A v : Fills(t.url, route, j, v)
    BY <1>9, <1>10, HoleIsFilled
  <2> QED
    BY <2>1 DEF Fills
<1>12. HasKind(t)
  BY <1>11
<1>13. PICK r \in ToSet(m.resources) : r.kind = t.kind /\ q = RequestOf(t, r)
  BY <1>12 DEF MadeOf
<1>14. q.url = Substituted(t.url, r.value)
  BY <1>13 DEF RequestOf, Request
<1>15. BoundTo(config, op, i, r)
  BY <1>1, <1>4, <1>7, <1>8, <1>13 DEF BoundTo
<1> QED
  BY <1>8, <1>11, <1>14, <1>15 DEF config

\* An operation of the plan is sent with each resource its parameter is bound to.
LEMMA PlannedOperationIsSent ==
    ASSUME NEW m \in Campaigns, m.openapi # <<>>, NEW t \in ToSet(ContractOf(m)),
           Cardinality(Placeholders(t.url)) = IF HasKind(t) THEN 1 ELSE 0,
           NEW requests, SentOf(m, t, requests),
           NEW op \in ToSet(m.openapi[1].document.operations),
           Plannable(m.openapi[1].document, m.openapi[1].config, op),
           SameRequests(t, OperationTemplate(m.openapi[1].config, op)),
           NEW i \in Parameters(op), NEW r \in ToSet(m.resources),
           BoundTo(m.openapi[1].config, op, i, r)
    PROVE  \E q \in ToSet(requests) :
              /\ q.method = op.method /\ q.resource = r.key
              /\ q.url.path = [RouteOf(op) EXCEPT ![i] = r.value]
<1> DEFINE document == m.openapi[1].document
           config == m.openapi[1].config
           o == OperationTemplate(config, op)
<1>1. IsList(op.path)
  BY ContractParsed
<1>2. Plannable(document, config, op) /\ SameRequests(t, o) /\ BoundTo(config, op, i, r)
  OBVIOUS
<1> HIDE DEF document, config
<1>3. PICK j \in Parameters(op) :
        /\ j \in DOMAIN op.path /\ Parameters(op) = {j} /\ Min(Parameters(op)) = j
        /\ o.kind = config.bindings[op.path[j].text]
  BY <1>1, <1>2, PlannedOperation
<1>4. i = j
  BY <1>3
<1> DEFINE n == Len(op.path)
           route == RouteOf(op)
<1>5. o.method = op.method /\ o.url = WithHole(route, j)
  BY <1>3, OperationUrl
<1> HIDE DEF o
<1>6. t.method = op.method /\ t.url = WithHole(route, j) /\ t.kind = r.kind
  BY <1>2, <1>3, <1>4, <1>5 DEF SameRequests, BoundTo
<1>7. /\ n \in Nat /\ j \in 1..n /\ IsRoute(route, n)
  BY <1>1, <1>3, RouteFacts
<1>8. HasKind(t)
  <2>1. Named(t)
    BY ContractFacts
  <2>2. r.kind \in KindsOf(m)
    BY DEF KindsOf
  <2>3. r.kind # None
    BY <2>2, KindsAreNamed
  <2> QED
    BY <1>6, <2>1, <2>3, NamedHasKind
<1> HIDE DEF n, route
<1>9. Substituted(t.url, r.value).path = [route EXCEPT ![j] = r.value]
  <2>1. Fills(t.url, route, j, r.value)
    BY <1>6, <1>7, HoleIsFilled
  <2> QED
    BY <1>8, <2>1 DEF Fills
<1>10. SentWith(t, r, requests)
  BY <1>6, <1>8 DEF SentOf
<1>11. PICK q \in ToSet(requests) :
         q.method = t.method /\ q.resource = r.key /\ q.url = Substituted(t.url, r.value)
  BY <1>10 DEF SentWith
<1> QED
  BY <1>4, <1>6, <1>9, <1>11 DEF route

LEMMA ParametersControlled == CampaignInv => ContractParametersAreControlled
<1> DEFINE m == campaign
           document == m.openapi[1].document
           config == m.openapi[1].config
           ops == document.operations
           planned == {k \in DOMAIN ops : Plannable(document, config, ops[k])}
           others == {t.route : t \in ToSet(m.templates) \cup SelectedTemplates}
<1> SUFFICES ASSUME CampaignInv, pc = "done", m.openapi # <<>>, plan.made
             PROVE  /\ \A q \in ToSet(sent), op \in ToSet(ops) :
                        q.route = RouteOf(op) /\ q.route \notin others =>
                            \A i \in Parameters(op) : \E r \in ToSet(m.resources) :
                                BoundTo(config, op, i, r) /\ q.url.path[i] = r.value
                    /\ Cardinality(planned) <= config.max_templates =>
                        \A k \in planned, r \in ToSet(m.resources) :
                            \A i \in Parameters(ops[k]) : BoundTo(config, ops[k], i, r) =>
                                \E q \in ToSet(sent) :
                                    /\ q.method = ops[k].method /\ q.resource = r.key
                                    /\ q.url.path = [RouteOf(ops[k]) EXCEPT ![i] = r.value]
  BY Zenon DEF ContractParametersAreControlled, BoundTo
<1>1. m \in Campaigns /\ IsPlan(m, DiscoveryUrls, plan) /\ IsSent(m, plan, sent)
  BY DEF CampaignInv, DirectoriesInv, PlanInv
<1>2. /\ \A q \in ToSet(sent) : \E t \in ToSet(TemplatesWith(m, plan.selected)) : MadeOf(m, t, q)
      /\ \A t \in ToSet(TemplatesWith(m, plan.selected)) :
            /\ SentOf(m, t, sent)
            /\ Cardinality(Placeholders(t.url)) = IF HasKind(t) THEN 1 ELSE 0
  BY <1>1, SentFacts
<1>3. plan.selected \in Seq(ToSet(plan.synthesized))
  <2>1. FitState([selected |-> plan.selected, used |-> plan.estimated], Len(plan.synthesized),
                 BaseOf(m), plan.synthesized, m.resources, ProfileCount(m), m.max_requests)
    BY <1>1, PlanFacts
  <2> QED
    BY <2>1 DEF FitState
<1>4. \A t : t \in ToSet(TemplatesWith(m, plan.selected)) <=>
                \/ t \in ToSet(m.templates)
                \/ \E c \in ToSet(plan.selected) : t = SmartTemplate(c)
                \/ t \in ToSet(ContractOf(m))
  BY <1>1, <1>3, TemplatesTogether
<1>5. ASSUME NEW q \in ToSet(sent), NEW op \in ToSet(ops), q.route = RouteOf(op),
             q.route \notin others, NEW i \in Parameters(op)
      PROVE  \E r \in ToSet(m.resources) : BoundTo(config, op, i, r) /\ q.url.path[i] = r.value
  <2>1. PICK t \in ToSet(TemplatesWith(m, plan.selected)) : MadeOf(m, t, q)
    BY <1>2
  <2>2. q.route = t.route
    BY <2>1 DEF MadeOf, RequestOf, Request
  <2>3. t \notin ToSet(m.templates) /\ ~\E c \in ToSet(plan.selected) : t = SmartTemplate(c)
    BY <1>5, <2>2 DEF SelectedTemplates
  <2>4. t \in ToSet(ContractOf(m))
    BY <1>4, <2>3
  <2> QED
    BY <1>1, <1>2, <1>5, <2>1, <2>4, ContractRequestIsControlled
<1>6. ASSUME Cardinality(planned) <= config.max_templates, NEW k \in planned,
             NEW r \in ToSet(m.resources), NEW i \in Parameters(ops[k]),
             BoundTo(config, ops[k], i, r)
      PROVE  \E q \in ToSet(sent) :
                /\ q.method = ops[k].method /\ q.resource = r.key
                /\ q.url.path = [RouteOf(ops[k]) EXCEPT ![i] = r.value]
  <2>1. IsList(ops) /\ config.max_templates \in Nat
    BY <1>1, ContractParsed
  <2>2. k \in DOMAIN ops /\ Plannable(document, config, ops[k])
    BY Zenon
  <2>3. ops[k] \in ToSet(ops)
    BY <2>1, <2>2, ListFacts
  <2>4. PICK t \in ToSet(OpenApiPlan(document, config)) :
            SameRequests(t, OperationTemplate(config, ops[k]))
    <3> DEFINE Ps == planned
    <3>1. Ps = {j \in DOMAIN ops : Plannable(document, config, ops[j])}
          /\ k \in Ps /\ Cardinality(Ps) <= config.max_templates
      BY <1>6
    <3>2. ops = document.operations
      OBVIOUS
    <3> HIDE DEF Ps, planned, ops, document, config
    <3> QED
      BY <2>1, <3>1, <3>2, AllArePlanned
  <2>5. t \in ToSet(ContractOf(m))
    BY <2>4 DEF ContractOf
  <2>6. SentOf(m, t, sent) /\ Cardinality(Placeholders(t.url)) = IF HasKind(t) THEN 1 ELSE 0
    BY <1>2, <1>4, <2>5
  <2>7. PICK op \in ToSet(ops) : op = ops[k]
    BY <2>3
  <2>8. /\ Plannable(document, config, op) /\ i \in Parameters(op) /\ BoundTo(config, op, i, r)
        /\ SameRequests(t, OperationTemplate(config, op))
    BY <1>6, <2>2, <2>4, <2>7
  <2>9. \E q \in ToSet(sent) :
            /\ q.method = op.method /\ q.resource = r.key
            /\ q.url.path = [RouteOf(op) EXCEPT ![i] = r.value]
    BY <1>1, <2>5, <2>6, <2>8, PlannedOperationIsSent
  <2> QED
    BY <2>7, <2>9
<1> QED
  BY <1>5, <1>6

-------------------------------------------------------------------------------
(* Whatever a manifest asks for, no tool gets a rate above that of any rule for
   the domain or its wildcard (bounty.py:385-467). *)
THEOREM TheRateIsKept == Spec => []ToolsKeepTheRate
<1> QED
  BY RateInvariance, BoundedRates, PTL

(* Unless the clock was set back or another run of the domain began, what the
   board says of recon was found by this run: its own directory sorts last, and
   starting it emptied what an earlier run of the same second had left there
   (bb-pipeline.sh:167-202, bounty.py:292-297 and 469-475). *)
THEOREM OnlyThisRunIsShown == Spec => []BoardShowsThisRun
<1>1. Init => DirectoriesInv /\ BoardInv
  BY DirectoriesInit, BoardInit
<1>2. DirectoriesInv /\ BoardInv /\ [Next]_vars => (DirectoriesInv /\ BoardInv)'
  BY DirectoriesStep, BoardStep
<1>3. BoardInv => BoardShowsThisRun
  BY DEF BoardInv
<1> QED
  BY <1>1, <1>2, <1>3, PTL DEF Spec

(* A verified finding that was handed on keeps its place: it outranks whatever
   recon and the scanner found, so that only a board full of verified leads leaves
   it out (bounty.py:523-559). *)
THEOREM VerifiedIsKept == Spec => []VerifiedIsNeverCut
<1>1. Init => DirectoriesInv /\ RankInv
  BY DirectoriesInit, RankInit
<1>2. DirectoriesInv /\ RankInv /\ [Next]_vars => (DirectoriesInv /\ RankInv)'
  BY DirectoriesStep, RankStep
<1>3. RankInv => VerifiedIsNeverCut
  BY DEF RankInv
<1> QED
  BY <1>1, <1>2, <1>3, PTL DEF Spec

(* The types and sizes hold: logic and parameter candidates of a finished run are
   among what was in scope; the board, the templates and what is sent keep to
   max_leads, max_templates and max_requests (bounty.py:300-345,
   smart_verify.py:97-103 and 442-484, verifier.py:391-403). *)
THEOREM TypeCorrect == Spec => []TypeOK
<1>1. Init => DirectoriesInv /\ RankInv /\ SizesInv
  BY DirectoriesInit, RankInit, SizesInit
<1>2. DirectoriesInv /\ RankInv /\ SizesInv /\ [Next]_vars
        => (DirectoriesInv /\ RankInv /\ SizesInv)'
  BY DirectoriesStep, RankStep, SizesStep
<1>3. CampaignInv /\ SizesInv => TypeOK
  <2> SUFFICES ASSUME CampaignInv, SizesInv PROVE TypeOK
    OBVIOUS
  <2>1. stage \in {"scan", "done"} =>
          \A s \in Seconds : dirs[s].logic \cup dirs[s].params \subseteq dirs[s].scoped
    BY DEF CampaignInv, DirectoriesInv, OwnDirectory, SizesInv
  <2> QED
    BY <2>1, LengthsBounded DEF CampaignInv, DirectoriesInv, SizesInv, TypeOK
<1> QED
  BY <1>1, <1>2, <1>3, CampaignInvariance, PTL DEF Spec

(* Whatever was found and whatever the contract holds, the matrix the verifier
   makes of the plan costs no more than was estimated, and the estimate no more
   than max_requests: for each template the estimate counts the resources the
   verifier renders, and leaving repeated templates out only lowers the cost
   (smart_verify.py:442-484, verifier.py:391-403). *)
THEOREM ThePlanIsAffordable == Spec => []PlanIsAffordable
<1> QED
  BY CampaignInvariance, AffordablePlan, PTL

(* A template that was passed over found no room beside what is charged first and
   the templates of at least its score that were admitted before it
   (smart_verify.py:477-484). *)
THEOREM OnlyWantOfRoomPassesOver == Spec => []PassedOverOnlyForWantOfRoom
<1> QED
  BY CampaignInvariance, PassedOverForWantOfRoom, PTL

(* A request of a discovered URL is that URL with a controlled value in place of
   something it names: the verifier refuses a template with a second placeholder,
   so that replacing every placeholder replaces that one.  Somebody else's
   identifier is sent only with a URL that has two (smart_verify.py:104-209,
   verifier.py:103-115). *)
THEOREM SingleIdentifiersAreSwapped == Spec => []SingleIdentifierIsSwapped
<1> QED
  BY CampaignInvariance, SingleIdentifiersSwapped, PTL

(* Unless templates were cut or passed over, an identifier found under its kind is
   sent with each controlled resource of that kind, in scope.txt or shortlisted:
   of the candidates for a URL and kind the best is kept, and one of the templates
   that repeat each other (smart_verify.py:97-209, verifier.py:391-403). *)
THEOREM DiscoveredEdgesAreTested == Spec => []DiscoveredEdgeIsTested
<1> QED
  BY CampaignInvariance, DiscoveredEdgesTested, PTL

(* A request whose route only the contract names holds a controlled value of the
   bound kind at the parameter, and a contract within its limit has every bound
   operation sent with every such value (verifier.py:164-244). *)
THEOREM ContractParametersControlled == Spec => []ContractParametersAreControlled
<1> QED
  BY CampaignInvariance, ParametersControlled, PTL
===============================================================================
