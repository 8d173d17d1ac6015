---------------------------- MODULE ReconPipeline -----------------------------
(***************************************************************************)
(* One run of scripts/bb-pipeline.sh: external tools and filters that fill  *)
(* the files of a run directory named for the second it started in.  The    *)
(* script stops at the first failing command; a filter that lets nothing    *)
(* through is a failing command.                                            *)
(*                                                                          *)
(* Abstractions.  A tool is its output: any subset of what there is to      *)
(* find, whether or not the tool complained.  URLs outside the scope root,  *)
(* which every filter drops, are left out.  Seconds are 1 to 3, and this    *)
(* run starts in second 2; a directory of second 3 that is there already    *)
(* was made before the clock was set back.                                  *)
(***************************************************************************)
EXTENDS TemplateSynthesis

CONSTANTS
    LogicIdValues,    \* segments the pipeline takes for object identifiers
    MaxLiveHosts      \* MAX_LIVE_HOSTS

VARIABLES
    campaign,         \* the manifest and what there is to find
    stage,
    dirs,             \* run directories by second
    otherRan          \* another run of the domain began after this one

pipelineVars == <<stage, dirs, otherRan>>

Seconds == 1..3
Stamp == 2            \* the second this run starts in

Ran == {"idle", "done", "failed"}

Files(scoped, params, logic, nuclei) ==
    [made |-> TRUE, scoped |-> scoped, params |-> params, logic |-> logic, nuclei |-> nuclei]
NoDirectory == [Files({}, {}, {}, {}) EXCEPT !.made = FALSE]

LOGIC_WORDS ==
    {"user", "account", "profile", "member", "customer", "order", "invoice",
     "payment", "tenant", "org", "organization", "project", "team", "document",
     "doc", "file", "resource", "object", "role", "owner"}

LOGIC_KEYS ==
    {"id", "uid"} \cup UNION {{w, w \o "id", w \o "_id"} : w \in LOGIC_WORDS}

LOGIC_OBJECTS == UNION {{w, w \o "s"} : w \in LOGIC_WORDS \ {"role", "owner"}}

WithParameters(urls) == {u \in urls : u.query # <<>>}

LogicCandidates(clean) ==
    {u \in WithParameters(clean) : Keys(u) \cap LOGIC_KEYS # {}}
        \cup {u \in clean : \E i \in 1..Len(u.path) - 1 :
                 u.path[i] \in LOGIC_OBJECTS /\ u.path[i + 1] \in LogicIdValues}

\* What a complete run that saw these URLs leaves.
Completed(scoped, nuclei) ==
    Files(scoped, WithParameters(scoped), LogicCandidates(scoped), nuclei)

PipelineInit ==
    /\ stage = "idle"
    /\ dirs = [s \in Seconds |->
                  IF s \in campaign.old THEN Completed(campaign.oldWeb, campaign.oldScan)
                  ELSE NoDirectory]
    /\ otherRan = FALSE

\* A faulty MakeRun: findings of an earlier run of this second stay.
MakeRunUncleared ==
    /\ stage = "idle"
    /\ stage' = "probe"
    /\ dirs' = [dirs EXCEPT ![Stamp].made = TRUE]
    /\ UNCHANGED <<campaign, otherRan>>

\* mkdir -p, and the raw files and the findings emptied.
MakeRun ==
    /\ stage = "idle"
    /\ stage' = "probe"
    /\ dirs' = [dirs EXCEPT ![Stamp].made = TRUE, ![Stamp].nuclei = {}]
    /\ UNCHANGED <<campaign, otherRan>>

\* subfinder and httpx.  No live host fails in the filter, before the branch
\* for it; too many are refused, unless the environment of the process (no
\* manifest) sets ALLOW_LARGE_SCOPE.
Probe(live) ==
    /\ stage = "probe"
    /\ \/ live > 0 /\ stage' = "crawl"
       \/ live \notin 1..MaxLiveHosts /\ stage' = "failed"
    /\ UNCHANGED <<campaign, dirs, otherRan>>

\* katana and gau; the scope filter fails when nothing is left.
Crawl ==
    /\ stage = "crawl"
    /\ \E found \in SUBSET campaign.web :
        /\ dirs' = [dirs EXCEPT ![Stamp].scoped = found]
        /\ stage' = IF found = {} THEN "failed" ELSE "clean"
    /\ UNCHANGED <<campaign, otherRan>>

\* uro keeps some of the URLs; two searches make the logic candidates.
Clean ==
    /\ stage = "clean"
    /\ \E clean \in SUBSET dirs[Stamp].scoped :
        dirs' = [dirs EXCEPT ![Stamp].params = WithParameters(clean),
                             ![Stamp].logic = LogicCandidates(clean)]
    /\ stage' = "scan"
    /\ UNCHANGED <<campaign, otherRan>>

\* nuclei, which adds to its file what it finds, and the summary.
Scan ==
    /\ stage = "scan"
    /\ \E findings \in SUBSET campaign.scan :
        dirs' = [dirs EXCEPT ![Stamp].nuclei = @ \cup findings]
    /\ stage' = "done"
    /\ UNCHANGED <<campaign, otherRan>>

\* Any other command fails, or the script is stopped.
PipelineFails ==
    /\ stage \notin Ran
    /\ stage' = "failed"
    /\ UNCHANGED <<campaign, dirs, otherRan>>

\* Another process runs the pipeline for the same domain, a second later.
OtherRun ==
    /\ stage \notin Ran
    /\ ~otherRan
    /\ otherRan' = TRUE
    /\ dirs' = [dirs EXCEPT ![Stamp + 1] = Completed(campaign.web, campaign.scan)]
    /\ UNCHANGED <<campaign, stage>>

PipelineStep ==
    \/ \E live \in 0..MaxLiveHosts + 1 : Probe(live)
    \/ Crawl \/ Clean \/ Scan \/ PipelineFails \/ OtherRun
===============================================================================
