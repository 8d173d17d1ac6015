# Formal models of BARQ-CRS

TLA+ models of BARQ-CRS, a Python tool that collects, compares and reports
authorization evidence inside an explicit scope. The models follow the code in
`src/barq_crs/`; TLC checks them on small instances and TLAPS proves the most
important results for every instance. Line references are to the repository.

## 1. The system

| Part | Source | State | Operations | Talks to |
|---|---|---|---|---|
| Evidence ledger | `ledger.py` | a JSONL file, each line chained to the last by hash | `append`, `entries`, `verify` | emptied and filled by both runners |
| Scope policy | `scope.py` | none (immutable rules) | `authorized_rule` | asked before every request |
| Evidence collector | `collector.py` | `_last_request_at` per target pattern | `collect_matrix`, `collect_one`, `_rate_limit` | policy, network, clock |
| Active verifier | `verifier.py` | none between runs | validates fixtures, builds the request x profile matrix, runs a collector and the engine | collector, authz engine |
| Differential engine | `authz.py` | none | compares answers given to different identities | fed by verifier and campaign |
| Campaign runner, verification runner | `campaign.py`, `verifier.py` | the files of one output directory | `run` | engines, ledger, reports |
| Bounty runner | `bounty.py` | board, report, `state.json` from run to run | `run` | recon pipeline, verification runner |
| Smart bounty runner | `smart_verify.py` | the same files, a temporary manifest | `run`: base run, template synthesis, verification, merge | bounty runner, verification runner |
| Recon pipeline | `scripts/bb-pipeline.sh` | a run directory | a fixed sequence of external tools and filters | started by the bounty runner |
| Analyses | `drift.py`, `api_graph.py`, `schema_fuzz.py`, `planner.py`, `fusion.py`, `race.py`, `mobile.py`, `variant.py`, `traffic.py`, `ctf.py` | none | pure functions over inputs | campaign runner |
| Output | `report.py`, `sarif.py`, `dashboard.py`, `cli.py`, `models.py` | none | formatting, arguments | all |

The program is sequential: one thread per process. What makes it hard is around
it. Several processes may use one ledger or one output directory, and nothing
is locked. A process can stop in any write, and no file is replaced atomically.
The collector works against a clock that runs while it sleeps, connects and
waits, and against targets that fail in the middle of a matrix. A bounty
campaign lives across runs through `state.json`.

What makes each part correct:

- **ledger**: `verify` accepts the file exactly as long as nothing went wrong
  with it; an accepted file misses no event whose `append` returned.
- **runners**: a summary attests everything in its directory; a ledger belongs
  to one run.
- **policy and collector**: nothing is sent that the policy does not allow;
  each target is left alone between requests; a matrix is within budget, sent
  once, in order, and returned whole or not at all; every call ends.
- **bounty and smart runner**: board, report and state agree when a run is
  done; "seen" is said only of a lead that a report announced or had no room for;
  "NEW" compares with what was there before the run, both halves of it.
- **verifier and engine**: every identity tries every controlled object, an
  exposure that was answered is reported, and a finding rests on answers that
  were really given.
- **bounty campaign**: the tools keep the rate of the policy; the board speaks
  of this run; a verified finding stays on it.
- **smart templates**: the estimated cost covers what is sent, what can be paid
  is not left out, an edge the crawl found is tried with every controlled
  resource, and only controlled identifiers are sent.
- **contract drift**: an operation is reported exactly when somebody gets in who
  did not, alternatives (OR) and their schemes (AND) told apart.
- **sequences, ranking, plans**: every chain of producers and consumers once; more
  evidence never lowers a candidate; a refused plan costs nothing.

## 2. The modules

| Module | What it is |
|---|---|
| `LedgerFile` | the ledger's format and the pure part of its class: entries, redaction, hash chain, `verify` |
| `EvidenceLedger` | `append` as two steps (read and compute, write) of several processes, with stops and torn writes |
| `VerifiableLog` | the abstract specification: a log that grows at its end and that stays broken once it broke |
| `RunArtifacts` | `CampaignRunner.run` and `VerificationRunner.run` on an output directory; uses `LedgerFile` |
| `ScopePolicy` | `authorized_rule` as operators on a policy |
| `Collector` | `EvidenceCollector` with a clock; uses `ScopePolicy` |
| `BountyBoard` | board, report and state from run to run, with the smart second half |
| `AuthzEngine` | the differential engine as operators on a sequence of observations |
| `Models` | the records that components exchange: URLs and their places, templates, requests, identities |
| `VerificationMatrix` | what a verification is going to send: valid fixtures, identities, rendered requests |
| `ActiveVerifier` | `ActiveAuthorizationVerifier.run` on any fixtures and any answers; uses the two above and `AuthzEngine` |
| `OpenApiTemplates` | templates of the read operations of a contract |
| `EndpointPrioritizer` | classification of URLs, leads of all sources, ranking and the cut of the board |
| `TemplateSynthesis` | templates of discovered URLs and the request budget; uses the two above and `ScopePolicy` |
| `ReconPipeline` | `bb-pipeline.sh` as stages that fill a run directory |
| `BountyCampaign` | a campaign from manifest to merged board; composes the four above with `VerificationMatrix` |
| `DriftEngine`, `ApiSequences`, `StateCollisions`, `SignalFusion` | the pure analyses as operators |
| `CampaignAnalysis` | the analyses of an offline campaign in their order, and bounded plans of its candidates |
| `LedgerFileProofs`, `EvidenceLedgerProofs`, `RunArtifactsProofs`, `CollectorProofs`, `BountyBoardProofs`, `ActiveVerifierProofs`, `BountyCampaignProofs`, `CampaignAnalysisProofs` | theorems |
| `MC*` | instances for TLC |

Some definitions are preceded by a faulty variant of themselves (`RecordOnce`
before `Record`, `ContinueLedger` before `ResetLedger`, ...). Nothing uses
them: each is a plausible bug, and putting it in place of the definition it
precedes makes one of the properties fail. They show that the properties say
something about the code.

### State and actions

*EvidenceLedger.* `file` is the file, line by line; a line is an entry or
`Garbage`, and the last one may lack its newline. `writer[w]` is the local state
of `append` in process `w`: `ReadAndCompute` is `ledger.py:72-84`, `WriteLine`
86-88. `StopBeforeWrite`, `LoseNewline` and `TearLine` are the ways the process
can end in between; text appended to a line without a newline makes one line
that does not parse (`Glued`, `AddText`). `Rebuild` is what the runners do
first (`campaign.py:215`, `verifier.py:537`). SHA-256 is modelled as injective:
a hash is the sequence of bodies it stands for. Loading and storing an entry
gives the same entry back, as JSON does for the payloads the runners append.

*RunArtifacts.* `run[r].pc` follows the code: analysis (in memory), artifacts in
the order of the `write_text` calls, the emptied ledger, one `append` per event
(again read, then write), `verify`, summary. `disk` records for each file who
wrote it and whether the text is complete. With `Overlap = FALSE` a run begins
when no other is active.

*Collector.* `pc` walks through `collect_one`: `next` (gates and first look at
the clock), `sleep`, `open` (recorded, not yet sent), `wait` (sent). `Tick` can
happen between any two of these steps, so sleeps are late and connections slow.
`Fail` is every exception of `open` and `read`, those raised inside the
`HTTPError` handler included. `NewCollector` is `verifier.py:333`. A rate is its
interval in ticks; hosts are label sequences; a path is the set of its words.

*BountyBoard.* A run is `Begin` (`smart_verify.py:254` reads the state first),
`Recon` (`bounty.py:255-315`), three writes, and, when smart verification is
configured, `Verify` and the same three writes again. The board and the state hold
up to `MaxLeads` leads (`max_leads`, 200 by default); the report counts all of
them and lists the first `ReportSize` (50, `bounty.py:604`). The history variables
keep what reports announced (`announced`), which new leads were saved with no room
for them in the report (`unlisted`), and whether a second round of writes was
broken off (`interrupted`). `Raise`, `Stop` and
`StopInWrite` end it early. A cut `state.json` counts as no state, unless the
cut is inside a character: that `UnicodeDecodeError` is not caught
(`bounty.py:564-568`) and the run fails.

*ActiveVerifier.* The fixtures are an input. `Reject` and `Begin` are the two
ends of `verifier.py:308-332` (validation, ownership, the identity that is
added, requests, budget), `Collect` is one cell of the matrix with any answer,
`CollectRaises` any exception of the collector, `Analyse` the engine. A body is
a function from leaf paths to values, so that sensitive keys, matching values,
shapes and denials (a 200 whose body says "forbidden" included) are what
`authz.py:68-199` makes of them. Lists in bodies, depth limits and volatile keys
are left out. A target is a route and a resource key, as in `authz.py:227-233`;
its name counts as privileged when either holds one of the terms of
`authz.py:370`. A finding is what its id hashes, and its strength.

*BountyCampaign.* `RefuseCampaign` and `StartPipeline` are the gates of
`bounty.py:258-289`; `rates` is what `_bounded_env` hands to the tools. The
pipeline's actions (`ReconPipeline`) are `MakeRun`, `Probe`, `Crawl`, `Clean`
and `Scan`; a tool leaves any subset of what there is to find, and a filter that
lets nothing through ends the script, as `set -e` and `pipefail` make it. Too
many live hosts end it too, unless `ALLOW_LARGE_SCOPE` is set: the environment is
not the manifest's, so both happen.
`OtherRun` is another process that runs the pipeline for the same domain.
Directories are seconds; the ones of `campaign.old` are there before. `ReadRun`
reads the directory that sorts last (`bounty.py:292-311`), `PlanTemplates` is
`smart_verify.py:257-329`, `VerifyAndMerge` the derived verification and the
merge (331-388). A URL is its path segments and query pairs, decoded; which
segments look like identifiers, to the prioritizer, to the pipeline and to the
synthesizer, are three constants, as the code has three regular expressions.
What a verification finds is any set of findings (`ActiveVerifier` has their
rules), and its ten best reach the board.

*CampaignAnalysis.* One action for each input of `campaign.py:131-184` that an
engine modelled here reads; the candidates of the other engines come with the
input. A security is a set of alternatives, an alternative a function from
schemes to scopes. An operation of the graph comes with the fields it takes and
gives. Scores are in hundredths. `PlanCandidate` is a caller that asks
`planner.py` for a plan of any ranked candidate.

## 3. What the runs check

| Run | Instance | Shows |
|---|---|---|
| `ledger` | 2 processes, 2 payloads (one with a secret key), files of up to 3 lines | `VerifyIsExact`, `NoReturnedEventLost`, refinement of `VerifiableLog` |
| `artifacts` | 2 campaigns, 1 verification, 0 to 2 candidates, in any order, one after the other | `SummaryAttests`, `LedgerIsOwnersPrefix`, `AcceptsItsOwnLedger` |
| `overlap` | 2 campaigns that overlap | `NeverMixesCampaigns` fails |
| `collector` | 2 calls, 3 target rules, 2 of them with one pattern and two rates, 8 matrices | spacing, order, budget, authorization, all-or-nothing, termination |
| `collector_runs` | 2 runs with a collector each | `SpacedAcrossRuns` fails |
| `bounty` | 3 leads, boards of 2, reports of 1, 3 runs with and without smart half, faults everywhere | `DoneRunAgrees`, `SeenWasAnnounced` |
| `bounty_again` | 2 leads, 3 runs without faults | `AnnouncedOnce` fails |
| `verifier` | 336 fixtures (up to 3 configured identities, 2 resources, 2 templates), budget of 4, 6 answers per cell | findings rest on answers; exposures are reported |
| `verifier_names` | 2 identities, one named "anonymous" without a role | `AnonymousExposureIsReported` fails |
| `campaign` | 24 manifests: refused ones, rates, old directories, 9 URLs, contracts, budgets of 5 to 30, boards of 1 and 2 | rates, the directory that is read, estimate and order of the budget, what is sent, what the board keeps |
| `smart_identifiers` | one URL with two identifiers | `DiscoveredIdsAreNotReplayed` fails |
| `analyses` | all pairs of securities of up to 2 of 6 requirements, 258 operation graphs, 36 mixed inputs | drift reports, sequences, ranking, plans |

**Bounds.** `MaxLines` bounds ledger files: a race needs two processes and one
link, a glued line two, and a third line shows that nothing repairs a broken
file. `MaxCalls = 2` and matrices of up to four cells give the limiter three
requests to one target and a second call after a failure; `MaxClock` stops the
clock only when nobody sleeps, after a time longer than every interval but one,
which a sleep then covers. `MaxRequests = 3` lies below the largest matrix and
at the size of another. `MaxRuns = 3` is what it takes to see a lead, miss it,
and see it again, and `MaxLeads = 2` of three leads forces a cut. `ReportSize = 1`
lies below that, so that a full board is longer than its report. The engine
compares pairs within one target, so two identities and the anonymous one on one
request, or two on two, show every comparison; larger matrices are rejected by
the budget, which is checked that way. The bodies are the least that tell exact,
likely, partial and public answers apart. The manifests of `campaign` differ
from one plain campaign in the inputs a case is about, and the web of each is a
few URLs of which the crawl finds any: three templates that compete for a budget
show every order in which one fits and another does not. `Stamp = 2` of three
seconds gives an older directory, one of the same second, and a later one;
`TopCandidates` is 2 instead of 10 with up to three findings. Requirements over
a key and a token with one scope already have every relation the engine tells
apart (equal, fewer scopes, fewer schemes, incomparable), and two alternatives
give several baselines; graphs of three operations with cycles and one of four at
depth 6 show that walks neither repeat nor stop early. `MaxPlans = 2` is below
the three plans asked for. Symmetry is
used where processes or leads are interchangeable and no temporal property
depends on which is which; the refinement checked in `ledger` maps no process.

**Deadlock** is not checked in the runs whose system ends: every run done, every
call made. The ledger run checks it.

**Fairness.** Only `CallEnds` needs any: weak fairness of the collector's
thread and of the clock. The thread is the program itself. An `open` or `read`
ends because the socket has a timeout and the body a limit
(`collector.py:189-196`), which is what makes the step out of `open` and `wait`
fair. No caller is assumed to call.

### Disagreements found

- Overlapping runs mix their events in one ledger that verifies, against the
  comment at `campaign.py:213-214`. Emptying the file reserves nothing.
- The limiter forgets a target between two verification runs of one process
  (a bounty run with a verification manifest and smart verification), against
  "per-target RPS" in `docs/ACTIVE_VERIFICATION.md:25` and
  `CHANGELOG.md:19`.
- A profile named "anonymous" whose role is left out takes the place of the
  anonymous identity in the verifier and counts as a user in the engine, so that
  anonymous exposure goes unreported, against `README.md:41-46`.
- A discovered URL with several identifiers keeps all but one of them, against
  "discovered third-party IDs are not replayed" in
  `docs/SMART_VERIFICATION.md:71-72` and the class comment at
  `smart_verify.py:41`.
- A lead that one run misses is NEW again in the next, against "previously
  seen" in `docs/BOUNTY_AUTOPILOT.md:66`; the report itself says "since
  previous run".

Seen while modelling, without a run of their own, because no document settles
them or because they are a matter of words:

- No live host: the filter of `bb-pipeline.sh:257` fails first, so the branch of
  lines 263-279 that says "Pipeline stopped cleanly" is never reached, and the
  campaign fails (`Probe`). No URL in scope: the same for lines 328-331 (`Crawl`).
- Leads from the 51st on are saved as seen although no report listed them
  (`bounty.py:331` and 604); only the count of new leads tells of them.
  `SeenWasAnnounced` names them, `ShortBoardsAreAnnounced` says when there are none.
- A manual template with an empty `resource_kind` is estimated at no request and
  sent once (`smart_verify.py:454`, `verifier.py:397`); the verifier's budget
  still holds. `PlanIsAffordable` names the exception.
- A discovered URL that holds the text `{resource}` itself becomes a template the
  verifier refuses, and the whole smart half with it.
- Kinds are written into path templates in lower case (`smart_verify.py:180`): a
  kind with a capital gets no template from its path.
- Only the ten best findings of a verification reach the board (`verifier.py:591`).
- The rate ceiling looks at the rules named for the domain and its wildcard; a
  stricter rule for one subdomain is not considered (`bounty.py:388-402`).
- A clock set back, or a run that began later, makes another directory the latest
  (`bounty.py:472`). `BoardShowsThisRun` names both.
- When an old alternative already undercuts another one, a new alternative between
  the two is reported as a weakening although nobody new gets in (`drift.py:282`).
  `ReportsMeanAccess` names it.
- A transition listed twice around another one is reported as two collisions with
  the routes the other way round (`race.py:36-44`).

## 4. What is proved

`EvidenceLedgerProofs`, for any set of processes, kinds, payloads and secret
keys: `TypeCorrect`, `VerifyExact`, `ReturnedEventsKept` and
`LedgerImplementsVerifiableLog`. The only assumption on constants is that the
garbage mark is not an entry. The inductive invariant of the first three is
`TypeOK`, `VerifyIsExact` and `NoReturnedEventLost` together: a write is judged
by comparing the entry with the one a write that ran alone would make, and that
comparison says something only in a file whose links all hold. The facts about
files (`VerifiesWrite`: a write keeps a file verifiable exactly when it is
timely; `GarbageBreaks`; `EventsWrite`) are lemmas of `LedgerFileProofs`.

`RunArtifactsProofs`, for any number of campaigns and verifications in one output
directory: `TypeCorrect`, overlapping runs included, and, under `~Overlap`,
`SummaryIsTrue`, `LedgerIsAPrefix` and `AcceptedLedgerIsOwn`. That runs do not
overlap is a hypothesis of the last three and no weakness of the argument: the run
`overlap` shows what happens without it. `RunsAssumption` says that a run has a
number of candidates and that file marks are no runs. `RunInv` strengthens the
properties by what each step of the run in progress has already put on disk, and
by the fact that the events in the ledger are those its owner has appended so far.

`CollectorProofs`, for any policy `from_dict` accepts, any matrices and any
clock. `MatricesAreLists` (a matrix is a sequence) is needed for the calls only.
`RequestsAreSpaced`: `SpacedPerTarget` alone is not inductive, because it speaks of
all pairs of requests and the limiter remembers one time per target. The invariant
adds `Remembered` (what is remembered of a target is at least the time of every
stamp this collector made for it) and `SleepsLongEnough` (a sleeping thread
wakes no earlier than the interval after the remembered time). `FirstIsLeast`
shows that the first matching rule exists; it rests on the well-foundedness of the
natural numbers. `NeverABurstOfThree` carries the spacing from the stamps to the
wire: all but the last of a collector's requests to one target have left no later
than the time the limiter remembers of it (`WireInv`), so that of three requests the
first and the last are at least an interval apart, however long connections take. `CallsSendPrefixes`,
`NoPartialList`, `OnlyAuthorizedIsSent` and `TypeCorrect` rest on `CallInv`, which
ties what was sent and observed in a call to its place in the matrix and to `pc`.

`BountyBoardProofs`, for any leads, any sizes of board and report and any number of
runs: `TypeCorrect`, `DoneRunsAgree`, `NothingSeenUnannounced` and
`ShortBoardsAreAnnounced` (where the report has room for the whole board, every lead
it calls seen was announced). Three assumptions: a mark for a broken file is no
content of one (`MarksAreNoContent`), there are finitely many ids, as they end in
digests (`LeadsAreFinite`), and the limits are numbers (`LimitsAccepted`). The
invariant `BoardInv` says how far the writes of the run in progress have come
(`WritesInOrder`), what a state file that is older than the run may make a later run
say (`Announced`, of the leads in `Known`), and that a report with room for the board
leaves nothing out (`RoomForAll`).

`ActiveVerifierProofs`, for any fixtures, any bodies and any budget: `TypeCorrect`,
`FindingsRest`, `EveryoneTries`, `ExposuresAreReported`, `CrossingsAreReported` and
`AnonymousExposuresAreReported`. `FixturesAccepted` and `BudgetAccepted` say what
the parser guarantees: fixtures are lists, a resource has a key and a kind, the
budget is a number. `AnonymousExposuresAreReported` has one more hypothesis,
`NamesTellAnonymous`: no profile named "anonymous" has another role. The run
`verifier_names` refutes the property without it. `VerifierInv` says that
the observations are the first cells of the matrix of the fixtures, cell by cell,
and that the findings are `Analyze` of all of them when the analysis is done. From
there the argument is about the engine alone: each part of it makes findings that
rest on the answers they name, and the pair of answers an exposure consists of is
one that the engine compares. That every identity meets every object is a matter
of the numbering of the cells (`EveryCellInMatrix`: quotient and remainder) and of
what flattening a list of lists holds (`FlattenElements`). The latter takes
induction over the length of the list. The library's induction rule has an operator
as parameter, which the provers at hand cannot instantiate, so `EveryNat` states
induction for a set of numbers instead and is proved from well-foundedness.

`BountyCampaignProofs`, for any manifests, any web and any budget, states every
property of the run `campaign`. Its assumptions are what the loaders guarantee.
`CampaignsAccepted`: rates and limits are numbers, earlier directories have seconds
for names, and what can be found is finite. `FixturesLoaded`: fixtures are lists,
and a resource has a key and a kind (`verifier.py:52-58`). `UrlsParsed`: a URL is a
path and a query; its words are in lower case, which is how the code compares them,
so that a word names a kind only if the kind is in lower case too
(`smart_verify.py:184`; a kind with a capital gets no template from its path, see
above). `ContractsParsed`: operations are lists, and two with the same route have
the same path, for the paths of a contract are the keys of an object.

`TheRateIsKept`, `OnlyThisRunIsShown` and `VerifiedIsKept` speak of files and leads.
The rates are the bounded environment of a launchable manifest from the gate on
(`RateInv`), and its ceiling is the least of the rates that count, which exists
(`CeilingIsLeast`). `DirectoriesInv` says which seconds have a directory and what
the one of this run holds at each stage: it sorts last when no other run began and
no clock was set back, so the leads of the board come from its URLs and findings.
`RankInv` says that the board is finite and only verified leads have the highest
score; a cut that leaves one of those out is full of leads that score as much
(`CutKeepsTheHighest`). `TypeCorrect` needs both, and `SizesInv` for the lengths.

`ThePlanIsAffordable`, `OnlyWantOfRoomPassesOver`, `SingleIdentifiersAreSwapped`,
`DiscoveredEdgesAreTested` and `ContractParametersControlled` speak of what is planned
and sent. Their invariant is `PlanInv`: the plan that was made is the one the URLs of
the directory give (`IsPlan`), and what was sent are the requests of valid inputs
derived from it (`IsSent`). That is inductive together with `DirectoriesInv`, for the
directory that was read does not change afterwards; the rest is about operators:

- The folds. `FoldRuns` says that folding an iterative step over a list is a function
  on the positions that takes that step between neighbours, so that what a step keeps
  holds at the end by `EveryNat`. `BudgetFacts` follows for `FitBudget` (the selection
  is a part of the list, what is used is its charge and within the limit, and who
  was left out did not fit after the prefix admitted by then), `UniqueFacts` for the
  templates that are left when repeated ones are dropped (the same requests, at no more
  cost), `ContractFacts` and `AllArePlanned` for the contract.
- Sorting. `OrderedLists`: the ordered candidates are exactly the candidates, each at
  some position, with no score above an earlier one. It is an induction over the
  size of the set.
- Costs. `UnitsOfConcat` and `UnitsOfAppend` make the estimate a sum over lists, and
  `RequestsLength` makes that sum the number of requests the verifier renders: a template with
  a kind is rendered once for each resource of it, one without is rendered once.
- URLs. A candidate replaces the text of one place (`CandidatesMade`); the verifier
  refuses a template with two placeholders (`PlaceholdersOfValid`), so that rendering
  writes to that place only (`BothReplaced`, `SwapOfOne`). `HoleIsFilled` is the same
  for the one parameter of a contract's path.

Proving them changed two statements. `ContractParametersAreControlled` said of every
request with a route of the contract that its parameter is controlled; a manifest's
own template may carry that route with any text, so it now speaks of requests whose
route only the contract names, and its second half (every bound operation is sent
with every value) names the limit on templates, and says where the value stands.
`PassedOverOnlyForWantOfRoom` charged every selected template of at least the score,
those admitted later among them; it now charges those admitted before.

`CampaignAnalysisProofs`, for any pair of documents, any contract, any candidates
of the other engines and any budget: `LostAuthentication`, `Weakened`,
`ReportsAreTrue`, `PlansAreCharged`, `SequencesAreComplete`, `CompanyIsRewarded`
and `TypeCorrect`. `InputsAssumption` is what the argument rests on: a document
has finitely many operations and requirements, in the form `_operations` and
`_normalize_security` give them, the candidates of the other engines are finitely
many and have scores as `models.py:79-87` makes them, and none of them is signed
as `contract-drift`. `LimitsAccepted` says that scores are between 0 and 10 (in
hundredths) and that the budget is a number. The first part is about the two documents alone: being weaker
or equal is an order on requirements (three lemmas), so a new alternative that
undercuts an old one lets somebody in exactly as long as no old alternative lets
in as much. The second part carries that to the ranked candidates: `DriftInv`
says that the candidates of this engine among all of them are the drift of the
two documents from the step that compares them on, so that neither the other
engines nor the ranking adds or drops one. `PlanInv` strengthens the budget by
what is planned before the ranking (nothing) and what plans are made of
(candidates).

The sequences are made by a recursive function: `WalksAreChains` shows, by
`EveryNat` on the length, that its value at `n` is the set of chains of `n`
operations; `ChainsGrow` is the step (a chain of `n + 1` is one of `n`, continued
by an edge to an operation that is not in it). That a priority never falls in
company is arithmetic once the sum of the evidence is known: `EvidenceCount` sums
over a set by taking members away in an order `CHOOSE` picks, and `TotalWithout`
shows that any member may be taken first, by induction on the size of the set
(`TotalsExist` and `SumsAgree` say that the recursion has a value, and only one).
`CandidatesInv` keeps the candidates finite and scored, which the cardinalities and
sums need; for the drift this is `FindingsAreFinite` and `FindingsAreOfKinds`.

Every invariant and action property of the passing runs is proved, and the
refinement of `VerifiableLog`. Two of them have hypotheses of their own:
`RunArtifactsProofs` supposes that runs do not overlap, and
`AnonymousExposuresAreReported` that names tell who is anonymous. The lemmas that two
proof modules share (`EveryNat`, the elements of a flattened list, the matrix) are
stated in each of them, because neither module is about the other's component.

Only model-checked: termination (`CallEnds`), which is liveness, and the five runs
whose property fails. Outside a proof's reach is also what the abstractions leave
out: that SHA-256 has no collisions, that the tools write what they print.
What a recursive definition computes for every input takes induction over data;
set-form induction as in `EveryNat` reaches it where the recursion is a function or
a fold, one lemma for each definition.

## 5. What is not modelled

Header binding and credentials, body decoding, latency, timestamps and the
policy digest (no property here depends on them); text layout of reports and
SARIF; the dashboard and the command line; import filters (`traffic.py`); the
schema-fuzz rules (`schema_fuzz.py`), which are data; the decoder and the
patterns of `mobile.py`; the variant and CTF analyses, which are single passes
over their input; how an OpenAPI schema is flattened into fields
(`api_graph.py:16-62`); the files that carry the inputs of a manifest. The sequences
of an API are a set, so chains that a repeated `operationId` would list twice are one,
and so are candidates of one id.
`BountyCampaign` has no `verification_manifest` of the base run: its leads enter
the board as those of the smart half do. The files of the board are in
`BountyBoard` only, and how a matrix is sent in `Collector` only.
`verify` is not meant to notice whole lines removed from the end, and the models
do not claim it: a prefix verifies (`LedgerIsOwnersPrefix`).

## 6. Plan

Proofs that could follow: that the ten best findings of a verification and the
board agree on what they leave out, for which `BountyCampaign` would take its findings
from `ActiveVerifier` instead of any set; and the refinement of one campaign by the
stages of `BountyBoard`.

Models that could follow: the bounds of the binary manifest decoder
(`mobile.py`), how a schema becomes fields (`api_graph.py:16-62`) and cases
(`schema_fuzz.py`), and the `verification_manifest` of a base run in
`BountyCampaign`.

