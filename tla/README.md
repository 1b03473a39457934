# Verification of RealEstateAnalyzer

TLA+ models of the analysis backend under `src/app`, the TLC runs that check them on
small instances, and TLAPS proofs of the properties that matter most for every value of
the constants. `PROJECT.json` lists runs, theorems, hazards, findings and, per definition,
the source lines it stands for.

## 1. The system

A client submits the link of a listing; the listing service fetches and reads it. The client
keeps the result as a property, has the user verify its values, asks for an analysis and polls
until that is completed or failed. An analysis runs in the background in the API process and
goes through four stages.

| Component | State | Operations | Talks to | What makes it correct |
|---|---|---|---|---|
| Persisted analysis API (`api/persisted_analysis_routes.py`) | none between requests; within one, the inputs, the version just read | create, rerun (insert, then metadata, then schedule), detail, list | repository (two commits), execution service | versions of a property unique and dense, a rerun's parent an earlier analysis of it, no row left that nobody executes unless something failed |
| Analysis execution (`services/analysis_execution_service.py`) | per analysis: current stage, results so far, metadata, all in memory | run_analysis: start, load inputs, four times enter / work / persist, complete; handle a failure | repository (a commit per transition), the four stages | a completed report is whole, made of its own inputs and never changes; a failed one is explained; every execution ends |
| Analysis persistence (`db/`) | tables `properties`, `analyses` | create, update_results, update_status, get_next_version | one database, any number of processes | legal status transitions, completed rows immutable, inputs never rewritten |
| Property API and persistence | table `properties` | create, patch | client sends `current_version` | a patch does not reach analyses in progress |
| Research (`services/research_orchestrator.py`, four domain services, `research/cache.py`) | per domain: permit, attempt, provider asked; a TTL cache | research: four tasks behind a semaphore, retries, a timeout per attempt, fallback | providers over HTTP | a package always comes, says why a domain is missing, never serves an expired entry |
| Specialist agents (`agent_research/orchestrator.py`, `services.py`, `synthesis.py`) | per agent: permit, attempt, last record | run: four tasks behind a semaphore, retries, timeout per attempt and per workflow, cancellation; then the risk agent | LLM over HTTP | answers that came in time are kept, gaps are explained, the stage ends in time |
| Evidence, guardrails, conflicts, synthesis (`agent_research/evidence.py`, `guardrails.py`, `conflicts.py`, `synthesis.py`) | within one request: the evidence index, the answers heard so far, the package | build the index, validate each answer against it, normalise conflicts, group duplicates, consolidate | each agent's answer, one after the other | what was found is in the package once; disagreement is told and never raises confidence; every reference resolves |
| Underwriting (`services/underwriting_service.py`, `calculations/`) | none | validate, metrics, scenarios, stress tests, maximum offer by bisection | | the maximum offer of a target meets it and a dollar more does not; what the client submits is not refused for a price the search tries |
| Investment committee (`investment_committee/`) | attempt, last error | policy from research and underwriting; attempts under a timeout; validation; downgrade | LLM over HTTP | no label or price beyond the policy, whatever the model says |
| Comparables (`utils/comparables.py`) | none | filter, score, rank, cut | called by the two comparables services | no comparable is dropped for one further off, none outside the filters is kept |
| Listing ingestion (`services/listing_service.py`, `services/page_fetcher.py`) | per request: transport, redirects, last result | HasData, then HTTP with redirects, then the browser; refusals and errors of each | web pages, HasData | every extraction is answered; a page that gives too little is fetched once more and no further |
| Listing providers (`providers/`) | none | read a page source after source, keeping the first value of a field | the page | of each field the most trusted value is kept |
| Property verification (`services/property_verification_service.py`, `lib/property-workflow.ts`) | none; the form is in the tab | form from property and snapshot, request, snapshot, property to send | browser, API | property and snapshot never contradict each other |
| Web client (`src/frontend`) | per tab: page, cached property, form, requests on their way, the analysis followed | open, refetch, edit, save, start an analysis, poll | the API | nobody's correction is undone by an up-to-date tab; the end of an analysis is shown |

Two parts meet in the database row of a property: the tabs that write it, and the pipeline that takes
its snapshot. The stages run one after the other and share nothing but the row and the in-memory results;
the components meet in `run_analysis`, where each hands its result, or its exception, to the
next commit. The persisted pipeline and the detailed models of its stages are therefore separate
modules: `AnalysisLifecycle` treats a stage as "returns or raises, at any time", and the stage
modules show that they do return or raise.

Hard parts: commits of several processes interleaving with each other; a database call that
raises although its commit took effect; a crash between any two commits; timeouts racing answers,
per attempt and per workflow; cancellation; permits held over retries; caches that expire while
waiting; tabs with stale copies, late answers and requests that time out but are stored; and an untrusted answer of a model that deterministic code has to keep within bounds. The
full list with lines is under `hazards`.

## 2. Modules

### The persisted pipeline

* `AnalysisLifecycle`: tables, handlers and the task of `run_analysis`, one action per database
  commit. `Commit(a, legal, row, o)` is one repository call with its three outcomes: it commits, it
  raises with nothing written, or it raises after its commit took effect. `LoopFree(w)` is the event
  loop: between two awaits nothing else of that process runs, while another process may.
  `requests[w].step` follows the handlers (`AllocateVersion`, `InsertAnalysis`, `SaveInputs`);
  `tasks[a].pc` follows `run_analysis` (`MarkRunning`, `SavePreparation`, `LoadInputs`, `EnterStage`,
  `FinishStage`/`FailStage`, `PersistStage`, `Complete`) and `_handle_failure` (`RecordFailure`,
  `MarkFailed`). `Crash` loses handlers and tasks and keeps rows: no code resumes them. A
  snapshot is the number of its revision; a result is what it was computed from.
* `AnalysisProperties`: its invariants, action properties, liveness, the refinement mapping to
  `AnalysisApi` and the inductive invariant of the proofs (`TasksMatchRows`).
* `AnalysisApi`: what a client may rely on: inputs are accepted once, the status moves forward only,
  no part of a report is shown early, a report shown is never altered.
* `MCAnalysisLifecycle`: symmetry for TLC.

### The stages

* `AgentWorkflow` (`MCAgentWorkflow`): the specialist agents and the risk agent, in discrete
  time. Timers fire when due and ready callbacks run before time passes; an agent that was called
  may answer at once, later or never; at the instant of a deadline both orders are possible.
* `ResearchWorkflow`, `ResearchProperties` (`MCResearchWorkflow`): the same for the research
  domains, with the cache, the providers asked one after the other, and the warnings.
* `MaximumOffer`: the bisection of `binary_search_price` for break-even and each target, and the
  minimum that binds. A price is a whole number of dollars, the tolerance of the search. What a price makes of
  a deal is computed as `_down_payment`, `_acquisition`, `_financing` and `_metrics` do: down payment (percent,
  amount, or what a fixed loan leaves), loan, debt service, cash flow and cash needed, without rounding. `Meets` is the
  predicate the search evaluates, so nothing is supposed about which prices meet a target.
* `CommitteePolicy`: offer range, confidence limit, allowed labels, and what a draft must satisfy.
  Confidence is in percent, so the policy's arithmetic is exact.
* `InvestmentDecision`, `DecisionProperties` (`MCInvestmentDecision`): `Underwrite` runs
  `MaximumOffer`, `Convene` fixes the policy, then the model answers anything (`Respond`,
  over every label, confidence, price and kind of flaw), answers garbage, fails or is silent.
  `DecisionProperties` compares what comes out with what prices make of the deal, not with what
  underwriting found.

### What the agents say

* `ComparableSelection`: filters, similarity, ranking and the cut, as operators.
* `EvidenceIndex`: `BuildIndex`, which numbers sources and citations as `_register_citations` does, and
  `ValidReference`. `OutputGuardrails` (over it): when an answer is refused and to what its confidences are cut.
* `ConflictAnalysis` (over `OutputGuardrails`): conflicts between the sources of a field, those that agents report,
  precedence, duplicates, penalties.
* `AgentReview` composes the four: `SelectComparables`, `HandOver` (the context the index is built from),
  `HearSpecialist`/`HearRisk`/`SkipRisk`, `Synthesise`. `AgentWorkflow` has the time of the agents' calls, this has
  their content. `ReviewProperties` states what it must keep, `MCAgentReview` the instance.

### From a link to a report

* `ListingSources`: which source of a page or payload is read for which fields, with which confidence and in which
  order. `ListingExtraction` (over it): the job of one request, `Submit`, `HasDataAnswers`, `HasDataFails`,
  `Redirect`, `Unresolved`, `CallFails`, `PageRefused`, `ShellFound`, `ListingRead`.
* `PropertyVerification`: what form, request, snapshot and returned property make of listed and typed values.
  `PropertyEditing` (over it): tabs, each with a page, a cached copy, a form, a fetch and a save. `ServerReads`/`Arrives`
  and `Patch`/`Saved` separate the moment the server acts from the moment the tab learns of it; `SaveTimesOut`
  leaves a request behind that `PatchLate` may still store.
* `AnalysisWatching`: the two pages that poll. It does not repeat the pipeline: it instantiates
  `AnalysisApi`, the specification that `AnalysisLifecycle` implements (`ImplementsApi`), so what it shows of the client
  rests on what is proved of the server.
* `PropertyIntake` composes the three; `PropertyProperties` states what must hold, `MCPropertyIntake` the instance.

### Proofs and conventions

`AnalysisProofs`, `WriteProofs` (over it) and `FailureProofs` (over that) are about `AnalysisProperties`, `DecisionProofs` about
`DecisionProperties`, `AgentProofs` about `AgentWorkflow`, `ResearchProofs` about `ResearchProperties`, `EditProofs` about
`PropertyProperties`, `ReviewProofs` about `ReviewProperties`.

A listed value is known as listed and a typed one by what was typed. `None` is the code's `None`, `null` or a missing key.
Confidences are in percent, sums and means of them in the fractions that keep them whole.

Operators that no specification uses (`NextVersionOfTable`, `AfterErrorNoBreak`, `OneRedirectMore`, ...) are variants
of the code with a plausible mistake. Substituted for the definition that follows them they make a property fail, which shows
that the run can see such a mistake.

## 3. Runs

| Run | Instance | Shows |
|---|---|---|
| `deployed` | one process (`docker/start-api.sh`), two analyses, two assumption sets, two snapshot revisions, one fault, one crash | types; later versions never have older snapshots; whole reports; explained failures that match the results; rows stranded only by faults; completed rows untouched; refinement of `AnalysisApi` |
| `two_processes` | two processes, two properties, two analyses, one fault, one crash | numbering and lineage although the version is read and inserted separately; the proofs' invariant |
| `progress` | one process, two analyses, one fault, one crash, fairness | a scheduled analysis settles if nothing fails; nothing hangs if something does |
| `agents` | three agents, two permits, two attempts of two ticks, workflow timeout of five | kept answers, explained gaps, waves, termination |
| `research` | three domains with two, one and no provider, two permits, two attempts of one tick, TTL two, any earlier cache content | warnings, fallback, cache, termination |
| `decision` | six ways to finance, seven combinations of income and targets, asking and purchase price 5 or 8 or no asking price, twelve dossiers, two attempts | search, label, price and confidence against what the prices are worth; attempts |
| `intake` | six pages, two payloads, two redirects; one field, one value to type, two tabs of which one may time out, two stored saves; one analysis, fairness | the best source of a field wins; extraction ends; property and snapshot agree; no correction is undone by an up-to-date tab; the price of an analysis; the end of an analysis is shown |
| `review` | two subjects, three candidates out of twelve kinds, seven of which the filters exclude for one reason each, and a limit of two; two contexts, five states of a field, three or four answers per agent | comparables, findings, conflicts, evidence |
| `decision_context`, `failure_report`, `persisted_agents`, `down_payment` | minimal | the findings below |

Why the bounds are enough. Two analyses are what numbering, lineage and cross-talk relate; one
fault reaches every error path and a crash after a fault the half-written rows; two revisions tell
an old snapshot from a new one. Two permits for three agents or domains make one wait for
its wave; two attempts are a first and a last one; the timeout of five ticks falls within the second
wave (which begins at the fourth) so that the workflow timeout cancels running agents. In `decision`
the search interval ends at 12 or 16: targets that no price, the lower prices, all prices and, with a fixed loan, only the
higher prices meet all occur, and the down payment of 6 lies above one purchase price and below the
other. The dossiers differ from a clean one in one doubt or two, enough to cross each threshold of the
policy. In `intake` the six pages lack each source in turn and each reason for a second fetch; two saves are what one
tab needs to undo the other's, and the request that timed out may be stored before or after the other tab's; the price is the one
field, since fields are treated alike and only the price is copied on to the assumptions page (about 1.1 million states).
In `review` three candidates of which two are kept are ranked in every order; the answers share a finding, an id or
neither, and one cites a citation of another source. What depends on larger instances is proved (section 5).

### Fairness

* `AnalysisLifecycle`: weak fairness of handlers, which hold the loop until they end; strong fairness of each
  task, because its ready callback waits in asyncio's FIFO queue while other callbacks of the loop enable
  and disable it. That a stage returns or raises rests on the timeouts: research 10 s by 3 attempts per
  domain (default configuration), agents 30 s per attempt under a workflow timeout of 90 s, committee 30 s
  by 2 attempts. The risk agent is awaited without `wait_for`; only its HTTP client's timeout ends it, and
  that assumption is stated as `WF_vars(AssessRisk)` in `AgentWorkflow`.
* `PropertyIntake`: the steps of an extraction (`ListingFairness`: httpx and Playwright have timeouts, so each call is
  answered or fails), and of the watching tab its reads, arrivals, polls and redirects (`WatchFairness`: timers fire and
  requests end). Not the tabs' users, not the failure of a fetch, and not the end of the analysis: `EndIsShown` starts from it.
* The stage modules: fairness of timers, ready callbacks and the clock, never of an answer: no
  provider, agent or model need answer.
* `ResearchWorkflow` assumes `ParallelismLimit > 0`. The configuration has no validator; with 0 every domain
  waits for ever on `Semaphore(0)`, which no timeout covers (a hazard in the list).

## 4. Findings

* `decision_context` (bug): a decision context is accepted and stored in `execution_metadata`;
  `run_analysis` replaces that column before it reads the context from it.
* `failure_report` (differs from the README): the first two commits of `run_analysis` stand before its `try`;
  if one raises, no failure details are stored and the analysis stays pending or running.
* `persisted_agents` (bug): the persisted pipeline builds the agents' request without the listing extraction,
  so listing and risk analysis are always missing though the README promises full agent output.
* `down_payment` (bug): the search for the maximum offer passes its trial prices through the check of
  the fixed down payment; a trial price below it fails the whole underwriting with a message about
  the client's purchase price.

Known, and stated as exceptions of `ThresholdsAreTight` and `BuyIsSupported`: with a fixed loan the search may miss the prices that
meet the cash-on-cash target. Below the loan the down payment is negative, and where the cash needed is too, the sign of the
return turns: the search takes a price that is too low for one that is too high and goes further down. The target then has no
threshold, or one that is too low. Without a threshold it drops out of the binding maximum, and a buy may be allowed at an asking
price that misses it as long as the purchase price meets it; the instance of `decision` contains such a buy (a loan of 4,
asking 8, purchase 5, a target of 10 percent). The code promises "Maximum purchase price that still satisfies the
cash-on-cash target." (`policies.py:149`).

## 5. Proofs

| Module | Theorems |
|---|---|
| `AnalysisProofs` | `TypeCorrect`, `RowsMatch`, `CompletedReportsAreWhole`, `FailuresAreExplained` |
| `WriteProofs` | `CompletedStaysFrozen`, `InputsStayFrozen`, `VersionsAreUnique`, `VersionsAreDense`, `VersionsNumberAnalyses`, `LineageIsSound`, `VersionsFollow`, `PipelineImplementsApi` |
| `FailureProofs` | `FailureStagesMatchResults`, `FaultsStrandOne` |
| `DecisionProofs` | `DecisionsAreTyped`, `LowerMeets`, `MaximumOffersAreTight`, `BuysAreSupported`, `OffersAreBacked`, `StrongBuysAreRare`, `AttemptsAreToldAlways` |
| `AgentProofs` | `AgentsAreTyped`, `AnswersStay`, `GapsStayExplained`, `AgentsKeepTheirWaves` |
| `ResearchProofs` | `ResearchIsTyped`, `MissingDomainsAreWarned`, `FallbackAsksEveryone`, `CacheStaysHonest` |
| `EditProofs` | `EditingIsSound`, `CopiesStayAgreed`, `CorrectionsAreKept`, `AnalysesArePricedAsVerified`, `FirstSourceIsBest`, `IntakeIsTyped` |
| `ReviewProofs` | `ComparablesAreBest`, `FindingsStay`, `DisagreementsAreCounted`, `EvidenceIsResolved` |

**The pipeline.** None of the properties is inductive: that a completed row is whole depends on what the task
holds in memory before its last commit. `TasksMatchRows` says, for every point of the task, which status the
row may have, that the task's inputs are the row's, that the results behind it are those of its inputs, and
that before the completion commit the row already has them all; for failures, that the failure is in
the metadata before it is in the status. `Attached` adds what a task belongs to. `IInv == TypeOK /\ Attached
/\ TasksMatchRows` is inductive. The case that needs it most is a completion that is committed but reported as
failed: the failure handler runs over a completed row, and only `ensure_analysis_mutable` stops it.
`WriteProofs` first proves one lemma, `StepWrites`, that lists what any step may do to any row; the action
properties follow from it. Versions need `VersionInv`: a request about to insert holds a version with none
missing below it; that the versions of a property are exactly `1 .. n` for its `n` analyses
(`VersionsNumberAnalyses`) then follows from uniqueness and density by counting. `PipelineImplementsApi` maps each commit to a step of `AnalysisApi` or a stutter.
`VersionsFollow` is the one theorem with a hypothesis of its own, that all workers are one: `docker/start-api.sh` starts one
process, and with two the snapshot read may be patched before the row is inserted. Its `SnapshotInv` says that what a handler has read
of a property is still there, since between two awaits of one loop nothing else runs.

Failures need history: the stage a failure names was entered long before the row says so. `ProgressInv` carries along that
the row of a task has the results of exactly the stages before the one the task is in (`Reached`), also from the moment
the task raises to the last commit of `_handle_failure`. `FaultsStrandOne` counts: `FewStranded` bounds the analyses
nobody works on by the faults so far, and each action either strands none or strands one and counts a fault; that needs that a
raising call ends the work of its own task or request only.

Assumptions of all: `None` is no value (`NoneIsNoValue`, `NoneIsNoRecord`) and the bounds are naturals
(`BoundsAreNaturals`); nothing bounds processes, properties, analyses, faults or crashes.

**The decision.** `LowerMeets` is about the metrics alone: down payment, loan, debt service and cash of a higher price are no
lower (`AmountsGrow`, `DebtGrows`, `CashGrows`), so a price meets what a higher one meets, unless it cannot be financed, lacks
the metric, or the target turns (`Turns`: a negative ratio, or cash-on-cash where a fixed loan leaves the down payment). On it
`SearchInv` rests: what is left of the interval lies between a price that meets the current target and one that misses it,
above which, where that one is conclusive, no price meets it; and the thresholds of the targets behind are tight. `OutputInv` then
needs two facts of the committee: the label returned is always an allowed one, also after a downgrade, and prices are members of
the allowed values. The subtle case is a target without a threshold, which the binding maximum leaves out: the purchase price is
compared with the target separately, and as it is above one dollar, the lower end of the search, a purchase price that meets
the target means either that there is a threshold or that the search was misled from its first price on. Assumptions:
`DealsAreDeals` (amounts are natural, the net income and the targets integers, and not both a fixed down payment and a fixed
loan), prices are whole and above one (`PricesArePrices`), `FloorIsNatural`, `NoneIsNoPrice`, `RetriesAreBounded`, `DossiersAreDossiers`.

`TellingInv` carries the dossier and the error of the committee along for `StrongBuysAreRare` and
`AttemptsAreToldAlways`; the first is arithmetic over the penalties of the confidence limit: 85 of at most 95 leave ten points.
It assumes that `None` is no error (`NoneIsNoError`).

**The agents.** `StageInv` says of each task what its point implies for its record and answer, that only a workflow
that timed out has cancelled tasks, and that the package was made of the tasks as they are. The last needs that a task that has
returned never moves again, although the timer of the workflow and that of the attempt may both be due. `WaveInv` is about time: the tasks that wait for a
permit are the last ones of the order, and the one at place `i` started, or was retried, no later than the waves before it
allow. When a permit is free, counting its holders among the tasks before the first waiting one shows that somebody a
whole wave earlier has returned. Assumptions:
`ConfigIsValid` (the validators of the configuration), `OrderIsOneToOne`.

**The research.** `ResearchInv`: the warnings of a domain account for its attempts. Before attempt `n` they are the
timeouts `1 .. n - 1`, or hold `unavailable`, which is told once however often it happens; this is why the number of
warnings tells the attempts only without it. The result names the providers before its own, an entry of the cache likewise,
and a task that has returned belongs to the entry there is: nobody writes an entry but the task of its domain. The entry may
expire afterwards, so the invariant compares its expiry with the moment of the hit and not with the clock. Assumptions:
`ConfigIsUsable`, `DomainsAreKnown`; any number of domains, providers, permits, retries and any earlier cache content.

**The tabs.** What makes the properties hold is that nothing a tab sends is arbitrary. `EditInv` says that the row and every
copy of it agree with themselves; that a form is what its copy gives, except in the fields touched since the last reset; and
that a save holds the form and copy of one moment, which no refetch changes any more. What will be stored follows from these,
whether it is stored in time, late or from a stale copy. The form is reset when new data arrives, and `touched` with it in the
same step; the invariant needs that. Assumptions: the price is a field of the form (`PriceIsVerified`),
`NoneIsNoValue`, `NoneIsNoCopy`, and for the types of an extraction `RedirectsAreBounded`.

**The listing.** `FirstSourceIsBest` needs no invariant: it goes through the sources in the order the providers read them and
shows of each field that whatever a later source is trusted more for, the earlier ones do not give, but for the exceptions that
`BestSourceWins` names.

**The review.** `ReviewInv` is small: every output is an answer that was accepted against the index of the very context the package is
made from, with its confidences cut (`Vetted`), a selection is what `FilterAndRank` made of its inputs, and a package is `Package` of
the outputs it stands beside. What is hard is what these operators compute, for sequences and sets of any length.

* The sums, products and concatenations of the community modules are folds, and the index is built by a recursive function.
  For each, a lemma first shows that the function exists (`SumsExist`, `ProductsExist`, `FlattensExist`, `ResearchExists`), then what it
  returns (`SumGrows`, `SumsSplit`, `FlattenHasAll`, ...), by induction over a set of numbers or of subsets (`Induction`, `SubsetInduction`,
  from the library's well-founded order of the naturals).
* `ComparablesAreBest`: the filters of the code let pass exactly what the property calls admissible (`FiltersAdmit`); each part of a similarity is a whole number, since its span divides the product of the spans, lies
  between 0 and that product, and falls with the gap; so the mean is a score, a nearer candidate scores no less, and the cut keeps the best.
* `FindingsStay`: the ids left out belong to later findings of a group, whose first one stays.
* `DisagreementsAreCounted`: two values among the sources of a field make a conflict; its preferred value is the user's or the government's
  by rank, or there is none; and the sum of the adjusted confidences, each clamped, is at most the claimed ones, which
  the overall penalty lowers further.
* `EvidenceIsResolved`: `Indexed` (every citation is in the list of the source it names and in no other, and the sources made up for citations
  have the numbers below the count of sources) is kept by each registration. That a citation is never numbered like an earlier one of its
  source is `Citing`: equal citations differ in how many equal ones precede them, and citations of one source are
  equal, since their key is the source's. The sources of a domain are new when it is indexed (`Lack`).

Assumptions: what the output models of the agents let through (`AnswersAreOutputs`), confidences within their bounds (`FactsAreFacts`), known
materialities (`SpecsAreSpecs`), traits that are numbers or unknown (`SelectionsAreTyped`), results that are lists (`ContextsAreReadable`).
Any number of candidates, fields, findings, conflicts, sources and citations.

**Only model-checked.** Liveness: `ScheduledAnalysesSettle`, `NothingHangs`, `WorkflowEnds`, `ResearchEnds`, `ExtractionEnds`,
`EndIsShown`. Their proofs would need `ENABLED`, which the prover does not handle. All invariants and action properties of the passing
runs are proved.

## 6. Not modelled

* Rounding: metrics to cents and ratios to four places, midpoints of the search to fractions of a dollar (they are rounded
  down). `max_iterations` (100) is left out: that many halvings end any interval below 2^100 dollars.
* `_validate` of underwriting beyond the down payment: inputs are taken to be valid otherwise.
* The texts of a committee draft: a draft has at most one kind of flaw, and the validators are reduced to whether
  it matters. The materiality of a missing item, decided from its wording, is an input.
* Income and expenses, which no price changes, are one number, the net operating income; negative amounts are left out, and a
  deal with both a fixed down payment and a fixed loan, which is refused before anything is computed. Projections, scenarios
  and stress tests: decimal arithmetic; what the later stages read of them is in the dossier.
* Comparables: outliers, adjusted prices, ranges and averages of prices, which change neither order nor cut.
* How a text on a page becomes a value, and which of several JSON objects on it is the listing: a source gives a usable value or
  none. Which hosts and addresses are allowed is an input: a hop is refused or not.
* Which words make an offence against the guardrails, and when two texts or numbers count as the same: inputs, or equality.
* The read-only tools of the agents (`agent_research/tools.py`), the input builders, sanitisation, prompts, definitions, SDK
  adapters, tracing and logging: text, and no state.
* In the client: rendering, the history pages, most fields of the assumptions form. The tabs are followed no further once an
  analysis is started. In the API: list, summary, and the deletion of properties, which no handler offers.

## 7. Plan

1. Done: pipeline, agents, research, decision; listing ingestion and providers; verification, tabs and polling; comparables,
   evidence, guardrails, conflicts and synthesis; the proofs of section 5.
2. Left to prove: that the stages' models meet what the pipeline supposes of them (a stage returns or raises, once), and that
   `AnalysisWatching` shows no status its server has not had, as theorems that join two modules.
3. Left to model: stress tests against the base case over small integers; outliers and ranges of comparables; the history pages.
