# Allie in TLA+

Allie takes a flow manifest, replays its states in a browser, collects axe and
scripted evidence, lets a model review what no script can decide, and turns the
packet into a compliance matrix, a release decision and an exit code. This
directory models the parts of it whose correctness depends on order, failure
and interleaving, checks them with TLC on small instances, and proves with TLAPS
that their safety properties, all that the runs check, hold in every instance.

## The system

| Component | State | Operations | Hard behaviour |
|---|---|---|---|
| Workbench job ledger (`workbench.rs`) | `job.json`, `events.jsonl`, one packet in the memory of each process | `start`, `resume`, `cancel`, a checkpoint before and after every step | no lock: read-merge-rename of concurrent processes, crashes between the log and the ledger |
| Pipeline (`pipeline.rs`) | receipts of the steps done | discover, promote-flow, map, run, review, report, release | any step may stop it; later steps re-read what earlier ones wrote |
| Output directory (`out_dir.rs`) | files and `allie-run-manifest.json` | prepare (refuse, clean, claim), write, finalize | crash while cleaning, leftovers, other commands' directories, users' files |
| Evidence run (`lib.rs`, `worker.rs`) | the packet, `evidence.json`, the run failures | preflight, spawn, wait, read, assemble, publish | timer against answer, worker death, half-written files |
| Browser worker (`workers/browser/run.mjs`) | pages inspected, `worker-response.json` | inspect state, respond, exit | may hang, crash or answer late |
| Agentic review (`agentic.rs`, `audit.rs`) | the packet in memory, `evidence.json` in place | ask, wait, ingest, promote, rewrite | timer against answer, rejected response, torn file |
| Agentic gateway (`workers/agentic/review.mjs`) | calls charged, model-call audit, verdicts per surface | capture, judge, retry, look again, finalize | call budget under retries, errors that carry no count |
| Discovery and map (`discovery.rs`) | `flow-plan.json`, `product-map.json` | crawl, promote candidates, merge surfaces | two crawls of one live site; routes and states that share a name |
| Report (`compliance.rs`) | `compliance-report.json` | cells, rows, summary, validation | partial evidence, waivers, aggregation that hides a failure |
| Release and verify (`release.rs`, `consumer.rs`) | `release-summary.json`, exit code | gate, exit class | stale or missing evidence, expired waivers |
| Live crawl (`discovery/live.rs`) | queue and set of routes | parse, read the sitemap, fetch, retry, follow, report | link cycles, failures, a budget that runs out among repeated links |
| Reporters of verify (`consumer.rs`, `verify_report.rs`) | six files under `reporters/` | write in order | four vocabularies for one exit; torn files |
| Publication (`publication.rs`) | a public directory of two summaries and a receipt | prepare, refuse or read, project, write, finalize | reads another command's directory while that command runs, dies or cleans |
| Model policy, credentials (`model_policy.rs`, `model_credentials.rs`) | the `model:` section of the manifest, environment variables | validate, preflight, gate, resolve a route, scaffold | one policy judged in three places, read several times |
| Init, doctor, worker runtime (`consumer.rs`, `worker_runtime.rs`) | the manifest, the installation | scaffold or preserve, probe, resolve | `--force` over a choice; a verdict about a later run |
| Auth, rendering, agent mapper, review counts | files read or written once | | sequential input and output |

They meet in files. `verify` and `workbench` both drive the pipeline; `run` and
`review` spawn node processes and exchange one request and one response file
with them; `report` and `release` read `evidence.json`, which the review has
rewritten in place; every command but `discover` and `map` goes through the
output directory's hygiene; `cancel` and the runner share only `job.json`;
`publication` reads one reporter of a verification and nothing that says whether
it is finished; `init` and an operator write the manifest that `doctor` and every
step of the pipeline read again.

What makes each component correct:

* ledger: the log is never behind the ledger; a job is called complete only if
  every step of its last generation was; a cancellation is kept and stops the
  runner; what a process reported stays true;
* directory: what is not allie's is never removed, one command's evidence is
  never cleaned by another, a complete manifest describes one run;
* evidence run: success means that every state was inspected without a finding;
  a worker that was killed, died or could not be waited for contributes nothing;
  the run ends;
* review: a verdict changes only from `needs_review`, only to `pass`, only on
  explicit passes of all surfaces, with every request on record;
* crawl: what is left out is on record, the budget is reported exactly when it
  cut something, and the crawl ends;
* verification: exit 0, a passing row and a passing report stand on captures of
  what they speak of, and a finding that the matrix does not show blocks;
* publication: the public directory shows nothing or one report that was issued
  whole, changes it only through showing nothing, and the command's word is true
  of it; a receipt vouches for what lies beside it; all reporters of a verification
  tell the story of its exit code;
* policy and setup: a request leaves the machine only within the promoted policy,
  the judges of a policy agree, what `init` scaffolds is accepted by all of them,
  what it promised to keep is kept, and what `doctor` found healthy does run unless
  discovery cannot crawl its target.

## Modules

| Module | Models | Checked by |
|---|---|---|
| `Workbench` | the job ledger | `MCWorkbench`, `WorkbenchProofs` |
| `OutDir` | one output directory | `MCOutDir`, `OutDirProofs` |
| `EvidenceRun` | `allie run` and the browser worker | `MCEvidenceRun`, `EvidenceRunProofs` |
| `AgenticReview` | `allie review` of one packet and the gateway | `MCAgenticReview`, `AgenticReviewProofs` |
| `Verify` | what the pipeline's steps hand on, report and release | `MCVerify`, `VerifyProofs` |
| `Crawl` | the live crawl | `MCCrawl`, `CrawlProofs` |
| `Survey` | what a bounded discovery promises (abstract) | as `Crawl!IsSurvey` |
| `Publication` | the reporters of `verify` and `allie publication` | `MCPublication`, `PublicationProofs` |
| `PublicRecord` | what a public directory promises (abstract) | as `Publication!IsPublicRecord` |
| `Setup` | `init`, `doctor`, and the model policy on its way through the pipeline | `MCSetup`, `SetupProofs` |

A definition named in `PROJECT.json` under `map` carries the lines it stands
for. Definitions called "a slip" are not used by any action: they are plausible
mistakes in the code (a dropped guard, a swapped order), kept beside the
definition they would replace, and each shows that a property can fail.

### Workbench

A process is a starter, a resumer or a canceller. `at` is where it is in
`run_workbench_start_with_job`, `io` how far its current write has come. A write
of the ledger is what `append_workbench_event` and `write_workbench_job` do:
`AppendEvent` adds the line, `ReadLedger` reads `job.json` and merges
(`Merged`), `RenameLedger` replaces the file. `StartAccepted` ...
`StepReturns`/`StepErrors` ... `Close` follow the runner; `CancelRead` is the
canceller; `Die` stops any process between any two accesses. A resume increases
`resumes`, the generation that `Merged` compares. Events are counted, not
listed: the log is only appended to, and the properties ask whether a line is
there. A step's outcome is chosen freely among what its receipt can say;
`RunStep` alone can end a job by an infrastructure failure.

### OutDir

`Begin`, `Look` (refuse, clean or claim), `RemoveEntry` one at a time,
`MakeTemp` and `Claim`/`Finalize` (the two halves of `write_string_atomic`),
`WriteOutput`, `CollectFiles`. A file is a name and who wrote it. `Stop` is a
crash or an error at any point, `UserDrops` a user. Two runs may be in the
directory at once; nothing in the code prevents it. `overlap` and `foreign` are
history: that two runs were, and which files were there before allie.

### EvidenceRun

`at` is the Rust process, `worker` the node process. `Timeout` is enabled
throughout the wait, so the timer races every step of the worker, its answer
included; so is `WaitFails`, after which the worker is left running and goes on. A
worker that leaves with a failure ends the wait as `worker-crash`, or as
`worker-output-failed` when its output cannot be collected (`WaitEnds`).
`Observations` is what a page may show; `Seen` removes what an unaudited state
cannot show. `FeatureVerdict`, `AxePassed`, `Verdicts`, `ExitClass` and
`FailureClass` are the functions of those names, over one criterion of each kind
of decision. `evidence` is `torn` between the two halves of `fs::write`.

### AgenticReview

`at` is `run_agentic_review`, `worker` and `unit` the gateway's nested loops:
batches, then surfaces. `fetch` counts the attempts of the current request, the
calls of the unit's earlier request and whether the model has looked again.
`calls` is what the gateway charges, `sent` the events it records: they differ
when an answer is paid for and cannot be read (`GarbledAnswer`). An error ends the
review at the capture, at the close, or in its middle, where a verdict is no word
(`UnreadableVerdict`). A wait that fails (`WaitFails`) leaves the gateway running.
`Ingest` is everything Rust does with the response, in its order: audit, status,
promotion.

### Verify

One verification, step by step, and then `allie report` and `allie release` on
the same packet with waivers attached (`Attest`) and running out (`Expire`).
`Discover` and `Map` each crawl: `reached` is any set of routes, chosen twice,
as the code crawls twice. The gateway and the worker are reduced to what they
may put into a packet; `EvidenceRun` and `AgenticReview` say how they get there.
The release status `approved` is not in the model: the profile's own human
obligations are always open for `wcag22-aa`, so a decision that does not block
asks for review.

### Crawl

`todo` is what remains of the loop over the links of the page (or sitemap) that
was just read, `queue` and `seen` are the code's. `Retry` is the first failed
attempt of `fetch_live_response`, `SitemapFails` and `PageFails` the second.
`Read` keeps a prefix of the links of a document, since a response is cut at
`LIVE_DISCOVERY_MAX_BYTES`; what is left of a sitemap is then put in order
(`Sorted`), what is left of a page is followed as it stands. `outcome` and `named`
are history: how each fetch ended, and every route that anything read has named.
`Verify` takes any set of routes as a crawl's result, which includes whatever
`Crawl` can return. `Survey` is the crawl without its queue: routes are admitted
up to the budget, each is settled once as a page, a miss or neither, and the
survey closes when all are settled, saying whether it left one out. The refinement
mapping reads `admitted` off `seen`, `settled` off `outcome`, `misses` off the
diagnostics; the steps that only move between queue and links stutter.

### Publication

`Dirs` are the two commands with their directories; each command is one process
at a time, restarted up to `MaxRuns` times. `Begin`, `RemoveEntry` and `Claim` are
`prepare_out_dir` (with the manifest replaced in one step, `OutDir` has the
grain below), `StartWrite` and `EndWrite` the halves of a write in place. A
report is reduced to whose run it is (`by`, the code's `generated_at`), its
status, exit code, release and run status; the other reporters to whose run, the
status and the tone in their own terms (`Banner`, `JUnit`, `Sarif`). `ReadSource`
is one step: the file is opened and read at once, and a torn file does not parse.
`Shown` is what a careful reader takes for published: all three files, the
digests of the receipt matching. `Die` is a kill and also every I/O error.
`PublicRecord` has `Issue`, `Publish` and `Retract`; the mapping hides the files.

### Setup

`file` is the manifest on disk: its `model:` section, whether the rest validates,
whether discovery can crawl its target (`Crawlable`: a fixture or a plain http
address, which the validation does not ask for), and the variables that its
credentials and login need. The judges of a policy
(`Valid`, `PreflightFails`, `GateRefuses`) are built from the checks of
`model_policy.rs` under their conditions (`Incomplete`, `Unredacted`, `NotAllowed`,
`NoZdr`). The pipeline takes four steps because it reads the manifest anew in
discovery, in `promote-flow`, whose copy is the policy of all that follows, and
in `map`. `Edit`, `ChangeEnvironment` and `Reinstall` may come between any two of
them. `Doctor` has the checks of `run_doctor`, with the reachability of the target
and the Playwright smoke test free. `choice`, `scaffold` and `vouched` are
history: the section the operator last saved, that the policy on disk is init's
own, and that the pipeline was started on a manifest doctor had found healthy
with nothing changed since.

## Runs

| Run | Instance | Shows |
|---|---|---|
| `workbench_contention` | one start, one resume, one cancel, one step | log before ledger, whole jobs, receipts, the kept cancellation |
| `workbench_cancel` | one start, two cancels, three steps, fair | a cancellation on disk stops the runner |
| `outdir_hygiene` | two runs, two commands, two outputs, a user | what belongs to nobody or to another command is not removed, runs do not mix |
| `outdir_wedged` | the same | **violated**: a crash while cleaning wedges the directory |
| `evidence_publish` | two states, five kinds of criterion, four pages, fair | what a published packet may say; the run ends |
| `evidence_fabricated` | the same | **violated**: passes without a single page |
| `agentic_promotion` | two criteria in two batches, two surfaces, five calls | what a review may change and what it records |
| `verify_gate` | four routes (two with one name), two manifests, four criteria, nine waivers | what exit 0, rows, reports and decisions stand on |
| `verify_exit` | the same | **violated**: exit 0 with a failed scripted check |
| `crawl_report` | five routes in a cycle, a budget of four, fair | what is left out is on record; the crawl implements `Survey` and ends |
| `publication` | two verifications and two publications, interleaved write by write, dying anywhere | one exit in every reporter; the word of the command; what a receipt vouches for; implements `PublicRecord` |
| `setup_policy` | twelve policies, three more kinds of section, two kinds of target, five installations, one change at any time | no request outside the policy; judges, scaffold, `init --force` and `doctor` keep their word |

Bounds and why they suffice. A write of the ledger is the same three accesses
whatever the step, so one step interleaves three processes fully, and three steps
(with the one that can end a job in the middle) exercise the order of the records;
each process runs once, as a command does. One resume is enough for two
generations. Two runs of one directory give every order of claim, clean and crash;
the initial states are all that the first one can find. Two states tell "every"
from "some" in the evidence run, and the four pages tell every pair of verdicts
apart. Two surfaces and two batches give units before and after one in which a
call fails; five calls end the budget inside the last unit. Four routes are a
route that the manifest names (once or twice), a page and a file whose names
collapse to one id, and one more; each criterion stands for one way of deciding a
verdict. The crawl's five routes exceed its budget of four by one, its links have
a cycle and a repetition, and the two sitemaps meet the budget before and after
the first page. Two runs of each command of `Publication` are a first one and a
rerun over what any crash left, against both of the other's; what a command finds
depends on its directory only, so a third run meets nothing new. `Setup` has one
policy of each kind that two judges could tell apart, a manifest that is absent,
unreadable, without the section, with a broken one or invalid elsewhere,
installations in which each worker is found, missing or overridden; its one change
of file, environment or installation may fall between any two steps of `init`,
`doctor` and the pipeline, which themselves may repeat without bound.

Deadlock is not checked: every model ends, as the commands do.

Fairness. `Workbench!FairSpec` lets each process that was started go on: the
runner's steps are bounded by the worker and agent timeouts, and a write of the
ledger waits for nothing. Nobody is obliged to start, to resume or to cancel,
and nothing stops a process from dying. `EvidenceRun!FairSpec` is fair to the
Rust process, which includes its timer; nothing is assumed of the worker, nor that
a wait fails.
`RunEnds` therefore covers a worker that hangs. `Crawl!FairSpec` lets the crawl
go on: connect, read and write end by themselves or by their timeouts, and it
waits for nothing else. The other models claim safety. `publication` and
`setup_policy` need none: a command may stop anywhere, and nobody has to start one.

## Where the code and its documents disagree

The first three have a run that is expected to find the violation.

* **A wedged directory** (`out_dir.rs:189`). Cleaning removes the manifest in
  whatever place `read_dir` lists it.
* **A pass without evidence** (`standards.rs:361`). Criteria decided by axe pass
  by default in an error packet that has no page.
* **Exit 0** (`standards.rs:332`). A reflow overflow fails a scripted check
  without a finding, and only findings reach the exit code.

The others were met while modelling. The statement that holds is checked instead.

* **A lost cancellation** (`workbench.rs:634`). `write_workbench_job` merges the
  ledger it read and renames over the one that is there. A cancel between the
  two is overwritten although its receipt says cancelled, where
  `workbench/tests.rs:39` says that writes of the same generation preserve it.
  What holds is `CancelSurvivesFreshWrites`: a cancellation is kept by every
  write that was merged from it.
* **The call budget** (`review.mjs:487`, `598`). The rejudging request is given
  the whole budget of its unit, and unreadable answers are not charged, where
  `docs/verification.md:268` speaks of one call budget. What holds is
  `ChargesWithinOneRetry`, and that a packet whose counts disagree is never
  promoted (`PromotionIsAudited`).
* **A complete half** (`out_dir.rs:189`). The same order of removal can leave a
  `complete` manifest over half of a run's files, where `README.md:86-89` says
  that a crashed run stays visible. What holds is the second half of
  `VerifyTellsOneExit`: what is left is of one run.
* **Published unfinished** (`publication/summary.rs:111`). Nobody looks at the
  manifest of the verification, so the report of a run that died after writing it
  can be published. What holds is `IsPublicRecord`: it was written in full.
* **Doctor's advice** (`worker_runtime.rs:421`, `432`). With the model off, doctor
  says to set a key and rerun `allie init --force` to pick it up; but a manifest
  that any init wrote has a `model:` section, and `--force` preserves it
  (`consumer.rs:212`), off as it is. `ChoiceIsKept` is the behaviour of the code.
* **Doctor's model check** (`worker_runtime.rs:374`) promises to say whether
  the review will run. It is satisfied by an enabled policy with an empty
  allowlist, which every run refuses, and looks for the first preset's key also
  when the provider is another.
* **Targets that only doctor reaches** (`discovery/live.rs:93`). The validation
  (`lib.rs:706`) and doctor (`worker_runtime.rs:308`) take any address, and doctor
  fetches it; discovery takes plain http only, without a user and with a port that
  is a number. `README.md:64` owns to the http part; that doctor is the preflight
  (`docs/plans/018-adoption-trivial.html:44`) does not hold for these targets.
  `HealthyMeansRunnable` excepts them by name.
* **A worker nobody waits for** (`worker.rs:450`). When the wait itself fails the
  worker is neither killed nor awaited, unlike after the timer. What holds is
  `LateAnswerIsNotUsed`: nothing that it still writes reaches the packet.
* **Killed inits** (`consumer.rs:212`). `--force` must not flip a model that was
  switched off; after an init that died at its write the section is gone, and the
  next one scaffolds afresh. `ChoiceIsKept` excepts that death.
* **Cells** (`discovery.rs:606`). The map's crawl is not the run's, so a state
  that was captured may have no cell, where `docs/evidence-contract.md:193`
  speaks of a cell for each captured state. What holds is
  `HiddenFailIsBlocked`.
* **Silent refusals** (`discovery/live.rs:31`). An answer that is not 2xx is
  passed over like an asset. If it is the start route, discovery is empty and
  has no diagnostic, where `docs/evidence-contract.md:110` wants live crawl
  failures recorded. `MissesAreAccounted` excepts these routes by name.

## Proofs

Each component has a proof module. A theorem holds for every value of the
constants that satisfies the named assumptions of the component's module; TLC
evaluates the assumptions in every run. Most of them say what the constants are,
and that a marker (`NoJob`, `Nothing`, `Torn`, `NoManifest`) is none of the values
that it marks the absence of. Those that say something of the code:

* `Workbench!ProcessAssumption`: a process runs one command.
* `OutDir!NamesAssumption`: no output has the name of the manifest
  (`out_dir.rs:48`) or of a temporary file (`lib.rs:1851`, a hidden name with the
  process id), and nobody drops a file of these names.
* `AgenticReview!ReviewAssumption`: a surface is reviewed once, and a criterion is
  in one batch: the gateway cuts one list into slices.
* `EvidenceRun!CriteriaAssumption`: a page whose mobile audit did not run has an
  error on record, and the rule that is trusted there did not pass.
* `Verify!SiteAssumption`: a manifest lists at least one state, and a profile has
  at least one criterion, as the one that allie embeds has
  (`profiles/wcag22-aa.json`). An empty profile would pass every map.

| Module | Theorem | Property of the runs |
|---|---|---|
| `WorkbenchProofs` | `TypeCorrect`, `CancelIsKept`, `RunningStaysUnfinished`, `ClosedJobsAreWhole`, `ReceiptsStand`, `LogIsAhead` | `TypeOK`, `CancelSurvivesFreshWrites`, `RunningIsUnfinished`, `ClosedJobIsWhole`, `ReceiptStands`, `LogAheadOfLedger` |
| `OutDirProofs` | `TypeCorrect`, `ForeignSurvives`, `WritesAreClaimed`, `CompleteMeansOneRun` | `TypeOK`, `ForeignIsUntouched`, `WritesUnderOwnClaim`, `CompleteIsOneRun` |
| `EvidenceRunProofs` | `TypeCorrect`, `PagesStand`, `LateAnswerIsLost`, `CompleteHasPacket` | `TypeOK`, `PagesDecide`, `LateAnswerIsNotUsed`, `CompleteIsPublished` |
| `AgenticReviewProofs` | `TypeCorrect`, `BudgetHolds`, `PromotionsAreEarned`, `PromotionsAreAudited` | `TypeOK`, `ChargesWithinOneRetry`, `PromotionIsEarned`, `PromotionIsAudited` |
| `VerifyProofs` | `TypeCorrect`, `ExitZeroIsEarned`, `FindingsReachRows`, `PassStandsOnCaptures`, `HiddenFailsBlock` | `TypeOK`, `GreenIsEarned`, `MappedFailIsReported`, `GreenIsCovered`, `HiddenFailIsBlocked` |
| `CrawlProofs` | `TypeCorrect`, `NothingGoesMissing`, `BudgetReportIsExact`, `ImplementsSurvey` | `TypeOK`, `MissesAreAccounted`, `BudgetIsReported`, `IsSurvey` |
| `PublicationProofs` | `TypeCorrect`, `OneExitIsTold`, `WordIsKept`, `ImplementsPublicRecord` | `TypeOK`, `VerifyTellsOneExit`, `WordMatchesDirectory`, `IsPublicRecord` |
| `SetupProofs` | `TypeCorrect`, `RequestsKeepToPolicy`, `JudgesAgree`, `HealthyRuns`, `ScaffoldsAreUsable`, `ChoicesAreKept` | `TypeOK`, `CallsWithinPolicy`, `GatesAgree`, `HealthyMeansRunnable`, `ScaffoldIsUsable`, `ChoiceIsKept` |

Few of these properties are inductive. What is added to them, and why:

**Workbench.** `TypeOK` alone fails because closing a job writes the status in
`ending`, which may be `"none"`; `EndingKnown` adds that it is a final status
whenever a runner is about to close. `RunningIsUnfinished` needs the packets in
memory to be unfinished by place (`CarriedUnfinished`), which is what a merge
needs. `ClosedJobIsWhole` needs to know which write a process is in and what its
packet is then (`Placed`), and that the packet has a record for each step gone
through (`Tracked`); both speak of one process, so that a step of another leaves
them alone (`OthersStay`). `CancelIsKept` needs no invariant but the types: only
`RenameLedger` changes the ledger, and what it writes is a merge from the ledger
that was read (`MergeKeepsCancel`).

Two theorems have a hypothesis on the processes, because without it they are
false of the code. `ReceiptsStand` assumes one start and one resume: two runners
of a kind write the same generation (`resumes` is read, increased and written
without a lock), and the later overwrites what the earlier reported. `Generations`
then says whose generation each packet is of. `LogIsAhead` assumes one start: the
check that there is no job yet (`workbench.rs:440`) and the creation of the log
are two accesses, so that a second start truncates the log under the first one's
ledger. With one, `LogHolds` says that the ledger, every packet in hand and every
packet merged from has its lines in the log; resumes and cancels only append, and
there may be any number of them.

**OutDir.** `ForeignIsUntouched` holds because no run gets past its look at a
directory that is no run's: `Kept` says so of each run by place, and needs nothing
of the others, so it holds of overlapping runs too. The other two are about runs
that do not overlap. `Surroundings` says what a run has around it by place (while
it cleans, what is left of others is on its list; from the claim on there is only
what it wrote and what a user dropped) and `TempsAreRuns` that a temporary file is
never taken for a user's.

**EvidenceRun.** `IInv` says of the reply that the packet is built from that it is
the error response or the worker's over every state (`RepliesStand`), that past
the wait a wait that failed is on record, or the worker is over and so is its kill
or failure (`WorkerIsOver`),
that the packet is the one of the reply (`PacketStands`), and when the directory
can be complete (`Finalized`). `PagesDecide` follows by computing the packet.

**AgenticReview.** The budget is part of the types (`Budgeted`): a unit looks again
once, on the rest of its budget, so its calls exceed the limit by at most one.
`ReplyIsFinal` says that a reply tells what was sent and what each surface got,
and that the gateway does nothing after it; `FileStands` says by place what is in
`evidence.json` and in memory: the packet of the run, torn, or the packet with
what an accepted reply adds. The promotion properties are facts about `Promoted`.

**Verify.** `IInv` says what each step hands to the next: what is there at which
step (`InOrder`), that a packet that is no error captured the whole plan and that
its status and verdicts know each finding (`PacketStands`), that the report is
that of the packet but for waivers attached since (`ReportStands`), and that the
release is of the packet (`ReleaseStands`). The rest is the aggregation:
`RowIsWorst` (a failed cell fails its row; a row that passed has no cell that did
not), `CellIsEarned` (a cell that passes is of a captured state), `ColumnsAre` and
`SurfacesAre` (a surface that the manifest knows has the name of one of its
states, whichever of them came last). `MaxIsGreatest` and `MinIsLeast` give the
two choices their meaning, from the well-foundedness of `<`.

**Crawl.** A finished crawl alone says nothing of how it got there, so `IInv` adds
where things come from (`Sources`: the queue holds seen routes, `todo` named
ones), what has been done with them (`Fetched`: a seen route is queued or has an
outcome, and the outcome left its trace) and what the flag means before the report
is written (`Budgeted`: until it is set nothing named is dropped; once it is set
there is no room, and a named route was not seen, for good). The refinement needs
`Once` besides: the queue has no duplicates and only routes that were not fetched,
so that a fetch settles a route that was not settled. `StepIsOfSurvey` maps each
action to one of `Survey` or to a stutter.

**Publication.** For each command `Place` says by place what is in its directory:
while it cleans, what is there is on its list; while it writes, the files before
the next one are whole and say what this run says, and those after it are absent.
`VerifyHolds` adds that a complete directory is what one report says or what a
cleaning has left of it; `PublicHolds` what each word is worth, that what is shown
and what is about to be written was issued, and that a receipt vouches for what
lies beside it: a run that writes one found its directory empty. Each run of a
command starts from what any crash left, so the invariant is that of any number of
runs. The refinement (`StepIsOfRecord`) follows from it: a public report becomes
visible with the last of its three files and disappears with the first that is
removed.

**Setup.** The five properties hold for different reasons and have an invariant
each over the types, which add what `init` and the pipeline have in hand.
`RequestIsLast`: a request ends the pipeline, so that no later step changes the
policy under it. `GateIsForeseen`: when the gate would refuse, the run has already
made the packet an error. `Vouched`: what doctor looked at is still there, and so
is the flow made of it; only the target may still stop the pipeline. `InHand` (for
two): the choice and the scaffold are in the file, or, while `init` has truncated
it, in the manifest about to be written.

Only model-checked: liveness (`CancelStopsTheRunner`, `RunEnds`, `CrawlEnds`),
which the prover does not reach, like `ENABLED` and induction over recursive data;
and the three violations. No module declares a RECURSIVE operator.

## Not modelled

* The agent mapper: an advisory command that `run_map` calls when its surfaces
  are complete, and whose outcome it only records. Review counts, rendering,
  option parsing, clock and git metadata: pure functions or single reads.
* Authentication: `auth.rs` runs one scripted login and writes its storage state,
  input and output of a browser; `Setup` has the variables a login needs.
* Within modelled parts: evidence staleness by age, profile views, redaction
  receipts, the precision gate (the request never carries one), the artifacts
  behind a capture, and the other arms of the feature verdicts, which decide like
  one of the kinds kept; the paths a publication refuses before it touches
  anything and the size limit of its source; the candidate directories of the
  worker scripts.
* Two runs of one command in one directory are in `OutDir` and not in
  `Publication`; an editor that saves while `init` writes is not in `Setup`.
* The pipes of child processes (`worker.rs:474`), below the grain of the models.

## Plan

Done: the eight modules with their two abstract specifications, and a theorem for
every safety invariant, action property and refinement of their runs. Next:

1. An abstract ledger, of which `Workbench` is shown to be a refinement as long as
   no two processes write at once, and the generations of any number of resumes
   that do not overlap.
2. A finer invariant for the two hypotheses of `WorkbenchProofs`: which of the
   ledger's promises survive a second start (`ClosedJobIsWhole` does).
3. `AgenticReview`: that what the review reports as reviewed is what it sent, and
   what a crash between the halves of the packet's write costs.
4. The packet's two writers inside `OutDir`, for the files that appear after the
   directory is finalized.
