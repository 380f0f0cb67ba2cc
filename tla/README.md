# Verification of the IP model automation

This directory holds a TLA+ development of the repository: of the SimPy models
of its four IPs (`src/ip_model_automation/`), of the pipeline that generates
and gates such models (`tools/auto_ip_pipeline.py` over
`harness/ip_generation_loop.yaml`), and of the checks that pipeline relies on. Each module is a translation of the code;
`PROJECT.json` maps its definitions to the lines they stand for, and lists the
runs, the theorems, the hazards the properties are aimed at and the places where
code and documents were found to disagree. Lines are quoted below as
`file:line`.

## The system

| Part | State it keeps | Operations | What makes it hard |
| --- | --- | --- | --- |
| `arbitration_ip.py` | queues per port/tenant/SQ, pending bitmaps, `inflight_sqs`, three levels of bursts, tenant credit, three weighted orders | the host's `enqueue`, `configure_burst`, `set_tenant_credit`, `set_issue_ready`, `query_pending_bitmaps`; the processes `arbiter_main`, `issue_pipeline`, `policy_update`, and one process per slot release | three processes that read each other's state between yields; bitmaps refreshed late; a wake-up event; retries that keep exclusions from pass to pass |
| `completion_ip.py` | pending queues with a depth, tokens and base tokens per axis, the set of eligible tenants, one weighted order | the host's `submit`, `configure_tenant`, `set_tenant_alive`, `credit_tokens`, `set_completion_ready`; the processes `accept_process`, `completion_scheduler`, `refill_process` | a check of tokens long before they are spent; an eligible set kept incrementally; a wake-up event |
| `storage_pipeline_subsystem.py` | an intake queue, a cursor over the arbitration IP's issued trace, the throttle | `submit`, `configure_qos`; `intake_bridge`, `dispatch_bridge`, `backpressure_monitor` | two bridges and a feedback loop through two other IPs; blocking hand-overs |
| `watchdog_ip.py` | two stores, a countdown, an expiry latch | `arm`, `kick`, `disarm`, `configure_timeout`; `watchdog_main`, `config_intake` | a command racing a tick in the same cycle; pending get events |
| pipeline runs | the lock file, the state file of DLD fingerprints | taking and dropping the lock, loading and saving, finding what changed, the repository-wide stages, the exit status | separate processes, killed anywhere; read-then-write files |
| authoring (`auto_ip_pipeline.py`, `dld_to_template.py`, `check_dld_normalization.py`) | up to three files per IP, the stamped pair, the draft, the gaps report, the promoted template | conversion, normalizing, stamping, parsing, promoting, recording | files made from one another and edited in any order between runs |
| fidelity and template gates (`check_dld_normalization.py`, `check_template_coverage.py`, `template_lint.py`) | none | comparisons of two texts, or of a text and a template | six checks with different notions of a word, meant to be exact together |
| declared-transition check (`check_declared_transitions.py`) | the record of all instances a test run constructs | wrapping constructors, recording each state that is set, comparing with the template, filing findings | time is measured per instance, recorded per run |
| stage engine | the files of one IP, verdicts cached in a run, review worktrees, findings, dismissals, stamps | nineteen stages: tools, agents with gates and attempts, isolated reviews; and the author's edits, commits and dismissals in between | a long protocol between a person, agents and gates, over snapshots and hashes |

The subsystem calls `enqueue` and `set_issue_ready` of the arbitration IP, reads
its `issued` trace, calls `submit` and `configure_tenant` of the completion IP
and reads its `pending` queues. The engine calls everything else by subprocess:
for it a tool is a verdict, and perhaps a write.

The models run in SimPy: one process at a time, uninterrupted from one `yield`
to the next. A yield is therefore where the modules cut a process into actions;
between two yields a whole handler is one action. `arbitration_ip`,
`completion_ip` and `storage_pipeline_subsystem` are modelled without a clock:
every order of wake-ups is allowed, which covers every choice of latencies (they
are constructor parameters) and of the host's timing. The watchdog is about
cycles, and keeps them.

`tools/` also has generators, renderers, reports and CI drivers. `PROJECT.json`
lists them one by one.

What makes each part correct, and where it could fail:

- Arbitration: a queue is granted to one selection at a time, never on a bit that
  outlived its commands; commands leave a queue in order; no burst is overspent;
  the arbiter neither sleeps over work nor spins without any; all that may be
  issued is issued.
- Completion: the incremental eligible set is exact; what is debited is there and
  pays for the command popped with it; a tenant's commands complete in order, and
  in the end.
- Storage pipeline: nothing is lost between the two IPs, and back-pressure from
  both ends never locks them against each other.
- Watchdog: it expires when the host has been silent for the whole timeout, not
  before; the latch goes by DISARM only; no command waits for ever or vanishes.
- Pipeline runs: one run at a time; what is on record was run; what was edited is
  processed in the end, whatever dies on the way.
- Authoring: whoever edits which file when, an IP that a run leaves alone is
  faithful to its author's document and was reviewed; the fidelity gate refuses
  loss and lets change of shape through; nobody's notes vanish.
- Transition check: what it reports as never occupied is so, and a person who
  rules on its findings is done with them.
- Stage engine: "complete" is true of the files; a review is of what is in the
  tree; a dismissal clears only what was read; no IP waits for what cannot come.

## Modules

| Module | Models | Checked by |
| --- | --- | --- |
| `WeightedOrder` | `common.WeightedOrder`: `scan` and `advance_to_after` over an order and an index | in the two below |
| `Arbitration` | `ArbitrationIpModel`, all processes and host calls | `MCArbitration` |
| `GrantedQueues` | abstract: queues whose commands leave in order, a granted batch at a time | as `PromiseKept` |
| `Arbitration_proofs` | theorems about `Arbitration` | the prover |
| `Completion` | `CompletionIpModel`, all processes and host calls | `MCCompletion` |
| `CompletionService` | abstract: one acceptor, one server, queues per tenant | as `ServiceKept` |
| `StoragePipeline` | `StoragePipelineSubsystemModel` over `GrantedQueues` and `CompletionService` | `MCStoragePipeline` |
| `Watchdog` | `WatchdogIpModel` in real cycles, with SimPy's stores and get events | `MCWatchdog` |
| `PipelineRuns` | runs that share a checkout: lock, state file, crashes | `MCPipelineRuns` |
| `StageEngine` | one IP's way through the stages, with its author and its reviewers | `MCStageEngine` |
| `DldDocument` | a DLD as `dld_to_template.py` reads it, and the draft made of it | through `Authoring` |
| `Normalization` | the checks of `check_dld_normalization.py` | through `Authoring` |
| `TemplateGates` | strict coverage and lint of a promoted template | through `Authoring` |
| `Authoring` | one IP's documents, stamp, draft, report and template over runs and edits | `MCAuthoring` |
| `TransitionCheck` | recorded states against declared transitions, occupancy, findings | `MCTransitionCheck` |
| `TransitionCheck_proofs` | theorems about `TransitionCheck` | the prover |
| `PipelineRuns_proofs` | theorems about `PipelineRuns` | the prover |
| `Completion_proofs` | theorems about `Completion` | the prover |
| `Watchdog_proofs` | theorems about `Watchdog` | the prover |
| `StageEngine_proofs` | theorems about `StageEngine` | the prover |
| `StoragePipeline_proofs` | theorems about `StoragePipeline` | the prover |
| `Authoring_proofs` | theorems about `Authoring` and the gates it computes | the prover |

Definitions headed "Fault:" are not part of a specification. Each is a form a
mapped definition would take with a plausible mistake in it, and is used to
confirm that the property guarding that definition notices.

### Arbitration

A command is a number in its queue. `arbPc`, `pipePc` and `policySq` are where the
three processes are suspended; `handoff` and `policyQueue` are the two SimPy stores
between them; `slot` the capacity-one issue port, and `releasing` the process
that frees it. `pending` is the *recorded* queue bitmap, from which the code
derives the tenant's and the port's bits in the same sweep. It is refreshed
where the code refreshes it (the arbiter's IDLE, the pipeline's
UPDATE_BURST, a host query) and stale everywhere else; `dirty` is `bitmap_dirty`.
The arbiter's suspension at `_arbiter_wake` is `arbPc = "ASLEEP"`, and `woken`
says that the event was triggered. A refresh of the bitmap costs time, so
`Enqueue` may fall into it; the model has that window. The four credit axes of a
tenant are one bit: the code only asks whether all are above zero.

Bounds: `Workload` (commands per queue), the values the host sets a burst to,
and whose bursts, credit and readiness it drives. A queue of two commands and one
of one, under tenants that share a port, are enough for a queue to be claimed while another is scanned, for two
unequal weights to meet, and for a batch smaller than its
queue.

### Completion

Tokens are checked at CHECK_TOKENS and spent after an output stall of any
length; `eligible` is the incrementally kept set, compared by
`EligibleSetIsCurrent` with its definition. The script of `MCCompletion` has a
kind that charges one axis twice as much (so that a tenant may be eligible and
unable to pay), one that charges nothing, and a tenant that is not in the
constructor's weights. With a `Depth` of 2 its third command makes the accept
process block.
`ShortGrants` says whether a host call may set a bucket so that it, or a refill
after it, lowers what a tenant has.

`refill_process` is `RestoreBaseTokens` alone: what it does before and after is
to measure.

### StoragePipeline

The two IPs appear as what they are shown to implement: `GrantedQueues` (proved
for every instance, `PromiseIsKept`) and `CompletionService` (proved likewise,
`ServiceIsKept`). Their calls are those modules' actions: `ForwardToArbitration` is
an `Enqueue`, `ForwardToCompletion` a `Submit`. `issueReady` gates `ArbIssue`;
`willing` stands for a tenant being alive with tokens for its head command, which
a QoS configuration can take away or restore. Two commands
for one queue and one for another tenant's, with a limit and a depth of one, throttle
and block on both sides in every order, while one tenant's budget is reconfigured
and the output's readiness moves.

`NothingLostOrOvertaken` reads the way of one queue's commands as nine stations,
from the completed trace back to the host's entries. A station's content is the
sequence it is in the code, with 0 where another queue's command stands, since
tenants and queues share most of them.

### Watchdog

Here time is modelled: `Cycle` lets one cycle pass when every event of the
present one has been handled, and timers fire in it. The store's hand-over to a
waiting get event (`got`) is a step of its own from the process noticing
(`raced`, `TakeArmed`, `TakeTick`), because within one cycle SimPy runs them as
separate events, in either order. `reload` and `age` are history. Four commands
and a reconfiguration with timeouts 0, 1 and 3 reach every pair of commands
in every state at every distance from the last tick.

### PipelineRuns

Each process step is one file operation. `write_text` truncates and then writes,
which is two steps with `Torn` in between, and a kill may fall anywhere. A lock
without a pid counts as stale, a state file that does not parse as empty, as in
the code. A DLD is a version number; the chain over one IP ends in a record or
not, and may rewrite the DLD by normalizing it. Two processes, two IPs, two
versions and two deaths let a run die while another waits to start, with both
files torn. A death is a kill, which leaves the lock, or an exception, which runs
the `finally` clause of `main`; `MaxCrashes` bounds both together.

`Staggered` keeps two runs from being between the check and the write of the
lock at once: `runs` shows what the lock gives to runs that are not started
together (for those that are, see the further divergences). Two repository
stages, one of them optional, are enough for a failure that is passed over, one
that ends the stages, and a pass. A run's end is its exit status, and none when
it was killed.

### StageEngine

Files are abstracted to what the engine sees of them: existence, whether git
knows them, whether they differ from HEAD, which content gates pass on what they
hold, and whether a review, a stamp or a baseline has their present hash. `Write`
invalidates all of these at once and chooses the new verdicts freely, so an agent
may produce anything. The stage list is that of the YAML file in order, with its
conditions, gates, attempts and `awaiting_human` flags. The model and its tests
are one artifact: every gate and review that reads one reads the other. A review
is found to have at most one finding, numbered by one of `NextIds` (of several
ids with the highest number the code takes whichever a set yields first); two
numbers are enough to forget one and give it again. With `Emits` the author also
files what the transition check finds, as T1, T2, ...

### DldDocument, Normalization, TemplateGates, Authoring

A document is its sections in order, with what its heading is to the extractor,
the states and wait model stated in it, and its words as sets: plain words,
words in backticks, measurements (a number with its unit), words of blocking
language, dotted names with the words they join. That is what the tokenizers of
`check_dld_normalization.py` tell apart; which string is which kind of word, and
Word's XML, are given by constants. Shares (0.6 of a block, 0.3 of a section) are
compared as integers. `GateErrors` is `check_ip` without the stamp, check by
check; `BuildDraft` is `build_draft` for the fields that gates and reviews read;
`Coverage` and `SemanticErrors` are the template's gates.

`Authoring` has the three files an IP may be present as, and the run as a program
counter over the stages up to the promoted template; the rest of the chain
passes or not. Each stage that may stop does so by `Stop`, which also covers
failures and kills. The author, the reviewer who stamps and whoever writes into
the report act between runs. A hash is told by the text it is of.

`GateIsExact` is about the pair a run accepts: `Inexact` holds of a pair if some
change of shape of its normalized text is refused, or some damage accepted. How
far words can tell is part of what these are:

- `Reshapings`: the sections reversed, the code marks removed, and the headings
  replaced that are neither FSM's nor interface's (`FreeHeadings`) - unless one
  is the only place of a word the gate heeds, or holds most of one of the
  author's blocks;
- `LostWords`: a measurement or a name taken out wherever it stands, a dotted
  name excepted, which its parts may still ground;
- `RetypedMeasures`: one mention of a measurement made one nobody stated;
- `InventedStates`: a state whose name the author has nowhere;
- `MovedStates`: a state moved between two FSMs whose states both sides list;
- `LostFsms`: an FSM turned into prose - the only one just if no count is stated
  (see the further divergences);
- `InventedWaits`: a wait model in a section all of whose words are in a section
  of the author's that says nothing of waiting, and whose heading is more like
  that section's than like any that does (`IsMadeOf`);
- `LostParagraphs`: a paragraph gone of which a third of the words are nowhere
  else and no other block has half (`IsApart`).

`MCAuthoring` has a DLD in three versions: one that says little,
one that adds states and a wait model, one that adds an FSM and changes a timing;
each as Word, as the author's markdown and normalized, with one wrongly
normalized text. Two edits reach every order of versions across two files.

### TransitionCheck

A test constructs instances in an environment of its own, whose processes set
states while the clock advances; `SetState` is `RecordingState.__setitem__`, and
the record is one for all tests of a run. `held` and `rested` are history:
what held while a clock moved, and where instances ended their tests. Two
instances, in one test or in two, with three states, four settings and tests of
two cycles reach an instance that leaves a state another rests in, a state set
and left within a cycle, and one left in a later test at an earlier time than it
was set in a former.

## Runs

Passing runs, with their distinct states on the instance of their `.cfg`:

| Run | Instance | States | Checks |
| --- | --- | --- | --- |
| `arb_safety` | queues of two and one, bursts of two, of which the host replenishes the device's, one queue's and its tenant's, a tenant whose life and credit move | 268,922 | `ClaimsAreExclusive`, `GrantsHaveWork`, `NoLostWakeUp`, `IssuedInOrder`, `RequestIsCovered` |
| `arb_live` | bursts of two, credit and readiness that move and settle | 26,840 | `SearchSucceeds`, `IdleIsQuiet`, `EventuallyIssued`, and `PromiseKept`: `GrantedQueues` is implemented |
| `cpl` | the script above, depth 2, every host call | 140,146 | `EligibleSetIsCurrent`, `NoLostWakeUp`, `SelectedHeadIsStable`, `TokensNeverNegative`, `SpendsOnlyWhatItPops`, `EventuallyCompletes`, and `ServiceKept`: `CompletionService` is implemented |
| `stp` | limit 1, depth 1, a QoS request, a readiness that moves | 226,120 | `NothingLostOrOvertaken`, `PipelineDrains` |
| `wdg` | four commands, a reconfiguration | 86,480 | `NeverExpiresEarly`, `LosesOnlyAtExpiry`, `AckMeansEffect`, `ArmedEnds`, `QueueIsServed` |
| `runs` | two processes, two IPs, two deaths, two repository stages | 118,340 | `LockIsHeld`, `CopyIsCurrent`, `RecordedWasRun`, `EditsAreProcessed` |
| `eng_safety` | an author document, an agent command, tools that hang, edits between runs, reviews by hand | 2,003,492 | `CachedVerdictsStand`, `CompleteMeansAllHold`, `OnePath`, `NothingClearedUnread`, `ReviewsWhatIsThere` |
| `eng_live` | a DLD in the extractor's shape, no agent command, dry runs, reviews by hand, findings filed by the transition check | 16,992 | `EventuallyComplete` |
| `dld` | the three versions above, two edits, one note, dry runs | 2,983,038 | `GateIsExact`, `UnchangedIsFaithful`, `RecordedWasReviewed`, `PromotedFsmsAreTheDlds`, `LastNoteIsKept` |
| `tc` | two instances, three states, ten templates | 41,623 | `OccupancyIsMeasured`, `RulingSettles` |

A module's type invariant is a conjunct of one of its invariants
(`SelectedHeadIsStable`, `NothingLostOrOvertaken`, `NeverExpiresEarly`,
`CopyIsCurrent`, `CachedVerdictsStand`, `LastNoteIsKept`,
`OccupancyIsMeasured`); that of `Arbitration` is proved.

`CHECK_DEADLOCK FALSE` stands in every configuration because every workload is
finite: a system that has nothing left to do stops. That nothing stops too
early is the liveness properties' subject.

Runs that are expected to fail each check one statement of a document or comment
and show how the code departs from it. `PROJECT.json` quotes the statements.

| Run | Counterexample |
| --- | --- |
| `run_gate` | a required repository-wide stage fails, and the run exits 0 |
| `eng_emit` | the transition check overwrites a reviewer's findings, whose ids it takes for its own |

### Further divergences

Modelling met more places where a document says other than the code does. They
are not listed runs; each shows when the formula is added to the module and the
constant set as given.

| Where | What the code does | Formula |
| --- | --- | --- |
| `completion_ip.py:447` | a refill during an output stall restores less than was checked, and the debit goes below zero, against the comment at `:442-444` | `TokensNeverNegative` of `MCCompletion.cfg` with `ShortGrants = TRUE` |
| `watchdog_ip.py:179` | a command that arrives in the step of the last tick is neither done nor acknowledged, against `dlds/watchdog_ip_dld.md:66` | `Missing = {}` |
| `auto_ip_pipeline.py:164` | two runs started together both pass the lock's check before either writes it, against `:150` | `LockIsHeld` with `Staggered = FALSE` |
| `harness/ip_generation_loop.yaml:141` | an IP with an author document that was promoted without a model review waits at `check_review_findings` for one no run can reach | `EventuallyComplete` with `SrcDld = TRUE`, `AgentCmd = TRUE`, `ByHand = FALSE` |
| `auto_ip_pipeline.py:1296` | a DLD edited and edited back has the recorded fingerprint: the template a run promoted in between, and then did not complete, is left standing | `~IsChanged(DiscoverDldSource) => TemplatePasses` of `Authoring` |
| `arbitration_ip.py:765` | a burst lowered by `configure_burst` between the calculation of a request (`:712`) and its debit leaves the request larger than the burst | `RequestIsCovered` with `LowersBurst = TRUE` |
| `arbitration_ip.py:707` | the pending count on record is read two latencies before the count that is issued, and may be the smaller | `pipePc = "UPDATE_BURST" => issueCount <= pendingCount` |
| `storage_pipeline_subsystem.py:220` | a sample is applied a cycle later: readiness is withheld at times with the backlog already below the limit | `~issueReady => Backlog >= Limit` |
| `watchdog_ip.py:150` | a kick takes over a timeout configured while armed, which `templates/watchdog_ip.template.yaml:190` rules out | `[][armed /\ armed' => reload' = reload]_vars` |
| `watchdog_ip.py:165` | an ARM while armed drops the tick under way, and the countdown misses a cycle | `mainPc = "ARMED" /\ timer = "set" => countdown + age = reload` |
| `auto_ip_pipeline.py:1314` | the fingerprint is taken when the chain has ended: an edit made during it is recorded as processed | `RecordedWasRun` of `PipelineRuns` with `EditsInRun = TRUE` |
| `auto_ip_pipeline.py:1211` | a dry run executes the tool stages that write, `generate_scaffold` and `stamp_provenance` among them | `[][dry /\ pc # "IDLE" => UNCHANGED files]_vars` with `DryRuns = TRUE` |
| `auto_ip_pipeline.py:1078` | the run after one that scaffolded and stopped sends the bare scaffold to `amend_implementation` | `[][pc' = "AGENT" /\ pc # "AGENT" /\ Stage[at].name = "amend_implementation" => ~bare]_vars` |
| `generate_model_scaffold.py:242` | a model written after the run's snapshot is replaced by a scaffold | the second part of `OnePath` with `EditsInRun = TRUE` |
| `auto_ip_pipeline.py:834` | a finding's id is given again when its review was overwritten before anybody dismissed it | `[][\A k \in Kind : (review'[k].ids \ review[k].ids) \cap used = {}]_vars` |
| `dld_to_template.py:779` | every kept report goes to one fixed name: the next one replaces the notes kept before, against "Never destroy someone's writing" (`:780`) | `1 .. notes \subseteq report \cup kept` with `MaxWritings = 2` |
| `auto_ip_pipeline.py:300` | the conversion of a Word document overwrites what was edited into its markdown, in dry runs too | `[][dry => UNCHANGED src]_vars` of `Authoring` |
| `check_dld_normalization.py:392`, `:401` | FSMs dropped or renamed are objected to only if the normalized DLD heads any, and a count is compared with the headings only if there are some: a DLD without FSM headings and with the author's count passes, against `:15` "same FSM name set" | `PromotedFsmsAreTheDlds` of `Authoring` with a `Rewriting` that heads no FSM and states the author's count |
| `check_template_coverage.py:136` | states, waits and timings changed in the DLD leave an old promoted template passing; FSM names and their count alone are compared | `pc = "REST" => Template[template] = Template[md]` |
| `check_declared_transitions.py:189` | one resting state per FSM: the next instance overwrites it, and a state another ended its test in is reported as never occupied | `OccupancyIsMeasured` without `rested` |
| `check_declared_transitions.py:438` | findings are numbered from T1 at each emission: the dismissal of an old one clears another | `NothingClearedUnread` with `Emits = TRUE` |
| `auto_ip_pipeline.py:945` | a commit between the making of the worktree and the comparison with HEAD sends a reviewer the older revision | `ReviewsWhatIsThere` with `EditsInRun = TRUE` |

Others are of the data the modules abstract, or of single lines:

- `check_dld_normalization.py` does not notice added plain prose, or one word of a
  paragraph replaced, though its header speaks of anything "dropped, altered, or
  invented"; `check_state_parity` passes over an FSM whose states one side does
  not list (`:408-441`).
- Its summary drops every error with "stamp" in it, one about a TIMESTAMP
  included.
- `build_fsm_entry` gives an FSM without readable states RESET and IDLE, and
  `transition_exit_gaps` asks nothing about them.
- Emitting findings makes the model review current, so that `review_model` is
  passed over; its hashes are taken when it writes, not when the tests ran.
- `amend_implementation` is passed over when the unit tests pass already, and
  `stamp_provenance` records the model as in step with the template all the same.
- The pending count and the tenant credit that a grant goes by are samples taken
  some waits earlier (`arbitration_ip.py:375`, `:707`), as the template declares.

## Fairness

- SimPy resumes every process whose event has triggered or whose timeout is due:
  weak fairness of each process, in the four models and of `Cycle` in the
  watchdog. Nothing is assumed of the host. Where a property needs a host that
  stops interfering or keeps allowing, the property says so itself as its
  premise (`CreditSettles`, `AliveSettles`, `AllServed`, an output that comes to
  stay ready).
- In `StoragePipeline` the abstract IPs take steps that the detailed ones were
  shown to take: a queue with commands is granted (weakly fair), and issues if
  readiness comes back again and again (strongly fair; in `Arbitration` the
  pipeline holds the selection and retries each cycle).
- In `PipelineRuns` somebody keeps starting runs and now and then names no IP, so
  that the run looks for what changed; a run that neither dies nor waits goes on
  to its end; and a chain that is run over and over on an IP passes at some time
  (strong fairness: most of its outcomes are failures or requests). Deaths are
  bounded in number, not excluded by fairness.
- In `StageEngine` an agent that is dispatched again and again at some time
  satisfies its gates, a reviewer at some time writes a review that can be read,
  and the author commits, dismisses and stamps when that is what is missing.
  Without any one of these no IP would ever be complete, and the documents ask
  for no less.

`Authoring` and `TransitionCheck` have no liveness of their own: that an IP gets
through its stages is `StageEngine`'s.

## Proofs

`TransitionCheck_proofs` proves for all FSMs, states, templates, instances and
bounds, from `CheckAssumption` alone:

| Theorem | Property | Along |
| --- | --- | --- |
| `ReportIsMeasured` | `OccupancyIsMeasured` | `HeldIsRecorded`: what was held is observable, or where an instance rested, or an instance is in it since before now; `RecordedWasHeld`: what is observable was held, or constructed; both over `Instances`, that an instance without a time of entry is where its constructor put it |
| `RulingsSettle` | `RulingSettles` | a transition that stays undeclared leaves a state that had no exit, and no ruling gives that state one |

Neither half is inductive alone: that a state is observable once it has been left
needs the time at which it was entered, for every instance that is in it.

`Arbitration_proofs` proves for every topology, workload, weighting and choice
of what the host drives, from the assumptions `TopologyAssumption`,
`OrderAssumption` and `HostAssumption` alone:

| Theorem | Property | Along |
| --- | --- | --- |
| `TypeCorrect` | `TypeOK` | inductive as it stands, one lemma per action; `CountIsBacked` is carried with it |
| `ClaimsExclusive` | `ClaimsAreExclusive` | a selection is in exactly one of the arbiter's hand, the store or the pipeline, and the claim set holds just these |
| `GrantsFindWork` | `GrantsHaveWork` | `BitsAreBacked`: a set bit of an unclaimed queue is backed by a command, because only the holder of a claim pops its queue, and the bitmap is refreshed in the same step in which the claim is released |
| `WakeUpsAreNotLost` | `NoLostWakeUp` | `CleanBitmapIsComplete` and `SleepsOnCleanBitmap`: unless an update is due the bitmap misses no command, and the arbiter never sleeps unwoken on a bitmap that is due one |
| `RequestsAreCovered`, `BurstsAreNotOverspent` | `RequestIsCovered`, `BurstNeverOverspent` | from the calculation to the debit nobody else lowers a burst; assumes `~LowersBurst`; the first of the further divergences shows that it must |
| `QueuesKeepOrder`, `IssuesKeepOrder` | `QueueIsSuffix`, `IssuedInOrder` | a queue holds the successive numbers that follow the issued ones |
| `PromiseIsKept` | `PromiseKept` | refinement of `GrantedQueues`: a queue's stage is `granted` while it is claimed and not yet issued from; every other step stutters |

`GrantsHaveWork` is not inductive by itself: that a selected queue is not empty
depends on the bit having been backed when it was selected, and on every path
that empties a queue being one that holds its claim. Hence `GrantInv`, which
joins the claims, the bits and the contents of the queues. TLC checked each
strengthening as an invariant before it was proved.

`PipelineRuns_proofs` proves for any number of runs, IPs, contents, deaths and
repository stages, from `RunsAssumption` and what each theorem assumes of the
switches:

| Theorem | Property | Assumes | Along |
| --- | --- | --- | --- |
| `LockHeld` | `LockIsHeld` | `Staggered`, `~Forces` | `LockInv`: at most one run is between the check and the write, and once it is past the check nobody is inside; so whoever writes the lock, or drops it at its end, takes it from nobody |
| `CopyHeld` | `CopyIsCurrent`, with `TypeOK` in it | the same | only the run inside touches the file; a torn file is no record, so what it saved is what it carries |
| `RecordedWasRunAlways` | `RecordedWasRun` | and `~EditsInRun` | `RanInv`: every copy records only what was run, and a chain's beginning is its DLD's content all along |

The assumptions are the ones the run `runs` makes. Without `Staggered` or
`~EditsInRun` the formulas of the further divergences fail, and `--force-lock` is
there to take a lock from whoever holds it.

`Completion_proofs` proves for any tenants, axes, costs, workload, order and
depth, from `CompletionAssumption` and what each theorem assumes of the host:

| Theorem | Property | Assumes | Along |
| --- | --- | --- | --- |
| `SelectionStands` | `SelectedHeadIsStable`, with `TypeOK` in it | | `HeadInv`: nobody but the scheduler pops, and it waits nowhere with a head it has not got |
| `EligibleSetStaysCurrent` | `EligibleSetIsCurrent` | | each action refreshes just the tenants whose head, tokens or liveness it changes; needs `HeadInv` where a command is queued behind others |
| `NoWakeUpIsLost` | `NoLostWakeUp` | | `SleepsOnEmptySet`: the test and the wait are one step, and a refresh that finds anything wakes whoever waits |
| `TokensStayCovered` | `TokensNeverNegative` | `~ShortGrants` | `TokenInv`: a balance stays below its base, so a refill or a grant never lowers it, and what was enough at the check is enough at the debit |
| `SpendingPops` | `SpendsOnlyWhatItPops` | `~ShortGrants` | the same invariant, action by action |
| `TenantsAreServedInTurn` | (`ServesInTurn`, in the module of proofs) | | `TurnInv`: the pointer is a place of the order, and whoever has traffic is in it; the nearest turn by the least-number principle, and what `scan` and `advance_to_after` make of it in `ScanFindsTheNearest` and `AdvanceLeavesTheNearest` |
| `ServiceIsKept` | `ServiceKept` | | refinement of `CompletionService` along `ServiceInv`: while a command waits to be queued its tenant has room, and a reset comes before anything was emitted |

Without `~ShortGrants` the two about tokens fail, as the first table of the
further divergences says.

`Watchdog_proofs` proves for any timeouts, latencies, commands and
reconfigurations, from `WatchdogAssumption` and `NoneAssumption` alone:

| Theorem | Property | Along |
| --- | --- | --- |
| `ExpiryIsNotEarly` | `NeverExpiresEarly` | `Early`: the countdown and the cycles gone by make up the timeout last loaded, with one to spare while a tick is due or dropped |
| `AcksHaveEffect` | `AckMeansEffect` | `HandFits`: the command in hand is the one the state is about |
| `LostOnlyAtExpiry` | `LosesOnlyAtExpiry` | `Held`: a command is acknowledged, queued, in the pending get or in hand, and each step but the expiry's moves it from one to the next |

`StageEngine_proofs` proves for any number of runs, edits, hangs and findings,
from `EngineAssumption`, `NoneAssumption` and what each theorem assumes:

| Theorem | Property | Assumes | Along |
| --- | --- | --- | --- |
| `VerdictsStand` | `CachedVerdictsStand`, with `TypeOK` in it | `~EditsInRun` | `Stands`: a verdict in hand is true, or its gate is about to run again; `Since`: no verdict is there before the first stage that asks for it, so that no stage's writes reach one it does not ask for again |
| `CompleteIsTrue` | `CompleteMeansAllHold` | the same | `Done`: every verdict is there after the stage that insists on it; at the end of the list nothing is open |
| `PathsStayApart` | `OnePath` | the same | `Snapshot`: what was recorded at the start fits the files until the run itself makes a model, which is after every condition on it that it could upset |
| `ReviewersSeeTheTree` | `ReviewsWhatIsThere` | the same | `Fit`: what is older in the worktree is dirty in the tree |
| `DismissalsClearTheirOwn` | `NothingClearedUnread` | `~Emits` | `NextIdsAreNew`: an id is above every id of either review and every dismissed one |

`CachedVerdictsStand` is not inductive: that stage 8 may rewrite a template
rests on no verdict of a later gate being in hand, and that stage 1 may rewrite a
DLD on the order of the whole list. Which gates a write of each artifact can
upset (`Touched`) and which are in hand at each stage are therefore invariants by
name. With `EditsInRun` the first four fail: an author may edit between a gate
and the report, or commit between the checkout and the dispatch. With `Emits`
the last fails: the transition check numbers its findings from one again.

`StoragePipeline_proofs` proves for any tenants, queues, workload, depths, limit
and choices of the host and the output, from `StorageAssumption` and
`EmptyHandAssumption` (no command is the model value for an empty hand) alone:

| Theorem | Property | Along |
| --- | --- | --- |
| `NothingIsLost` | `NothingLostOrOvertaken`, with `TypeOK` in it | `Whole`: the commands of a queue from its last stations up to the arbitration queue are 1 to `enqueued`, and up to the host's entries 1 to `submitted`; every action takes a number from the head of one station to the tail of the next, and does nothing to the other queues' numbers |
| `BridgeForwardsTheNext` | (`ForwardsTheNext`, in the module of proofs) | the same: the entry the bridge holds is the first of its queue that the IP has not got |
| `MembersDoAsPromised` | (`Arb!Spec /\ Service!Spec`) | each step is one of the abstract IP's or leaves its variables alone, the bridges' because what they have in hand is of the type the member takes |
| `BackPressureIsNoDeadlock` | (`NothingIsStuck`, in the module of proofs) | `OnlyTheIdleAreStuck`: if no process's guard holds, every station but the last is empty, so a queue's way has all it was given at its end (`AllAtTheEnd`), and a backlog of nothing is below the limit, so readiness is back |

`NothingLostOrOvertaken` says that the stations together hold 1 to `submitted`.
That is not inductive: where the abstract IP numbers what it is given, the
number must be the bridge's, so the invariant has `enqueued` in the middle of
the way. The second theorem is what this composition rests on: `Enqueue` of
`GrantedQueues` has a bound on its workload that `enqueue_command` has not, and
it never stops the bridge. The third closes the composition: `Arbitration` was
shown to implement `GrantedQueues` (`arb_live`), `Completion` to implement
`CompletionService` (`cpl`), and the subsystem asks of either only what these
promise. The fourth is what of `PipelineDrains` is safety. Its guards are written
out, as `ENABLED` is beyond the prover; TLC finds each of them equal to the
`ENABLED` of its actions in every state of `stp`. That each process whose
condition holds does move, and so all completes, stays with the run.

`Authoring_proofs` proves for any documents, texts, Word documents, edits, notes
and stamps, from `AuthoringAssumption` and, in the last three,
`DocumentAssumption` (with the assumptions on words of the modules below) but for
the one hypothesis given:

| Theorem | Property | Along |
| --- | --- | --- |
| `TypesAndLastNote` | `LastNoteIsKept`, with `TypeOK` in it | `NotesFit`: a report either is untouched, and then the last note is in the copy, or has that note itself |
| `RecordedPairsWereReviewed` | `RecordedWasReviewed` | `RunFits`: from the stamp's check to the record nothing but the run writes, and it writes neither file of the pair; `DoneFits`: what was recorded was reviewed then |
| `UnchangedIsLeftAloneRightly` | `UnchangedIsFaithful` | `FileFits`: each recorded fingerprint is that of a completed content, taken of the file it is recorded under; `PrintTells`: two contents with one fingerprint, taken of the preferred source, are one |
| `PromotedFsmsAreThose` | `PromotedFsmsAreTheDlds` | the fidelity gate makes the stated count that of the headings, coverage makes the template's count the stated one and has the headings among its FSMs: two finite sets, one in the other, of one size |
| `ShapeIsFree` | | `Restates`: the same sections, in whatever order and with no more code marks; every check is of sets that such a DLD shares with the other |
| `OtherShapesPass` | | `ShapeIsFree`, and for other headings: what the gate heeds of the author's is still said (`RetitledWords`), and a block's words that a free heading had are in the bodies' blocks, so that no share falls (`RetitledAccounting`) |
| `DamageIsNoticed` | | one lemma for each kind of damage, down to the check that objects. For wait models, `BestMatch`: the section matched to words among which are all of another's shares as much of the heading as that other, as shares of finitely many sections are ordered and have a first best (`BestShare`) |
| `FidelityGateIsExact` | `GateIsExact` | the two above: `Inexact` is empty |

`DocumentAssumption` says what any markdown document is: a text of finitely many
words, of which marks are on words of the prose, each section states a wait model
or none, and no two FSMs are headed by one name. TLC evaluates it on the texts of
`MCAuthoring`, where each kind of damage and of reshaping is possible for some
passing pair.

`PromotedFsmsAreThose` assumes that every DLD an author or an agent writes heads
an FSM. Without it the property fails, as the further divergences say: the gate
compares nothing with a DLD that heads none.

Model-checked only: liveness, and that the guards written out for
`BackPressureIsNoDeadlock` are the actions' `ENABLED`. Both are beyond the prover.
Every invariant and every safety action property that a run checks is stated by a
theorem, and so are both refinements. Of the fidelity gate nothing is claimed for
a paragraph stated in other words: that depends on shares of its words, text by
text.

## Not modelled

- The SystemC ports in `systemc/models/`.
- Metrics, logging, traces kept for tests, and the window report of the refill.
- Of `dld_to_template.py`: clocks, commands, scenarios, descriptions, open items;
  how a line of markdown is recognised as what it is. In `StageEngine` the verdict
  on a text is chosen freely; `Authoring` computes it.
- Of the template gates: the JSON schema, the arithmetic of
  `timing_coherence_errors`, `check_subsystem_wiring.py`, `diff_template.py`; the
  search of `check_wait_model_coverage.py` for an assignment in the source text.
- Prompts, cost reports, the XML of `.docx` files, CI, coverage and experiment drivers.

## Plan

In order of importance; the first seven are in place. Every module keeps to
constants with named assumptions, one action per operation and no recursive
operator, so that any of them can be proved about.

1. `Arbitration` and its theorems, over `WeightedOrder`; `GrantedQueues`.
2. `Completion`; `CompletionService`.
3. `StoragePipeline` over the two abstract specifications.
4. `Watchdog` in cycles.
5. `PipelineRuns` and `StageEngine`.
6. `DldDocument`, `Normalization`, `TemplateGates` and `Authoring` over them.
7. `TransitionCheck` and its theorems.
8. The SystemC ports, one module each: they share the SimPy models' abstract
   specifications, so each is checked against the same promise
   (`GrantedQueues`, `CompletionService`) and its own scheduling rules.
   The template diff and the wiring check, as operators over small templates.
