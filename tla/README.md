# A formal model of regis

regis analyzes a container image in a registry: it runs a set of analyzers
(vulnerabilities, SBOM, signatures, metadata and others), evaluates one or more
*playbooks* of rules on their reports, writes a report and ends with an exit code
that a CI pipeline uses as a gate. This directory holds TLA+ models of the parts
of regis where order, failure or concurrency decide whether the result is right,
the TLC configurations that check them, and proofs that TLAPS checks.

Paths below are relative to `src/` of the repository; `commands/analyze.py`
stands for `regis/adapters/driving/cli/commands/analyze.py`.

## 1. The system

### Components, their state and their operations

| Component | State | Operations | Hard behaviour | What makes it correct |
|---|---|---|---|---|
| Tool cache and fetcher (`adapters/driven/tools/fetcher.py`, `cosign.py`) | a cache directory shared by processes: one binary and one lock file per tool, temporary files | `ensure`, `fetch_all`, `status` | threads and processes, crashes between any two file operations, bad downloads | what is served was verified; one install; no file of another fetch is swept; every waiter is answered |
| Shared layout (`tools/caching_tool_runner.py`) | a memo of exported OCI layouts, a lock, temporary directories | `share_layouts`, `generate_sbom`, `scan_vulnerabilities`, `close` | the export runs under the lock; `close` removes what others may read | one export per run; a reader keeps its layout; nothing is left behind |
| Analyzer pool (`core/application/analyze_image.py`, `run`) | futures, the reports of a run | `run` | completion order, failures, a callback that raises, Ctrl-C | every analyzer is accounted for by its own outcome; the run ends |
| `analyze`, `evaluate` commands (`commands/analyze.py`, `run_and_evaluate`) | the report in memory | a normal run, `--cache`, `--rerun`, `evaluate` | the tag moves meanwhile; a report of other flags is reused; order of exit codes | the gate lets only healthy images through; reruns keep the rest of a report |
| Report files (`utils/report.py`, `adapters/driven/report/sarif.py`) | `report.json`, `report.sarif` in a directory per digest | write with a fallback directory | no lock; torn writes; denied directories | a readable report agrees with itself and with its directory |
| Metadata validation (`core/domain/analyzers/metadata.py`) | none | validation against opted-in schemas | derogation, exit code 3 | 3 exactly for a malformed call |
| Rules engine (`core/domain/rules/*.py`, `playbook/context.py`, `playbook/verdict.py`) and the `rules` commands | none: functions of playbook and report | `resolve_rules`, `evaluate_rules`, `breached_slugs`, `build_verdict`, `ruleset_fingerprint`; `rules list`, `show`, `evaluate` | chains of bindings and overrides, missing data, ties, files of two shapes | the last word wins; the gate is explained; the hash pins what is enforced |
| Playbook evaluation (`playbook/evaluator.py`, `conditions.py`, `presentation.py`, `playbook_runner.py`) | keys of the report | `evaluate`, `run_playbooks` | several playbooks write the same keys; the context is a report that was evaluated before | the verdicts in a report are those of its data; a dry run agrees with the analysis |
| Playbook documents (`playbook/loader.py`, `schema_registry.py`, `commands/playbook.py`) | a YAML file that commands rewrite in place | `load_playbook`, `playbook upgrade`, `migrate` | the order of the commands, repetition, a kill as the file is written | a playbook keeps its meaning; what both commands have gone over loads |
| The registry as analyzers see it (`caching_image_inspector.py`, `regctl_image_inspector.py`, `domain/manifest.py`) | a memo and a lock, shared by the threads of a run | manifests, blobs, digests, tags, referrers | one lock across every call; the tag moves; calls fail | an answered question keeps its answer; nobody waits for ever |
| oci and provenance (`analyzers/oci.py`, `analyzers/provenance.py`, `domain/signatures.py`) | a pool inside a worker of the pool; candidates, gaps | the inspection of each platform; discovery and confirmation of signatures | several questions about one tag; lookups that fail halfway; copied signatures | a description is of one manifest; a gap is never a negative answer |
| Registry client (`adapters/driven/registry/client.py`) with `check` | a token | requests with one authentication and one retry after 401, referrers with a fallback | expired tokens, failures in any request | 404 is the only "not there"; `check` tells the truth |
| Credentials and references (`auth.py`, `parser.py`) | none | `resolve_credentials`, `parse_image_url` | six places, half pairs; separators with several meanings | the first complete pair; the registry that is meant |
| Rendering, scaffolding, wiring (`report/html.py`, `presentation_renderer.py`, `commands/{bootstrap,doctor}.py`, `composition.py`) | none | print, render, construct | none | – |

### How they interact

`analyze` resolves the digest of the tag through the registry client, selects the
analyzers and calls `AnalyzeImage.run_and_evaluate`. `run` submits the analyzers
to a thread pool. The cve and sbom analyzers call the tool runner: the
`CachingToolRunner` decorator exports the image once and points both scanners at
the layout; underneath, each tool is made available by `ToolFetcher.ensure`.
The other analyzers ask the registry through one `CachingImageInspector` over
regctl; oci starts a pool of its own, and provenance has cosign confirm what it
finds. Results come back in the order of completion, each one with a progress callback.
When the pool is joined the runner is closed. The reports then become one
dictionary on which every playbook is evaluated by the rules engine; the first
playbook's results are promoted when `--evaluate` is given. The report and, on
request, the SARIF file are written, and the exit code is computed from the
metadata check and the breached rules. `--cache` replaces the analysis by an
earlier report of the same digest, `--rerun` replaces one analyzer's result in
it, `evaluate` evaluates an existing report again.

Shared state, and therefore interleaving, exists at five places: the tool cache
(processes), the layout memo and the inspector's memo (threads of one run), the
report directory (processes, no lock) and the playbook file (a command that is
killed). The registry itself changes under the program: a tag may be pushed and
a signature attached at any moment. `RegistryClient` has a session and a token,
but as wired only the main thread uses it: the workers' `RegctlImageInspector`
takes its coordinates and credentials from it and nothing else.

## 2. The modules

| Module | Models |
|---|---|
| `VerifiedCache` | abstract: a cache that installs a verified tool at most once and answers whoever asks |
| `ToolFetcher` | `ToolFetcher.ensure`, step by step, for any number of processes. Implements `VerifiedCache` |
| `CachingToolRunner` | the layout memo: its state and actions, without a specification of its own |
| `ScatterGather` | abstract: each selected analyzer is settled once; the run returns when all are |
| `AnalyzeImage` | `AnalyzeImage.run`: main thread, pool and the actions of `CachingToolRunner`. Implements `ScatterGather` |
| `AnalyzeCommand` | the commands and the files they leave, for several processes |
| `RuleSet` | the rules engine and the `rules` commands as operators, driven by an author who writes, pins and rewrites playbooks |
| `OneAnswer` | abstract: every question has one answer for the rest of a run |
| `InspectorCache` | the memo over regctl and a registry that changes: state and actions, without a specification of its own |
| `ImageInspection` | oci with its tasks and provenance, as threads that call `InspectorCache`. Implements `OneAnswer` |
| `ImageReference`, `Credentials` | `parse_image_url` and `resolve_credentials` as operators |
| `RegistryAccess` | `RegistryClient` in the hands of `check` and `analyze`, on top of these two |
| `PlaybookDocument` | a playbook as a document; `upgrade`, `migrate` and `load_playbook` as operators |
| `PlaybookEvaluation` | `evaluate`: tier, badges, links, presentation |
| `Playbooks` | the file, its commands, analyses and dry runs, on top of these two |
| `MC*` | the instances TLC checks: definitions for constants, symmetry |
| `ToolFetcher_proofs`, `AnalyzeImage_proofs`, `AnalyzeCommand_proofs`, `RuleSet_proofs`, `ImageInspection_proofs`, `RegistryAccess_proofs`, `Playbooks_proofs` | the theorems about these modules |
| `InOrder` | the laws of a left fold, for any operation: what the loops of `resolve_rules` compute |

Each operator preceded by a comment "Mutant: ..." is a wrong variant of the
operator that follows it. Nothing uses it; putting it in the operator's place
shows that the properties can fail (`mutants` in `PROJECT.json`).

### Correspondence with the code

**ToolFetcher.** `target` is the file at the cache path (content and execute bit),
`lock` the flock on `<tool>.lock`, `partials` and `extracteds` the temporary
files, `pc` the line a process has reached. The first look of `ensure` (without
the lock), the second one under it, `_download`, `_maybe_extract`, the sha256
comparison, `verify_blob`, `extracted.replace(target)`, `chmod`, the `finally`
block with its globs and the release of the lock are one action each, since other
processes can see the directory between any two of them. Failures follow the
code's distinction: a `ToolFetchError` is announced with a `fetch_error` event,
any other exception is not. `Crash` can happen at every step; the kernel drops the
flock, the files remain. Contents are only "the pinned hash" or not.

**CachingToolRunner.** The code keys the memo by image; a run has one image, so
`memo` has one entry. A temporary directory is named after the caller that
created it. `with self._lock` is the conjunct `LockFree` plus, for the step that
stays inside for the length of an export, the variable `lock`. The memo stores
`None` when the export fails in one of the ways the code catches, and nothing
when any other exception escapes.

**AnalyzeImage.** `main` is the position of the main thread, `future[a]` the state
of an analyzer's future. The order in which futures complete is free. The
callback has two positions because the code calls it inside the `try` (for a
success) and inside the handler (for a failure). `Interrupt` is a
`KeyboardInterrupt` delivered to the main thread: before the pool is there it just
leaves the function, in the `with` block it leads to the join, and in the join to
`close`. `InterruptClose` is one that arrives within `close`: what `close` has not
removed, the finalizers of its `TemporaryDirectory` objects remove as the run is
given up.

**AnalyzeCommand.** `store[k]` is `report.json` of directory `k` (a digest, the
tag when the digest is unknown, the working directory as a fallback, or
`evaluate`'s output). `write_text` is two actions: `Open` truncates, `Write` fills;
a text written over a longer one of another process may leave a torn file. The
SARIF file comes after it: each format starts with its own directory again and has a
fallback of its own (`Home`, `Denied`, `WriteSarif`), and any other `OSError`, or a
second denial, ends the command with the files written so far (`Fails`). An
evaluated playbook is the set of rules that are not passed and the set of those
whose data is missing. `EvaluationOf` abstracts the rules engine by what a rule
reads: the refusal of a vulnerable image, and fail-open or fail-closed for
missing data. `RunPlaybooks` writes `rules` once per playbook, so the last one
remains; `Hoisted` promotes the first one's, and only the normal path with
`--evaluate` uses it. `ExitCode` keeps the order of the code's checks.

**RuleSet.** `Instance` and `AsWritten` are the two cases of the first pass of
`resolve_rules`, `Assemble` is the second pass, where a later entry of a key
overrides what it says; `Outcome` is the evaluation with its tracking of missing
data, as which a missing value under `metadata` does not count (`Sources`,
`Optional`); `Breached`, `Failures`, `Incompletes` and `Fingerprint` are the
functions of `breach.py`, `verdict.py` and `fingerprint.py`. A condition compares
one count of one provider with a limit; both the count's severity and the limit may
be in the condition or in the rule's params. A list that the code filters (the rules
that are enabled, here; checklist items, links and templates in
`PlaybookEvaluation`) is the set of the positions that stay, so that an element
keeps its place.

`DeclaredIn` is where the three `rules` commands look for rules: at the top
of a file, which is where `rules.yaml` has them and a playbook does not. `Listed`
knows the three levels of `--filter-level`; `Shown` is the first rule of a slug,
whoever provides it. The gate and the headline of the verdict rank levels with
tables of their own, `Rank` and `SeverityOrder`.

**InspectorCache and ImageInspection.** A digest stands for the content it names;
an index is a sequence of entries with a platform. `Enter` and `Reply` are the two
ends of a `_cached` call whose key is missing; a hit is a `Reply` without an
`Enter`. `RegistryError` is what `run_regctl` makes of an exit code, a timeout or
a missing tool; any other exception (`OSError`: the temporary credentials cannot be
written) passes through, and the `except` clauses of `discover` and `_signatures`
let it pass where those of `_inspect_platform` do not. The position of a thread is
the line at which it asks; the steps of `_inspect_platform` are numbered as in the
code. A task of the nested pool that waits for one of its ten workers is one that
has not made its first step. `Confirm` takes the claimed signers in any order, as
the code iterates over a set, and any of the subject's signatures confirms one. A
confirmation that ends with a `ToolError` is a gap; any other exception ends the
analyzer (`ConfirmRaises`).

**RegistryAccess.** A reference is a record of its written parts and `Parsed` says
what the parser makes of them, including a port that is taken for a tag. A place for
credentials offers a sequence of values, of which some places count the first one
and others the first complete one. Docker Hub's aliases (`HubAliases`) share its
credentials; a reference keeps the registry as it is written. `Ask`, `Authenticate`
and `Again` are the three requests of a call; each may time out, and those to the
registry may be answered with 429 or 500. A challenge without a realm sends the
client to Docker Hub's token service, whose token is `Foreign` elsewhere. `Settle`
is what each caller makes of a response. `get_referrers` is modelled as the client
offers it: its one caller, `image_inspector.py`, is wired to nothing (section 6).

**PlaybookDocument, PlaybookEvaluation, Playbooks.** A document is a record of the
keys the two commands and the schema treat differently; `Playbook` is the set of all
that an author may write, as the schema types the values, with any key in any place
or left out. The keys the schema requires are part of `ContentValid`, and so of
`Loads`: the condition of a tier, the condition, scope, value and class of a badge
(`whole` stands for the last three). A command that rewrites the file is two steps,
since opening it empties it, and what a killed process leaves is nothing, no YAML,
or the keys up to some point. `Context` is built from the report as it was given, so
`BadgeLabels` sees `report.badges`; `saved` and `earlier` are what an evaluation
before has left there, the tier that `--evaluate` has promoted (`Null` where there
was none) and that of the saved results. The value of a badge and the URL of a link
have at most one placeholder. `Resolved` fills in a URL as the code does, by
`str.format` from the report or by Jinja2 from the context, and a link whose URL
raises or comes out empty is left out (`ResolvedLinks`). A condition looks at one
value; `Holds` is `jsonLogic` for tiers, badges and links, and `Certain` is
`evaluate_condition` for checklists and templates, which must not be missing
anything.

`PROJECT.json` maps every definition to its lines.

## 3. What is checked

Run a configuration with `tlc -config X.cfg M`, where `M` is its MC module.

| Run | Configuration | States | Question | Properties |
|---|---|---|---|---|
| `fetcher` | `MCToolFetcher` | 145 k | Does the lock make installation safe, whatever dies or arrives broken, and does the sweep take the dead files and only those? | `TypeOK`, `ServedIsVerified`, `EventsMatchOutcome`, `NoLiveFileSwept`, `PartialsSwept`, `InstalledOnce`, `CallsAnswered`, `ImplementsCache` |
| `pool` | `MCAnalyzeImage` | 76 k | With failing analyzers and a raising callback, is everything accounted for and cleaned up? | `TypeOK`, `NoLayoutLeft`, `AllAccountedFor` |
| `pool_interrupt` | `MCAnalyzeImageInterrupt` | 22 k | After one Ctrl-C at any point, do readers keep their layout and does the run end? | `ReaderHasLayout`, `ExportedOnce`, `RunEnds`, `ImplementsRun` |
| `command` | `MCAnalyzeCommand` | 1.31 M | What do exit codes and the gate mean over successive commands, with a push, a kill and files that cannot be written? | `TypeOK`, `GateHolds`, `ReportBeforeExit`, `MalformedCallOutranks`, `OthersKept`, `CommandsEnd` |
| `command_shared` | `MCAnalyzeCommandShared` | 3.0 M | What remains true of the files when two processes share them without a lock and one is killed? | `ReportsAgree`, `FiledUnderItsDigest` |
| `rules` | `MCRuleSet` | 386 k | How are rules resolved, does the gate agree with the headline and the lists, and what does an equal hash guarantee? | `TypeOK`, `LastWordWins`, `BindingActivates`, `HeadlineTellsGate`, `GateExplained`, `OrderImmaterial`, `PinHolds` |
| `inspection` | `MCImageInspection` | 219 k | While the tag moves and lookups fail, is each description of one image, and is signed-by never wrong? | `TypeOK`, `SignedByIsSound`, `EntryOfOneManifest`, `InspectionEnds`, `ImplementsOneAnswer` |
| `access` | `MCRegistryAccess` | 958 k | Whatever fails, does `check` accept only images that are there and readable, and refuse those only over a failure; is "no referrers" ever a failure? | `CheckTellsTheTruth`, `ReferrersTold` |
| `playbook` | `MCPlaybooks` | 83 k | Do upgrade and migrate keep what a playbook means, in any order; does a dry run agree with the analysis? | `MeaningKept`, `SettledIsLoadable`, `DryRunAgrees` |

Three runs end in a counterexample, each one to a sentence of the repository:

| Run | What the repository says | What the code does |
|---|---|---|
| `fetcher_exec` | "tool binaries must be executable" (`fetcher.py:224`) | The file is moved into place first and made executable afterwards, and a look at the cache asks for the hash only. TLC's trace is a race: a process that looks between the two is served a file without its execute bit. (An installer that dies there, or whose `chmod` fails, leaves such a file too.) |
| `command_digest` | "The same image digest, evaluated with the same playbook" "yields the identical verdict" (`docs/architecture/arc42.md:59`) | The digest is looked up once and each analyzer resolves the tag again. A push in between files the results of one manifest under the digest of another: two analyses of one digest, in which nothing fails, come to different verdicts. |
| `rules_evaluate` | "Use a custom playbook": `regis rules evaluate report.json --rules playbook.yaml`, and `--fail` to block a pipeline (`docs/concepts/rules.md:343-357`) | Only a top-level `rules` key is read, and a playbook has its rules under `spec`: nothing is evaluated and `--fail` exits with 0 on every image. |

### Bounds, and why they are enough

- *fetcher*: two processes with two calls each. The lock is symmetric, so two
  processes suffice for a race; two calls let a process meet its own remains. The
  proofs cover any number of both, and the configurations no run has: offline
  processes, plain binaries, `REGIS_REQUIRE_COSIGN`.
- *pool*: three analyzers (two that share the layout and one that does not), two
  and three workers, so that analyzers queue in one run and all run at once in
  the other. One interrupt: for the second see section 5.
- *command*: two digests, one of them vulnerable, two analyzers, two metadata
  fields, one of them required; two commands in a row out of eleven kinds (a gate, a
  cache hit, a malformed call, a derogation, two playbooks with and without
  `--evaluate`, SARIF, a dry run, reruns of an analyzer that was and one that was not
  selected, a merge of metadata), one push, one kill, any file denied or failing. A
  command reads only what the previous one left, so a pair shows every influence of
  one command on another, but a chain of three could not. `command_shared` has three
  commands in two processes (a gate on two playbooks with `--cache`, and reruns), one
  push, one kill. `command_digest` needs two analyses and a push.
- *rules*: playbooks of up to three entries of fourteen kinds (bindings with and
  without slug, overrides, one that disables, an opt-in criterion, custom conditions
  that are open or closed to missing data, an unknown criterion, entries that are
  dropped), all facts of two sources, one of them the metadata that a user need not
  give, two severities, and the counts 0, 1 and absent. Two entries suffice for an
  override, the third comes between. Hashes are compared for all pairs of playbooks
  of up to two entries of six kinds.
- *inspection*: an index of two platforms and an attestation, a single image, and
  three registries that hold signatures in both layouts, by key, by a signer of the
  list, copied from the other image, and an SBOM. One push or one new signature and
  one failure at any lookup, any confirmation may fail besides; two of either would
  combine what one thread has seen with a third image, which no comparison of two
  answers needs. Three threads of oci and one of provenance share the lock.
- *access*: seventeen references, one of each form with and without port, tag and
  digest, and `docker.io` bare and as a URL; a good pair at any place combined with
  a half, a bad or a second pair at any place; registries that ask for nothing, for
  a token that everybody or only the good pair gets, or for Basic credentials. Two
  calls, so that a token is used again, expired or not, and one fault in any
  request.
- *playbook*: eleven documents that have every key in the old place, the new one or
  both, every kind of condition, tiers and badges without one, values and URLs that
  read each part of the context; all facts of two criteria. There is no other
  bound: the commands may run for ever.

`MaxCalls`, `MaxInterrupts`, `MaxStarts`, `MaxPushes`, `MaxKills`, `MaxRules`,
`MaxPinned`, `MaxChanges`, `MaxFailures` and `MaxFaults` are the bounds in the
guards. Deadlock is checked for `RuleSet` only: in the other models all processes
may be done, or a playbook may be unreadable for good. Symmetry is used in runs without
temporal properties only.

### Fairness

- *ToolFetcher*: weak fairness of each process's steps: downloads and cosign run
  with timeouts, everything else is local. Strong fairness of `Acquire`, since a
  waiter of a flock is woken by the kernel whenever it is released. Nothing is
  assumed about new calls or crashes.
- *AnalyzeImage*: weak fairness of the main thread and of each analyzer's thread:
  exports and scanners are subprocesses that end. No fairness for the interrupt
  and none for a callback that raises.
- *AnalyzeCommand*: weak fairness of the work of each process; aborting, denied
  directories, kills and pushes are not obliged to happen.
- *ImageInspection*: weak fairness of oci, of each of its tasks and of provenance.
  regctl runs with a timeout. `cosign verify` runs without one
  (`subprocess_tool_runner.py:153`) and is taken to end. The lock needs no strong
  fairness: each thread asks a bounded number of questions, so the others leave the
  lock for good after a while.
- *RuleSet*, *RegistryAccess* and *Playbooks* have no liveness property.

## 4. What is proved

TLAPS proves, for every value of the constants:

**The fetcher** (`ToolFetcher_proofs`, from the three assumptions on the constants
alone). `TypeCorrect`, `MutualExclusionHolds` (no run lists this one: what two
processes inside the lock would do is in `NoLiveFileSwept` and `InstalledOnce`),
`NoLiveFileSweptHolds`, `ServedIsVerifiedHolds`, `EventsMatchOutcomeHolds`,
`PartialsSweptHolds` and `InstalledOnceHolds`, and `CacheImplemented`: initial
states and steps are those of `VerifiedCache`. They follow from one inductive
invariant `IInv`. Mutual exclusion alone is not inductive: it needs that *the holder
of the lock is exactly the process inside* (`HolderIsLocked`). That a valid tool is
never replaced needs to know what a process has learned on its way (`Knows`):
between the second look and the move the target is not valid, because only the
holder of the lock can change it; from the checksum on the download has the pinned
hash; the files of a live attempt are there. `Announced` relates the events to the
position.

**The pool** (`AnalyzeImage_proofs`). `TypeCorrect`, `AllAccountedForHolds` and
`ExportedOnceHolds` hold for any analyzers, workers, failures, interrupts and
callbacks. The inductive invariant relates the lock to the one exporting thread, the
memo to the directories, each future to its worker's position, each report to its
future and its notifications, and each position of the main thread to what has
happened before it. `ReaderHasLayoutHolds` and `NoLayoutLeftHolds` are proved under
`Tame`: at most one exception ends the run, from an interrupt or from the callback.
The proviso is needed: see `ReaderHasLayout` in section 5. `RunImplemented`: the
steps of a run whose callback does not raise are those of `ScatterGather`.

**The commands** (`AnalyzeCommand_proofs`). `TypeCorrect`,
`FiledUnderItsDigestHolds` and `ReportsAgreeHolds` hold for any number of
processes, command lines, playbooks, pushes and kills. The assumption they need
beyond types is that the working directory and the output of `evaluate` are not
the directory of a digest or of the tag (`NamesAssumption`). Neither property of
the files is inductive, because a file gets what a process holds: `Filed` says that
a process which is to write to the directory of a digest holds a report of that
digest, `Agreeing` that what it is to write is evaluated. A cache hit that is not
evaluated again agrees because the file it was read from did, so the properties of
the files and of the processes are one invariant. `OthersStay` reduces the step of
a process to that process; the lemmas before it say what the pure operators
(`RunPlaybooks`, `Evaluated`, `Patched`, `NewReport`) return.

`GateHoldsAlways` and `MalformedCallOutranksHolds` rest on `VerdictInv`: from the
evaluation on, what an evaluating command holds is judged by the first playbook of
its own command line, and outside a cache hit its metadata check is its own. A
command that has ended with 0 keeps the report its gate has passed. Two properties
are about commands that run one at a time, and `ReportBeforeExitHolds` (which has the
SARIF file in it, wherever it ends up) and `OthersKeptHolds` say so in their
hypothesis `Alone`: there is one process. With two,
another one may write over the report between the write and the exit, since nothing
locks the directory; pushes and kills are allowed in any number. `SoloInv` relates
what the process holds to the file: a report read for a rerun is the one on disk
until the file is opened, and what is written back is `Kept` from it.

**The rules engine** (`RuleSet_proofs`, `InOrder`). For playbooks of any length over
any catalogue: `LastWordWinsHolds`, `BindingActivatesHolds`,
`HeadlineTellsGateHolds`, `GateExplainedHolds`, `OrderImmaterialHolds`,
`PinHoldsAlways`, and `TypeCorrect`, whose last conjunct says that the rounded score
is a percentage. The two passes of `resolve_rules` are left folds. What a fold
computes is a matter of induction over the list; the induction theorems of the
library cannot be instantiated by the provers, so `InOrder` proves its laws
(`FoldAppend`: after one more element, one more step) with a least counterexample
from a well-founded order instead, once for any operation. With these laws the
model's own steps do the rest: `Declare` appends one entry, and `ListInv`, which
says what the resolved list owes to the entries so far, is preserved by each one.
`HeadlineTellsGateHolds` is about every set of entries: the two tables of levels
order the levels of an entry in the same way, except for `none`, which is as mild as
`info` to the gate and milder to the headline, so that a failure at `none` is in the
headline only where nothing worse failed. `GateExplainedHolds` needs from `ListInv`
that a key has one rule, so that the first rule of a slug with one provider is the
one that was judged. The central part, `LastWords`, restates `LastWordWins` without
a choice of the first entry or a maximum: every key is there once, in the order of
its first entry, and for each of its fields either one entry has said it and no
later one has, or none has. `PinHoldsAlways` needs no invariant: equal fingerprints
of rules whose conditions carry their limits refuse the same slugs.

**The inspectors** (`ImageInspection_proofs`). `EntryOfOneManifestHolds`,
`SignedByIsSoundHolds`, `TypeCorrect` and `OneAnswerImplemented`, for any images,
platforms, signatures, pushes and failures. The invariant has five parts: every
answer in the memo fits its question (`MemoInv`: content under a digest is that
content; a list of signatures has at least those of the beginning); who is inside
the lock asks what has no answer yet, and is alone (`InsideInv`), which is all the
refinement needs; each inspector's description is of the manifest the memo has under
its reference, which can no longer change (`InspectorInv`); the tasks are at work on
the entries of the index oci has read; and provenance has either noted a gap or has
lost none of the signatures that were there when the run began (`Complete`).

**The registry client** (`RegistryAccess_proofs`). `CheckTellsTheTruthHolds` and
`ReferrersToldHolds`, for any references, offers of credentials, services and
faults. `CheckTellsTheTruth` is about every call of `check`, failed requests
included: 0 is only for an image that is there and that this user may read, and such
an image is refused only after a fault, or by a registry that wants Basic
credentials. `ParsedAsMeant` proves the parser right on every well-named reference of
any length, and another lemma does it for the places of credentials. The invariant
adds that a second list of referrers is asked for only because the first is not there,
and that `check` is its client's first call: without a fault the token it sends is the
one it has been issued for the pair it means, while a later call may hold an expired
one.

**Playbooks** (`Playbooks_proofs`). `MeaningKeptHolds` and `SettledIsLoadableHolds`,
for any documents and any sequence of commands, follow from `OnDisk`: what is on
disk, or is being written, is `Faithful` to the author's document, given the
commands that have run. Meaning alone is not enough for the second one: `Faithful`
says which keys the first of the two commands leaves to the other.
`DryRunAgreesHolds` follows from `Concluded` (a saved result is the evaluation of its
own facts) and a lemma about two contexts that differ in the keys an evaluation has
saved: where no condition, badge value or URL reads those (`AsksEarlier`), every part of
the conclusion is the same, down to the links whose URL cannot be resolved.

The assumptions on the constants are types (references as users write them, entries
and documents as the schema has them, `None` apart from values) and what a digest
is: content has one address, an index lists manifests. TLC evaluates them on every
run. Three came from proof attempts that failed and showed the model or a property
to be wrong:

- `OrderImmaterial` held on the run's instance but not in general: an entry with a
  criterion and without a provider takes the criterion for its slug, so two
  entries with different slugs may be one rule. `OwnSlugs` now leaves such entries
  out;
- what is meant by a page of Docker Hub's site was wrong for repositories named `r`
  or `_`, in the model of the parser and in `Meant`;
- the documents of `Playbooks` had no type, and with a key `None` that equals a
  value `upgrade` does change the meaning.

Only model-checked are the liveness properties `CallsAnswered`, `RunEnds`,
`CommandsEnd` and `InspectionEnds`, and the fairness parts of `ImplementsCache` and
`ImplementsRun`: fairness and ENABLED are out of the prover's reach. Every safety
invariant and every action property of the passing runs is a theorem, under the
hypotheses named above (`Tame`, `Alone`, a callback that does not raise).

## 5. Other disagreements that the models show

More sentences of the repository are stated as formulas. No run lists them as
violations; TLC refutes each one when it is added to the configuration named here:

- `ReaderHasLayout` with `MaxInterrupts = 2` (`MCAnalyzeImageInterrupt.cfg`): "The
  ThreadPoolExecutor 'with' block joins before this runs, so no worker is still
  reading a layout when it is removed." (`analyze_image.py:215`), but a second Ctrl-C
  ends the join of the first, and `close` removes the layout under a scanner;
- `VerdictReplays` (`MCPlaybooks.cfg`): "the same image and the same playbook give the
  same verdict" (`README.md:50`), but a tier whose condition reads the promoted `tier`
  is decided by what the evaluation before has left in the report
  (`analyze_image.py:338`, `evaluator.py:111`). `DryRunAgrees` is the promise that
  remains: it leaves out playbooks that ask for this (`AsksEarlier`);
- `LabelsAreBadges` (`MCPlaybooks.cfg`): "Badge slugs to surface as labels for
  consuming integrations." (`playbook.schema.json:90`), but the labels are looked up in
  the context, which is built before the badges are resolved: a fresh report has none,
  and a saved one has those of the evaluation before;
- `NotifiedOnce` (`MCAnalyzeImage.cfg`): `on_progress` "is called once per analyzer"
  (`analyze_image.py:161`), but a callback that raises on a success is called again
  with a failure, and the report is replaced by a stub;
- `TierFollowsRules` (`MCAnalyzeCommand.cfg`): `--rerun` "replays the full playbook
  evaluation (rules → tiers → badges)" (`docs/concepts/playbooks.md:445`), but the
  tier and badges at the top of the report stay those of the first run;
- `LooseningChangesHash` (`MCRuleSet.cfg`): "loosening a threshold changes the hash"
  (`fingerprint.py:13`), but the shipped conditions refer to `criterion.params`,
  which is not hashed. `PinHolds` is the promise that remains: it is about
  conditions that carry their limits;
- `DigestOfThisVariant` (`MCImageInspection.cfg`): "Manifest digest for this variant."
  (`schemas/analyzer/oci.schema.json`), but the digest of a single image is looked up
  by its tag after its manifest was read: a push in between puts the digest of the
  new image, even of an index, beside the layers of the old one. So does
  `--platform` with a platform the index does not have.

Not listed as findings, but part of the modelled behaviour, with the definition
that has it:

- a `--cache` hit ignores `--meta` and its schemas: a malformed call ends with 0
  (`ExitCode`; `docs/reference/cli.md:99`);
- `--rerun metadata --merge-meta` validates the new values alone and exits 3
  although the merged metadata is complete (`Patched`;
  `docs/concepts/playbooks.md:445`);
- without `--evaluate` the top-level `rules` are those of the last playbook
  (`RunPlaybooks`; `report.schema.json:146` says the first), and `--fail` has no
  effect (`Gate`; `docs/reference/cli.md:46`);
- an analyzer added by `--rerun` is missing from `request.analyzers` (`Patched`;
  `report.schema.json:116`);
- stubs count as reports, so "All analyzers failed." is never raised
  (`Analyse`, `AllAnalysed`; `analyze_image.py:308`, `docs/reference/cli.md:97`);
- an incomplete rule makes `--fail` refuse an image whose SARIF file is the receipt
  of a clean run (`ReceiptOf`; `sarif.py:80`), and `--rerun --sarif` writes no SARIF
  file at all (`Write`);
- a member extracted from a rejected archive stays in the cache: the globs of the
  clean-up do not match `<tool>.<rand>.extracted` (`Cleanup`; `fetcher.py:243`);
- rules of one slug and different providers are hashed in the order of their
  declaration (`Fingerprint`), and two bindings of one severity without a slug
  collapse into one rule (`GeneratedSlug`; `rules/evaluator.py:132`);
- `host:port/name` without a tag is looked for on Docker Hub, a URL loses its port,
  and `name:tag@digest` keeps the tag in the repository's name (`PortTaken`, `Full`,
  `Suffix`): `WellNamed` leaves these forms out of `CheckTellsTheTruth`;
- credentials come from six places in an order of which the docstring of
  `resolve_credentials` has four, and half a pair given with `--auth` hides all the
  others (`Places`, `Answer`; `auth.py:21,44`);
- a registry that asks for Basic authentication sends the client to Docker Hub's
  token service, credentials included (`Authenticate`; `client.py:218`);
- `playbook migrate` leaves `integrations.gitlab` where it is if the playbook has no
  rules (`Migrated`; `commands/playbook.py:192,338`), and such a playbook does not
  load;
- a badge or a tier without a condition, as the guide shows badges and says of them "If
  provided" (`docs/concepts/playbooks.md:96-99,115`), makes `load_playbook` refuse the
  playbook (`ContentValid`; `playbook.schema.json:199,227`), and the evaluator never
  awards such a tier (`WinningTier`);
- a file that a killed command has truncated may load as a playbook with fewer keys
  (`Beginnings`), and one that is no YAML raises an exception that `run_playbooks`
  does not turn into the `PlaybookError` its docstring names (`Loadable`;
  `playbook_runner.py:45,71-80`);
- the guide calls the labels `badge_labels` (`docs/concepts/playbooks.md:167`), the
  schema accepts `badges` only.

## 6. What is not modelled

- Rendering, wording, layout, progress bars, scaffolding and the wiring of the
  command line: no state, or state nobody else sees.
- The numbers analyzers compute. An analyzer is an outcome in `AnalyzeImage` and
  the digest it looked at in `AnalyzeCommand`.
- The JSON Logic interpreter and the JSON Schema validator, which are libraries.
- Output templates: a report is known by its directory, so formats that share one
  path are out of sight.
- Rules whose conditions read the results of other rules. Tiers, badges, links and
  presentation do read them (`PlaybookEvaluation`).
- Downloads of playbooks, and the patterns the schema demands of names.
- `image_inspector.py`, the inspector over `RegistryClient`: nothing is wired to it.
- The criteria of oci and of the analyzers that only count: their catalogue is the
  constant `Catalogue`.
- `bootstrap` and `doctor`: files from templates, and `ensure` in a loop.

## 7. Plan

Done: the tool cache, the pool with its shared layout, the commands with their
files, the rules engine with its commands, the registry behind the memo with the
two analyzers that ask most of it, the registry client with references and
credentials, and playbooks from the file to the report; and a proof of every safety
property of these. Next, in this order:

1. Theorems that reach further than a run's property: what two processes may do to
   each other's reports (`ReportBeforeExit` without `Alone`, as far as it is true),
   the composition of `Resolve` with the gate for a playbook that is extended, and
   that a second `upgrade` or `migrate` changes nothing.
2. Report formats as a set with output templates (`utils/report.py:316`).
3. Rules whose conditions read the results of other rules.
