# A TLA+ model of engrava-benchmark

This directory holds a formal model of the benchmark harness: TLA+ modules
translated from the Python source, TLC configurations that check them on small
instances, and theorems about them that TLAPS checks for every value of the
constants. Paths below are relative to the repository root.

## The system

The repository measures a memory system (`engrava`) on public benchmarks and
publishes the results as rows in a validated file tree. Its parts:

| Part | Source | State it keeps | Operations | Interacts with |
|---|---|---|---|---|
| Result store: emission, bundles, row validation | `runners/longmemeval/emit.py`, `artifact.py`, `scripts/validate_results.py` (`validate_file`) | the `results/` tree: one row file and one bundle directory per result | check the id, write the bundle, write the row, validate, clean up | called last by the native runner; read by the sweep and the leaderboard |
| Run modes and command line | `runners/_modes.py`, `runners/longmemeval/run.py` (`main` and what it calls) | the argument namespace, the effective configuration | fill defaults, smoke path, overrides, build clients, run, report | decides what the adapter, reader, judge and store are asked to do |
| Pipeline | `run.py` (`run`, `run_and_emit`) | judgments and records so far | ingest, search, read, judge per question; close; log; emit | drives adapter, models, scorer, store |
| Adapter | `adapters/engrava_adapter.py` | an in-memory store, its connection, an id map, an event loop | `ingest`, `search`, `close` | called by the pipeline; calls the engrava library |
| Retrieval diff | `runners/retrieval_diff.py` | retrieval logs on disk | classify, diff, verdict | reads logs of both runners |
| Corpus and context assembly | `run.py` (`load_questions`, `assemble_context`), `official_reader.py` | the questions, with neutral ids | load, neutralise, assemble | feeds the adapter and the reader |
| Publication | `scripts/validate_results.py` (`main`), `build_leaderboard.py`, `canonical_slugs.py` | none of its own: it reads the tree | sweep the tree, render the leaderboard | reads what the store wrote and what others committed |
| AMB provider | `integrations/amb_vectorize/engrava_provider.py` | one bank (store, connection, ids) per user, an event loop | `ingest`, `retrieve`, `cleanup` | driven by an external harness |
| LongMemEval-V2 memory | `integrations/longmemeval_v2/engrava_memory.py` | one store, its connection, the limited text of each stored state, an event loop | `insert`, `query`, `post_query_hook`, `close` | driven by an external harness |
| LongMemEval-V2 runner | `runners/longmemeval_v2/run.py`, `retrieval_log.py` | an output directory, which an earlier run may have used | run the harness, extract the log, diff | spawns the external harness |
| Scorer | `runners/longmemeval/scorer.py`, `official_scorer/` | none | aggregate judgments | called by the pipeline |
| Clients | `runners/longmemeval/openai_models.py`, `mock_models.py` | none | answer, judge | called by the pipeline |
| Preflight | `scripts/preflight.py` | none | scan a dataset | stand-alone |

### What is hard here, and what makes each part correct

* **Result store.** An emission is a sequence of file operations with no lock
  and no atomic rename. It may be cut short anywhere and run again over its own
  debris; two processes may emit to one path; a failed validation must undo what
  was written. Correct means: a reported success leaves exactly the run's own
  bundle and row; a rejection leaves nothing; debris can stop a later good run
  before it writes but never spoil what it writes; ids stay unique; what the
  validator accepts never mixes two runs.
* **Publication.** The sweep judges the tree as a whole, the emitter one row.
  Correct means that they agree: nothing an emission may leave behind when it
  ends makes the sweep fail for everyone.
* **Run modes.** About a dozen flags pass through four blocks that each fill or
  overwrite part of a mutable namespace. Correct means: only the official path
  emits, free modes are free, and the row names what ran.
* **Pipeline and adapter.** Failures between the steps of one question, a store
  replaced while ids of the previous one are still mapped, resources released
  on every path, and records that are published whole or not at all.
* **AMB provider.** Several banks on one loop, deliveries that fail half-way and
  are repeated, documents of one id in two banks. Correct means: an answer has
  documents of the asking user only, each once and in the right order; an ingest
  that reports success has stored everything; nothing stays open unowned.
* **V2 memory and runner.** An external driver that repeats failed inserts and
  whose exit code proves nothing, and a directory with the files of an earlier
  run. Correct means: what reaches the reader is stored text, an insert that
  reports success is whole, and the log that is compared is this run's.
* **Retrieval diff.** A verdict at thresholds, over logs whose question sets may
  differ. Correct means that a mild verdict bounds what has changed.

## The modules

### ResultStore, ResultRegistry

`ResultStore` models the emission path. A *run* is one process that reached
`write_artifact_and_validate`; `pc` says how far it is, `next` which bundle
component it writes. The tree is two maps over *paths* (partition directory and
result id): `rows` for the row file and `bundles` for the directory beside it.
Content is abstracted to the run that wrote it, so a checksum matches exactly if
every component was written by the run whose row is there; a file cut short is
`Torn`. `last` is a history variable for the properties.

| Action | Code |
|---|---|
| `BuildResult` | `build_result` / `artifact_reference`: an unregistered slug raises before anything is written |
| `ListRows`, `ReadRow`, `FinishCheck` | `_check_unique_result_id`: the rows at other paths are listed (`toRead`) and then read one by one; what is not JSON is passed over, but a row that was unlinked meanwhile (`FileNotFoundError`) or cut inside a character (`UnicodeDecodeError`) makes the run raise: `pc` is then `"unreadable"` |
| `MakeArtifactDir`, `WritePart`, `WritePartFails` | `write_artifact`: `mkdir(exist_ok=True)`, then one file at a time |
| `WriteRow` | `out.write_text` |
| `ValidateFile` | `validate_file` on what is on disk: schema and cross-field rules (`Valid`), layout (`LayoutAgrees`), bundle checksum (`BundleMatches`); a row that is gone or a file that does not decode raises |
| `UnlinkRow`, `RemoveBundle` | the clean-up after errors |
| `Crash`, `CrashWritingPart`, `CrashWritingRow`, `CrashRemovingBundle` | the process dies between steps or in the middle of one |

A file that is cut short may decode or not, and a reader meets either. For
the other runs a `write_text` is one step unless its writer dies in it: a reader
that meets a file half written by a live process is not modelled, nor is the
order in which the listed rows are read. `OnlyTheCheckIsStopped` says what is
left of the wish that debris be harmless: another run's crash or rejection may
stop a run in the check of the other rows, before its first write (a torn row
that does not decode stops every later run on another path until somebody
removes it), and never after that.

`Spec` puts no condition on who runs with whom. `ExclusiveSpec` says that no two
live runs share a path, `IdExclusiveSpec` that no two share a result id and
`SerialSpec` that runs do not overlap: the code takes no lock, so the first three
invariants need the first and id uniqueness the second. `OnlyTheCheckIsStopped`
needs the first as well.

`ResultRegistry` is the abstract specification: a result appears at a path in
one step, whole, put there by a sound run that has not published before; it is
never replaced by another without being withdrawn, and only a live run of that
path withdraws it. The refinement mapping takes as a path's entry the run whose
row the validator accepts there. It holds under plain `Spec`, for any
interleaving: the checksum makes mixtures of two runs invisible.

### Publication

`Publication` extends `ResultStore` with the sweep of `validate_results.py` as
operators over its tree: it has no state of its own, and it may be run at any
moment. Over the rows that `iter_result_files` lists, `Duplicated` is the check for repeated
ids, `Strays` the search for `.json` files that are neither a row nor beside
one, `SweepFails` the exit code. `CompletedRunsSweepClean` says that between
emissions the sweep accepts the tree. A killed emission may leave a bundle
without a row or a row that does not validate; the sweep then fails until the
run is repeated, which is what it is for.

### RunModes

One invocation from the parsed flags to the exit code. `given` keeps the flags
as typed, `args` is the namespace the steps rewrite, `config` the effective
configuration, `clients` what is built, `row` and `log` what is written.
A reader or judge block is its model (the label that goes into the row), its
snapshot (what the client calls) and its endpoint; `--reader-model` and
`--judge-model` set both of the first two. An embedder spec is its backend.
Sampling length, key names and the dataset's content are left out.

| Action | Code |
|---|---|
| `ApplyRunMode` | `_apply_run_mode`, `_refuse_emission`, over `ModeTable` |
| `ApplySmoke` | the `--smoke` block of `main` and the final emission sentinel |
| `ApplyConfig` | the embedder override and `apply_model_config` |
| `FindDataset` | the two early returns with code 2 |
| `Build` | `build_reader_judge`, `resolve_judge`, `build_engrava_adapter` |
| `RunAndEmit` | `run_and_emit`, with the schema's pin of the judge's model, snapshot and endpoint as `RowValidates`: `--judge-model gpt-4o`, which makes the snapshot the alias, is refused as the schema refuses it |
| `Raise` | a failure while loading, building or running |
| `Report` | `_report_metrics`, `_report_retrieval_diff` and the exit code |

### MemoryAdapter, EngravaAdapter

`MemoryAdapter` is the promise of `adapters/base.py` and nothing else: an
adapter holds at most one corpus. It is `"void"`, `"filling"` while part of the
corpus in `held` is taken (`present`), or `"ready"` once every text is; a search
answers with at most `TopK` different units of what is present. Its actions
(`Begin`, `Take`, `Discard`, `Search`, `Forget`) are single steps. The promise
does not keep a caller from searching a corpus that is half taken, because the
code does not either: an ingest that fails leaves its store in place, and
`_search_async` searches whatever store there is (`engrava_adapter.py:429-433`).
What must hold then is that nothing of an earlier corpus and nothing that was
never stored comes up, and that is what `Search` allows.

`EngravaAdapter` is `adapters/engrava_adapter.py`. Between two awaits the code
runs alone, so an action is the code from one await to the next, and every await
has an action for its failure. `loop`, `store`, `conn` and `idToUnit` are the
attributes of the object; `open`, `thoughts` and `vectors` are the database,
which is external; `corpus`, `fresh`, `embedded`, `todo`, `hits`, `at` and
`ranked` are locals of the coroutine that is running. The caller is arbitrary:
any order of calls, calls after a failure, calls from inside a running loop.

| Action | Code |
|---|---|
| `CallIngest`, `CallInsideLoop`, `SearchRaises` | `ingest`, `search`, `_run_sync`: the persistent loop, and the error inside a running one |
| `CloseStore`, `CloseConn` and their failures | `_close` |
| `Connect`, `EnsureSchema` and their failures | `_create_store`, and the plan `_ingest_async` makes before its next await (`IdOf`, `IdMap`) |
| `EmbedBatch`, `EmbedBatchRaises` | the second pass of `_ingest_async`: the distinct payloads, in batches |
| `CreateThought`, `StoreEmbedding`, `StoreRaises`, `IngestReturns` | the storing loop |
| `Search`, `PlaceHit`, `SearchReturns` | `_search_async`: the hits, and each unit placed at its best copy |
| `CallClose`, `CloseInsideLoop`, `Collect` | `close` with its early exits, `__del__` |

An id is a triple here and a string in the code, `<session>:turn:<index>` with
`#dup<position>` behind the name of a repeated session; that a salted id is never
the plain id of another session rests on session names being digests, as the
runner's are.

`KeepsPromise` says that `EngravaAdapter` implements `MemoryAdapter`. The mapping
hides nothing: a store is `"filling"` until its last thought has its vector,
`present` is the units of the thoughts in the database, and every answer is
mapped to itself, also that of a search in a store which a failed ingest left.
So the refinement says that such an answer is made of the new corpus, and only of
what was stored of it. That the runner never asks for it is another matter, and
`AnsweredFromOwnHaystack` depends on it: an exception of `ingest` ends the loop
(`Raise` in `Pipeline`). A search that fails or a call that is refused changes
nothing but the last answer.

### Sorting, Corpus, Pipeline

`Corpus` has the pure functions between a dataset item, an adapter and the
reader: `CorpusOf` and `IdMap` for `load_questions`, `AssembleContext` for
`assemble_context` with the sort of `official_reader.py`. The neutral session id
is a digest of the content, so it *is* the content here. Texts are model values
with a table for what stripping does to them. The token budget only cuts the
tail of the finished text and is left out. `Sorting` says what `list.sort` and
a filtering loop compute, by their result: `Sorted` is the arrangement of a set
along an order, `AtPlaces` the members of a list at the places that pass the
loop's condition. The V2 memory uses it too.

`Pipeline` is the loop of `run` and what `run_and_emit` does with its records.
It does not repeat the adapter: its adapter is `MemoryAdapter`, whose actions
it conjoins to its own (`Memory!Search`), which `KeepsPromise` justifies. With
`Faithful = FALSE` the adapter may also be a third party's that answers with units
of other questions, repeated units or too many.

| Action | Code |
|---|---|
| `LoadQuestions` | `load_questions`: head slice by `--limit`, then the items are read |
| `IngestBegins`, `IngestReturns`, `Search`, `CarelessSearch` | the adapter calls of `run` |
| `Assemble`, `Read`, `Judge` | the rest of one turn of the loop, with the record |
| `Raise` | any call of the loop raises |
| `CloseAdapter`, `CloseAdapterRaises` | the `finally` block of `run_and_emit` |
| `WriteLog`, `Emit`, `WriteRaises` | the retrieval log and the emission, whose file writes are `ResultStore`'s |

### MemoryBanks, AmbProvider

`MemoryBanks` is what the AMB provider promises its harness: one shelf of
documents per user, on which a document of that user may be put (`Place`) until a
wipe clears all (`Wipe`). Who asks, and for how many, is part of its state
(`asked`, `waiting`, set by `Ask`): an answer (`Answer`) is to that request, ranks
documents of that user's shelf, each id once, and nobody is answered unasked.

`AmbProvider` is `integrations/amb_vectorize/engrava_provider.py`, an action
from one await to the next, in the style of `EngravaAdapter`. `conn`, `known`
and `ordinals` are what the object keeps for each bank; the database (`thoughts`,
`vectors`) is external; `delivery`, `at`, `plan`, `todo`, `embedded`, `closing`,
`hits` and `ranked` are locals of the running call. A bank key is a pair, as in the
code, so that the bank of no user differs from that of any user. A thought's id
has the position the counter gave its document.

| Action | Code |
|---|---|
| `CallIngest`, `CallInsideLoop` | `ingest`, and the error inside a running loop |
| `SkipBlank`, `PlanDocument`, `PlansMade` | the planning loop, which numbers the documents with text |
| `Connect`, `RegisterBank` and `ConnectRaises`, `SetUpRaises` | `_ensure_bank`, which closes a new connection again if its set-up fails |
| `EmbedBatch`, `Embedded`, `EmbedRaises` | the distinct payloads, in batches |
| `CreateThought`, `StoreEmbedding`, `StoreRaises`, `IngestReturns` | the storing loop |
| `Retrieve`, `PlaceHit`, `RetrieveReturns`, `RetrieveRaises` | `retrieve`: the hits of the user's bank, each document placed once |
| `CallCleanup`, `CloseBank`, `CloseBankRaises`, `CleanupReturns` | `cleanup` and `__del__`: the banks are taken out first and then closed one by one |
| `CleanupInterrupted`, `CleanupInsideLoop` | an error that is no `Exception` ends the clean-up at once; a clean-up inside a running loop does nothing |

`KeepsBanksApart` says that `AmbProvider` implements `MemoryBanks`. The shelf of a
user is the documents with text and vector in the user's bank; a request is
`waiting` while the provider places the hits. `Searched` is the bank that the code
looks up for a user (`engrava_provider.py:628`); a provider that looks up another
user's is caught.

### EngravaMemoryV2, RetrievalDiff, V2Screening

`EngravaMemoryV2` is the memory of one question,
`integrations/longmemeval_v2/engrava_memory.py`; it is driven by the harness of
`V2Screening`, which makes a new one for each question. `known` is the map from
a stored state's id to its limited text, which is what a query returns. It
outlives `close()`, which drops the loop and the references only
(`engrava_memory.py:538-549`), and the next call makes a new loop and a new, empty
store under it (`:404-413`); `past` remembers what was known then. Hence the
exception in `ItemsAreStored`: in a memory that is closed and filled again, a
state whose vector failed to be stored is in the new store and in the old map, so a
query may give it, with the text that its id had before (`:523`).

| Action | Code |
|---|---|
| `Insert`, `Query`, `CallInsideLoop` | the calls, through the sync bridge |
| `Connect`, `EnsureSchema` and their failures | `_ensure_store` |
| `PlanStates`, `RefuseTrajectory` | a trajectory without id or states raises before anything is stored |
| `Embed`, `CreateThought`, `StoreEmbedding`, `InsertReturns`, `EmbedRaises`, `StoreRaises` | the body of `insert`: all texts are embedded, then each state is stored |
| `Search`, `SearchRaises` | the body of `query`; `Contexts` collapses hits with one limited text |
| `CallClose`, `CloseStore`, `CloseConn`, `CloseRaises`, `CloseInsideLoop` | `close` |

`RetrievalDiff` has `runners/retrieval_diff.py` as operators: `Classify` for a
question in both logs, `Missing` for one in only one of them, `Verdict` for the
bands. The thresholds are constants.

`V2Screening` composes the two with one invocation of
`runners/longmemeval_v2/run.py` and with the harness, which is external: it is
modelled from what the runner passes to it, from what it calls on the memory and
from the rows the runner reads. It calls in any order, after a `close()` too. One
thing is assumed of it: with its first row it writes `prompt_rows.jsonl` anew. The
runner only asks whether the file is newer than its start (`run.py:420`), so it
could not tell an appending harness, and `LogIsOfThisRun` rests on the assumption.

`command` is the backend that the memory config names, with the reader. The runner
compares the name as it stands (`Matches`, `run.py:331-332`); the memory strips it
before it chooses its embedder (`Provider`, `engrava_memory.py:103-106, 164-165`),
and of a backend it does not know none can be made. `Given` has a name between
blanks for the difference.

| Action | Code |
|---|---|
| `Start`, `Refuse` | the preconditions of `main`: a mode, a checkout, both models for a score |
| `Subset`, `SubsetRaises` | the head of the questions for `--mode smoke` |
| `Launch`, `RefuseConfig` | the memory config, written or given, and `_require_config_matches_mode` |
| `HarnessCalls`, `MemoryRuns`, `HarnessWritesRow`, `HarnessCloses`, `HarnessGoesOn` | the harness on one question and on the next |
| `HarnessExits`, `HarnessFails` | its exit code |
| `WriteTemporary`, `ExtractRaises`, `Replace` | `_handle_retrieval`: rows newer than the start, the temporary log, the rename |
| `Diff`, `NoBaseline`, `BaselineRaises` | the comparison and the exit code |
| `Killed` | the runner dies between two steps or while it writes |

## The runs

| Run | Asks | Bounds | Distinct states |
|---|---|---|---|
| `store_emission` | what an emission leaves behind, with crashes and debris, that ids stay unique, and that the sweep agrees | `IdExclusiveSpec`, 3 runs, 2 directories, derived and explicit ids, 2 components | 552,232 |
| `store_registry` | the accepted rows implement `ResultRegistry`, and a good run finishes | `ChosenFairSpec`, 3 runs, 2 directories, any interleaving | 312,339 |
| `store_key` | disagreement, see below | 2 runs, 2 configurations, both valid | |
| `modes` | emission, cost, overrides and provenance over all flag combinations | one value per flag, two endpoints, two model ids | 7,251,552 |
| `modes_explicit`, `modes_mock`, `modes_embedder` | disagreements, see below | as `modes`, three embedders, no overrides | |
| `adapter_calls` | every sequence of calls and failures of one adapter | 3 corpora, 2 connections, 2 loops, top 2, batches of 1 | 38,342 |
| `pipeline_questions` | what a run answers from and what it publishes | 3 datasets of 2 items, limits 0, 1 and none, careless adapter | 121,781 |
| `pipeline_rerank` | disagreement, see below | as above, 2 scores | |
| `amb_banks` | every sequence of calls and failures of the AMB provider | 2 banks, 3 deliveries, depths 0 and 2, 2 connections, 3 planned documents per bank | 100,561 |
| `v2_screening` | one screening over an output directory with a past | 2 questions, 3 harness calls for each, 2 rows, top 2, 2 connections, 4 baselines | 5,503,598 |

Why the bounds are enough.

* *Store.* A property relates at most a crashed run, a run that follows it on
  the path and one more that may interleave, so three runs; two components are
  the least for which a bundle can be half one run's and half another's, one of
  them `.json`, which is what the sweep takes for a stray; two directories are
  the least for a duplicate id and for one run's row to be read by another's
  check. Runs are symmetric, and declared so where no liveness or temporal
  property is checked. `store_registry` starts from chosen jobs instead
  (`ChosenFairSpec`): all runs on one path, or the last a good run on another path
  that reads what the others leave. Left out are an unsound run alone on its path
  and unregistered slugs; both are in `store_emission`.
* *Modes.* Nothing is cut off: an invocation has eight steps, and a flag is
  absent or has a value that the code only copies. Endpoints have two values so
  that the finer and the coarser flag can differ. The model ids are `gpt-4o`, the
  alias of the pinned snapshot, and another.
* *Adapter.* Calls are unbounded in number. The corpora are a turn repeated with
  a blank one between (the salted id), two long texts with one truncated
  payload and a third in another session (the distinct payloads, two batches),
  and blanks only (a store with nothing in it). Two connections are one more than
  the adapter ever holds, and the second is used up only if one has leaked;
  `Connect` is then disabled, which `ConnectRaises` and the other calls keep from
  stopping the rest. Two loops tell the loop of a connection from a later one.
* *Pipeline.* Two questions that share a session, since what is stale can only
  be stale from the question before; in the first a session is repeated under
  another id and date; one date is missing; a twin dataset differs in session ids
  and evidence only, for the leakage guard; one dataset has a malformed item that
  `--limit` may cut off. The stray units are a user turn that only the first
  question has, a reply that only the second has, and one past the end of the
  session they share. A careless adapter gives up to three hits for a top 2.
* *AMB provider.* One user and none are the two kinds of bank, and the user is
  called `shared`. The deliveries hold a document that comes again with another
  text, one of no user with the same id, a blank one, one document twice in one
  delivery, and two texts with one truncated payload; batches of one make every
  second payload a new batch. Depth 0 stands for the default. `MaxOrdinal` (in
  `Fits`) bounds the documents planned per bank: three is a delivery that fails
  half-way and is repeated. Two connections are one per bank.
* *Screening.* The second question's memory follows the first's, which is all a
  leak or a stale row needs. Its trajectory has two states of equal index and
  step that are limited to one text, beside a trajectory that is refused.
  `MaxCalls` allows an insert, its repetition and a query, with closes between
  them; `MaxRows` is a row for each question. Connections are symmetric. The
  configs that are given name each kind of backend, one that is none, and the
  deterministic one between blanks. Baselines agree with
  what a faithful run retrieves, differ in one question or in both, are about
  other questions, or are the log itself; with two questions a percentage is
  either of none, half or all of them, so the thresholds are scaled to 50.

`CHECK_DEADLOCK FALSE` is set everywhere: a command-line run ends, and an
object that is collected takes no more calls.

Fairness is used in one run. In `store_registry`, `ChosenFairSpec` gives weak
fairness to each run's own steps and none to crashes: an operating system process
that is not killed goes on, and every step of an emission is a local file
operation that is always enabled. `ValidRunFinishes` holds for behaviours in which
no two live runs share a path and says so in its formula; a good run then ends
published, refused for its id, stopped by a row it cannot read, or killed.

## What disagrees with the documentation

* `store_key`: the derived result id names the engrava version and the date
  only. Two runs of one day with different readers share the path, the
  uniqueness check skips the own path, and the second replaces the first,
  although `results/README.md` calls the id collision-safe across configs,
  readers and dates.
* `modes_explicit`: `--mode smoke` overwrites an explicit `--models`, although
  the help text says an explicit value always wins over the mode's default.
* `modes_mock`: `--mode score --models mock` emits a full row with the gpt-4o
  labels of the configuration over mock output, although `_modes.py` says a
  mocked component cannot produce a publishable row.
* `modes_embedder`: `--embedder-spec ollama:...` leaves `embedder_endpoint` at
  `api.openai.com`, although the help text says provenance stays honest.
* `pipeline_rerank`: the runner takes ranked items in the order in which the
  adapter returns them and reads no score, although `adapters/base.py` says it
  re-ranks by descending score defensively. The adapter of this repository
  returns them in order; a third party's need not.

Observed while modelling, where no document says otherwise or none is clear
enough to be refuted; the model does what the code does:

* A rejected row deletes what an earlier good run had published at its path.
* The check of the other rows catches `JSONDecodeError` only (`emit.py:259-265`).
  A good run raises there when another run has unlinked its rejected row since the
  listing, or when a killed run has left a row cut inside a character, and then
  until somebody removes it (`OnlyTheCheckIsStopped`).
* A search after a failed ingest answers from the part that was stored. The runner
  never makes one; a caller that goes on after the error would.
* `_require_config_matches_mode` says that a retrieval or a score forbids a
  deterministic embedder (`run.py:317-320`), and accepts the backend
  `"deterministic "`: the memory strips the blank and runs hash vectors
  (`CommandKeepsMode` has the exception).
* `close()` of the adapter may raise after the last question, and the records of
  the whole run are then lost.
* `--baseline` may name the output directory: the log has just been moved into
  place there, is compared with itself and is GREEN (both runners).
* The clean-up of the AMB provider speaks of `BaseException` and catches
  `Exception`: an interrupt in the middle leaves the banks after it open
  (`CleanupInterrupted`).
* An AMB document that is delivered again with another text is added to the
  first, and an answer has it once, with the text of its better hit, which may be
  the older one.
* A client of the embedding provider stays bound to the old loop when an adapter
  or a provider is used again after `close()` or `cleanup()`.
* States of one trajectory with equal index and step have different ids but one
  item key, and hits with one limited text collapse, so a V2 query may return
  fewer than `top_k` items.
* The map of limited texts outlives `close()` of a V2 memory: filled again with
  the same trajectory, it can give a state whose vector was never stored in the
  new store, with the old text.
* Two questions with one id collapse in the retrieval log, not in the bundle.

## What is proved

Every safety invariant, action property and refinement that a passing run
checks is also a theorem, for every value of the constants. Eight modules hold
the proofs; the only assumptions are the named ones on the constants: sentinels
are distinct from data, sizes are natural numbers, the bundle lists each
component once, and what is read from a file has the shape the readers of the
code require of it (`DatasetAssumption`: lists of items with lists of turns and
comparable dates; `QuestionsAssumption`: questions whose trajectories have
numbered states with formatted texts; `BaselinesAssumption`: a stored log maps
ids to lists).

* *Sorting* (`SortingProofs`). `SortedIsSorting` and `ListedIsListing` say that
  the arrangement that `Sorted` chooses exists and has every element once, in
  order. That it exists takes an induction over the size of the set, whose
  theorems take an operator, so it goes by least counterexample: if some size
  had a set without an arrangement, the least such size has one
  (`WFMin` of the library, in `Least`), it is not zero, and putting the removed
  element before the first that follows it (`Insertion`) arranges the set.
* *Result store* (`ResultStoreProofs`). `TypeCorrect` first. The invariants of
  the exclusive case follow from one that says, for each step of a live run,
  which part of its path already carries its name: after `mkdir` the directory
  exists, the components before `next` are its own, then all of them, then the
  row as well. It is inductive because another live run is on another path.
  `DebrisStopsOnlyTheCheck` takes from it that nothing past the check fails, and
  from `Blame`, which holds for any interleaving, that whatever the check cannot
  read is owed to another run: a row that is torn, or that was listed and is gone,
  stands at the path of a run that was killed or has unlinked it (`Withdrew`). The
  uniqueness of ids (`ResultIdsAreUnique`) needs in addition that between the
  check and the write no other row with the id appeared, which is what
  `IdExclusiveSpec` gives and the code does not enforce. The refinement
  (`StoreImplementsRegistry`) needs no such condition and goes action by action:
  a write publishes only when it completes an acceptable row and bundle, and any
  other write at the path stutters or withdraws.
* *Publication* (`PublicationProofs`). `SweepAgreesWithEmission`, from the two
  invariants above, since runs of different ids are on different paths, and
  `Traces`: what stands at a path is the work of the run that last began to write
  there, and a path where none did is empty. So if every run has ended and none
  was killed or raised, a path has a whole row and its own bundle or neither.
* *Run modes* (`RunModesProofs`). `Resolution` says, step by step, what the
  namespace still owes to the flags as typed (a non-official mode has emission off
  once it is applied, a free run is offline once the smoke block has run);
  `Provenance` ties the clients to the configuration the row is built from, model,
  snapshot and endpoint, and keeps the snapshots in step with the labels
  (`LabelFits`) through the blocks that override them;
  `Configured` says what the resolved configuration is as a function of the flags,
  which gives `BareIsCanonical` and `FinerFlagsWin`.
* *Adapter* (`EngravaAdapterProofs`). `AdapterInv`, one named part at a time.
  `Shape` says what each await may rely on (in `_create_store` nothing of the
  previous store is left, while storing the present store is for the argument of
  this ingest). `Resources` gives every open connection an owner; it strengthens
  `NoLeakWithoutFault` by the store's connection being open. `Contents` says of a
  store at any stage that what is in it is planned and that what is planned and
  no longer in `todo` is in it; with the ids of a corpus being pairwise different
  (`IdOfInjective`: the salt is a position, and only the later of two equal turns
  has it) it gives `HoldsExactly` once `todo` is empty. `Placing` says that what is
  placed so far ranks the hits looked at so far (`PlacedAlready`, `PlacedNow`).
  From these follow the invariants of `adapter_calls` and the refinement
  `AdapterKeepsPromise`: a step that leaves no store discards, `EnsureSchema`
  begins (`EnsureSchemaBegins`), the storing of a thought or a vector takes more of
  the corpus (`StoringTakes`), and any other step leaves the store as it is and may
  answer from it (`Answers`, for a store at any stage).
* *Pipeline* (`PipelineProofs`). The invariant of the loop has `records` cover
  exactly the questions before `q`, in order (`InOrder`), and what is written be
  the records of all of them (`Published`). `CompleteWhenPublished` has the
  hypothesis `DistinctQuestions`: with a repeated id the retrieval log has one
  entry for two questions. What the records say needs a second one, `QInv`: the
  history in hand is `AssembleContext` of the answer in hand for the item that
  is asked (`InHand`), and the rounds and ids of each record are of its own item
  (`Recorded`). From it follow, through facts about the operators of `Corpus`:
  `HaystacksAreOwn`, since a round is cut from the first session of its content
  (`FirstIsFirst`, `RoundIsOwn`); `HistoryKeepsTheBest`, where the rounds kept
  are the first `TopK` of the places that are known (`PlacesListed`,
  `CutToTopK`) and the sort is a permutation that is stable (`ByDateSorts`);
  `RecordedIdsAreGenuine` (`IdIsOwn`), which pins the id to the first session with
  the content. `NothingLeaks` is not about steps: two
  items with one public part have one corpus and one history (`PublicIsEnough`),
  because nothing that the adapter or the reader is shown reads another field.
* *AMB provider* (`AmbProviderProofs`). `Typed`; `Resources` for the connections;
  `Numbered`, that the ordinal of every id in a bank and of every one planned is below the
  bank's counter, which makes a new id fresh whatever failed before; `Filling`, that what
  is planned and no longer in `todo` is stored (`IngestsAreComplete`);
  `Answering` and `BestFirst`, that what is placed so far ranks the hits looked at
  so far. The refinement `BanksAreApart` maps the storing of a vector to `Place`,
  the call of `retrieve` to `Ask` and its return to `Answer`, the taking out of the
  banks to `Wipe`.
* *Screening* (`V2ScreeningProofs`). `MemoryInv` is about the memory under any
  harness: open connections have an owner and a call that works has one
  (`Handles`); an insert has stored what is no longer in `todo` (`Storing`);
  while there is a store, whatever is mapped is stored with its vector and mapped
  to its own limited text, or was mapped before the store was made and is as it was
  (`Mapped`, `OfThePast`), which is what makes `QueriesGiveWhatIsStored` true after
  a failed insert, with `ContextsAreDifferent` for the loop that drops repeated
  texts. `RunnerInv` ties the command to the mode (`Commanded`) and the two
  log files to the rows the harness has written (`Logged`), through a kill at any
  step. `Screened` adds that the log is made of lists and that nothing follows
  a verdict; `VerdictMeans` reads the definition of the verdict for any two logs
  of lists, and `VerdictsAreSound` is the two together. `StateIsTyped` needs
  `Counted`: where `main()` and the harness are, and that the questions asked are
  the questions of the file or their head.
* *Retrieval diff* (also there). The diff is symmetric (`VerdictCommutes`), and
  a log compared with itself passes (`SelfVerdict`); so a screening whose
  `--baseline` is its own output directory is always GREEN (`OwnLogIsGreen`).

Only model-checked: liveness (`ValidRunFinishes`), which needs fairness and
`ENABLED` and is out of the prover's reach.

## Not modelled

* *Scorer.* Accuracies over a finished list of judgments, over all, by category
  and over abstentions: pure counting, with no state and no order of steps.
* *Clients.* Stateless wrappers of an HTTP service; that a call fails is `Raise`
  in `Pipeline` and `RunModes`.
* *Preflight.* A read-only report over a dataset file.
* *Leaderboard and slugs.* A rendering of the rows that passed the sweep, and
  tables of names.
* *Rows committed by hand, and a sweep beside an emission.* The first may be
  anything, and the sweep is the definition of what is accepted; the second is
  not how the repository is used (it runs in CI and by `make validate`).
* *The stand-alone diff command.* The same operators over two stored files.
* *Detail.* The token budget's cut of the history, prompt texts, the choice of an
  embedding device, the parsing of parameters, the metadata of the V2 hook,
  formatting and logging carry no property.

Work that would add most: rows committed by hand, as an action of the tree, for
the sweep's other half; the metrics of the scorer as folds over the judgments.
