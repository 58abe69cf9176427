# Verification project for the fuzztruction-net scheduler

This directory holds TLA+ models of the concurrent core of the fuzzing
scheduler in `src/scheduler/src`, the TLC configurations that check them,
and TLAPS proofs of their main invariants. `PROJECT.json` lists the
components, the runs, the mutants, the code each definition models (`map`),
the findings, the hazards, and the theorems.

## 1. Inventory

### Components and the state they keep

| Component | Source | State | Operations |
|---|---|---|---|
| Coverage bitmap and virgin maps | `fuzzer/worker_impl/common.rs` (`check_virgin_maps`), `fuzzer/campaign.rs` (`new`) | the shared virgin map and the shared crash virgin map, each behind a `Mutex`; one local virgin map per worker | `has_new_bit` (outside src/, from spec 4.1), `check_virgin_maps`, `copy_from` |
| Queue entry tracing | `common.rs` (`trace_queue_entry`, `load_queue_entry_mutations`) | per queue entry, under its `stats_rw` lock: `trace: Option<Trace>` and `tracing_in_progress` | check/mark in progress, restore mutations, `common_trace`, `set_trace` |
| Campaign | `fuzzer/campaign.rs` | `workers` (proxies with `is_alive`), `restarted_worker: Vec<WorkerUid>`, the `Once`/`AtomicBool` init guard, the shared queue, virgin maps and Cerebrum | `new`, `start`, `spawn_additional_worker`, `restart_crashed_worker`, `shutdown`, `dump` |
| Add phase | `fuzzer/worker_impl/phases/add.rs` | the source's mutation cache, read from the Cerebrum | `add_phase_choose_candidates` (union, remove uncovered, resize, then the unfuzzed, yielding and random draws), `add_phase_prepare_mutations` (mutator budget), `do_add_phase` |
| Execution-time average | `common.rs` (`report_execution_duration`) | `avg_execution_duration` | the stabilised rolling mean |
| Artifact persistence | `common.rs` | files only | interesting and crashing inputs, ASAN reports, symbolisation |
| Configuration | `config.rs` | immutable `Config` | YAML section parsers, `FromStrDuration`, the `server-ready-on` parser, `check_for_unparsed_keys`, the `Default`s of the phase configs, validation |
| Generator agent | `src/generator/agent/src/lib.rs` | none | module declarations only |

The mutation cache, the Cerebrum, the queue, the worker loop and the Mutate,
Combine and Discovery phases are used by this code, but their code is not
under `src/`. Where a model needs them, they are modelled from `spec.md` and
marked `spec_modelled` in the map.

### How the components interact

Worker threads share the queue (`Mutex`), the two global virgin maps
(`Mutex` each), the Cerebrum (`RwLock`), and each queue entry's stats
(`RwLock`). After a sink execution a worker calls `check_virgin_maps`. This
checks its own local map with no lock. Only when the local map reports new
bits does the worker lock the global map, check again, and copy the global
map back into its local one. On new coverage the caller pushes a queue entry.

Before it fuzzes an entry, a worker calls `trace_queue_entry`. The entry's
stats lock is held only to check and set `tracing_in_progress` and to store
the result. The lock is released for the long trace in between.

The campaign thread spawns workers. It periodically calls
`restart_crashed_worker`, which spawns a replacement for every dead worker it
has not handled yet. The number of replacements is bounded by
`MAX_WORKER_RESTART_CNT`.

### What is hard

- Lock-free reads of per-worker state racing with locked updates of the
  shared state: the local/global virgin-map protocol.
- A check-then-act that is split across a lock release: the tracing flag.
- Error and panic paths between two critical sections: a trace that fails
  or times out.
- A bounded retry policy that is evaluated over many calls, while workers
  die between and during the calls.
- Numeric boundaries: float shares of a batch, mutator budgets at mask
  lengths 32 and 128, and `Duration` and `u32` arithmetic in the mean.
- Parsers built on unanchored regular expressions.

### What makes each component correct

- **Virgin maps.**
  - When the local map answers NoNew, the coverage is not new for the
    campaign either. This means every returned check has merged its coverage
    into the global map.
  - A queue entry is pushed only for a transition of the global map.
  - Two workers never both report the same discovery.
- **Tracing.**
  - At most one worker traces an entry at a time.
  - A stored trace is never replaced.
  - A failed trace leaves the entry traceable again (spec 4.3 and 7).
- **Campaign.**
  - No dead worker is replaced twice.
  - Every dead worker is eventually replaced or marked.
  - At most `MAX_WORKER_RESTART_CNT` replacements are spawned (spec 5).
- **Add phase.** The draws are disjoint. The shares sum to at most
  `batch_size`. Only nop entries are mutated. The budget matches the
  spec's table.
- **Configuration.** Unknown keys are rejected. Durations and
  `server-ready-on` follow the grammar of spec 6 and 8. The defaults are the
  same whether a section is absent or only omits a key.

## 2. Plan

Modules, in order of importance:

1. `VirginMap` (done). The local/global check of `check_virgin_maps` for
   any number of workers.
2. `Tracing` (done). `trace_queue_entry` per queue entry.
3. `Campaign` (done for start, crash and restart). Next comes `shutdown`:
   the stop request and join.
4. `AddPhase` (done). `do_add_phase` for several workers sharing the
   Cerebrum; the iteration budget is checked against the spec's table.
5. `ConfigValues`, `ValueParsers`, `ConfigParse` (done). The value
   conversions and the two string grammars over all short strings, and
   `from_str` over documents near a minimal valid one.
6. `Worker`. Composes `VirginMap`, `Tracing` and `Campaign` by INSTANCE: a
   worker loop (spec 4.7) that traces, fuzzes, pushes entries and may panic,
   restarted by the campaign. This is where the crash-while-tracing hazard is
   checked.
7. `ExecAverage`. `report_execution_duration` in integer milliseconds with
   its `u32` width.

Abstract specifications (done):

- **Virgin maps.** `VirginMapAbstract` has one shared map. Each execution's
  coverage is dismissed only when the shared map has none of its bits;
  otherwise it is merged atomically. `VirginMap` refines it with the local
  maps hidden. This is checked by TLC and proved.
- **Tracing.** In `TracingAbstract`, a worker claims an untraced entry, then
  attaches a trace once or releases the entry. `Tracing` refines it with the
  lock and the flag hidden. This is checked by TLC and proved.

Every safety invariant, action property and refinement that a passing run
checks is also proved for all values of the constants (section 6). Only the liveness property
`CrashHandled` is left to TLC.

## 3. Modules and how they map to the code

### `VirginMap` (checked by `MCVirginMap`)

A bitmap is a function from byte positions `Idx` to the set of bits that are
set in that byte, so a virgin byte equal to `Bits` is `0xFF`.

- `NewBitStatus` and `ClearBits` are `Bitmap::has_new_bit`, taken from spec
  4.1 because its code is outside `src/`: NewEdge iff a byte that was `0xFF`
  loses a bit.
- `Init` is `FuzzingCampaign::new`: the shared map is all `0xFF`. The
  local maps are created in `worker.rs`, outside `src/`. They start all
  `0xFF` here. Any local map at least as set as the global one satisfies
  `LocalCoversGlobal`, so the proofs hold for that wider choice too.
- `CheckLocalNoNew` and `CheckLocalNew` are the two outcomes of the unlocked
  local check.
- `CheckGlobal` is the locked section: `has_new_bit` on the global map,
  `copy_from`, then return of the global verdict.
- `PushEntry` is the caller pushing a queue entry on NewHit or NewEdge.

Each worker chooses any coverage map for each execution.

`VirginMapAbstract` states what `check_virgin_maps` promises, with the local
maps hidden. There is one shared map. An execution's coverage is either
dismissed at once (`CheckNoNew`), which is allowed only when the shared map
has none of its bits, or it is collected and later merged into the shared
map in one step (`Collect`, `Merge`). A queue entry follows exactly when
some bit was still set (`Push`). `VirginMap` maps onto it by renaming the
locked phase `global` to `checking`; all other variables map to
themselves. `ImplementsAbstract` is that specification.

### `Tracing` (checked by `MCTracing`)

- `TraceFound`, `TraceBusy` and `TraceStart` are the three outcomes of the
  first critical section of `trace_queue_entry`.
- `LoadMutations` is the mutation restore.
- `TraceError` covers both error returns: `?` at line 161, and the
  `common_trace` error at line 187. Neither re-takes the lock.
- `TraceDone` is the second critical section with `set_trace`. Per spec 4.3,
  `set_trace` also clears the flag.
- `ret` records what the call returned.

`TracingAbstract` states what `trace_queue_entry` promises (spec 4.3): a
worker claims an untraced entry nobody holds (`Claim`), and the claim ends
either with the claimant attaching a trace once (`Attach`) or with it
giving the entry up (`Release`). The refinement mapping sends an entry's
`claim` to its set of tracers, `Tracers(q)`. The stats lock, the
`tracing_in_progress` flag and the restore of mutations are hidden.

### `Campaign` (checked by `MCCampaign`)

- `alive` is the workers vector by uid.
- `restarted` is `restarted_worker`, with the duplicates the code's `extend`
  produces.
- `spawnedFor` is a history variable: which dead uid each replacement was
  spawned for.
- `RestartCrashedWorker` is the whole function as one step. This is faithful
  because only the first loop reads `is_alive`, and a worker that dies later
  is seen on the next call. The closed form of the second loop: the k-th
  crashed worker is restarted iff `len > MAX` is false before it, so the
  first `r = min(#crashed, MAX + 1 - len)` are restarted. If the bound trips,
  `restarted_worker.extend(crashed_workers)` appends the whole list.
- `CrashedWorkers` is the first loop. A uid is its position in the workers
  vector, so the `Vec` the loop pushes is the set of dead, unhandled uids
  in increasing order. `Ascending(S)` writes that order without recursion:
  position `i` holds the uid of `S` with `i - 1` smaller uids in `S`. An
  earlier version filtered the vector with `SelectSeq`, a recursive
  operator the provers cannot reason about. The two agree on every vector
  of up to 6 workers and every handled set (checked by TLC), and
  `MCCampaign` reaches the same 1431 states with either.

### `AddPhase` (checked by `MCAddPhase`)

An MCE is its patch-point id. For entry `e`, `Active[e]` are the ids of its
non-nop MCEs and `Covered[e]` is `trace.covered()`. After `union_and_replace`,
`remove_uncovered` and `resize_covered_entries`, the temporary cache holds
exactly the covered ids; `selection` starts as the covered active ones and
`candidates` are the covered rest (`Covered[e] \ Active[e]`).

- `ChooseUnfuzzed` is the call up to the end of the unfuzzed block. It
  panics in `weights_sum` when the weights sum to 0. Otherwise it takes up to
  the share of `unfuzzed \cap Covered[e]` (which ids `take` returns depends
  on the hash set's order, so any subset of that size) and extracts their
  candidates. The ids it takes that are active extract nothing.
- `ChooseRest` is the yielding block, the random block, the install of the
  new cache and `add_phase_prepare_mutations` with its iteration budget.
  With no nop target `do_add_phase` returns at once.
- `FuzzTarget` is `fuzz_candidates` on one target (outside `src/`, from spec
  4.4 and 4.6.5): the Cerebrum callback marks the id fuzzed, and new sink
  coverage may mark it yielding.
- `weights` is chosen once in `Init` from `WeightChoices`, the configured
  `select_*_weight` triples.

### `ConfigValues`, `ValueParsers` and `ConfigParse`

A YAML value is a record with a type tag (`str`, `int`, `bool`, `hash`,
`vec`, `null`, and `bad` for what indexing a missing key yields). A string is
a sequence of symbols: single characters where the parsers look at
characters, whole words where they only compare words. Outcomes are `Ok`,
`Err` (any `ConfigError`, `io` or `anyhow` error) or `Panic`.

- `ConfigValues` has one operator per `TryFromYaml` impl. `FromStrDuration`
  is the leftmost match of `([0-9]+)(s|m|h|d|a)` anywhere in the string,
  with a greedy digit run. `ServerReady` lowercases, takes the leftmost
  `bind` or `listen` with the optional `([1-9]+[0-9]*)` count, and panics
  when there is none. `PathBuf` joins a relative path to the config's
  directory and canonicalises it, which fails when it does not exist.
  Durations are in seconds. `AndThen` is Rust's `?`: an `Ok` value is
  handed on, any other outcome returned. It and `FirstFailure` bind their
  argument through `Bind`, which evaluates it once. When TLC collects
  coverage, it evaluates a LET definition or an operator argument again at
  each use. Without `Bind`, the nested section parsers cost exponential
  time.
- `ValueParsers` parses one string once (`ParseDuration`, `ParseReady`) and
  compares the result with the grammar of spec 6, written independently
  (`DurationGrammar`, `SpecUnit`, `ReadyGrammar`): on the grammar's strings
  the values must agree, and off them the parsers must fail (`OnlyGrammar`).
- `ConfigParse` writes each `parse_*_section` as its table of attributes
  (key, type, whether the field is an `Option`) in the code's order, and its
  key list. `ParseSection` reads the attributes up to the first failure,
  then runs `check_for_unparsed_keys`. `ParseGeneral` adds the jail check.
  `PhaseSection` and `ParsePhases` are `parse_phases_section` with
  `get_optional_section`, the `unwrap_or_else` fallbacks (`PhaseFallback`)
  and the `Default` impls (`PhaseDefault`). `FromStr` is `from_str`: the
  sections in order, then `Validate`. `MCConfigParse` gives it a minimal
  valid document, every document one or two edits away from it (an unknown
  key, an integer key, a lone `jail-uid`, a missing input directory or
  vanilla section, `phases: null`, phase sections with and without
  timeouts, an afl-net section, three `server-ready-on` and `env` values, a
  missing sink binary), and the empty file.

## 4. Runs

| Run | Checks | Bounds and why they suffice |
|---|---|---|
| `virgin_map` | `CoverageMerged`, `EntriesNeedDiscoveries`, `ImplementsAbstract` | 2 workers (symmetric), 2 bytes of 2 bits. Two bits per byte make NewHit (partly cleared byte) as well as NewEdge reachable. Two workers produce every race between a lock-free local check and a locked global check. The state space is finite because the global map only shrinks. |
| `tracing` | `SingleTracer`, `TraceWriteOnce`, `ImplementsAbstract` | 3 workers, 2 entries, 2 distinct traces. Two traces make an overwrite observable. The third worker lets a second tracer start while the first is between its critical sections. |
| `tracing_flag` (violation) | `FlagHasTracer` | TLC finds: start, restore fails, flag still set with no tracer. |
| `campaign_restart` | `ReplacedOnce`, `CrashHandled` | 3 workers, budget 2, so replacements crash again and the bound trips with several crashed workers pending. Deadlock checking is off: once every worker is dead and handled, the campaign has nothing left to do, and that is a real final state. |
| `campaign_restart_bound` (violation) | `RestartBound` | TLC finds three replacements for a budget of 2. |
| `add_phase` | `DrawsDisjoint`, `DrawsWithinBatch`, `BudgetFromSpec` | 2 workers, 2 entries, patch points 1..5, batch size 3, weights 1:1:1 or 0:0:0, mask lengths 4, 32, 33 and 129. Five covered points exceed the batch, so a wrong share shows. The lengths sit on both sides of the budget's boundaries. Two workers let the Cerebrum change between one worker's draws. Deadlock checking is off: a worker that panicked in `weights_sum` stops for good. |
| `add_unfuzzed` (violation) | `UnfuzzedDrawnOnce` | TLC finds two workers holding the same unfuzzed draw. |
| `value_parsers` | `DurationOnGrammar`, `ReadyOnGrammar` | All durations of up to 3 symbols over `0 1 5 s m a x`, and all `server-ready-on` strings of up to 5 symbols over `BIND Listen ( ) 0 3 x`. That includes two-digit numerals, every unit with the stray letter before and after it, mixed case, and counts of one and two digits. Each behaviour is one call, so deadlock checking is off. |
| `value_grammar` (violation) | `OnlyGrammar` | TLC finds `1s1` accepted as one second (`1s0` is accepted the same way); `listen(0)` and a panic on the empty string are in the same run's reach. |
| `config_parse` | `RejectsUnknownTopKeys` | 89 documents: the minimal one, every one or two edits of it, and the empty file. The pairs combine errors from different sections, so the order of the checks shows. |
| `config_panics` (violation) | `NeverPanics` | TLC finds the empty file panicking; `phases: null`, the integer key and `server-ready-on: x` panic too, and an add section with weights 0:0:0 is accepted. |
| `config_phase_defaults` (violation) | `PhaseDefaults` | TLC finds a discovery section without timeouts getting 5m/10m. |

Each property of a passing run has a mutant in `PROJECT.json`, and TLC finds
each mutant:

- `CheckLocalNoNewEdgeOnly` escalates only NewEdge, so NewHit bits are
  cleared locally and lost. This breaks `CoverageMerged`, and
  `ImplementsAbstract` too: the dismissed coverage still has bits in the
  shared map.
- `CheckGlobalLocalVerdict` returns the shadowed local verdict. Two workers
  then push for the same discovery, which breaks `EntriesNeedDiscoveries`.
- `TraceStartUnguarded` drops the `tracing_in_progress` check. This breaks
  `SingleTracer`, `TraceWriteOnce` and `ImplementsAbstract` (a second
  claim of a held entry).
- `CrashedWorkersAll` drops the `restarted_worker.contains` check. This
  breaks `ReplacedOnce`.
- `RestartNoMark` drops the `extend` once the bound is hit. This breaks
  `CrashHandled`.
- `ChooseUnfuzzedNoExtract` leaves the unfuzzed draws among the candidates
  (breaks `DrawsDisjoint`). `ChooseUnfuzzedAll` ignores the share (breaks
  `DrawsWithinBatch`). `IterationsOffByOne` uses `<` at the boundaries
  (breaks `BudgetFromSpec`).
- `UnitSecondsMinuteAsHour` has a wrong unit factor (breaks
  `DurationOnGrammar`). `CountAtOneDigit` lets the count group hold only
  one digit (breaks `ReadyOnGrammar`).
- `CheckKeysNoUnexpected` drops the unknown-key test (breaks
  `RejectsUnknownTopKeys`).

### Fairness

Only `Campaign` has a liveness property. It assumes weak fairness of `Start`
and of `RestartCrashedWorker`: the campaign's main loop calls
`restart_crashed_worker` periodically for as long as it runs (spec 2 and
4.8). Worker deaths are not fair, because a worker may never die.

## 5. Findings

1. **The tracing flag stays set after a failure**
   (`common.rs:161`, `common.rs:187`). `trace_queue_entry` returns the error
   without clearing `tracing_in_progress`, so every later call returns
   `Ok(None)` and the entry is never traced. Spec 4.3 and 7 say failures
   leave the flag clear. Run `tracing_flag`.
2. **The restart bound is off by one** (`campaign.rs:206`). `len() > MAX`
   permits `MAX + 1` replacements. Spec 5 and scenario 6 say at most `MAX`.
   The spec's own open question (9) notes the `>`. Run
   `campaign_restart_bound`.
3. **Two workers draw the same unfuzzed patch point** (`add.rs:122`). The
   unfuzzed set is copied under the read lock and never updated by the
   draw; only the fuzzing callback clears a point. Spec 4.4 says selecting
   moves it out. Run `add_unfuzzed`.
4. **The value grammars are not enforced** (`config.rs:35`,
   `config.rs:814`). Both regexes are unanchored: `1s1`, `1s0`, `5min` and `x1s`
   parse as durations, and `listen(0)` as `Listen(0)`. The
   `server-ready-on` captures are unwrapped, so a value without `bind` or
   `listen` panics. Run `value_grammar`.
5. **`from_str` panics, or accepts what panics later** (`config.rs:991`,
   `config.rs:172`). It panics on `phases: null`, an integer key, the empty
   file and a `server-ready-on` value without a keyword. It accepts select
   weights 0:0:0, and `weights_sum` then asserts in the first Add phase
   (`add.rs:108`). Spec 7 says a bad configuration yields a `ConfigError`
   at startup. Run `config_panics`.
6. **Two sets of phase defaults** (`config.rs:1114`). A section that omits a
   timeout gets 5m/10m, 10m, 10m or 30m; an absent section gets the spec's
   10m/20m, 15m, 15m, 10m. Run `config_phase_defaults`.

`Config::validate` also never calls the `Validator` impl of `AflNetConfig`
(`config.rs:564`), so a missing absolute afl-net binary is accepted. The
spec leaves the afl-net wrapper out of scope, so this is recorded as a
hazard, not checked as a claim. The four checks `validate` does make are
not stated as a property either: they are plain existence tests that a
property would only restate.

## 6. Proofs

All proofs are checked by `tlapm`. Each theorem holds for every value of
the constants that satisfies the module's `ASSUME`s. TLC evaluates those
assumptions in every run of the module.

### `VirginMapProofs`

Assumptions:
- `BitsAssumption`: a byte has bits.
- `FinitenessAssumption`: finitely many workers, bytes and bits. The
  bitmap has a fixed size, and the campaign a fixed number of threads.

Theorems:
- `TypeCorrect`: `Spec => []TypeOK`.
- `CoverageMergedInvariant`: `Spec => []CoverageMerged`. `CoverageMerged`
  alone is not inductive. A NoNew from the local map implies nothing about
  the global map unless the local map is no more cleared than the global
  one. The strengthening `LocalCoversGlobal` says exactly this: every bit
  set in the global map is set in every local map, except, for a worker
  inside the locked section, the bits of the coverage it is merging.
  `IInv == TypeOK /\ LocalCoversGlobal /\ CoverageMerged` is checked by TLC
  and proved inductive (`IInvInductive`). The proof has one step per action
  and one sub-step per conjunct. The lemmas `NoNewMeansMerged` and
  `ClearBitsType` are about `has_new_bit`.
- `EntriesBoundedByDiscoveries`: `Spec => []EntriesNeedDiscoveries`.
  `EntriesNeedDiscoveries` is inductive together with `TypeOK`
  (`EntriesStep`). The argument is a count. A global check that finds a new
  bit clears at least that bit as it makes the worker a pending pusher.
  Every other step leaves both sides alone or moves a pending push into
  the queue. `CountsFinite` gives the cardinalities, from
  `FinitenessAssumption`.
- `Refinement`: `Spec => ImplementsAbstract`. The initial state maps to
  the abstract initial state. Under `IInv`, every step is a step of
  `VirginMapAbstract` (`StepRefines`):
  - A local NoNew is `CheckNoNew`. It is allowed because `LocalCoversGlobal`
    makes the local verdict the shared map's.
  - A local new answer is `Collect`.
  - The locked check is `Merge`.
  - A push is `Push`.

### `TracingProofs`

Assumption: `ConstantsAssumption` says there is at least one entry and one
trace, and that `NoTrace` is not a trace.

Theorems:
- `SingleTracerInvariant`: `Spec => []SingleTracer`.
- `TraceWriteOnceHolds`: `Spec => TraceWriteOnce`.
- `Refinement`: `Spec => ImplementsAbstract`.

All three rest on the inductive `TracerOwnsFlag`: a worker between marking
and `set_trace` holds the flag, and the entry has no trace. With it:
- marking an entry is a `Claim` of an untraced, unclaimed entry by a
  worker with no other claim;
- `set_trace` is an `Attach`;
- an error return is a `Release`;
- the other steps leave the claims and traces alone.

### `AddPhaseProofs`

Assumptions:
- `ConstantsAssumption`: the shapes of the entries, masks and weights, and
  at least one entry.
- `PatchPointsFinite`: a source has finitely many patch points.

Theorems:
- `TypeCorrect`: `Spec => []TypeOK`.
- `DrawsAreDisjoint`: `Spec => []DrawsDisjoint`. Its strengthening `IInv`
  (with the per-worker part `WorkerInv`) says that, for each worker:
  - the draws of every class and the remaining `candidates` lie in
    `Drawable(w)`, the entry's covered ids that are not active;
  - the candidates are disjoint from every class, and the classes from each
    other;
  - a zero weight sum means no draws and no candidates. This conjunct is
    needed because the panicking branch of `ChooseUnfuzzed` changes `entry`
    but keeps `cand` and `drawn`.

  TLC checks `IInv` on the `MCAddPhase` instance. The lemma `DrawSubset`
  says that a draw takes elements of the set it draws from.
- `DrawsWithinBatchInvariant`: `Spec => []DrawsWithinBatch`. The
  strengthening `ShareInv` says that each class has drawn at most its
  `calc_share` while the weight sum is non-zero. `WorkerInv` covers the
  zero sum. The arithmetic lies in two lemmas:
  - `SharesWithinBatch`: the three floor shares sum to at most
    `batch_size`;
  - `DrawCard`: a draw of at most `n` ids has at most `n` elements, from
    `PatchPointsFinite`.
- `BudgetMeetsSpec`: `Spec => []BudgetFromSpec`. The strengthening
  `BudgetInv` says that, while a worker fuzzes, its prepared mutations are
  drawn MCEs with the budget `Iterations(Width[p])`. `IterationsMeetSpec`
  equates that with the spec's table.

### `ValueParsersProofs`

Assumption: `ConstantsAssumption` says the string bounds are naturals.

Theorems:
- `DurationParsesOnGrammar`: `Spec => []DurationOnGrammar`.
- `ReadyParsesOnGrammar`: `Spec => []ReadyOnGrammar`.

Both hold for every alphabet and every string length. The lemmas
`DurationParse` and `ReadyParse` show that, on a string of spec 6's
grammar:
- the unanchored regex matches at the first symbol (`MinIndexFirst`);
- the greedy digit run stops before the unit or the closing parenthesis
  (`RunEndOfDigits`);
- the unit table is the spec's.

The numeral's value, `Numeral`, is left opaque. The code and the spec apply
it to the same digits.

### `ConfigParseProofs`

Theorem: `UnknownTopKeysRejected`: `Spec => []RejectsUnknownTopKeys`.

It holds for every YAML document. The section parsers are never opened:
- `FirstFailureOk` shows that a loop stopping at the first failure returns
  Ok only if every result is Ok. The least failing index exists by the
  well-foundedness of `<` on `Nat`: `WFMin`, from `WellFoundedInduction`.
- `FromStrGeneralOk` shows that it needs an Ok from
  `parse_general_section`.
- `GeneralOkKeys` shows that the general section's
  `check_for_unparsed_keys` then bounds the top-level keys by the list
  that `GeneralKeysInSpec` places inside spec 6's.

### `CampaignProofs`

Assumption: `ConstantsAssumption` says the campaign starts at least one
worker and the restart budget is a natural.

Theorems:
- `TypeCorrect`: `Spec => []TypeOK`.
- `ReplacedOnceInvariant`: `Spec => []ReplacedOnce`. `ReplacedOnce` alone
  is not inductive. A call could push a uid that was replaced earlier,
  unless the uids already replaced are among those the first loop skips.
  The strengthening `SpawnedRestarted` says every uid in `spawnedFor` is
  in `restarted`. `IInv == TypeOK /\ SpawnedRestarted /\ ReplacedOnce` is
  checked by TLC and proved inductive (`IInvInductive`), with one lemma
  per action. The restart step (`RestartPreservesIInv`) has three parts:
  - its new uids are distinct, because the crashed list is;
  - they are disjoint from `restarted`, so also from the old `spawnedFor`;
  - they are all pushed onto `restarted`, in both branches of the bound.

The lemmas about the crashed list:
- `AscendingSeq`: for a finite set `S` of naturals, `Ascending(S)` is a
  sequence over `S` of length `|S|` with no repeated element. The number
  of smaller elements, `Rank`, grows strictly (`RankMonotone`) and lies in
  `0..|S|-1` (`RankBounds`). It is therefore an injection of `S` into
  `0..|S|-1`, and so a surjection (`FS_Injection`). Hence every position
  has its uid.
- `CrashedWorkersFacts` applies this to the dead, unhandled uids. It also
  shows the number restarted lies in `0..#crashed`.

### Left to TLC only

- The liveness property `CrashHandled`. TLAPS does not handle liveness or
  `ENABLED`.
- What `Numeral` computes, for the same reason. It is a recursive function
  over the digits. The properties above need only that code and spec apply
  it to the same digits.
- The violation runs, which are counterexamples and need no proof.

## 7. Not modelled

- File output of interesting and crashing inputs, ASAN reports and their
  symbolisation. This is pure I/O with no state that other parts read.
- `dump` (queue serialisation).
- YAML text parsing (`yaml_rust`) and reading the file in `from_path`; the
  models start from the parsed document. File existence is a symbol of the
  path (`gone`).
- Overflow of long numerals in `FromStrDuration` and of large weights in
  `weights_sum`: they need integers beyond TLC's range (hazards).
- The agent crate (declarations only).
- The crash virgin map. It goes through the same `check_virgin_maps` as the
  normal map, so `VirginMap` covers it.
