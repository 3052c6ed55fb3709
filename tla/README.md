# A verification development for nautilus_agents

TLA+ models of the `nautilus_agents` crate and of the scripts that maintain its
dependencies, checked with TLC on small instances, with TLAPS proofs of the
results that hold for every instance. Paths below start at the repository's
root; `src/...` is the crate.

## The system

The crate lets an external agent look at a scoped `Observation` disclosed by
NautilusTrader, run a local proposal policy over it, check and record what
happened, and submit a semantic proposal. It holds no trading authority:
NautilusTrader is an external system behind the `ProposalClient` trait.

| Component | State it keeps | Operations | Hard behaviour |
| --- | --- | --- | --- |
| Trace recorder `src/assurance/recording.rs` | the target file, one temporary file per call | `record_trace`, `record_observation` | several threads and processes on one path, I/O errors, kills, power loss |
| Proposal runner `src/authoring/runner.rs` | one future and one timer per run | `run` | the race of policy and timer, lost wakeups, panics in create, poll and drop, cancellation, a wall clock that moves back |
| Shadow evaluator `src/assurance/shadow.rs` | two runners | `evaluate`, `is_match` | order of the two runs, completeness of the comparison |
| Observation `src/protocol/observation.rs` | public fields and a stored digest | `validate`, `validate_at`, `refresh_digest`, `reference` | a digest that is stale after an edit, duplicates, expiry |
| Advisory validator `src/assurance/advisory.rs` | none | `evaluate` | it trusts what `validate` checks, and the reverse; omitted data |
| Decimal quantity `src/protocol/value.rs` | canonical text | `parse`, `cmp`, `is_multiple_of` | digit arithmetic, zero, equality against order |
| Checked text types `src/protocol/value.rs`, `identity.rs` | the text | `parse`, the constructors, serialization | limits in bytes and bits, the order of the checks, a published pattern beside every check |
| Receipts, live client `src/protocol/receipt.rs`, `src/client.rs` | none in this crate | `validate`, the `ProposalClient` trait | combinations of status and fields |
| Contract generator `tools/contract-schema` | the files of `contract/v1` | the modes `generate` and `check` | a write loop that is not atomic, builds that embed the files while it runs |
| Conformance, synthetic data `src/conformance.rs`, `src/testing.rs`, `examples/` | the embedded files | tables, observation builder, example policies | a table written by hand in two crates, setters in any order |
| Dependency update `scripts/update-cargo-dependencies.bash` | lockfiles, snapshots, a lock directory, an EXIT trap | the whole script | two updaters, failing and surviving children, signals, failing restores |
| Cooldown gate `scripts/check-cargo-cooldown.sh` | publication-date database, clean-pass cache, lockfiles | check, `--all --cache`, `--fix`, `--update-db` | stale cache, fail-closed lookups, a repair that repeats, edits under a running gate |
| Audit, sync and managed sections `scripts/*.py`, `scripts/check-nautilus-engineering-sync.bash` | report and configuration files | run, write, check | partial results, partial writes |

The runner calls the policy and is called by the shadow evaluator; an
application passes the trace it returns to the recorder, which asks
`Observation::validate` about a redactor's output. The advisory validator and
`reference` share an observation that the application may edit in between. The
update script holds its lock while it starts `cargo` and the cooldown script as
children; they share the lockfiles and the publication-date database. The
contract generator and the crate share `contract/v1`: the one writes it file by
file, the other embeds it at compile time and tests it against its own table.

`PROJECT.json` lists every component with its status, every hazard with its
line, and the source lines of every definition.

## The modules

| Module | Models | State |
| --- | --- | --- |
| `ObservationCapture` | what `record_observation` refuses and what it writes | none |
| `TraceRecorder` | `replace_with_appended_record`, one action per file operation | caller's place and local data, files, target entry in memory and on the disk, temporary names |
| `AppendLog` | the recorder's promise: an atomic append log | log, status of every call |
| `TraceRecorder_proofs` | TLAPS proofs about `TraceRecorder`, its refinement of `AppendLog` included | |
| `ProposalRunner` | `run`, `evaluate` and the poll order of `select` | phase, future, timer, wakers, outcome, clock |
| `Shadow` | `ShadowEvaluator`, composed of two runs of `ProposalRunner` | the above and the differing fields |
| `Observation` | `validate`, `computed_digest` and the advisory findings, as operators | none |
| `Fixtures` | the synthetic values of `testing.rs`, and the policies of `examples/` | none |
| `ProposalReview` | an agent that builds or receives, edits, refreshes, checks and requests while time passes; composes `Observation` and `Fixtures` | observation, report, requests |
| `Decimal` | `Quantity`: canonical text, order, long division step by step | the division's loop variables |
| `Scalars` | the checks of every other text type, its constructors and its published pattern | text, place of the check, verdict, value |
| `ContractAssets` | the tables of the contract and `DecisionReceipt::validate` | none |
| `Contract` | generators that write and check, builds that embed and test, a developer | sources, `contract/v1`, each invocation's place and memory |
| `Cooldown` | the gate in its modes, over edits, commits and clock changes | lockfile, database, policy, cache, the gate's place and memory |
| `CargoUpdate` | the update script, its children and signals | script's place, child, snapshots, flags, lock, lockfiles, database |
| `CargoUpdate_proofs` | TLAPS proofs about `CargoUpdate` | |
| `Cooldown_proofs` | TLAPS proofs about `Cooldown` | |
| `Shadow_proofs` | TLAPS proofs about a run, and about the evaluation that composes two | |
| `ProposalReview_proofs` | TLAPS proofs about `ProposalReview` and the operators of `Observation` and `Fixtures` | |
| `Contract_proofs` | TLAPS proofs about `Contract` and the tables of `ContractAssets` | |
| `Decimal_proofs` | TLAPS proofs about `Decimal`: its arithmetic and its loop | |
| `Scalars_proofs` | TLAPS proofs about `Scalars` | |

### TraceRecorder

`pc` is the place inside `replace_with_appended_record`; `Read`, `Create`,
`Write`, `Sync` and `Rename` are `fs::read`, `create_new`, the two `write_all`
calls, `sync_all` and `rename`. The two writes are one action: between them the
temporary file is in the state "partial", as it is before the first, and nothing
reads it. `StepFails` is any error of those operations and `Cleanup` the
`remove_file` whose own error the code ignores. `target` is the directory entry
a reader sees and `durable` the one a power loss falls back to, because the code
syncs the file and never its directory; data that was not synced is cut short, and
any temporary name may be there again, one that was renamed or removed included.
A file that was created again after a power loss has a new name in the code (a
fresh UUID), so files are identified by the record that created them.

`line`, `existing` and `pc` are the function's locals; `outcome`, `request` and
`stray` are history that no step reads. The model lets a process die one thread
at a time, which covers the death of all of them.

### ProposalRunner and Shadow

A run goes through `proposing`, `polling` (the policy's future is polled),
`polled` (it is pending, the timer is next), `suspended`, `dropping`,
`finishing`. `select` polls the policy first, and the timer registers its waker
only when it is polled. The policy is adversarial: it may be ready at any time,
even during a poll, may or may not register the waker, and may panic when it is
called, polled or dropped. `Elapse` is the timer's thread. The wall clock and the
timer are independent, as `SystemTime` and `Delay` are; `setBack` is the history of
the runs during which the clock was set back.

`Shadow` allows `Start` of the candidate only after the baseline has returned,
which is what two awaits in a row do, and a panic that escapes a run ends the
evaluation. Both of its runs share all other actions with `ProposalRunner`.

### Observation, Fixtures, ProposalReview and Decimal

`Observation` keeps the fields that the checks read. A digest is the record of
the fields it covers, which takes SHA-256 over canonical JSON as collision free.
`Findings` is a set of codes because no caller depends on their order.
`ProposalReview` is a legal use of the public API: fields are public, so an
application may edit them, the id and the stored digest among them, between the
check and the request, which names what `reference` copies: the id and the digest.
The history `digestWritten` remembers that the stored digest was written after the
report, by `refresh_digest` or directly. An observation is received, or built: `Set` is any setter of `ObservationBuilder`, in any order and
again, and `Build` is `build`, which computes the digest and then validates. The
proposal is any, or what a policy of `examples/` makes of that observation.
`Fixtures` counts quantities in quarters, so that 2.75 and 1.25 are naturals.

Quantities are naturals in these two modules. `Decimal` justifies that: for the
texts `parse` accepts, order, equality and `is_multiple_of` are those of the
numbers. Its `Subtract` and `PushDigit` are one iteration each of the nested
loops of `decimal_remainder`. The loop with a borrow inside `subtract_decimal` is
the function `Differences`, from the last digit to the first.

### Scalars

A text is a sequence of characters that stand for their class: one byte or two,
control or not, digit, hexadecimal, separator. `parse` takes the checks in the
code's order and stops at the first that fails; a path is scanned step by step, as
its loop does; a constructor writes its own text; an accepted value is serialized
and parsed again by a reader. What `str`, `u64` and the `uuid` crate do is a
recursive function each (`LeadingBytes`, `LeadingNumber`, `LeadingDigits`,
`Numeral`): the value after each character. `SchemaAccepts`
is the JSON Schema that the crate publishes for the same type, which a consumer in
another language checks instead. `MeaningOf` says when two texts are the same
value.

### ContractAssets and Contract

`ContractAssets` holds both hand-written tables, the generator's and the crate's,
and the receipts that the generator builds. A file's bytes are the revision they
were generated from; a hash is that number, so equal hashes are equal bytes.
An invocation of the generator reads the hand-written cases (`ReadFile`), computes
everything in memory (`Computed`), then writes file by file (`Truncate` and
`Fill`, for `fs::write`) or compares file by file (`CheckFile`), and last compares
the directories' listings. A build reads the embedded files one by one in the same
action and runs the crate's own tests (`Test`). The developer edits the sources
and any file; `Fault` is an I/O error or a kill at any point.

### Cooldown

One gate at a time runs over one lockfile while the tree is edited, the clock
moves and the hook's verdict is used to commit. The modes are the commit hook
(`diff`), the full check with cache (`all`), `--update-db` (`update`) and `--fix`.
`Start` hashes the inputs and looks at the cache, `Select` and `ReadDatabase` read
the files again, `Look` is one turn of either verification loop with a registry
that may fail, `Pass` and `Fail` are the verdict, `SaveCache` uses the fingerprint
taken at the start, as the code does. `PlanRepair`, `Rollback`, `EndOfPass` and
`RollbackDone` are `--fix`: `cargo update --precise` may leave any lockfile, and
the script ends by running itself as a check. The merge of a restricted selection
into the database is in `CargoUpdate`, where the gate's other half, the
transaction around it, is modelled.

Also after a check that found nothing, `Fail` covers `save_cache` and
`validate_lock_manifests`, which may still fail, and so does `RollbackDone`.

`EditDatabase` writes a wrong date under any key. The code tells new entries by
their keys, so a date rewritten under a key of HEAD or of the trusted base is
believed: `rewritten` keeps these keys (see the disagreements). An entry outlives its version's place in the lockfile (`Reverted`), which is how a
bump can meet one. The dates of the database that is adopted first (`seeded`), and
in a shallow checkout the recorded ones, are trusted, as the script documents.
`PassIsSound`, `CacheIsSound` and `CommittedDatesTrue` except the two kinds of
entries, `Unverified`, and nothing else.

### CargoUpdate

One updater is one invocation. `Lock` is `mkdir`, `SetTrap` the `trap` two lines
below it, `Copy` to `Commit` the body, `Cleanup` to `Release` the EXIT trap, with
`restore_required`, `restore_status` and the exit status as variables. A child is
a set of lockfiles that it may still write; it outlives the shell that started it
when only the shell is signalled. `ChildRecords` is `write_database` of the
cooldown script: a restricted selection is merged, a full one replaces.

Signals: `Interrupt` reaches the whole process group, `Terminate` the shell only
(bash then runs its EXIT trap at once and does not wait for the child), `Kill`
is SIGKILL and runs nothing.

## The runs

| Run | Checks | Instance |
| --- | --- | --- |
| `TraceRecorder_race` | `TypeOK`, `TargetWhole`, `FailedNeverAppears`, `PriorKept`, `TempsAccounted` | 2 callers, 3 records, I/O errors, kills, power loss |
| `TraceRecorder_single` | `ImplementsAppendLog`, `NothingForbiddenOnDisk` | 1 caller, 2 records, the same faults, every capture mode and redactor |
| `Shadow_evaluation` | `OutcomeFaithful`, `ReadyBeatsTimeout`, `NothingDetached`, `MatchIsEquality`, `EvaluationEnds` | 2 runs, 3 proposals, 2 texts, panicking drops, cancellation, a wall clock that moves either way, under fairness |
| `ProposalReview_check` | `ClearIsReduction`, `RequestNamesChecked`, `ExpiryAgrees`, `PartialOmissionDisclosed`, `PolicyProposalFits`, `FixturesSpeakTrue`, `BuildJudgesContent` | up to 2 positions and 2 instruments, every header, the synthetic observations, 2 instants, 2 setters, 1 edit of the id, the digest, the retention or a quantity |
| `ProposalReview_omission` | `NeededDataDisclosed`, violated | an omission of the whole document |
| `Decimal_division` | `OrderExact`, `LongDivision`, `MultipleExact`, `Answers` | every pair of quantities over the digits 0, 1 and 5, under fairness |
| `Scalars_texts` | `VerdictMatchesSchema`, `OneTextPerMeaning`, `OwnTextsParse`, `TextPreserved` | every text of each type's alphabet, at and past each limit |
| `Scalars_schema` | `SchemaDecides`, violated | the same texts |
| `Contract_check` | `VerdictExact`, `NeverMixed`, `DeclaredAlike`, `TestExact`, `DigestFlagsTrue` | 2 concurrent invocations, 3 in all, 5 revisions, 1 edit, faults |
| `CargoUpdate_faults` | `OnlyOrphansEscape`, `LockHeldThroughout`, `DatabaseMatchesLocks`, `LockReleased` | 2 updaters, 2 lockfiles, failing commands and `rmdir`, SIGINT, SIGTERM, SIGKILL, under fairness |
| `CargoUpdate_orphan` | `OnlyCommittedWork`, violated | SIGTERM to the shell |
| `Cooldown_gate` | `PassIsSound`, `CacheIsSound`, `CommittedDatesTrue`, `GateEnds` | 5 lockfiles of 3 crates, 2 days, 3 edits, 2 runs |

Each module has one type invariant. In `TraceRecorder` it is checked by itself;
elsewhere it is the first conjunct of another invariant of the run (of
`MatchIsEquality`, `RequestNamesChecked`, `LongDivision`, `OneTextPerMeaning`,
`VerdictExact`, `OnlyOrphansEscape` and `PassIsSound`).

What the less obvious ones say:

- `OnlyOrphansEscape`: the update's promise, `OnlyCommittedWork`, holds under every
  fault but one, and `CargoUpdate_orphan` shows that one. `DatabaseMatchesLocks`
  is `DatabaseInStep` for updates that no signal stopped: see the disagreements below.
- `RequestNamesChecked`: the digest covers the id, so a request whose digest is
  that of what was checked names its content even if the id beside it was edited.
- `BuildJudgesContent` is an equivalence, as an action property: `build` returns
  what `validate` accepts, and refuses only what it would refuse under a digest of
  its own.
- `VerdictExact`: with nobody else writing, the generator's verdict is that of the
  files. `NeverMixed` needs no such condition: the crate's test refuses every
  mixture that concurrent or killed generators can leave.
- `VerdictMatchesSchema`: `parse` and the published pattern agree except for what
  a pattern cannot say: a length in bytes, and the range of `u64`.
- `NeededDataDisclosed` is what the code's comment says of an omission: a clear
  report rests on no omitted data. `ProposalReview_omission` refutes it with the
  empty pointer, and `PartialOmissionDisclosed` says that it is the only one.
- `GateEnds` is termination as a measure: every step of the gate lessens
  `WorkLeft`, a natural number that bounds the rollback passes too. Deadlock
  checking is on in this run, which tells that a gate is never stuck while it looks
  up dates, judges and writes. In "rollback" the clock may move, so deadlock
  checking cannot tell; there the guards of `Rollback` (something in `todo`),
  `EndOfPass` (something `pending`) and `RollbackDone` (neither) leave no case out.
  No fairness is needed.

Why the bounds are enough to be interesting:

- *Recorder*: three records are the least with which one rename can lose two;
  two callers are the least that race, and a caller that died frees its place
  for a new call. The capture decision reads one call only.
- *Runner*: runs share nothing but the clock, so the runner is checked inside
  the evaluation that composes two of them. A proposal, two that differ
  from it in one field each and two texts tell a faithful outcome and a complete
  comparison from others. The clock starts at 0 or 1 and moves once (`MaxMoves`),
  forward or back: one move between its two readings is all that can put a trace's
  times out of order.
- *Texts*: limits are scaled down and named: `IDENTIFIER_MAX_BYTES` and
  `KEY_MAX_BYTES` are 4 (in the code 255 and 128), `TimestampMax` 63 (2^64 - 1),
  `HashBytes` 2 (32), `UuidLength` 3 (32) with one of the four `Hyphens`, at 3. Texts go to one
  character past each limit, with letters of two bytes, so that characters and
  bytes differ; timestamps include 63 and 64.
- *Contract*: `MCTree` has a revision for each way to differ: other bytes, an
  asset less, a receipt that does not validate, and a crate's table that has
  drifted. Two slots are the least that run concurrently (they are symmetric: no
  definition tells them apart), and three invocations let a check or a build
  follow two generations; `MaxEdits` is 1, before, between or during them.
- *Cooldown*: two crates with an old and a fresh version each, and one of another
  registry; lockfiles with none, one or both fresh, one with both versions of a
  crate, one with the foreign crate. `Days` is 2 and the clock 3 or 4, one day on
  each side of the fresh versions' date. Three edits let a branch change lockfile,
  database and policy, two runs let a cached pass follow a full one. `Touched` and
  `Reverted` are one fresh version, the one whose wrong date would let it pass.
- *Review*: two views are the least with a duplicate id or a mismatch, quantities
  1 and 2 are the least with a larger, a smaller and a non-divisible one. Edits
  are bounded by `MaxEdits`: one, before or after the check, refreshed or not;
  setters by `MaxSets`: two, so that one can undo or contradict the other. Times
  fall before, on and after an expiry. Drafts carry their own digest; the one that is
  written instead is of nothing or of another observation, and `Ids` is one id that
  no draft has.
- *Decimal*: `MaxInteger`, `MaxFraction` and `DecimalDigit` bound the texts; two
  digits on each side of the point give different scales, borrows over one and
  two digits, and remainders shorter and longer than the divisor; a third
  fraction digit is one more than `MaxPrecision`, here 2 and in the code 16,
  accepts.
- *Update*: two updaters, one full and one restricted to a lockfile, so that the
  second starts from what the first left; two lockfiles, so that one can be
  restored and the other not.

`MaxClock`, `MaxMoves`, `MaxEdits`, `MaxSets`, `MaxRuns`, `MaxInteger`, `MaxFraction`, the scaled
limits above, and the finite sets `Records`, `Callers`, `Updaters` (each updater
runs once), `Slots`, `Revisions`, `Resolutions`, `Touched`, `Reverted`, `Ids` and `Digests` are
the only bounds.

### Fairness

- `Shadow!ShadowFairness`: an executor polls a task that was woken, calls into
  the policy return (the code's own comment excludes blocking polls), and the
  timer's thread runs. Nothing is assumed about the policy's answer or wakers.
- `CargoUpdate!Fairness`: the shell runs and each child ends.
- `Decimal!FairSpec`: a function that can take a step takes it.

The other modules assume none. `Cooldown` has its termination measure, `Contract`
and `TraceRecorder` calls end when the file system answers, and `ProposalReview`
and `Scalars` only react.

### Disagreements found

Three runs show one each:

1. `ProposalReview_omission`: the omission of the empty JSON pointer, the whole
   document, is not a required one although its descendants are.
2. `CargoUpdate_orphan`: after a SIGTERM to the script, its child goes on writing
   lockfiles that were restored and are no longer locked.
3. `Scalars_schema`: the published schema counts an identifier's length in
   characters and does not bound a timestamp, so it accepts texts that `parse`
   refuses; a test says that patterns and deserialization match
   (`tests/contract_fixtures.rs:268`).

The models show five more by the exceptions that their properties need. Without the
exception TLC refutes each of the first four:

- A date rewritten under a key which the base's database has is not looked up
  (`scripts/check-cargo-cooldown.sh:894` to 907 compares keys), as after a downgrade
  that left the entry: a bump to a version that is too young passes the hook, and
  may be committed. The header (line 57) says "Exits 0 when every bumped crate is old
  enough", and (lines 29 and 30) that "a branch cannot vouch for dates it adds". Hence
  `rewritten` in `PassIsSound`, `CacheIsSound` and `CommittedDatesTrue`.
- A trace completes before it started when the wall clock is set back between its
  two readings (`src/authoring/runner.rs:66` and 68), which two tests assert never
  happens (`tests/authoring.rs:45`, `tests/contract_fixtures.rs:306`). Hence
  `setBack` in `OutcomeFaithful`.
- Ctrl-C between the database's replacement and the commit restores the lockfiles
  and not the database, of which there is no snapshot, although the script records it
  "transactionally" (`scripts/update-cargo-dependencies.bash:3`). Hence the condition
  of `DatabaseMatchesLocks`, which is `DatabaseInStep` without a signal.
- A lockfile that changes after the gate has hashed it, and changes back, is checked
  in one form and cached in the other; the header (line 32) says that the cache
  stores a check of identical files. Hence `cacheRaced` in `CacheIsSound`, which is
  `HitIsSound` without such an edit.
- Concurrent recorders lose more than "each other's latest append"
  (`src/assurance/recording.rs:85`): a slow call drops everything appended since
  its read. The same holds for two threads that share one recorder, which `&self`
  allows. (`PriorKept` speaks of the prior content only, and `ImplementsAppendLog`
  of one caller.)

## The proofs

### TraceRecorder

`TraceRecorder_proofs` proves, for every set of callers, records, inputs and
faults, under `FaultsAssumption`, `NamesAssumption`
(the sentinel values are distinct from each other and from the records) and
`CallsAssumption` (inputs are calls of the recorder):

- `TypeCorrect`: `Spec => []TypeOK`
- `AtomicReplacement`: `Spec => []TargetWhole`
- `ErrorsAppendNothing`: `Spec => []FailedNeverAppears`
- `PriorContentKept`: `Spec => []PriorKept`
- `NoForgottenFile`: `Spec => []TempsAccounted`
- `NothingForbidden`: `Spec => []NothingForbiddenOnDisk`
- `OneCallerAppends`: with one caller, `Spec => ImplementsAppendLog`

None of the safety properties is inductive. A published file is whole only
because no running call still writes to it, and a failed record is absent only
because nothing published it *before* the call failed. The invariant `IInv` adds:

- `Frozen`: the files that `target` and `durable` name are synced;
- `Owned`: a record that a caller is appending is a running call's, and no two
  callers append the same one;
- `Hidden`: a record whose call has not renamed, or returned an error, is in no
  published file and in nothing that a caller has read;
- `Copied`: a caller's temporary file holds what it read, and its own record.

`NextIInv` shows it inductive with one lemma per action; the temporal step is
`Inductive`. Three more invariants are inductive relative to `IInv`: `Prior` (the
prior content is in the target, in the entry on the disk and in what a caller is
about to copy), `Temps` (where in a call the temporary name exists), and `Vetted`
(a record in any file, or about to be, comes from a call that was not refused).

`OneCallerAppends` is the refinement: the log is what the target holds, a call is
answered as the code answers it, each rename is one `Commit` of the log, a power
loss is one `PowerLoss` that forgets a suffix, and every other step of a caller is
a stutter or a change of the call's status. It needs `Serial`: between a lone
caller's read and its rename nobody changes the target, so the renamed file is what
was read and one record more, and the entry on the disk names a prefix of that.
With two callers `Serial` is false, and so is the refinement: see the disagreements.

### CargoUpdate

`CargoUpdate_proofs` proves, for every set of updaters, lockfiles, selections and
faults, under `UpdateAssumption` and `ChildAssumption`:

- `LockProtects`: `Spec => []LockHeldThroughout`
- `CommittedWithoutOrphans`: `Spec => []OnlyOrphansEscape`
- `TypeCorrect`: `Spec => []TypeOK`
- `DatabaseMatches`: `Spec => []DatabaseMatchesLocks`

That the files are committed ones when the lock is free says nothing of the time
in between, so the inductive invariant follows the transaction: `Phases` ties the
script's variables to its place, `Copies` says that a restore finds the copies it
needs, `Children` that a child belongs to the lock's owner and works on its
selection, and `Work` that what is not committed is the owner's work on its
selection, is undone lockfile by lockfile in `restore`, and is gone when the lock
is. `Children` and `Work` are claimed only while no SIGTERM has reached a shell
alone: that is where the orphan breaks them. `CommittedKept` and `NoChildLeft` are
the lemmas on which several actions rest.

The database has no snapshot, so `DatabaseMatches` needs to know on which side of
its replacement the script is. `Recorded`, inductive relative to `IInv`, says so:
until the replacement (`HasRecorded`) the database records what every copy holds,
so a restore brings back a match, lockfile by lockfile; after it the database
records the lockfiles themselves, and only a signal can still make the trap restore.

### Cooldown

`Cooldown_proofs` proves, for every set of crates, lockfiles, registry dates,
cooldowns and bounds on edits and runs, under `CooldownAssumption`:

- `PassSound`: `Spec => []PassIsSound`
- `CacheSound`: `Spec => []CacheIsSound`
- `DatesTrue`: `Spec => []CommittedDatesTrue`
- `GatesEnd`: `Spec => GateEnds`, under `FiniteAssumption` (finitely many versions)

A verdict is as good as what the run read, and a cached one as what it hashed, so
the invariant carries both from step to step. `Reads` ties the candidates and
the database in memory to the tree and to the fingerprint, as long as no edit came
between. `Bases` says that a recorded date that will not be looked up is the
base's, `Judgements` that every version the loops have passed is old, audited,
reported, or dated by the base, and `CacheTrue` what a saved fingerprint stands
for. `Dates` follows a wrong date: it enters as a new key, stays one through
rewrites by `--update-db`, and is gone from a tree that the hook vouches for; under a key of the base it only
counts as rewritten. The
lemma `LookSound` is one turn of the loops, on which the action's preservation
rests.

`GatesEnd` needs `Bounded` besides: the rollback loop works through a finite
list that it never extends, a check of a repaired lockfile does not repair again,
and a gate starts without the marks (`online`, `progress`) that would grant it
another pass. With these, each action lessens `WorkLeft`: a pass that rolled
something back has one package less, one that did not has one pass less.

### ProposalRunner and Shadow

`Shadow_proofs` proves of `ProposalRunner`, for every number of runs, every policy
and every fault, under `RunnerAssumption` and `SentinelAssumption`:

- `TraceFaithful`: `Spec => []OutcomeFaithful`
- `PolicyFirst`: `Spec => []ReadyBeatsTimeout`
- `NothingLeft`: `Spec => []NothingDetached`

The invariant follows a run through its phases: `Fresh` until its future exists,
`Waiting` while it is undecided and the future alive, `Decided` once it has an
outcome (the future then is dropped or about to be), `AtPoll` what the last poll
found, `Timed` that the clock is not behind the start of
a run under way, unless it was set back since.

And of `Shadow`, under `ShadowAssumption` too:

- `ShadowIsRuns`: `ShadowSpec => Spec`, a refinement, so that the three theorems
  above hold of both runs of an evaluation;
- `MatchDecides`: `ShadowSpec => []MatchIsEquality`.

`InTurn` adds the order of the two awaits: when the comparison is made both runs
have returned, and `ReturnedStays` keeps their traces as they were. `NoFieldLeftOut`
is the algebra: two outcomes without a differing field are the same.

### ProposalReview

`ProposalReview_proofs` proves, for all drafts, settings, quantities, times and
bounds on edits, under `ReviewAssumption` (what may be received or set is of the
fields' types):

- `ClearReduces`: `Spec => []ClearIsReduction`
- `ExpiryAlike`: `Spec => []ExpiryAgrees`
- `RequestsNameChecked`: `Spec => []RequestNamesChecked`
- `PolicyFits`: `Spec => []PolicyProposalFits`
- `BuildJust`: `Spec => BuildJudgesContent`
- `OmissionsDisclosed`: `Spec => []PartialOmissionDisclosed`
- `FixturesTrue`: `Spec => []FixturesSpeakTrue`

Most of it is in the lemmas about the two checks: `FirstOfDistinct` (what
`Iterator::find` finds among distinct views is the only one with that id) makes
`ClearOnValid` out of `NothingFound` and of what `validate` accepts. The invariant
adds `Reported`, that a report is the one the check makes of a typed observation.
`OmissionsDisclosed` compares prefixes of paths of any length: a pointer that is a
prefix of a field the check reads is empty, or one of those `omission_is_required`
names, or below one. `BuildJust` rests on this: of a refreshed observation only
`ValidContent` is left to check. `FixturesTrue` is about constants: each of the three
synthetic observations passes `validate`, and the findings of the synthetic request
on them are those that their names say.

### Contract

`Contract_proofs` proves, for every set of revisions with any tables of assets,
every number of invocations and every interleaving of writes, edits, faults and
reads:

- `InvariantHolds`: `Spec => []IInv`
- `VerdictsAreExact`: `Spec => []VerdictExact`
- `CratesAreNeverMixed`: `Spec => []NeverMixed`
- `TablesAreAlike`: `Spec => []DeclaredAlike`
- `TestsAreExact`: `Spec => []TestExact`
- `FlagsAreTrue`: `Spec => []DigestFlagsTrue`

The assumptions say what a revision is. `SourceAssumption`: it has finitely many
assets, and a value for each that it generates. `FixtureAssumption`: no consumer
case is a receipt and no name is used in both fixture directories, as in the
tables; the crate's test looks a fixture up by its name. `SchemaAssumption`: the
schema of an observation has the fields of the struct that it is derived from.
`GeneratorAssumption`: the contract was generated once, and no complete file is
what a missing or a torn one is read as. All hold in the instance that TLC checks,
which has a revision for each way to differ.

`IInv` speaks of the files and of each invocation. `DiskOK` says that any manifest is one revision's, with the receipts of that revision consistent, or
gone or torn: this alone makes a mixture detectable, since the manifest has the
hash of every other file. `Generating` and `Embedding` say which files an
invocation has read and which are left, so that none of its own is forgotten.
`Undisturbed` is what the verdicts need: while nobody else changes a file, those
written or compared are as generated. `Verdict`, `Tested` and `Refusal` carry the
last step's answer on from there (inductive relative to `IInv`). For `NeverMixed`
the argument is one of tables: each row of the crate's own finds its row in the
manifest, its file's bytes have that row's hash, and there are as many rows on
both sides, so nothing else is embedded.

### Decimal

`Decimal_proofs` proves, for every set of digits, bound on the texts and
precision, under `DecimalAssumption`:

- `DivisionIsExact`: `Spec => []LongDivision`
- `MultiplesAreExact`: `Spec => []MultipleExact`
- `OrderIsExact`: `Spec => []OrderExact`
- `DivisionEnds`: `Spec => [][Nearer]_vars`, every step leaves less to do

The induction theorems of the library take an operator as a parameter, which the
provers cannot use. `NatSetInduction` states induction for a *set* of naturals
instead (from the well-foundedness of `<`) and `Recursion` that a function is
defined by its first value and by each from the one before, so what `NumberOf` and
`Differences` compute can be proved for every length. This is why `Decimal` and
`Scalars` use recursive functions where other modules fold.

The lemmas follow the code: digits without a leading zero compare as their
numbers (first the length, then the first digit that differs), padding to a common
scale multiplies by a power of ten, and `Differences` with its borrow writes the
difference of the numbers, digit by digit. The invariant adds to the types
`Divided` (value and remainder differ by a multiple of the divisor), `Bounded`
(the remainder is below ten divisors, so the inner loop subtracts at most nine
times a digit) and `Answered`.

### Scalars

`Scalars_proofs` proves, for texts of any length and any characters, every limit
and every layout of a UUID, under `ScalarsAssumption`:

- `TypesHold`: `Spec => []ScalarsTypeOK`
- `PatternsAgree`: `Spec => []VerdictMatchesSchema`
- `MeaningsDiffer`: `Spec => []OneTextPerMeaning`
- `OwnTextsAccepted`: `Spec => []OwnTextsParse`
- `TextsKept`: `Spec => TextPreserved`

Each type has its lemma (`IdentifierVerdict` to `UuidVerdict`, `PathVerdict`) that
`parse` accepts exactly the `Valid` texts: those of the published pattern, within
the limits that a pattern cannot state. The induction is over prefixes of the
text. `NumeralIsCanonical` and `CanonicalIsNumeral` show that `Display` and `parse`
are inverse on numbers (over the digits, from the last); `DigitPlace` and
`UuidDigitsAre` that each place outside `Hyphens` has a digit of its own, so the
hyphenated lower-case form is the only one written again as it was read;
`SymbolsDetermine` that the tokens of a pointer, unescaped, determine its text:
from the right, a symbol tells whether a tilde stands before it. The invariant
adds to the types `Scanned` (what the scan of a path has passed is as the pattern
wants it), `Decided` (a verdict is right, and the value kept is the text's) and
`Own` (what this crate has written is valid).

TLC checked each inductive invariant before it was proved.

### Only model-checked

- Liveness under fairness: `EvaluationEnds`, `LockReleased` and `Answers`. The
  prover has no rule for `ENABLED`. `DivisionEnds` and `GatesEnd` are the part of
  it that is an action property: there is no endless run of steps.
- `NeededDataDisclosed`, `OnlyCommittedWork` and `SchemaDecides` are false of the
  code, and their runs show it.

Every other property of the runs is a theorem.

## Not modelled, and why

- JSON encoding, SHA-256, canonical JSON and the text of schemas: data without an
  order of steps, taken as injective.
- The client (`src/client.rs`): a trait without an implementation. Lost, repeated
  and late answers are NautilusTrader's, and the crate neither retries nor keeps
  keys, so a session would model code that is not here.
- `security-audit.py` and the managed sections: one pass over tools or over one
  text file, nothing concurrent and no state kept.
- Tool installation and the style hooks: downloads and stateless filters.
- Of the update script, the validation of arguments and paths before the lock; of
  the gate, path validation, an unreadable database and the restoration of
  `Cargo.lock`'s formatting after a repair.

## Plan

1. Several lockfiles in `Cooldown`, composed with `CargoUpdate`, whose repair and
   record children it would then refine.
2. `RecordedSession`: `ProposalRunner` to `TraceRecorder`, one trace per run.
3. A clear report in use: what an application may conclude from it after an edit
   with a refreshed digest, or after the expiry (`src/assurance/advisory.rs:20`).
