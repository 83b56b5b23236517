# Verification of aarch64-vmsa-test

TLA+ models of the bare-metal test system in this repository: the host CLI that
boots firmware images in a simulator, the relay inside the container, the guest
harness that runs the tests and manages their memory and their translations, and
the test bodies themselves.  TLC checks the models on small instances; TLAPS
proves theorems about eight of them for every value of their constants.
`PROJECT.json` maps each definition to the lines it models, and each property to
a defect (an operator ending in `_Bug`) that makes it fail.

## 1. The system

One run of the CLI goes through these parts.

| part | source | state | operations |
|---|---|---|---|
| boot scheduler | `host/cli/src/run.rs` `run_targets`, `PlatformConcurrency`; `process.rs` `LaunchGate` | `next_build`, `next`, `build_results`, `completed`, a count per limited platform, the gate's count, the cancellation flag | prepare images in one thread pool, then boot planned runs in another; each run claims an index, a platform slot, a launch permit |
| boot supervisor | `process.rs` `run_with_limits`, `supervise`, `finish`, `terminate`; `podman.rs` `stop_container`; `run.rs` `run_target` | parser, `active_test`, deadline, permit, the log files, the `podman run` child and its container | launch, receive a line, deadline, cancellation, reap, stop, retry |
| result protocol | `host/cli/src/protocol.rs` | `Parser`: began, ended, the active test, the completed tests, counts | `parse_line`, `finish` |
| verdict | `run.rs` `classify_failure`, `ExitCode`; `report.rs` | none | a boot's result becomes an outcome and an exit code |
| relay | `container/run.py` | the model process, the lines of its UART, whether END or a panic was seen | start the model, echo its lines, end it at END or a panic, exit with a status |
| suite runner | `target/harness/src/runner.rs`; the scope, `emergency_restore` and fatal-exception handler of `target/payloads/common/mod.rs` | the catalog position, counters, `corrupted`, the adapter's state | run each test in a scope, write its records, restore and reset |
| test memory | `target/harness/src/memory.rs` | cursor, generation, active scope, allocations, injected failures, the memory's contents | begin and reset a scope, allocate, reclaim a table, inject a failure |
| adapter | `target/payloads/common/mod.rs`, `target/harness/src/environment.rs` | three slots for installed translations, each with a snapshot of registers; the secondary PE, the Realm session, a page of another address space | install, switch, restore, delegate |
| translation guards | `target/harness/src/context.rs`, `translation.rs` | ownership of installed translations and of the roots they may switch to | map, break-before-make, invalidate, restore on drop |
| test bodies | `target/payloads/common/*.rs` | the translations, pages and expectations of one test | build tables, install, access, expect faults, invalidate, compare |
| live SMMU tests | `target/payloads/common/smmu.rs` | static buffers, the SMMU's registers and queues, a DMA agent | program an SMMU, start an agent, poll, judge memory and events |
| permission codec (external) | crate `aarch64_vmsa` | none | rights to descriptor fields and back |
| preparation | `process.rs` `prepare`, `container/prepare.py`, `build.py`, `providers.py` | the firmware cache | build or reuse an image |
| plan and catalog | `catalog_plan.rs`, `registry.rs`, `matrix.rs` | none | which tests run in which boot |
| architecture layer | `target/architecture/src` | system registers, the expected fault | register access, transitions, exceptions |
| firmware integration | `src/integration` | the shared request of a secondary PE | entry stubs of TF-A, TFTF, RMM |

Interactions:

- A worker of the scheduler calls the supervisor and blocks until it returns.
  Workers share the slots, the gate and the cancellation flag.
- The supervisor and the container share the client's standard streams (through
  two reader threads and one channel) and the container's name.
- The relay reads the model's UART through a thread and a queue.  The guest
  knows nothing of either: what it writes is all the host ever sees.
- The runner owns the memory and the adapter; a test borrows both.
- A body calls the context, the context the adapter (registers) and the mapper
  (tables); the PE reads both whenever it likes, and the adapter's snapshots of
  shared registers overlap.
- An SMMU test shares its buffers with an SMMU and an agent that bypass its
  caches.

What is hard here: four programs disagree on who ended first (a guest at END, a
relay that ends the model, a client that outlives its container, a host at a
deadline); every deadline races the answer it waits for; the guest is the thing
under test and may write anything; a boot may be launched again under the same
name; two bounded resources are held across blocking calls; and the memory that
holds one test's translation tables is handed to the next.  Nothing invalidates
the TLBs between two tests, so a body runs on what earlier ones left in them; and
a body that passes has shown something only if it would have failed on hardware
that gets the same thing wrong.

## 2. Modules

| module | models | extends / uses |
|---|---|---|
| `ResultProtocol` | the line alphabet and the strict parser, as operators | |
| `SuiteLedger` | abstract: what `results.log` promises its reader | |
| `Supervisor` | one boot as the host sees it | `ResultProtocol`; implements `SuiteLedger` |
| `SuiteRunner` | the guest's suite and its UART | `ResultProtocol` |
| `FvpRelay` | `run.py` around the model | `ResultProtocol` |
| `Verdict` | classification and exit codes | |
| `Boot` | a boot from end to end | `Supervisor`, and instances of `SuiteRunner`, `FvpRelay`, `Verdict` |
| `BootScheduler` | `run_targets` | |
| `TestArena` | the memory of a test | |
| `Adapter` | the payload's adapter, the guards on it and the register sets | |
| `Pe` | tables, TLBs, TLBI sequences and accesses of a PE, conforming or defective | |
| `LiveTranslation` | what a body does to an installed translation; the steps of a body | `Pe` |
| `LiveSession` | any sequence of calls on live translations, on a conforming PE | `LiveTranslation` |
| `BodiesInvalidation` | `invalidation.rs`, `combined_translation.rs`, the live part of `mapper_live.rs` | `LiveTranslation` |
| `BodiesFormats` | `formats_live.rs`, `hardware_updates.rs`, `malformed_descriptors.rs` | `LiveTranslation` |
| `BodiesAccess` | `access.rs`, `address_boundaries.rs`, `table_live.rs`, `coherency.rs`, part of `faults.rs` | `LiveTranslation` |
| `BodiesStage2` | `stage2_leaf_matrix.rs`, `permission_active.rs` | `BodiesAccess`, `BodiesFormats` |
| `PermissionCodec` | external: the crate's permission codec, right or wrong | |
| `BodiesPermissions` | `permissions.rs`, `permission_semantic_cases.rs` | `PermissionCodec`, `LiveTranslation` |
| `BodiesRecovery` | `recovery.rs` and the injected failures of `context.rs` | `LiveTranslation` |
| `TestBodies` | the bodies, one after another, on a PE | all `Bodies...` |
| `BodyOutline` | a proof outline of each body on a conforming PE | `TestBodies` |
| `SmmuBodies` | the scripts of the live SMMU tests | |
| `SmmuLive` | caches, SMMU and agent under those scripts | `SmmuBodies` |
| `SmmuDiscipline` | the rules those scripts keep to | `SmmuLive` |
| `SmmuOutline` | the sequential run of each script on a conforming SMMU | `SmmuDiscipline` |
| `MCSupervisor`, `MCBoot`, `MCBootScheduler`, `MCTestArena`, `MCAdapter`, `MCLiveSession`, `MCTestBodies`, `MCSmmuLive` | instances for TLC | |
| `SupervisorProofs`, `BootProofs`, `BootSchedulerProofs`, `TestArenaProofs`, `AdapterProofs`, `LiveSessionProofs`, `TestBodiesProofs`, `SmmuLiveProofs` | theorems about the module of that name | that module; `BootProofs` also `SupervisorProofs`, the last two an outline |

### Supervisor

`pc` follows the control flow: `launch` and `register` are `run_with_limits` up
to `supervise`; `check` is the top of the loop (cancellation, then deadline);
`receive` is `recv_timeout`; `reap` the wait for the child once both streams are
closed; `stop` and `kill` are `terminate`; `return` goes back to the retry loop
of `run_target`.  A received line is one step that does everything its match
arm does, from `release_launch_permit` to the log and the deadline.  The two
reader threads and the `mpsc` channel are one FIFO.  Time is one flag,
`expired`, which the clock may raise whenever the host is in its loop and each
re-arming clears; so all lengths of the deadlines are covered at once.

A cancellation that arrives during the last wait is not looked at any more
(`process.rs:919-922`); the model keeps that, and the boot its other verdict.

The environment is Podman and the container: it registers late or never, writes
any line of `Output`, exits with any status, and its client may end later than
it, or before it was ever seen.  Assumed of Podman: the client of a container that
runs ends after it, unless the host kills it.

`run_target` launches a boot again after any `Failure::Startup` when
`container.stderr.log` holds the text of a failed SSH handshake, whoever wrote it
and whenever.  `HandshakeErrorRead` is that line: it may come at any time while the
host reads, also from inside the container and after END.  A launch truncates
`results.log`; what is lost by that is in section 6.  `termination` is the planned run's `termination_test`: none for an ordinary
boot, or the test a destructive boot must end in.

### Boot

`Boot` replaces the arbitrary container by the real one.  The guest writes to
`uart`, the relay moves a line from `uart` to `channel`, and the relay's exit is
the container's.  An ordinary boot runs the whole profile; a destructive boot is
asked for its one test by full name, as the planner does.  What happens in a
container that nobody reads any more is left out, since nothing observes it.
Boots run with `--require-cache`, so the preparing lines cannot appear here; in
`Supervisor` they can.

A test body is reduced to its result and to what it leaves behind: an installed
translation, a failed cleanup, a page of another address space, a corrupted
adapter.  A body may also panic, hang, raise an unexpected exception, or let the
firmware die.  Memory scopes never fail inside `run_suite`, which
`TestArenaProofs` proves (`ResetAlwaysWorksCorrect`); so `SuiteRunner` has no
such failure.

### BootScheduler

Each thread's step is a place between two shared accesses: claiming an index is
one atomic add, taking a slot or a permit is a mutex-protected test.  A waiting
thread is in the wait set (`slotWait`, `gateWait`) until the release that
notifies it: `notify_all` for slots, `notify_one` for permits.  Spurious wakeups
are left out; they only repeat a test.  A boot is abstract: it may register, end
with any code, or be launched again, which is what `Supervisor` can do with its
permit.

### TestArena

One action per operation of `TestMemory` plus the two places where `run_suite`
uses its scope.  The contents of each unit of memory are tracked, so that the
model can say what is erased when.  Requests are those the code makes: pages,
contiguous pages with a granule's alignment, roots, and a mapper's tables.
`asked` and `granted` are history variables of an injected failure.

### Adapter

A translation register holds the generation of the translation that wrote it (0:
firmware) and the bits several owners share: `VM` and `E2H` of HCR_EL2, the
hardware updates of a control register.  `slots` are the adapter's three fields
for an installed translation: the kind of its snapshot, its token, the snapshot.
Each `Installed...` operator is the set of registers an install function of
`registers.rs` writes, each `Restores...` what its counterpart writes back, so a
register missing from either is a difference in the model.

`guards` is what the test holds, innermost last: live translations, hardware
updates, a secondary or a Realm session.  A guard is released by `restore` or by
`Drop`, in both cases from the top, since Rust drops locals in the reverse order
and `CombinedTranslation` restores stage 2 first.  A restoration may be refused:
by the adapter, by a lower exception level that does not answer, or by a register
that does not read back.  `ForgetAndRestore` is a test that forgets its guard on
purpose.  The rest of the suite is in `BeginTest`, `RestoreAfterTest`,
`PanicAfterTest`, `ResetMemory` and `EndScope`, in the order of `run_suite`.

`lost` is a history variable: hardware or firmware broke a promise (a register
refused its saved value, a Realm could not be unmapped, a page came back bad, EL1
switched its stage 1 off without completing).  The properties except such boots
where they must, and only there.

### Pe, LiveTranslation and TestBodies

A machine is a record of tables, translation registers, memory and `tlb`, the set
of the translations the TLBs *may* hold.  On a conforming PE anything that can be
walked may be fetched and anything held may be forgotten, so every access chooses
among all of these and the walk; TLBI removes exactly what the sequences of
`barriers.rs` say.  What a body can rely on is what holds for every choice.  A
defective PE has one of `Defects` (it ignores a TLBI, an ASID, a VMID, a
permission, an access flag, a malformed descriptor, a dirty-state update, cache
maintenance) and, so that the defect shows, fetches only on demand and prefers
what it holds.

`LiveTranslation` has one operator for each operation of the context, from
machine to machine, with the descriptor write, the break and the maintenance in
the code's order.  A body is a sequence of steps, each a call and what the body
expects of it; loops over levels, granules and rights are functions over the same
sets as in the code.  `TestBodies` has one action per kind of call, ends a body at
the first unexpected answer, drops what it holds, and begins the next, with the
arena zeroed and the TLBs as they are.  What a step may answer and leave is a set of
results (`Accessed`, `Installed`, ...), which an action picks from and `BodyOutline`
looks through as a whole.

Bodies that only call the crate are one step each (`check`), labelled with the
crates (`CrateDefects`) under which their comparison fails; `BodiesPermissions`
computes these labels by running the comparison on each defective codec.

### LiveSession

The bodies are particular sequences of calls; `LiveSession` takes the same operators
in any order, with any arguments: offline mapping of roots that nothing uses,
installation, roots adopted and switched to, live mapping, unmapping, replacement
with the rollback of one the crate refuses, explicit TLBI, restoration.  `spaces` is
what the guards own: for each translation, its roots by the ASID or VMID they are
used under.  `adopted` is a history variable, the VMIDs that were in force.

The harness checks less than its bodies keep to, and three rules are guards of the
model because without each of them TLC finds a stale access:

1. a root has an identifier of its own among those its translation owns;
2. a stage-2 root is not adopted under a VMID that was in force before (installing
   invalidates the VMID, adopting does not);
3. an EL1 translation is not given back and loses no leaf while stage 2 owns
   more than one VMID (`vmalle1is` and `vae1is` reach the VMID in force only).

Hardware updates of descriptors stay off; ranges of pages are one page after another.

### SmmuLive

The body stores through a write-back cache; the SMMU and the agent read memory.
A dirty line is written back at any time, a clean one refetched at any time,
acknowledgements and events come whenever they come, and a poll may give up, which
is recorded in `chance` (`"late"`).  The SMMU keeps leaves and may forget them
(`"forgot"`); `"stray"` records a DMA access that no SMMU translated.  A defective
SMMU gets one thing wrong, and `silent` is one that reports no event.

## 3. Runs

| run | distinct states | what it asks |
|---|---|---|
| `MCSupervisor` | 741,144 | any container against the supervisor: `CompletionIsEarned`, `CountsMatchLog`, `WatchdogBlamesRunningTest`, `PermitIsReturned`, `UnsupportedHidesNothing`, `DestructiveCompletion`, `RetryDiscardsNoVerdict`, and that `results.log` implements `SuiteLedger` |
| `MCBoot` | 2,546,828 | the real guest and relay: `PassIsTrue`, `RecordsAreTrue`, `RunnerIsUnderstood`, `PanicIsReported`, `BootEnds` |
| `MCBootScheduler` | 462,774 | limits, claims, results, cancellation, and that `run_targets` returns |
| `MCTestArena` | 400,984 | layout, alignment, erasure, scopes, injected failures and the end of the arena |
| `MCAdapter` | 2,711,332 | who owns which register, page and session, and what a test leaves behind |
| `MCLiveSession` | 48,192 | `NoStaleTranslation`: no access goes through a translation the tables do not hold |
| `MCTestBodies` | 213,711 | no body fails on a conforming PE; the bodies about a mechanism fail without it |
| `MCSmmuLive` | 144,512 | the same of the live SMMU tests, and that no agent runs past the SMMU |
| `MCSupervisorDeadline`, `MCSupervisorAbandon`, `MCBootSkip`, `MCBootCorrupted` | | expected violations, section 6 |

`SuiteLedger` is the abstract specification: a suite opens once, runs one test
at a time, gives each at most one verdict, and closes between tests.  The
refinement maps `opened`, `closed` and each test's standing to the contents of
`results.log`.  A launch that truncates that file is a stutter when it is empty,
and `Renew` otherwise, which only a closed ledger allows: a suite that is still open
is never thrown away.

### Bounds and why they are enough

- Two tests (`MCSupervisor`): a test that runs, and another that could be
  confused with it.  Three in `MCBoot`, where the third is the destructive one.
- `MaxQueued = 1`: the channel and the pipe hold one line each.  The supervisor acts
  on one line at a time and never looks further, so a longer queue changes when
  lines are written, not in which order they are read.  What can be ahead of a line
  in a longer pipe is left to the theorems of `BootProofs`, which hold for every
  length.
- `MaxAttempts = 2`, `MaxRetries = 1`: one relaunch, the only case with a
  predecessor.  `MCBoot` has no relaunch (`MaxAttempts = 1`), which with three tests
  is as much as fits in a run of five minutes.  The model has it: a new container
  runs a new guest and a new relay (`Rebooted`), and the four invariants are proved
  for any number of launches.  The same instance with two launches, one ordinary and
  the destructive test (1,623,388 states) passes as well, `BootEnds` included; it is
  not among the runs.
- `Output` has no CAP in `MCSupervisor`, which to the supervisor is one more record
  without a deadline; `MCBoot`'s guest writes it.
- `CounterMax = 2` in `MCSupervisor` and 3 in `MCBoot`: no less than the number
  of tests.  The overflow of a `u32` counter is part of the parser's model but
  is not reached in these runs.
- `Output` (`MCSupervisor`) has every kind of line, and the ENDs whose counters
  are right for some log and wrong for others.
- Three workers over three boots that share one slot and one that is unlimited,
  with a gate of one: two workers can wait for the slot at once, or one for the
  slot while another waits at the gate.
- The arena: four pages of two units and half a page, a base that is not aligned to the larger
  granule, at most three blocks, tables of one and of two units, generations that
  wrap after two scopes, and failures injected at a page point and at a table
  point.  A mapper's reclaim meets a page, a table and a gap on top.
- The adapter: three generations and three guards at once (`MaxGeneration`,
  `MaxGuards`), which is a combined translation (stage 2 and a lower stage 1) and
  one more translation or hardware-update guard in every order, at each of the
  exception levels; then a second test (`MaxTests = 2`) on what the first left.
- The sessions: three roots, so that a translation can own two while another is
  installed, or EL1's stage 1 can run on two stage-2 roots; two identifiers; a block
  and the two pages it consists of, one of which has another output and other
  rights.  All tables lie in a page that the block maps.  Every sequence of calls is
  covered, and the theorem has no bounds.
- The bodies: `MaxRun = 2`, every ordered pair on a conforming PE, so that each
  body meets what any other left in the TLBs, and every body alone on each
  defective PE or crate.  The bound is one of TLC's run only: that longer sequences
  add nothing is proved.  Addresses are the bodies' own, in pages.
- The live SMMU tests have no bounds: a boot runs one of them
  (`IsolationPolicy::SeparateBoot`) and its script is finite.

Symmetry is used in `MCSupervisor`, over the two test names, and in `MCLiveSession`,
over the roots; no property distinguishes them.  Deadlock is checked where a specification has an explicit
final stutter (`Terminated`, `BootDone`, `Exited`), and in the arena and the live
sessions, which never stop.  `MCAdapter`, `MCTestBodies` and `MCSmmuLive` disable it because their
subject really ends: a suite after its last test or in the panic handler's loop,
a body with its verdict.

### Fairness

- `BootFairness`: the host's thread runs (`WF(HostStep)`), time passes
  (`WF(Expire)`), and a client whose container is gone ends (`WF(ChildExits)`).
  Nothing is assumed of the guest, the model, the relay, the container or the
  user.  The third assumption is needed: `supervise` waits for its child without a
  deadline once both streams are closed (`process.rs:920`).
- `FairSpec` of the scheduler: each thread keeps running, and each preparation
  and boot returns.  That a boot returns is what `BootEnds` shows.

The bound on relaunches stands behind both liveness results: in the code a
failing SSH handshake is retried without a count, so a machine that never comes
back keeps a worker until the user cancels.

## 4. What is proved

There are 41 theorems in eight modules (`PROJECT.json` lists each).  They hold for
every value of the constants that satisfies the named assumptions of their modules
(`ProtocolAssumption`, `SupervisorAssumption`, `BootAssumption`,
`SchedulerAssumption`, `ArenaAssumption`, `AdapterAssumption`, `NoneAssumption`,
`SessionAssumption`, `OutlineAssumption`, `DisciplineAssumption`, `SheetsAssumption`);
TLC evaluates those assumptions in the runs.  What they ask of the code:

- a catalog names a test once (`catalog_plan.rs:57-59` rejects duplicates);
- the parser's `u32` counters can count every test (`Cardinality(Tests) <=
  CounterMax`, for `Boot` only; the catalogs have some hundreds of tests).
  `SupervisorProofs` has no such assumption: a counter that overflows is one more
  rejected line;
- `OutlineAssumption`, `DisciplineAssumption` and `SheetsAssumption` are about the
  steps of the tests, one after another, and not about what hardware does between
  them; they are explained with their theorems.  `MCTestBodies` and `MCSmmuLive`
  evaluate them on all bodies and scripts of the models.  A script without its clean
  of the agent's program, its TLB invalidation or its second acknowledgement, for
  instance, makes one of them false;
- the rest are types, or exclude a boot of a destructive test that no catalog has.

**`SupervisorProofs`** for any set of tests and any output of the container, any
queue and any number of launches: `TypeCorrect`, `CompletionIsEarnedCorrect`,
`CountsMatchLogCorrect`, `WatchdogBlamesRunningTestCorrect`,
`DestructiveCompletionCorrect`, `PermitIsReturnedCorrect`,
`UnsupportedHidesNothingCorrect`, `RetryDiscardsNoVerdictCorrect` and
`LedgerSpecCorrect`.  The verdict is computed from the parser, while the properties
are about `results.log`; the invariant says that the two agree, and when they may
not.  Its layers:

1. `TypeOK`;
2. `Control`: what each `pc` says of the verdict, the channel, the child, the
   container and the permit.  A suite that began holds no permit, and a container
   that was never seen wrote nothing;
3. `LogInv`: `InStep`: the parser's fields are exactly what the records of
   `results.log` say, unless a record could not be written; `OneVerdict`: no test
   has two verdicts there; `Ending`: records that end a boot are only there once it
   has ended;
4. `Earned`: each verdict with the parser state and the log it needs.  The
   properties follow from it with `InStep`;
5. `Repeatable`: a startup failure behind which the SSH text was logged is one of an
   ordinary boot, of which the parser saw nothing or the END, and whose status is not
   that of a failed build; every launch but the first follows one.  Nothing in it says that
   the container was never seen.

The step of a received line is split by what the parser answers, not by the kind of
the line.  `LedgerSpecCorrect` is the refinement: each step of the supervisor is a
step of `SuiteLedger` or leaves the log alone.

**`BootProofs`** for every catalog, model capability, pipe length and number of
launches: `BootTypeOKCorrect`, `PassIsTrueCorrect`, `RecordsAreTrueCorrect`,
`RunnerIsUnderstoodCorrect`, `PanicIsReportedCorrect`, and the three compositions
below.  Two queues lie between the guest that reaches a verdict and the host that
writes it down, so nothing about either end is inductive.  The invariant `BootInv`
adds to the supervisor's invariant

1. `Guest`: the runner's control, that only tests it has started have a verdict,
   and that its counters are the numbers of these verdicts;
2. `Relaying`: how the relay, the model and the container may stand to each other;
3. `PipeInv`, about `channel` and `uart`, as one sequence where order matters: what is
   in it or in the log was found by the guest (`Truth`); nothing but a panic follows
   END (`Ends`); no test is run twice (`Fresh`); a verdict of the guest is in the log
   or on its way there, unless the relay gave up (`Conserved`); each line fits the
   phase in which the line before it leaves the parser, the first one that of the
   parser now, and the last one leads to where the guest is (`Continues`); the
   deadline belongs to the test that runs, or to one that was skipped (`Watched`);
4. `RunnerIsUnderstood`, and `PanicSeen`, which is `PanicIsReported` from the
   verdict on.

`Continues` is the heart of `RunnerIsUnderstood`.  It relates neighbours only, so
that neither taking the first line nor adding a last one needs an induction over
the pipe.  A step of a boot is the
host's, the guest's or the relay's (`BootSteps`), and there is one lemma for what
each preserves.  A launch is the one step that begins all of it anew: it leads to
`Booting`, from which `BootInv` follows as from the initial state.  `BootInv` was an invariant of an instance like `MCBoot` for TLC
before it was proved.

`BootIsSupervised` says that every boot is a behaviour of the supervisor in front of
the container it expects; with it `SupervisionCarries` and `BootLedgerCorrect` give
a boot all that `SupervisorProofs` shows.

Both proofs corrected the model or a property.  The `CASE` of the parser's `finish`
had overlapping arms, whose order TLC takes for granted and TLA+ does not.
`PanicIsReported` held with one line in the pipe and not with two: a guest that
reported a missing baseline, or the SKIP of an unsupported test, ends the boot before
the host reads of the panic behind it.  The property now names both cases; `MCBoot`,
with a pipe of one, could not have told.

**`BootSchedulerProofs`** for any number of threads, images, platforms, limits
and planned runs, and any set of exit codes:
`TypeCorrect`, `GateLimitCorrect`, `PlatformLimitCorrect`, `RunsAreNotSharedCorrect`,
`ResultsAreFinalCorrect`, `CancelStopsLaunchingCorrect`, `SuccessIsCompleteCorrect`.
None of the properties is inductive by itself; the proof adds them in layers, each
of which may use the ones before it:

1. `Basic`: types; a builder that builds holds a real image, and a worker that
   works a real run.
2. `GateCounts`: the gate's counter *equals* the number of workers that hold a
   permit, and a permit is held only while booting.  The limit follows, because
   the counter is tested before it is raised; the equality is needed because
   `LaunchPermit::drop` saturates at zero, which would hide a permit dropped twice.
3. `SlotCounts`: the same for each limited platform; a slot is held from its
   acquisition until it is released.
4. `RunClaims`: claimed indices lie below `next`, no two workers hold the same,
   and a run held by a worker that has not stored yet has no result.
5. `ImageClaims`: the same for images.
6. `Outcome`: every index below `next` is held by a worker or has its result; so
   when all have left, nothing is missing.

`CancelStopsLaunching` is about two sets of runs that a cancelled program may only
shrink: those at the gate, and those that can still end in success.  It needs
`Cancelled # 0` of the exit codes (`SchedulerAssumption`), so that a run that was not
launched does not count as one that passed.

`WorstIsLargest` shows that a finite set of exit codes has a worst one, from the
well-foundedness of the naturals, so that the CHOOSE in `Worst` means something.

**`TestArenaProofs`** for an arena of any size and base, any granules, layouts
and bounds: `ArenaTypeCorrect`, `AllocationsAreDisjointCorrect`,
`AllocationsAreAlignedCorrect`, `ResetAlwaysWorksCorrect`, `NothingIsLeftBehindCorrect`,
`PagesAreKeptCorrect`, `NewBlocksAreZeroCorrect`, `InjectionIsKeptCorrect`,
`ExhaustionBoundaryCorrect`.  The inductive invariant is `Layout`: types, the two
layout properties, and `ScopeIsOurs`, which says that during a test the scope
`run_suite` holds is the current one and began with an empty arena.  Without it a
reset might fail or keep blocks, and neither `ResetAlwaysWorks` nor
`NothingIsLeftBehind` is inductive.  The arithmetic of the allocator is in a few
lemmas (`AdjustmentAligns`, `LargestRequest`) about `%` and `\div`.

**`AdapterProofs`** for any number of installations, guards and tests, at each
exception level and with E2H on or off at boot: `StateMatchesSlotsCorrect`,
`TestsStartCleanCorrect`, `TranslationStaysCorrect`,
`TablesOutliveTranslationsCorrect`.  Snapshots save whole registers that several
owners share, so none of the properties is inductive: that a release leaves
firmware's value depends on what every guard below the released one has saved.
The inductive invariant `Inv` is

1. `AdapterTypeOK` and `StateMatchesSlots`;
2. `StackInv`: which guards can be on the stack in which state, and that only
   hardware updates can be above a session;
3. `PhaseInv`: in which states `run_suite` can be at each of its steps;
4. `GuardInv`: slots and live guards know each other.  One exception is real: the
   guard of a lower translation is gone when EL1 refused to switch off, the slot
   is still full, and `cleanup` is set;
5. `RootInv`: a root register holds its slot's token, or 0 if the slot is empty
   or uses another register, and a snapshot's root is 0;
6. `ValueInv`: a register that no guard writes back has firmware's value, and the
   lowest guard that writes it back has saved firmware's value (the registers of
   the lower exception level are excepted once a restoration there was refused);
7. `VmInv`: a guard above stage 2 that saved HCR_EL2 saved it with VM on.

`EmergencyValue` is the lemma behind `emergency_restore`: the three snapshots
overlap, and a register all that have it agree about ends with that value.

**`LiveSessionProofs`** for any roots and where they lie, any leaves of any size, any
attributes and any ASIDs and VMIDs: `NoStaleTranslationCorrect`.  The property
speaks of the identifiers in force.  The TLBs keep what was fetched under others,
and a switch brings those back without maintenance, so the invariant speaks of every
identifier in use:

1. `Setting`: types, and that the registers name a root their translation owns;
2. `Apart`: no root is owned twice, so a change of one root leaves the entries of
   all others true;
3. `Faithful`: each entry the TLBs may hold under an identifier in use is a
   leaf of *its* tables, or the part of a stage-1 leaf that reaches a stage-2 leaf of
   the two roots it was fetched from (`CombinedAt`), and no entry has a VMID that was
   never in force.

`CombinedIs` is the pivot: a PE combines stage 1 with what it *holds* of stage 2, and
where that is faithful, so is everything it fetches.  `AllClears` and `AddressClears`
say that a TLBI restores the invariant if everything doubtful is among what it
removes, with the fetches between its two halves for stage 2; one lemma per operation
shows that this is so (`RemovedKeeps`, `InstalledKeeps`, `RestoredKeeps`), or that
nothing is doubtful (`OkGrows`, `AdoptedKeeps`).  In the end a held translation is a
walk of the tables (`HeldIsWalked`), with `PieceWithin` for the arithmetic of a block
that stage 2 splits.

The proof corrected `Pe`: TLBI by address used to remove what maps the page, but a
block that stage 2 splits is held in parts, of which that removed one.  The
architecture removes all copies of the descriptor that maps the address (`block`).

**`TestBodiesProofs`**: `ConformingPePassesCorrect`, for any number of tests in any
order (`MaxRun`).  A body is a fixed sequence of steps, but the TLBs it begins with
hold what any earlier bodies left, and nothing invalidates them between tests.

1. Monotonicity: a PE whose TLBs may hold more may do more.  `Near` relates two
   machines that differ in their TLBs only, and there is one lemma for each operation
   from `Pe` up to a step of a body (`Simulated`): each result on the smaller TLBs is
   a result on the larger ones, and no less full.
2. The outline: for each body, the machine before each of its steps, if the TLBs held
   at its start everything that *any* body leaves (`Leftover`).  `OutlineAssumption`
   says that on these machines every result of every step is the one the body
   expects, that the results are below the next machine, and that the body leaves no
   more than `Leftover`.  That is a finite computation, without interleaving, and TLC
   does it.
3. The invariant: the machine is below the outline at the place of the test, and
   what runs before the next test leaves TLBs below `Leftover`.  The induction over
   the tests is then the one over steps.

Proving monotonicity corrected the model: a walk on a conforming PE used to go
through what the TLBs hold of stage 2 wherever they hold something, so that fuller
TLBs allowed *fewer* answers.  A PE may always have forgotten (`MayUse`).

**`SmmuLiveProofs`**: `AgentIsContainedCorrect` and `ConformingSmmuPassesCorrect`, for
any scripts of which the assumptions hold.  Cache, SMMU, agent and test are four
actors, so neither property is inductive.

`AgentIsContained` follows from rules that one can read off a script without running
it (`SmmuDiscipline`): what an agent and an SMMU read has been cleaned since it was
stored; the registers have been written and, on v3, acknowledged before an agent
starts, and have not been given back; each start is followed by the wait for it.  The
invariant, as long as no loop has given up, is

1. `Types`, and `Tidy`: tables and kept leaves lead to the test's own pages only;
2. `Registers` and `Contents`: what the rules say was written, acknowledged and
   cleaned before the test's place is so;
3. `AtWork`: while the agent works, the test is at the wait for it, the SMMU
   translates for its stream (`Guarded`), and what a poll waits for is not there yet
   (`Awaited`).  So a poll that ends in time ends after the agent.

`ConformingSmmuPasses` also depends on what is copied.  A sheet (`SmmuOutline`) is what
is known at a place of a script when nothing is late: the value of each line and
whether it is surely in memory, surely only written, or changed past the caches; the
leaves the SMMU may hold; what the fault register and the test's locals hold; and,
between a start and the end of the wait, the one answer the agent will get to each of
its accesses, whatever the SMMU has forgotten.  `SheetsAssumption` says that the sheets
of a script follow from each other, that each step has what it needs, and that the
last one passes; TLC computes them, one per step.  The invariant `OnSheet` is that the
state follows the sheet of the test's place (`Follows`).  It is the asynchrony that is
proved away: `EnvironmentFollows` shows that no write-back, refetch, acknowledgement,
access, event or forgetting leaves a sheet, `PayloadFollows` that each step of the test
leads to the next.  `CopyEnds` joins the two: when the wait is over, memory, TLBs,
fault and event are what the sheet says of a copy that has ended.

**Model-checked only**: liveness (`BootEnds`, `SchedulerEnds`) and the absence of
deadlock, which need fairness and ENABLED; the expected violations; and
`DefectsAreReported` and `SmmuDefectsAreReported`.  A defective PE or SMMU runs one
fixed body from one initial state, so there is no constant to generalise over, and
TLC's run covers every behaviour.

## 5. The properties, by hazard

`PROJECT.json` lists each hazard at its line.  In short:

- a deadline that races an answer: `WatchdogBlamesRunningTest`, `CountsMatchLog`;
- a guest that writes anything: `LedgerSpec`, `CompletionIsEarned`,
  `UnsupportedHidesNothing`;
- a guest, a relay and a host that each end the boot for their own reason:
  `PassIsTrue`, `RecordsAreTrue`, `PanicIsReported`, `RunnerIsUnderstood`,
  `DestructiveCompletion`;
- a resource held across a blocking call: `PermitIsReturned`, `GateLimitHolds`,
  `PlatformLimitHolds`, `SchedulerEnds`;
- a retry: `RetryDiscardsNoVerdict`;
- shared counters of threads: `RunsAreNotShared`, `ResultsAreFinal`,
  `SuccessIsComplete`, `CancelStopsLaunching`;
- memory handed from one test to the next: `AllocationsAreDisjoint`,
  `AllocationsAreAligned`, `NothingIsLeftBehind`, `NewBlocksAreZero`, `PagesAreKept`,
  `ResetAlwaysWorks`, `InjectionIsKept`, `ExhaustionBoundary`;
- several owners of HCR_EL2 and of the control registers: `TranslationStays`,
  `TestsStartClean`;
- a test that forgets a guard, fails half way or corrupts the adapter:
  `StateMatchesSlots`, `TestsStartClean`, and against the reset of the arena
  `TablesOutliveTranslations`;
- TLBs that hold what earlier tests left, fetch ahead and forget, and a live
  replacement that is rolled back: `ConformingPePasses`, `NoStaleTranslation`;
- roots switched without maintenance, and two TLBIs for one stage-2 leaf:
  `NoStaleTranslation`;
- bodies that would pass on wrong hardware or with a wrong crate:
  `DefectsAreReported`;
- caches, acknowledgements and events of an SMMU at their own speed:
  `ConformingSmmuPasses`; events that a test may not rely on:
  `SmmuDefectsAreReported`; polls that give up: `AgentIsContained`.

`RunnerIsUnderstood` and `PanicIsReported` list their exceptions explicitly; the
exceptions are behaviours of the code, described below.

## 6. Where the code and the repository's own words differ

Each has a run whose one property TLC violates.

1. `MCBootSkip`: `run_suite` reports an unsupported test with a SKIP that no RUN
   precedes (`runner.rs:84`).  The host's parser rejects such a record, so the
   boot is malformed, although `run.rs:757-758` has an outcome for suites in which
   every test was skipped.
2. `MCSupervisorDeadline`: the SKIP arm of `supervise` leaves `active_test` set
   (`process.rs:874`).  If the suite then stalls, the watchdog completes the skipped
   test again, the parser rejects that, and the boot is malformed rather than a
   timeout, which the lifecycle self-check expects.
3. `MCSupervisorAbandon`: a container that registers after `stop_container` asked
   for it and before the client is killed keeps running (`podman.rs:375-377`,
   `process.rs:1266`).
4. `MCBootCorrupted`: a suite that stops with `HarnessCorrupted` after a PASS is
   reported as passed: the root-level payload, whose page of another address space
   may fail to be released, returns a status (`mod.rs:2980`) of which its firmware
   entry reports two values and not this one (`fvp_vmsa_root.c:484-488`).

A retry may lose results: when a suite wrote its END, its container then ended with
a status that is neither 0 nor 20, and `container.stderr.log` holds the text of a failed SSH
handshake, all its records are truncated by the next launch (`run.rs:711-713`,
`process.rs:1244-1246`, `process.rs:533`).  `RetryDiscardsNoVerdict` says that this
is the only case: a suite cut short, a destructive boot and a container that
reported a failed build or, before any record, a missing capability are never
launched again.

Smaller observations without a run: `ExitCode` orders `Capability` above
`TestsFailed`, the summary's `outcome_rank` orders them the other way; a
reclaimed table leaves the gap in front of it until the scope's reset; the arena is
not zeroed when it is constructed, only when blocks are handed out; the guard of
`process::prepare` is not disarmed when its client ends by itself; boots that wait
at the gate when the user cancels still launch, and are stopped by their own loop.

Of the adapter, the guards and the bodies:

- HCR_EL2 and the control registers are saved and restored whole, so guards must
  be released in the reverse order of their making; nothing in the adapter checks
  that, the language's drop order provides it.
- `install_lower_translation` that fails after EL1 switched its stage 1 off leaves
  it off, with nothing recorded to undo (`mod.rs:1613`); `LowerLost` in `Adapter`,
  excepted by `lost`.
- Every injected failure is checked before its operation (`context.rs:3004`,
  `3065`), so no test reaches the state between a cleared descriptor and its
  invalidation; the rollback of a failed replacement (`translation.rs:2108-2160`)
  is reached by a body.
- Hardware updates are switched with a barrier but no TLB maintenance
  (`registers.rs:482`).
- A codec that swaps privileged and unprivileged rights when it encodes and when
  it decodes survives every round trip; only the bodies that execute code notice.
  `DefectsAreReported` says which.
- `SmmuV2LiveCase::TlbInvalidate` passes only if the SMMU still has the old leaf
  when the test looks for it, which no SMMU has to; `ConformingSmmuPasses` excepts it.
- The v2 tests put the registers back without invalidating the SMMU's TLB, and
  their waits for the DMA controller (near `smmu.rs:5532`) have no budget.  Early
  returns near `smmu.rs:5568-5577` skip the restoration.
- A v3 test accepts a terminated transfer with no event (`smmu.rs:6800-6830`), so an
  SMMU that reports no events passes.

## 7. Not modelled

- Parsing of fields, log files, terminal output and the summary's layout.
  Failures to write the artifact files after a boot turn its result into
  startup-error; the models end at the supervisor's result.
- Preparation: a result the scheduler receives.
- The planner: its plan is a constant.  It is a pure function, and planned.
- Bodies that only compare values of the crate (geometry, mapper plans,
  descriptors, attributes, metadata, `semantic_*`), feature probes and offline
  alias controls: they keep no state and touch no hardware.  The permission codec
  is modelled as the example of such a comparison, because its errors can cancel
  out.
- The bodies and entries of the Realm, Secure and Root payloads and the switching
  of physical address spaces there.  `Adapter` has the Realm session and the page
  of another address space, not what is done inside.
- Of the bodies that inject failures: those of exhausted table pages and of a
  forgotten guard (`TestArena` and `Adapter` have the operations).  Boundary bodies
  that no catalog registers.  Alignment faults.
- The shared request of a secondary PE in `vmsa_test.c`.  `Adapter` has the session
  and `TestBodies` accesses by a second PE.
- Of the live SMMU tests: the budget of the wait after an SMMUv2 invalidation
  (`TLBSYNC`), and callers that differ from a modelled script in data only.  Whether
  a remapped copy arrived is decided by what both destinations hold after the loop,
  where the code keeps a flag (`smmu.rs:5643-5655`).
- The decoding of ESR_EL2, the assembly and the encodings of registers: a fault is
  its class and its level, a register the translation that wrote it.
- Firmware stubs, the command line, the build, the developer tools: straight-line
  code, formatting or subprocess calls.
- `usize` overflow in the allocator: the checked additions return `Exhausted`, as
  an arena that is full does.

## 8. Planned work, in order

1. `CatalogPlan`: the planner as functions, against a reference definition of
   which test must run in which boot.
2. `Preparation`: `process::prepare` and its container guard.
3. `SecondaryPe`: the shared request of `vmsa_test.c:55-86`, its timeout and a
   late secondary.
4. `RealmSession`: the firmware calls of the Realm payload's stage-2 sessions,
   delegation and undo.

## 9. Running the checks

    tlc -workers 2 -config MCSupervisor.cfg MCSupervisor
    tlapm SupervisorProofs.tla
    tlapm BootProofs.tla
    tlapm BootSchedulerProofs.tla
    tlapm TestArenaProofs.tla
    tlapm AdapterProofs.tla
    tlapm LiveSessionProofs.tla
    tlapm TestBodiesProofs.tla
    tlapm SmmuLiveProofs.tla

The expected violations are found by `tlc` in the same way.  The longest runs
(`MCSupervisor`, `MCBoot`, `MCAdapter`) take one to four minutes with two workers,
`MCTestBodies` and `MCLiveSession` about half a minute; each proof module takes two or
three minutes.
