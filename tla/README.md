# A verification development for the LegacyCoin standalone miner

The miner (`src/cmd/legacy-miner`, `src/internal`, `src/gpu`) is a terminal
program that hashes Yespower block headers on CPU threads and, if it was built
with CUDA or OpenCL, on one GPU. It takes templates from a LegacyCoin daemon over
JSON-RPC, looks for a nonce, and submits the block. The repository has no tests.
Its logic is small; what is hard in it is that goroutines of several *generations*
of mining share their state, mostly without a lock.

This directory holds TLA+ modules that model that logic, TLC configurations that
check them on small instances, and proofs that TLAPS checks for every value of the
constants. `PROJECT.json` ties every definition to the lines it models and lists
the runs, the mutants each property is known to catch, the disagreements found,
the hazards of the code and the theorems.

## Inventory

| Component | State | Operations | Interacts with |
|---|---|---|---|
| **Worker pool** `internal/app/mining.go` `mineBlockHashed` | local result channel (buffer of 1), WaitGroup, a nonce per worker | spawn workers, hash, send the first hit, close the channel, return | the caller's context, the shared stale flag, `hashCount` |
| **Mining engine** `internal/app/run.go` `startMining`, `runRPCLoop`, `runRPCGPULoop`, `runBenchLoop`, `runGPUBenchLoop` | `templateState` (base, bits, height, raw under a mutex; `stale` atomic; `hasStale`), `pollTrigger`, the mining context | start a generation, poll the daemon, adopt a template, mine, submit, trigger a poll | keys (cancel and start), the daemon, the GPU, the statistics channel |
| **Nonce partition** `run.go`, `mining.go`, `main.go` | `minerID`, `totalMiners`, threads, GPU availability | compute the first nonce and the step of each lane | other miner processes, by convention only |
| **Counters, channel, screen** `tui.go`, `run.go`, `app.go` | `found`, `accepted`, `rejected`, `stale`, `hashCount`, `hashPrev`, `statsCh` (64) | increment, send without waiting, read, write back, tick, restart | mining loops of all generations, bubbletea's event loop |
| **GPU miner and bridges** `gpu/gpu.go`, `cuda_bridge.cu`, `opencl_bridge.c` | `available`, `maxBatch`; the bridge's globals: device objects, `initialized`, `gpu_max_batch`, `pers_cap` | New, Hash, Reset; gpu_init, gpu_hash, gpu_close, gpu_reset | GPU loops of several generations, without a lock |
| **Keys, TUI** `tui.go` | the model itself | b, +, -, r, q, the messages | everything above |
| **RPC client** `rpc.go`, `tui.go` `newRPCClient` | an id counter, the credentials it was made with | Call, GetBlockTemplate, SubmitBlock | the daemon |
| **Proof-of-work targets** `consensus/target.go` | none (pure) | compact to big, compare hash and target, two ways | worker pool, GPU loop |
| **Yespower** `pow/`, the C library, the GPU kernels | pooled scratch memory | hash a header | worker pool |
| **Start-up** `main.go` | flags, the JSON file | parse, validate, make the `Config`, choose the mode | the engine, the client |
| **Configuration files and cookie** `config/config.go` | `legacycoin.conf`, `.cookie` in the data directory | `loadConfigKV` and the loaders, `AppendConfigLine`, `EnsureRPCCookieForDataDir`, `LoadRPCCookieForDataDir` | the daemon, which shares the package, and the client |
| **System monitor** `sysmon.go` | CPU and memory figures | read `/proc` | screen |

What makes each correct:

* *Worker pool*: no send on the closed channel; a hit is never lost; the nonce
  returned meets the target; cancel and stale end the call; nothing leaks.
* *Engine*: no adoption is missed although two parties write the stale flag; what
  is submitted is what was found; nothing is mined twice; the template follows the
  chain; only loops of the current mode are alive, and cancelled ones end.
* *Partition*: lanes do not overlap, and leave nothing out.
* *Counters*: no message is stuck, the rate does not wrap, nothing is overstated.
* *GPU*: available means usable; failure and recovery end in hashing; nothing is
  released twice; a loop gets the hashes of its own headers: all of it for loops that come to
  the device one after the other, since nothing in the code keeps two apart.
* *Targets*: the fast comparison decides as the big-integer one does; encoding
  a target loses no more than its last digits.
* *Yespower memory*: a hash depends on its input, not on what was hashed before,
  nor on what others hash meanwhile.
* *Access*: a client made while there is a cookie is accepted, one that was accepted
  stays so when the daemon restarts; an append counts, and spoils nothing.

The behaviours that are hard: keys that start generation n+1 while goroutines of
generation n are anywhere; the poller's answer arriving after anything else; the
non-blocking channels; the reset of a GPU another loop is using; calls that fail;
a daemon that crashes in the middle of its cookie.

## Modules

| Module | Models | Lines of correspondence |
|---|---|---|
| `MineCall` | what one call of `mineBlockHashed` promises: nothing is returned before a stop or a hit, a hit wins | abstract specification |
| `WorkerPool` | `mineBlockHashed`: caller, `Workers`, closer, `wg`, `resc`, and the others that write the flags | one action per step of the goroutines; `CheckCtx`, `CheckStale`, `HashHit`/`HashMiss`/`HashError`, `Send`, `Done` are the loop body in order |
| `TemplateWork` | what one CPU generation promises about templates: it takes the latest, drops it only for a newer one or a stop, takes up nothing that was submitted | abstract specification |
| `RpcMining` | the engine in RPC mode, all generations | `pc[<<"cpu", g>>]`, `pc[<<"gpu", g>>]`, `poller[g]` are the program counters; `adopted` is the history of `templateState` |
| `NoncePartition` | where each lane starts and how it advances | `NonceAt` is the arithmetic, `CpuSlots` and `GpuSlots` the two counts of slots |
| `ShareStats` | the counters and the path of the statistics messages | `Load` and `Store` are one `m.found++`; `HandleStats` is `Update(statsMsg)` |
| `GpuDevice` | `gpu.Miner` over the C bridge of either backend | `Top`, `NextBatch` are `Miner.Hash`, `HashWrite`, `HashRead`, `HashFails` its `gpu_hash`; `ResetBegin` to `ResetEnd` are `Miner.Reset`: `Release`, `Clear`, `CloseEnds`, `Wipe` are `gpu_close` and `gpu_reset`, `Open`, `OpenEnds`, `OpenFails`, `UndoEnds` (with `Release` and `Clear`) are `gpu_init` |
| `CompactTarget` | `consensus/target.go`: operators without state | one operator per function, `PastTarget`, `Average`, `Clamped` are the parts of `DarkGravityWaveV3` |
| `Smix` | which groups of memory a hash reads and writes, in the C library and the two pure-Go backends, alone and among other workers | `n`, `i`, `x`, `j` are the locals of `smix1`; `content` tells whose words a group holds |
| `ConfigFile` | the key-value files: what an append leaves, how a file is read, what each loader makes of it; operators without state | one operator per function; `Opened`, `Put`, `Written` are what an append leaves, `NextLine` is the scanner |
| `StartUp` | how `main` makes a `Config` of file and flags, and when it refuses; operators without state | `Defaults`, `Parse`, `Acceptable`, `AppConfig` in the order of `main` |
| `RpcAccess` | `legacycoin.conf`, the cookie, the daemon that makes it, the operator, and the miner whose loops make a client | `StartWith*`, `*Cookie` are `EnsureRPCCookieForDataDir` in the daemon, `MakeClient` is `newRPCClient`, the `Press*` are the keys that start a generation |
| `MCWorkerPool`, `MCNoncePartition`, `MCSmix`, `MCRpcAccess` | the instances' constants | |
| `*_proofs` | theorems about `WorkerPool`, `RpcMining`, `NoncePartition`, `ShareStats`, `GpuDevice`, `Smix`, `RpcAccess`, `CompactTarget` | |

How they compose: `WorkerPool` implements `MineCall` (run `pool`, theorem
`ImplementsMineCall`), and `RpcMining` uses `MineCall`'s two outcomes for a call:
`CpuGiveUp` only once a stop was seen, `CpuFind` otherwise. The fairness of
`CpuGiveUp` is what `StaleEndsCall` and `CancelDrains` establish of the pool.
`RpcMining` in turn implements `TemplateWork` for one generation (run `engine_one`,
theorem `WorkIsAsPromised`): the abstract `taken` is the snapshot of the CPU loop,
`spent` the templates submitted. `RpcAccess` extends `ConfigFile` and `StartUp`: its
daemon reads the first, its miner starts with the second.
`MCWorkerPool` extends `WorkerPool` and `CompactTarget`: the pool's `Solutions` are the
nonces whose hash passes `CheckHashTarget`.

### Abstractions

* A nonce is a number in a small space (pool, partition), or the pair of the loop
  that found it and the template it solves (engine): a nonce never solves another
  template. Solutions are a constant set.
* `templateState`'s base, bits, height and raw are written together under the
  mutex, so an adoption is one entry of `adopted`. The raw slice is a buffer per
  adoption that loops hold on to: `rawNonce[t]`. `Encode` reads it without a lock
  and may see bytes of two nonces (`Torn`).
* The daemon is its tip, a height and a branch; a submitted block extends it when
  its nonce is valid and its parent is the tip.
* An action is as long as a critical section or an atomic operation, except:
  `TakeRaw` joins the read of the slice under the lock and the write of four bytes
  after it (the bytes are only ever read at `Encode`, a step of its own); `CpuTop` joins
  the context check with the locked read of `hasStale`; and a failing call to the daemon
  has one outcome.
* Whether a GPU batch holds a hit is left open in `RpcMining` (`GpuScan`): its first nonce
  and its size change with threads and resets.
* In `GpuDevice` each object is made by a step of its own, and with CUDA released by one
  and cleared by another, as `gpu_close` and `gpu_init` do without a lock; OpenCL's pointers
  are cleared together, after the last release. `gpu_hash` is two steps, cut where the headers
  and the personalization are in the device buffers; the assignments of `Miner.Reset` before and after
  `gpu_reset` are one step each. A call on a released object fails.
* `stratum` mode runs the bench loop; that is what the code does.
* In `NoncePartition` one template is mined and a lane stops at `NonceSpace`
  instead of wrapping at 2^32. `AddThread` zeroes the hashed sets with the counters. While
  the GPU is down its lane stands still, and the batch size stays what it was: the code goes on
  passing over a batch of nonces per failed `Hash` and takes a new size after a reset
  (`run.go:116-136`). Both concern rigs on which a GPU has failed, for which neither
  `CalmDisjoint` nor `NoGap` says anything.
* In `CompactTarget` a digit stands for a byte, and a shift by k bytes is `Weight[k]`. Big integers are TLA+ integers; the
  slice of a negative length in `TargetFromBits` is `TargetPanics`.
* In `Smix` the contents of a group are only "own", "old", "other" or "blank", and
  the words the data chooses are any. Every worker of a call may write between any
  two steps of the hash that is followed, as far as the backend shares memory; at most
  `MaxOther` groups hold others' words at a time. A group is the 2r blocks that
  `smix1` handles together. `PwxWrite` may write any group of the S-box, while the
  code goes through it in the order of `ctx.w`. `Start` joins the writes and reads of
  the first group (`yespower_pure.go:83-99`), between which another worker could write too.
* In `ConfigFile` a file is its lines and a line its tokens: words in lower case and
  without blanks, `=` and `#`; numerals stand for what a constant says. A write that is
  cut short leaves the first tokens. Lines longer than the scanner's 64 KiB and errors of
  reading other than a missing file are left out. A cookie is the parts that `SplitN` makes of it.
* In `RpcAccess` the CPU and the GPU loop's clients, which share nothing, are one, and a
  call is whether the daemon would accept its credentials. Daemon and operator are
  external: they are what the functions of `config.go` that the miner does not call
  are there for.
* In `ShareStats` the messages taken may be handled in any order, since each
  reader is a goroutine of its own. `HandleStats`, `Restart` and `Report` write or read the
  four share counters in one step, while the code does it one by one and without a lock
  (`tui.go:190-193`, `159-162`, `run.go:401-405`): a message may hold counters of
  different moments. `NeverOverstated` bounds each counter by itself.

### Actors and failures included

Retired generations in every state; keys at any moment; answers of retired
pollers; failing, lost and late calls; a rejected submission; reorganisations at
the tip; full channels; GPU failures in every stage of `gpu_init` and in
`gpu_hash`, repeated, and their recovery; other workers in a shared scratch; a daemon
that stops, crashes while it writes the cookie, and starts again; appends to the
configuration that are cut short; a cookie somebody removes.

## Runs

All bounds are constants of the modules, named there with "bound:".

| Run | Instance | States | Shows |
|---|---|---|---|
| `pool` | 3 workers, lanes of miner 1 of 2, the flag shared with a retired generation | 243 k | all of the pool's promises, safety and liveness; the two hash comparisons agree, and as ASSUMEs of `MCWorkerPool` the encoding and the retarget rule keep their bounds (`RoundTrip`, `RetargetBounded`: all compact numbers of 7 sizes, all hashes of 4 digits of base 4, windows of 3 blocks) |
| `engine_one` | 1 generation, GPU, heights 0 and 1, a sibling tip, 2 templates, errors | 95 k | flag, submission and termination properties with both loops, q at any of their steps included; the CPU loop does what `TemplateWork` allows |
| `engine_two` | 2 generations, GPU, errors, one height | 53 k | modes and cancellation |
| `engine_settle` | 2 generations, CPU, heights 0 and 1, up to 4 adoptions, errors | 467 k | the template follows the chain in spite of failing calls |
| `partition_bench` | 2 miners, 1 thread each (a second may be added), GPUs that fail, 18 nonces | 164 k | lanes are disjoint and complete |
| `stats_readers` | a CPU and a GPU loop, 1 restart, a channel of 2 | 48 k | messages, rate and counters |
| `gpu_reset` | both backends, 2 loops, a device that fails and recovers, batches up to 2, a default of 4, work groups of 2 | 1.1 M | the Miner's promises through failures, for loops that come to the device one after the other |
| `smix` | 3 backends, S-boxes of 6 and 12 groups, V of 4 and 16, 3 workers of one hasher | 254 k | indices stay behind what is written; whose words a hash reads |
| `rpc_access` | 4 settings, 2 first files, 2 appends, 2 secrets, 2 data directories, 7 ways to start the miner, 4 of which it accepts | 591 k | clients are accepted and stay so through crashes and restarts; appends count; settings stay in range |

Three runs end in a counterexample: the program does not do what its documentation
says.

| Run | Property | Behaviour |
|---|---|---|
| `engine_submit` | `SubmitsWhatItFound` | the raw block is fetched after the nonce was found (`run.go:371`); a template adopted in between is submitted with a foreign nonce. CPU and GPU loop sharing one raw buffer break the same property |
| `engine_resume` | `MiningResumes` | `hasStale` is lowered after every submission (`run.go:397`) and raised only for a new height (`301`): after a rejected or lost block, or when the poller was quicker, mining stops until somebody else finds a block |
| `partition_threads` | `Disjoint` | with different `threads` in one rig the slices overlap (`run.go:354`) |

### Why the bounds are enough

A lost hit, a double close or a panic of the pool needs two workers and the
closer; three let one hit, one leave, one be late. The engine's races are between
one adoption and one iteration of a loop, so two templates (the one mined and its
replacement) suffice in one generation; `engine_settle` has four because an old
answer may take the template back and the poller has to adopt again. `MaxTemplates`
stops an adoption only at the end of a behaviour: in the passing runs the chain's
height cannot change more often than there are templates to follow it. `engine_two` has one
height, on which nothing is found: with a second one and a GPU it has more than ten million states.
That a loop ends out of a submission, the statistics or a full iteration is checked in
`engine_one`, where q cancels the generation; there is no difference between the two ways to
cancel for the goroutine that is cancelled. Overlap of lanes is a
property of pairs, so two miners with two lanes suffice, and 18 nonces let each
lane come back past the other's start. One restart and two messages fill the
reader's cases. Two GPU loops are all that share the device at a time; a batch of
at most two with a default of four and work groups of two covers several `gpu_hash`
calls per `Hash`, whole and broken work groups: a loop that reads its batch size while the Miner has none
takes the default of four, and comes to the device when the reset has ended, so that the two loops
were never there at once. Three workers of one hasher disturb
every group a hash reads, and `MaxOther` of one is enough, since the properties are about
one group. Two appends let the second follow one that was cut short; two secrets
are a cookie that is torn or removed and the next, or that of one daemon and of its
successor.

What the bounds leave out is what the theorems are for: `StaleFlagCovers` and
the others below hold for every number of workers, miners, templates and messages.

### Fairness

*Pool*: every goroutine that can step does (weak fairness per goroutine: the Go
scheduler preempts), nobody has to cancel or find anything. *Engine*: weak
fairness per goroutine and poller; strong fairness of `PollAdopt` while the context is alive
says that a call made again and again is answered at last (the HTTP client's
30 s timeout ends each single call, which is what `PollFail` is), and strong fairness of
`PollEnd` that a poller sees its cancelled context at last: when the timer and the context are both
ready (`run.go:271-276`), Go's `select` picks one at random. No fairness for keys, for finding a block or for the
network. *Statistics*: the reader and the event loop run; mining need not.
*GPU*: loops run; `Recovers` assumes that the device is in order from some time on.
*Access* is about safety only: nothing makes the daemon come back.

### Scope of conditional properties

* `StaleCoversSnapshot`, `MixedOnlyWhenStale`, `NeverRemines` and `WorksAsPromised` are
  checked and proved for one generation. With two, a CPU loop past its context check lowers
  the flag the new generation relies on, and the first does not hold.
* `CalmDisjoint` and `NoGap` are about a rig of equal miners whose GPUs have not
  failed. Without that `Disjoint` fails: with different threads (run
  `partition_threads`), and after a reset, when a CPU call begun meanwhile counts one slot
  less (`run.go:350-354` against `180-183`). `SameSlotsDisjoint` holds always.
* `GpuCountsNewHashes` is for bench mode: in RPC mode it fails, see below.
* `ReadyWhenAvailable`, `NoCrash`, `HashesOwn` and `ReleasedOnce` are for loops that come to
  the device one after the other: `apart` records that no two were in `Hash` or `Reset`
  at once. Without it they fail, see below. `ReleasedOnce` is for CUDA. `Recovers` is for the
  last loop, `apart` too, as long as nothing was used after its release, and with OpenCL for batches of
  whole work groups.
* `Settles` compares heights: it does not see which loop hashes what, nor a template of
  the same height on another parent.
* `ReadsOwnMemory` is unconditional for the C library. Of the Go backends it says
  that what they read unwritten is the last group, and whose words are there; another
  worker's words are met in the pooled scratch only, by `MixesEarlier` too.
* `FreshClientAccepted` is about a miner that uses the daemon's data directory and was
  given no credentials, while the daemon uses a cookie that is there. `AuthorisedStays`
  starts with a call that was accepted when a restart would have found the same
  credentials, and ends when somebody appends credentials or removes the cookie.
* `AppendTakesEffect` is for values without "#", at which `loadConfigKV` cuts
  (`config.go:108`), in a password too.

### Disagreements without a run of their own

* `tui.go:189`: the message that announces a template carries zeros
  (`run.go:339-343`) and `Update` writes them over the counters, so "found=1
  accepted=1" (HOWTO.md:156-157) falls back to zeros with the next template.
* `opencl_bridge.c:153-161` and `229-237`: a failed `gpu_init` releases its
  objects and keeps the pointers; the next `gpu_close` releases them again.
* `opencl_bridge.c:210-213` against HOWTO.md:305-307: a batch of about 800 is no
  multiple of the work group size 256.
* `gpu.go:98`: the GPU loop of a cancelled generation finishes its batch while the
  next one begins, on the same device buffers and without a lock: without `apart`,
  `HashesOwn` fails, although `gpu.go:75-76` says that `Hash` returns "the resulting hashes".
* `cuda_bridge.cu:475`: two loops that reset at once both pass `if (d_scratch)` before
  either has cleared it, and free it twice; so without `apart` `ReleasedOnce` fails, and
  `ReadyWhenAvailable` with it, since one loop releases what the other makes.
* `yespower_pure.go:125` against `yespower-opt.c:922-923`: the Go tail mixes into XY
  instead of the last group and drops the index it gets, and `blockmixXorSave`
  (`yespower_pure.go:222-248`) does not write back to V, as the C function does. So the hashes
  differ from those of the C library; and in the pooled backend
  (`pooled_pure.go:29-71`) the last group of the S-box holds the words of the hash
  before, so that the same header hashes differently. `PLAN.md:74-75` calls this backend
  "useful for validation"; `run.go:356` also shares one scratch among all workers.
* `run.go:183` against HOWTO.md:361-362: in RPC mode the GPU loop starts each batch at the
  nonce it started the last with, and counts the same hashes again; with
  `RpcMode = TRUE`, `GpuCountsNewHashes` fails after two batches.
* HOWTO.md:59 and `tui.go:55` have the cookie in `~/.legacycoin`, the daemon's default
  (`DefaultDataDir`) is `~/.legacycoind`: with both defaults the miner finds no cookie.
* `main.go:65` names a default of the RPC URL that is not set. `main.go:156` asks for a
  pubkeyhash only when there is a URL; the key b reaches RPC mode without either.
* `main.go:44` says it ignores an invalid file, but of a file with a member of a wrong type
  it keeps the others (`json.Unmarshal` goes on). `main.go:176` cuts miner id and total to 32 bits after comparing them.
* `tui.go:35-39`: a client made before there is a cookie stays without credentials until the next
  key, and half a pair of given credentials sends nothing and reads no cookie.
* `run.go:298` and `target.go:132`: a bits field out of range ends the program.
* `gpu.go:59`: with two loops at the device `maxBatch` may become 0 between two batches: without
  `apart`, `NoCrash` fails.

## Proofs

No assumption beyond the modules' ASSUMEs about their constants, unless said.

* `WorkerPool_proofs` (any number of workers, any nonce space, any solutions).
  `TypeCorrect`; `NeverPanics` (`NoPanic`): the WaitGroup's counter equals the
  number of workers that were spawned and are not done, so the closer passes `Wait` only when
  no worker can send; the closer starts after the last spawn, so the counter
  cannot be zero early. `FoundIsNeverLost`: a worker that has hit has either put its
  nonce in `resc` or found it full. `ResultIsSound` (`ResultSound`, which no run
  checks): the nonce returned was hashed by the call and meets the target.
  `ImplementsMineCall` (`Refines`): initial states and steps map to those of `MineCall`;
  the mapping's stop and hit are what the workers have seen.
* `NoncePartition_proofs` (any miners, threads, batch and nonce space).
  `PartitionTyped`. `LanesNeverMeet` (`SameSlotsDisjoint`): the invariant
  `Lanes` says that every hashed nonce is `NonceAt` of its lane, tagged with the
  slots it was computed with, and that a CPU lane's slot is below the CPU's
  count and the GPU's slot is the last. With equal tags equal nonces have equal
  remainders, hence equal miner and slot; the arithmetic is a lemma.
  `CalmRigDisjoint` (`CalmDisjoint`): on a calm rig all tags are equal (`Counted`).
  `NothingIsLeftOut` (`NoGap`): by `Behind` a lane of a calm rig has hashed every nonce
  of its own below where it stands; every nonce has a lane, found by division and
  remainder. `BenchCountsNewHashes` (`GpuCountsNewHashes`, assuming bench mode): by
  `Counts` what is hashed lies below the next batch, so a batch adds as many elements
  as it reports, by the cardinality theorems.
* `RpcMining_proofs`. `LiveLoopsMatchMode` for any number of generations. With
  `MaxGen = 1`, any chain, templates, errors, with or without a GPU:
  `StaleFlagCovers`, `MixedUnderFlag`, `SubmittedOnce`, `WorkIsAsPromised`. The invariant
  `OneInv` says which local of which program counter is at most `Cur`, that a submitted
  template is the current one only while the loop is on its way to lower
  `hasStale` or it is lowered, and that a snapshot behind `Cur` implies the flag.
  The property alone is not inductive: `CpuSnapshot` needs `hasStale` to imply
  that the current template was not submitted. `WorkIsAsPromised` (`WorksAsPromised`)
  maps each step to one of `TemplateWork` or to a stutter, with `Held`: outside
  of an iteration the loop holds no template, and a stop it has seen had a reason.
  `EngineTyped` (`TypeOK`, any number of generations and templates). The hard part is the
  tip: a block extends it, so it stays in bounds only if no template at the last height is ever solved. `Open(t)` says
  that of a template, and the invariant that it holds of every nonce in a loop or
  in a raw buffer, whoever wrote it there; `At` says what a loop holds at each program counter.
* `ShareStats_proofs`. `StatsTyped`, `RateNeverWraps` (`NoUnderflow`),
  `ReadersAreKept` (`ReadersKept`, which no run checks), `CountersAreSound` (`NeverOverstated`; the invariant `Bounded`
  adds the registers of pending increments and the messages in the channel).
* `GpuDevice_proofs` (any number of loops, any memory, both bridges). `DeviceTyped` (the
  types and that a batch fits the headers left), whatever loops meet at the device. The others
  are about loops that come to it one after the other, through any failures.
  `AvailableIsReady`, `NoEmptyBatch`, `HashesAreOwn`: by `ApartInv` at most one loop is inside
  (`Exclusive`), and what that one relies on (`Relies`) ties `available` to `initialized`, to live objects and
  to a batch size above zero at each of its program counters; a loop outside relies on
  nothing, so it may come in after any other. `NothingReleasedTwice` (`ReleasedOnce`): `CleanInv`
  says which pointers a CUDA loop has still to clear at each place of `gpu_close` and `gpu_init`;
  elsewhere none outlives its object.
* `Smix_proofs` (memories of any even size from four on, any words, any number of workers,
  any `BitAnd` bounded by its mask). `IndicesInRange` (`TypeOK`), `MixesOnlyEarlier`
  (`MixesEarlier`), `LeftoversAreLast` (`ReadsOwnMemory`). The invariant says that
  `x = n + i - 1` groups beyond the first are filled, that `n` is even and `i` odd,
  hence a finished round has filled 2n groups or all but one; the tail then
  needs only that its mask is at most N - 2. Other workers change a group's owner only
  where the memory is shared, never how far it is filled.
* `RpcAccess_proofs` (any settings, files, secrets, directories and launches).
  `CookieIsTheDaemons`: while the daemon is up with a cookie, the file, if it is
  there, is whole and holds what the daemon asks for, wherever it crashed before.
  `FreshClientsAreAccepted` (`FreshClientAccepted`) follows: whatever the daemon can
  use, the miner reads in the same way. `AppendsTakeEffect` (`AppendTakesEffect`): the
  lines of a file that an append reached are the lines before it, the one it
  broke off and its own, so what the loader makes of the credentials is what the last
  line that sets them says. `AuthorisedClientsStay` (`AuthorisedStays`; invariant
  `KeepsAccess`): what a client was accepted with is what the file says, or else what the
  cookie says and no credentials in the file hide it; starts, crashes and torn
  cookies of the daemon leave both as they are. `Types` (`TypeOK`) assumes `TotalsFit`: no launch
  gives a total of miners of 2^32 or more. It is needed: `main.go:149-152` compares id and
  total before `main.go:176-177` cuts both to 32 bits, so with a larger total
  the engine's `MinerID < TotalMiners` may fail.
* `CompactTarget_proofs` (any even base, any width from four on, any larger bound of the
  sizes). `FastCheckIsExact` (`FastCheckAgrees`): the check that `CheckHashTarget` makes digit by digit passes exactly
  the hashes whose number is at most the target's. The number of a hash is a Horner
  recursion over its digits (`HashIs` gives its sum), a number's digits determine how
  two numbers compare from the first in which they differ (`FirstDigitDecides`), and
  `TopDigits` says how a target is built from its first digits.
  `FoundBlocksMeetTarget` puts pool and target together: with the nonces whose hash passes
  the workers' comparison as `Solutions`, the nonce that `mineBlockHashed` returns passes
  `CheckProofOfWork`, and if it returns none, no hash that a worker finished passes.
  `EncodingRoundsDown` (`RoundTrip`): `Packing` says which size and mantissa
  `BigToCompact` writes and that the number they stand for has the same, so a second
  encoding changes nothing. `RetargetKeepsBounds`: `DarkGravityWaveV3` stays in range and
  within a factor of three of the targets seen, but for rounding, provided the
  time span of the blocks is a multiple of three, as that of 24 blocks is. What it returns
  may encode zero, which is no target, when a target below three was seen.

The library's induction theorems take an operator as a parameter, which the provers used
cannot instantiate. The two modules that need induction take it from sets instead:
a set of naturals that is not empty has a least element (`WFMin`, `NatLessThanWellFounded`),
so a set that holds zero and each successor is `Nat` (`AllNaturals`), and a
recursive function exists because its finite beginnings do (`RecursiveFunction`).

Only model-checked: everything under fairness (`CancelDrains`, `StaleEndsCall`,
`NoLeak`, `OutdatedMiningEnds`, `Settles`, `AllRead`, `Recovers`), since ENABLED
and liveness are beyond the prover used. Of `RetargetBounded`, which TLC evaluates on windows of
blocks, `RetargetKeepsBounds` is the general form.

## Not modelled

The Yespower cipher (a set of solutions stands for it; of its memory see `Smix`),
the rest of the vendored C code and the kernels; HTTP and JSON beyond which members
count; rendering, the GPU's rate and the history of rates; the list of GPUs and their
names; testnet's parameters and the rig's name; `/proc`; fixed header layouts and chain
constants. `benchHashrate` (`mining.go:50-80`) and `Miner.Close` are called from
nowhere. Partly modelled parts are listed in `PROJECT.json`.

## Plan

Done, in this order: `WorkerPool` with `MineCall`; `RpcMining`; `NoncePartition`;
`ShareStats`; `GpuDevice`; `CompactTarget`; `Smix`, then with several workers;
`TemplateWork`; `ConfigFile`, `StartUp` and `RpcAccess`; the proofs listed above. What is
left:

1. The S-box pointers and `ctx.w` of `pwxform` (which group is written when), to
   replace `PwxWrite`'s choice, and an abstract specification "each hash has memory of
   its own" that the C library's per-thread memory implements.
2. A `TemplateWork` for the GPU loop and for several generations, in which an old
   generation's submission may spend a template of the new one.
3. The submission of a block across two generations: which of the theorems for one
   generation survive a restart, with the retired loop's effects named.
