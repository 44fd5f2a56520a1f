# Verification of the trxdb loader (sf-ethereum)

This directory models two programs of the repository in TLA+:

- the block-ingestion pipeline of `trxdb-loader` (`BigtableLoader`,
  `src/unnamed/part_000`);
- the `generate-callto-index` tool (`src/tools/account_call_index.go`).

It holds the models, an abstract specification of the loader's durable
table that the loader is shown to implement, TLC configurations that check
them on small instances, and TLAPS proofs for every value of the constants.

## The system

A live loader works as follows:

1. `BuildPipelineLive` reads the last written irreversible block (LIB) from
   the table. It then assembles a source: file blocks joined to the live
   stream, behind an exclusive gate on the LIB, inside an `EternalSource`.
2. The fork resolver (`forkable`, outside the repository) calls
   `ProcessBlock` once per step, from one goroutine and in order.
   - A **New** step carries a block of the current longest chain, or of a
     fork.
   - An **Irreversible** step finalizes a group of `StepCount` blocks. It is
     delivered once per `StepIndex`.
3. `FullJob` handles each step:
   - On New, it stores the block. For the first streamable block it also
     stores the genesis sentinel and marks it irreversible. It then runs
     `FlushIfNeeded`.
   - On Irreversible, it first checks the stop block. If this is the last
     step of a group at or past `endBlock`, it forces a `DoFlush` and calls
     `Shutdown(nil)`.
   - Otherwise it ignores `StepIndex != 0`. At `StepIndex == 0` it finalizes
     the whole group (`UpdateIrreversibleData`) and runs `FlushIfNeeded`.
4. Writes go to the DBWriter's buffer. A flush, under a one-minute timeout,
   makes them durable.
5. `Launch` links the source and the loader in both directions. Either one
   shutting down shuts down the other. The source's `OnTerminated` hook
   calls `setUnhealthy`.
6. A loader that stops with an error is restarted by the process
   supervisor. The new process resumes at the LIB found in the table.

## Modules

### `Loader.tla`: one model for the live pipeline across process lifetimes

**Loader state:**

| Variable | Code |
|---|---|
| `terminating` | `IsTerminating()` |
| `exitCause` | the error given to `Shutdown` |
| `healthy` | `l.healthy` |

**DBWriter state:**

| Variable | Meaning |
|---|---|
| `wlog` | the mutations this process buffered, in order |
| `flushed` | how many of them are durable |
| `basePut`, `baseIrr` | the table left by earlier processes |

**Fork resolver state:**

| Variable | Meaning |
|---|---|
| `head` | the New height |
| `libSent` | the Irreversible height |
| `grp` | the group being delivered (first block, `StepCount`, next `StepIndex`) |
| `forked` | the heights whose competing block was sent |

**Process state:** `phase` (down, running, fatal or done) and `starts`.

**Actions:**

- `DeliverNew`, `DeliverFork(h)`, `DeliverIrreversible(k)` and
  `DeliverGroupRest` are the fork resolver's deliveries. Each one calls
  `ProcessBlock` with a `recent` flag. The flag stands for
  `time.Since(blockTime) < 25s`.
- `ProcessBlock` models the code as a whole: the IsTerminating guard,
  then `FullJob`.
- `FullJobNew` and `FullJobIrreversible` keep every branch and every error
  return of the code.
  - A failing `PutBlock` or `UpdateNowIrreversibleBlock` buffers a strict
    prefix of the writes (`BufferFailing`).
  - A failing flush makes an arbitrary prefix durable (`FlushFails`). This
    covers a timed-out Bigtable flush.
  - The error shuts the loader down, through the source (`Fail`).
- `SourceStops` is the source terminating during a shutdown (Launch's
  cascade and `setUnhealthy`).
- `SourceFails` is the source terminating on its own.
- `Exit` ends a process with nothing left to deliver. `Crash` ends it at
  any point. In both cases the unflushed tail is lost (`Halt`).
- `Start` models `NewBigtableLoader`, `BuildPipelineLive` and `Launch` in a
  fresh process. It has three outcomes:
  - a fatal LIB-lookup error on an empty table;
  - a start at genesis when `AllowLiveOnEmptyTable` is set;
  - a resume after the exclusive gate on the table's LIB.

The fork resolver, the DBWriter and the shutter are outside this
repository. They are modelled from their contracts, which the spec
describes, and the map marks those definitions `spec_modelled`.

Block data are abstracted to `[num, canon]`. Only canonical blocks become
irreversible, and a fork block is a different value at the same height.

### `DurableTable.tla`: what the loader promises of its table

The abstract specification. Its state is the durable table only: `irr`,
the heights durably finalized, and `put`, the blocks durably stored.
`Consistent(I, P)` says the finalized heights are an interval from genesis,
each with its canonical block stored. The only step, `Commit`, grows both
sets and keeps them consistent. Crashes, partial flushes and restarts are
not visible at this level: a step either commits or leaves the table alone.

`Loader` instantiates it as
`Table == INSTANCE DurableTable WITH irr <- DurableIrr, put <- DurablePut`.
The durable table is the earlier processes' table (`baseIrr`, `basePut`)
with this process's flushed writes. `RefinesDurableTable == Table!TableSpec`
is checked by TLC and proved by TLAPS.

### `CallIndex.tla`: the call-index tool

`generateCalltoIdxE` as two processes: the main goroutine (`mpc`) and the
goroutine running the irreversible-index scan (`gpc`), joined by `done`
(the `done` channel: `close(done)` and `<-done`).

| Action | Code |
|---|---|
| `Init` | the command with its flags and 4 or 5 arguments (`cmd`) |
| `ParseFlags` | the flag reads and the `size < 0` checks (lines 48-80) |
| `ParseArgs` | `ParseUint` of the start and, with 5 arguments, the stop block |
| `OpenStores` | the three stores and the stream factory, or an error; the index stores hold any set of index files |
| `GoScan`, `GoClose` | the goroutine: `FindNextUnindexed` on the irreversible index, then `close(done)` |
| `MainScan` | `FindNextUnindexed` on the account index |
| `Join` | `<-done`, then the start taken as the smaller result, and the indexers |
| `OpenStream` | the firehose request and `streamFactory.New` |
| `StreamBlock` | the handler: the irreversible indexer (when `createIrr`) and the call indexer add the block |
| `StreamEnds`, `StreamFails` | `stream.Run` returns at the stop block, or with an error |
| `Panic` | a scan dividing by a zero size: the process dies |

The firehose stream is modelled by its contract: the irreversible blocks
from the start to the stop block, in order.

### `IndexRange.tla`: what the call-index tool promises

`IndexRange` is the abstract specification of the two indexes. Its state:

- `from`, `to` and `withIrr`: the start argument, the stop block (0 when
  none is given) and `--create-irreversible-indexes`;
- `acc` and `irr`: the heights in each index;
- `stage`: closed, open or finished.

It has three actions:

- `Open`: the stores are opened with whatever they hold.
- `Add`: one height is indexed, only when every height from `from` below
  it is already in the index. With `withIrr` the same holds of `irr`;
  without it, `irr` is left alone.
- `Finish`: a clean return, only with `from..to` in both indexes.

`CallIndex` maps onto it with `Promise == INSTANCE IndexRange WITH ...`:

- `acc` is `AccIndexed`: the heights covered by an account-index file of
  a lookup size, plus the heights given to `t.ProcessBlock`.
- `irr` is `IrrIndexed`, built the same way from the irreversible store
  and `irreversibleIndexer.Add`.
- `stage` is `Stage`: closed until the goroutine starts, finished at a
  clean return.
- The other three come from the command line.

The property is `RefinesIndexRange == Promise!RangeSpec`. Under it:

- `OpenStores` is `Open`;
- the handler (`StreamBlock`) is `Add`;
- `StreamEnds` is `Finish`;
- every other step is a stutter.

### `IndexLookup.tla`, `IndexLookupLoop.tla`: the index lookup

`FindNextUnindexed` is in `bstransform`, outside the repository, and is
modelled from its contract. The index stores are sets of files
`[base, size]`:

- `base` is a multiple of `size`;
- a file is written once its whole bundle is indexed, so it ends at or
  below `MaxBlock`.

`IndexLookup` states what the lookup returns, in closed form:

- `next` is the first height from `cur` that no index file of a listed
  nonzero size holds (`Indexed`);
- `panic` is true exactly when a listed size is 0. The loop calls
  `lowBoundary(i, 0)` at the latest at that first unindexed height, where
  every nonzero size misses, and that divides by zero.

`IndexLookupLoop` transliterates the loop itself as a RECURSIVE operator.
For each size in order, if the index file holding the current height
exists, the loop moves past that file and restarts; otherwise it returns
the height. The `index_lookup_loop` run checks that the loop computes the
closed form for every input of an instance. `CallIndex` uses the closed
form, which keeps RECURSIVE out of the modules the proofs reach.

### `MCLoader.tla`, `MCCallIndex.tla`, `MCIndexLookupLoop.tla`

`MCLoader` fixes `MaxBlock = 5` and `ForkAt = {2}`. `MCCallIndex` fixes
file sizes {2, 4}, lookup size lists `<<4, 2>>`, `<<2, 4>>`, `<<2, 0>>`
and `<<-1>>`, start arguments 1, 2 or unparsable, and stop argument 3 or
unparsable. `MCIndexLookupLoop` fixes heights 0..5 and file sizes {2, 4}.
That gives the files [0,2), [2,4), [4,6) and [0,4), so a lookup can jump
through files of both sizes in a chain. It uses size lists `<<4, 2>>`,
`<<2, 4>>`, `<<2>>`, `<<>>`, `<<2, 0>>` and `<<0, 4>>`.

### `LoaderProofs.tla`, `StoreProofs.tla`, `CallIndexProofs.tla`

The TLAPS proofs (see below).

## Runs

| Run | Configuration | Result |
|---|---|---|
| `loader_stop` | `MCLoader.cfg`: stop block 3, heights 0..5, batch 2, groups of up to 2, a fork at 2, two starts, `FairSpec` | pass, about 763k states |
| `loader_refines_table` | `MCLoader_live.cfg`: no stop block, heights 0..4, `AllowLiveOnEmptyTable` off, three starts | pass, about 349k states |
| `callindex` | `MCCallIndex.cfg`: heights 0..3, `FairSpec` | pass, about 57k states |
| `callindex_zero_size` | `MCCallIndex_zero.cfg` | violation |
| `index_lookup_loop` | `MCIndexLookupLoop.cfg`: every start 0..6, size list and store | pass, 672 states |
| `stop_block_exclusive` | `MCLoader_stop.cfg` | violation |
| `health_on_clean_stop` | `MCLoader_health.cfg` | violation |

**`loader_stop`** checks five properties:

- `TypeOK`.
- `DurableConsistent`: the durable table finalizes heights without a gap
  from genesis, each with its block stored. This must survive:
  - any interleaving of deliveries;
  - partial write and flush failures;
  - crashes;
  - restarts from the table's LIB.
- `CleanStopComplete`: a clean stop has made every height below the stop
  block durably irreversible.
- `StoreFrozenAfterShutdown`, an action property: once the loader is
  terminating, deliveries change nothing. This is the IsTerminating guard.
- `EventuallyStops`, a liveness property: started below the stop block, the
  pipeline ends in one of three ways:
  - cleanly;
  - with the fatal start error;
  - after the last restart.

**`loader_refines_table`** checks `RefinesDurableTable` without a stop
block. Every abstract step requires the table to stay consistent, so the
refinement implies `DurableConsistent` (checked by `loader_stop`), and it
also says that no step loses a durable height or block. A halting process that did not hand its flushed writes to the next
one (`HaltLosingFlush`) keeps the table consistent but fails it.

**`callindex`** checks, over every pair of index stores on heights 0..3:

- `TypeOK`.
- `StartIsFirstGap`: once the scans are joined, the stream starts at the
  smaller of the two `FindNextUnindexed` results, computed on the stores as
  they are. Reading `irrStart` before the join breaks it.
- `IndexComplete`: a clean return leaves every height from the requested
  start to the stop block covered by an account-index file of a lookup
  size or processed, and, with `create-irreversible-indexes`, covered by an
  irreversible-index file or added. Starting at the larger result breaks it.
- `EventuallyReturns`, a liveness property: with a stop block, the command
  returns, fails or panics. A goroutine that never closes `done` breaks it.
- `RefinesIndexRange`: the tool implements `IndexRange`. Every block the
  handler indexes has every height from the start argument below it
  already in both indexes. A stream opened one block after the resume
  point (`OpenStreamExclusive`) breaks it: its first `Add` leaves a gap.

**`callindex_zero_size`** checks `ValidatedSizesNoPanic`: the size checks
make every size safe for the scans. TLC finds a size of 0 that passes
`size < 0` and makes `FindNextUnindexed` divide by zero. This is a finding
in `PROJECT.json`.

**`index_lookup_loop`** checks `LoopMeetsContract`: for every start
height, size list and store content, the loop panics exactly when a size
is 0, and otherwise returns the first height that no file of the listed
sizes holds. The answer does not depend on the order of the sizes: each
jump ends at the end of a file, so the heights it skips are all indexed. A
loop that moves by the bundle size from the current height, instead of to
the end of the file holding it, breaks the property.

**`stop_block_exclusive`** checks `StopBlockExclusive`. StopBeforeBlock's
comment, and the spec, say that no block at or past the stop block is
written. TLC finds otherwise: the New step of block 3 stores it and
flushes it. The cutoff is only tested on Irreversible steps.

**`health_on_clean_stop`** checks `HealthKeptOnCleanStop`. The spec says
health turns false only on an unexpected source stop. TLC finds that a
clean stop turns it false, because `OnTerminated` calls `setUnhealthy`
whatever the cause.

The three violation runs are recorded as findings in `PROJECT.json`.

**Bounds.** Heights 0..5 with stop block 3 allow all of these:

- the genesis sentinel (block 1);
- a flush at a batch multiple (2, 4) and a skipped flush (3, 5);
- a fork below the stop block;
- an Irreversible group of two that straddles the stop block.

Two or three starts allow a crash followed by a resume from the table's
LIB, and a second failure after that resume. The initial states range over
every table an earlier run can leave: empty, or finalized up to some LIB,
with or without the next block stored.

**Fairness** (`FairSpec`, used only for `EventuallyStops`):

- Weak fairness on the resolver's deliveries. The code configures
  `EnsureAllBlocksTriggerLongestChain`.
- Weak fairness on the source's shutdown after the loader's (the Launch
  cascade).
- Weak fairness on process exit and on the supervisor's restart.

Crashes, source failures and forks get no fairness: the code does not
cause them.

`CHECK_DEADLOCK FALSE` is set because a finished process (done or fatal),
and a supervisor that has used its last start, really do stop.

**Call-index bounds and fairness.** Sizes 2 and 4 on heights 0..3 give the
files [0,2), [2,4) and [0,4): stores where the two indexes stop at
different heights, where a smaller file fills a gap the larger one leaves,
and where the two size orders take different paths through the files. Starts 1 and 2 are inside a file and on
its boundary. `FairSpec` puts weak fairness on each goroutine's steps:
the Go scheduler runs every runnable goroutine, and the stream delivers
its blocks. The run ends without deadlock checking because a returned
command stops.

Every property of the passing runs has a mutant in `PROJECT.json` that
breaks it. Each mutant is a plausible bug in the mapped code:

| Mutant | Bug |
|---|---|
| `GroupWritesShifted` | off-by-one in the group |
| `GroupWritesFirstOnly` | only StepIndex 0's block finalized |
| `StopWithoutFlush` | missing final flush |
| `ProcessBlockUnguarded` | missing IsTerminating check |
| `StopReachedExact` | `=` for `>=` in the cutoff |
| `HaltLosingFlush` | a halt that drops the flushed writes |
| `ParseArgsUnguarded` | the stop argument parsed without the `len(args) == 5` test |
| `JoinLarger` | the larger scan result taken as the start |
| `JoinUnsynchronized` | the scan result read without waiting on `done` |
| `GoCloseForgotten` | the goroutine never closes `done` |
| `OpenStreamExclusive` | the stream requested from the block after the resume point |
| `FindNextUnindexedLoopUnaligned` | the lookup moves by the size from the current height, not to the end of its file |

## Proofs (`LoaderProofs.tla`, `StoreProofs.tla`, `CallIndexProofs.tla`)

The assumption is `ConstantsAssumption` of `Loader`. All of the following
are proved by `tlapm` with no omitted step. In `LoaderProofs`:

| Theorem | Statement |
|---|---|
| `InitIInv` | `Init => IInv` |
| `NextIInv` | `IInv /\ [Next]_vars => IInv'` |
| `SpecIInv` | `Spec => []IInv` |
| `TypeCorrect` | `Spec => []TypeOK` |
| `DurableConsistentHolds` | `Spec => []DurableConsistent` |

`DurableConsistent` is not inductive on its own. It says nothing about:

- the buffered mutations that a later flush, or a partial flush, will make
  durable;
- the resolver's position, which decides what the next group finalizes.

The strengthening `IInv` (defined in `Loader.tla`, checked by TLC too) adds
four facts:

- Every prefix of the write log from the flushed point on leaves the table
  finalized on an interval from genesis (`IsInterval(Hist(n))`), with each
  finalized block stored (`Anchored(n)`). A flush or a crash, which makes
  any of these prefixes the durable state, therefore keeps the property.
- A running loader that is not terminating has finalized exactly up to
  `libSent` in the whole log.
- That loader has stored every canonical block in `libSent+1..head`. The
  next Irreversible group therefore finalizes only blocks it holds, and
  extends the interval.
- A process that is not running has an empty log. A restart therefore
  resumes at the interval's last height, which is `LastOf` of the table's
  LIB set.

**Structure of the proof:**

- One lemma per action.
- Shape lemmas describe what a `ProcessBlock` call can append to the log
  and how far it can flush:
  - `FlushShape`;
  - `ProcessNewShape`, `ProcessGroupShape`, `ProcessRestShape`;
  - `ShapeGood`.
- Lemmas about the operators: `ConcatIn`, `PrefixOf`, `GroupWritesFacts`,
  `NewWritesFacts`, `LastOfInterval`.

In `StoreProofs`:

| Theorem | Statement |
|---|---|
| `RefinementHolds` | `Spec => RefinesDurableTable` |
| `CleanStopCompleteHolds` | `Spec => []CleanStopComplete` |
| `StoreFrozenHolds` | `Spec => StoreFrozenAfterShutdown` |

**The refinement.** An initial state maps to a consistent table, because
`IInv` holds there. For a step, the new table is consistent because `IInv`
holds after it (`IInvConsistent`, `ConsistentOf`). It has lost nothing
(`NextGrows`):

- a delivery has the `Shape` of a `ProcessBlock` call, so the old flushed
  prefix is a prefix of the new log and the flushed point does not move
  back (`ShapeGrows`);
- `Exit` and `Crash` hand exactly the durable table to the next process
  (`HaltKeepsTable`);
- the other actions leave the log and the table alone.

**The clean stop.** `CleanStopComplete` is not inductive even with
`IInv`: a later-StepIndex stop needs to know where the group ends. The
strengthening adds `GroupEnds` (the group being delivered ends at
`libSent`, checked by TLC on the `loader_stop` instance before the proof).
Only a `ProcessBlock` call at the stop block of an Irreversible step can
set the exit cause to clean, and then after flushing the whole unchanged
log (`CleanOnlyAtStop`). A running loader's log finalizes up to `libSent`,
and the stop block is at most `libSent + 1` (`StopFlushesAll`). After the
stop nothing durable is lost (`NextGrows`).

**The frozen store.** `StoreFrozenAfterShutdown` needs no invariant
(`FrozenStep`). A step that keeps a terminating loader running is one of
the following:

- a delivery, whose `ProcessBlock` returns at the IsTerminating check and
  changes nothing (`TerminatingProcessFrozen`);
- a source or supervisor step, which leaves the log and the flushed point
  alone.

`Exit` and `Crash` change the phase, and `Start` needs a stopped process.
The empty log's facts used by the resume and halt steps are the lemma
`EmptyLog`.

In `CallIndexProofs`, from `IndexLookupAssumption` and
`CallIndexAssumption`:

| Theorem | Statement |
|---|---|
| `CallIndexIInv` | `Spec => []IInv` |
| `StartIsFirstGapHolds` | `Spec => []StartIsFirstGap` |
| `IndexCompleteHolds` | `Spec => []IndexComplete` |
| `CallIndexTypeCorrect` | `Spec => []TypeOK` |
| `CallIndexRefinement` | `Spec => RefinesIndexRange` |

Neither property is inductive. Each relates the state to what the other
goroutine wrote. The strengthening `IInv` (in `CallIndexProofs`, checked
by TLC on the `callindex` instance before the proof) says:

- `startBlockNum` keeps the start argument until the join;
- `irrStart` holds the irreversible lookup's answer once the goroutine is
  past its lookup, and `accStart` holds the account lookup's answer once
  the main goroutine is;
- `done` is closed only by the goroutine after its write, and a panic ends
  both goroutines;
- the lookup goroutine runs only while the main one is scanning or
  waiting;
- the stores are fixed once opened;
- after the join, `startBlockNum` is the smaller answer;
- the stream has given the indexers every height from `startBlockNum`
  below the cursor, and a finished stream has passed the stop block.

`StartIsFirstGap` then follows by `MinOfTwo`. `IndexComplete` follows from
the lookup's lemma `FindNextUnindexedNext`: the answer lies in
`cur..cur+MaxBlock+1`, and every height from `cur` below it is `Indexed`.
That lemma rests on:

- `IndexedBelow`: an indexed height is at most `MaxBlock`, so a gap
  exists;
- `NatLeast`: a nonempty set of naturals has a least element, from
  `WFMin` and `NatLessThanWellFounded` of the library;
- `IndexedCovered`: an indexed height is `Covered`.

Heights below the joined start are indexed in both stores; the rest, up to
the stop block, were streamed.

`CallIndexTypeCorrect` is proved together with `IInv`
(`SpecInvariants: Spec => [](IInv /\ TypeOK)`). Heights stay naturals
because of three facts:

- the parsed arguments are naturals;
- each lookup answer lies in `cur..cur+MaxBlock+1`
  (`FindNextUnindexedNext`);
- the cursor only counts up from the joined start.

`CallIndexRefinement` rests on the lemma `GapFree`: while streaming, every
height from the start argument below the cursor is in `AccIndexed`, and
also in `IrrIndexed` when the tool creates irreversible indexes. It has
two cases:

- a height below the joined start is `Indexed` in both stores, by
  `FindNextUnindexedNext`. It is therefore at most `MaxBlock`
  (`IndexedBelow`) and `Covered` (`IndexedCovered`).
- a height from the joined start on was given to the indexers, by `IInv`.

`NextRange` then maps each action:

- `StreamBlock` is an `Add` of the cursor, with the gap-freedom from
  `GapFree`.
- `StreamEnds` is a `Finish`, since the stop block lies below the cursor.
- `OpenStores` is an `Open`.
- Every other step is a stutter. Their stage is unchanged because of two
  conjuncts added to `IInv`:
  - the goroutine has started whenever the main goroutine is past the
    stores;
  - `stopBlockNum` is the stop argument when five arguments are given,
    and 0 otherwise. This is also what makes `to` agree with the code.

**What TLC checks but TLAPS does not prove:**

- `EventuallyStops` and `EventuallyReturns` need liveness under fairness,
  which is outside TLAPS's reach.
- `LoopMeetsContract`: the loop is RECURSIVE, and what a recursive
  definition computes for every input needs induction over data, which
  the installed provers cannot do. TLC checks it on every input of its
  instance. The proofs about `CallIndex` rest on the closed form that this
  run ties to the loop.
- `StopBlockExclusive`, `HealthKeptOnCleanStop` and
  `ValidatedSizesNoPanic` do not hold; the violation runs show the
  counterexamples.

## Not modelled

- **The batch and patch pipelines and `PatchJob`.** These are
  `BuildPipelineJob`, with its inclusive gate after `forkable`.
- **The `EternalSource` restart inside one process.** A restart is modelled
  as a new process. The hazard that `startAtBlockOne` ignores the restart
  reference is therefore open. So is the partial group that
  `UpdateIrreversibleData` leaves buffered when it fails (line 338): in
  the code the retried source keeps that buffer, and a later flush can
  make the partial group durable. In the model the failure shuts the loader
  down, and `DurableConsistent` covers only that path.
- **The file/live joining source.** It is modelled by its contract: blocks
  in chain order.
- **The call-index tool's shared flag registration and test helpers**
  (`account_call_index.go` lines 175-409). The first only declares cobra
  flags; the second builds fixture blocks for the transform tests.
- **What the indexers write.** `EthCallIndexer` and
  `IrreversibleBlocksIndexer` are outside the repository; a processed
  height stands for the indexed block.
- **`ShowProgress` and the metrics.** They only log.
- **The cobra flags, `.goreleaser` and the changelog.** They have no
  behaviour.

## Plan

1. A batch/patch module composed with the same FullJob.
2. The in-process EternalSource restart.
3. Proofs about the batch pipeline once it is modelled.
