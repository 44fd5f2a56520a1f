------------------------------- MODULE Loader -------------------------------
(***************************************************************************)
(* The trxdb-loader ingestion pipeline in live mode (BigtableLoader,       *)
(* src/unnamed/part_000): the per-block callback ProcessBlock/FullJob, the *)
(* flush policy FlushIfNeeded/DoFlush, the stop-block cutoff, the health   *)
(* flag and the shutdown cascade of Launch, across process crashes and     *)
(* supervisor restarts that resume through BuildPipelineLive.              *)
(*                                                                         *)
(* The collaborators outside the repository are modelled from their       *)
(* contracts: the fork resolver (forkable) emits New steps for new blocks  *)
(* and Irreversible steps in groups; the DBWriter buffers PutBlock and     *)
(* UpdateNowIrreversibleBlock mutations in order and makes them durable on *)
(* Flush; the supervisor restarts a process that stopped without reaching  *)
(* the stop block.                                                         *)
(***************************************************************************)
EXTENDS Integers, Sequences

CONSTANTS
    GenesisNum,            \* bstream.GetProtocolGenesisBlock
    FirstStreamable,       \* bstream.GetProtocolFirstStreamableBlock
    BatchSize,             \* l.batchSize
    EndBlock,              \* l.endBlock, set by StopBeforeBlock; 0 = no stop
    AllowLiveOnEmptyTable, \* argument of BuildPipelineLive
    ForkAt,                \* heights at which a competing block is produced
    MaxBlock,              \* bound: highest height the chain reaches
    MaxGroup,              \* bound: largest multi-block Irreversible step
    MaxStarts              \* bound: process starts the supervisor performs

ASSUME ConstantsAssumption ==
    /\ GenesisNum \in Nat
    /\ FirstStreamable = GenesisNum + 1   \* genesis is the first block's parent
    /\ BatchSize \in Nat \ {0}
    /\ EndBlock \in Nat
    /\ AllowLiveOnEmptyTable \in BOOLEAN
    /\ MaxBlock \in Nat
    /\ GenesisNum <= MaxBlock
    /\ ForkAt \subseteq FirstStreamable..MaxBlock
    /\ MaxGroup \in Nat \ {0}
    /\ MaxStarts \in Nat

VARIABLES
    phase,       \* the process: "down", "running", "fatal" or "done"
    terminating, \* l.Shutter.IsTerminating()
    exitCause,   \* error the loader shut down with: "none", "clean", "error", "source"
    srcLive,     \* the assembled source has not terminated yet
    healthy,     \* l.healthy
    head,        \* fork resolver: highest height delivered as New in this run
    libSent,     \* fork resolver: highest height put in an Irreversible group
    grp,         \* fork resolver: the Irreversible group being delivered
    forked,      \* fork resolver: heights whose competing block was delivered
    wlog,        \* DBWriter: the mutations this process buffered, in order
    flushed,     \* DBWriter: how many mutations of wlog are durable
    basePut,     \* store: blocks durably written before this process started
    baseIrr,     \* store: heights durably finalized before this process started
    starts       \* processes started so far

loaderVars == <<terminating, exitCause, healthy, wlog, flushed>>
resolverVars == <<head, libSent, grp, forked>>
vars == <<phase, srcLive, basePut, baseIrr, starts, loaderVars, resolverVars>>

-----------------------------------------------------------------------------
(* Blocks, mutations and deliveries.                                       *)

Heights == GenesisNum..MaxBlock
Blocks == [num : Heights, canon : BOOLEAN]
CanonBlock(h) == [num |-> h, canon |-> TRUE]
ForkBlock(h) == [num |-> h, canon |-> FALSE]
GenesisBlock == CanonBlock(GenesisNum)

Mutations == [op : {"put", "irr"}, blk : Blocks]
Put(b) == [op |-> "put", blk |-> b]
Irr(b) == [op |-> "irr", blk |-> b]

\* A ForkableObject handed to ProcessBlock: the step, the block, and for an
\* Irreversible step its StepIndex, StepCount and the first of StepBlocks.
NewObj(b) == [step |-> "new", blk |-> b, idx |-> 0, count |-> 0, first |-> b.num]
IrrObj(first, count, idx) ==
    [step |-> "irreversible", blk |-> CanonBlock(first + idx),
     idx |-> idx, count |-> count, first |-> first]

\* The store seen through GetLastWrittenIrreversibleBlockRef and reads.
IrrIn(log, n) == {log[i].blk.num : i \in {j \in 1..n : log[j].op = "irr"}}
PutIn(log, n) == {log[i].blk : i \in {j \in 1..n : log[j].op = "put"}}
DurableIrr == baseIrr \cup IrrIn(wlog, flushed)
DurablePut == basePut \cup PutIn(wlog, flushed)
LastOf(S) == CHOOSE m \in S : \A x \in S : x <= m

-----------------------------------------------------------------------------
(* The loader: BigtableLoader and its FullJob.                             *)

Continue == UNCHANGED <<terminating, exitCause>>
ShutdownWith(cause) == terminating' = TRUE /\ exitCause' = cause
Fail == ShutdownWith("error")

\* db.PutBlock / db.UpdateNowIrreversibleBlock for each of ms in order: all
\* succeed, or the (j+1)-th returns an error after the first j were buffered.
Buffer(ms) == wlog' = wlog \o ms
BufferFailing(ms) == \E j \in 0..Len(ms) - 1 : wlog' = wlog \o SubSeq(ms, 1, j)

\* DoFlush: db.Flush under a one-minute timeout either makes every buffered
\* mutation durable, or fails (timeout, backend error) after some prefix.
FlushOk == flushed' = Len(wlog')
FlushFails == \E n \in flushed..Len(wlog') : flushed' = n

\* FlushIfNeeded: flush at every multiple of the batch size, or when the
\* block time is within 25 seconds of now (recent).
FlushDue(num, recent) == num % BatchSize = 0 \/ recent
FlushIfNeeded(num, recent) ==
    \/ FlushDue(num, recent) /\ FlushOk /\ Continue
    \/ FlushDue(num, recent) /\ FlushFails /\ Fail
    \/ ~FlushDue(num, recent) /\ UNCHANGED flushed /\ Continue

\* The writes of a New step: the genesis sentinel (stored, then set
\* irreversible) when the block is the first streamable one, then the block.
NewWrites(b) ==
    IF b.num = FirstStreamable
    THEN <<Put(GenesisBlock), Irr(GenesisBlock), Put(b)>>
    ELSE <<Put(b)>>

FullJobNew(b, recent) ==
    /\ healthy' = TRUE
    /\ \/ Buffer(NewWrites(b)) /\ FlushIfNeeded(b.num, recent)
       \/ BufferFailing(NewWrites(b)) /\ UNCHANGED flushed /\ Fail

\* Mutants of UpdateIrreversibleData: an off-by-one on the block index, and
\* finalizing only the block of StepIndex 0 instead of all of StepBlocks.
GroupWritesShifted(first, count) == [i \in 1..count |-> Irr(CanonBlock(first + i))]
GroupWritesFirstOnly(first, count) == <<Irr(CanonBlock(first))>>

\* UpdateIrreversibleData(fObj.StepBlocks): every block of the group in order.
GroupWrites(first, count) == [i \in 1..count |-> Irr(CanonBlock(first + i - 1))]

\* Mutant: the cutoff tested with = instead of >=.
StopReachedExact(o) == EndBlock # 0 /\ o.blk.num = EndBlock /\ o.count = o.idx + 1

\* The exact-cutoff condition of the Irreversible step.
StopReached(o) == EndBlock # 0 /\ o.blk.num >= EndBlock /\ o.count = o.idx + 1

\* Mutant: shut down at the stop block without the forced flush.
StopWithoutFlush(o) == UNCHANGED <<wlog, flushed>> /\ ShutdownWith("clean")

\* Flush, then l.Shutdown(nil); a failed flush shuts down with the error.
StopAtEndBlock(o) ==
    /\ UNCHANGED wlog
    /\ \/ FlushOk /\ ShutdownWith("clean")
       \/ FlushFails /\ Fail

FullJobIrreversible(o, recent) ==
    /\ UNCHANGED healthy
    /\ \/ StopReached(o) /\ StopAtEndBlock(o)
       \/ ~StopReached(o) /\ o.idx # 0 /\ UNCHANGED <<wlog, flushed>> /\ Continue
       \/ /\ ~StopReached(o) /\ o.idx = 0
          /\ \/ Buffer(GroupWrites(o.first, o.count))
                /\ FlushIfNeeded(o.blk.num, recent)
             \/ BufferFailing(GroupWrites(o.first, o.count))
                /\ UNCHANGED flushed /\ Fail

FullJob(o, recent) ==
    \/ o.step = "new" /\ FullJobNew(o.blk, recent)
    \/ o.step = "irreversible" /\ FullJobIrreversible(o, recent)

\* Mutant: ProcessBlock without its IsTerminating check.
ProcessBlockUnguarded(o, recent) == FullJob(o, recent)

\* A loader already shutting down ignores the blocks the source still sends.
ProcessBlock(o, recent) ==
    \/ terminating /\ UNCHANGED loaderVars
    \/ ~terminating /\ FullJob(o, recent)

-----------------------------------------------------------------------------
(* Deliveries of the fork resolver, each one synchronous ProcessBlock call *)
(* of the single ingestion goroutine.                                      *)

Delivering == phase = "running" /\ srcLive
GroupIdle == grp.idx = grp.count
Deliver(o) == \E recent \in BOOLEAN : ProcessBlock(o, recent)

\* The next block of the canonical chain, as a New step.
DeliverNew ==
    /\ Delivering /\ GroupIdle /\ head < MaxBlock
    /\ head' = head + 1
    /\ Deliver(NewObj(CanonBlock(head + 1)))
    /\ UNCHANGED <<libSent, grp, forked, phase, srcLive, basePut, baseIrr, starts>>

\* A competing block above the irreversible height, as a New step.
DeliverFork(h) ==
    /\ Delivering /\ GroupIdle
    /\ h \in ForkAt \ forked /\ libSent < h /\ h <= head + 1
    /\ forked' = forked \cup {h}
    /\ Deliver(NewObj(ForkBlock(h)))
    /\ UNCHANGED <<head, libSent, grp, phase, srcLive, basePut, baseIrr, starts>>

\* k canonical blocks become irreversible: StepIndex 0 of a group of k.
DeliverIrreversible(k) ==
    /\ Delivering /\ GroupIdle /\ libSent + k <= head
    /\ grp' = [first |-> libSent + 1, count |-> k, idx |-> 1]
    /\ libSent' = libSent + k
    /\ Deliver(IrrObj(libSent + 1, k, 0))
    /\ UNCHANGED <<head, forked, phase, srcLive, basePut, baseIrr, starts>>

\* The remaining StepIndex values of the group being delivered.
DeliverGroupRest ==
    /\ Delivering /\ ~GroupIdle
    /\ grp' = [grp EXCEPT !.idx = @ + 1]
    /\ Deliver(IrrObj(grp.first, grp.count, grp.idx))
    /\ UNCHANGED <<head, libSent, forked, phase, srcLive, basePut, baseIrr, starts>>

-----------------------------------------------------------------------------
(* Lifecycle: Launch's shutdown cascade, process exit, crash and restart.  *)

\* The loader shut down, so the source is shut down; its OnTerminated hook
\* calls setUnhealthy.
SourceStops ==
    /\ phase = "running" /\ terminating /\ srcLive
    /\ srcLive' = FALSE /\ healthy' = FALSE
    /\ UNCHANGED <<phase, terminating, exitCause, wlog, flushed, basePut,
                   baseIrr, starts, resolverVars>>

\* The source terminates on its own (end of data, lost stream): its
\* OnTerminating hook shuts the loader down, its OnTerminated hook calls
\* setUnhealthy.
SourceFails ==
    /\ phase = "running" /\ srcLive /\ ~terminating
    /\ srcLive' = FALSE /\ healthy' = FALSE
    /\ ShutdownWith("source")
    /\ UNCHANGED <<phase, wlog, flushed, basePut, baseIrr, starts, resolverVars>>

\* The process ends; the buffered mutations not flushed are lost.
\* Mutant: a halting process whose flushed writes are not handed to the next.
HaltLosingFlush(next) ==
    /\ phase' = next
    /\ basePut' = basePut /\ baseIrr' = baseIrr
    /\ wlog' = <<>> /\ flushed' = 0

Halt(next) ==
    /\ phase' = next
    /\ basePut' = DurablePut /\ baseIrr' = DurableIrr
    /\ wlog' = <<>> /\ flushed' = 0

Exit ==
    /\ phase = "running" /\ terminating /\ ~srcLive
    /\ Halt(IF exitCause = "clean" THEN "done" ELSE "down")
    /\ UNCHANGED <<terminating, exitCause, srcLive, healthy, starts, resolverVars>>

Crash ==
    /\ phase = "running"
    /\ Halt("down") /\ healthy' = FALSE
    /\ UNCHANGED <<terminating, exitCause, srcLive, starts, resolverVars>>

\* NewBigtableLoader, BuildPipelineLive and Launch in a fresh process that
\* resumes at height h: the fork resolver has seen nothing above h.
ResumeAt(h) ==
    /\ phase' = "running" /\ srcLive' = TRUE
    /\ terminating' = FALSE /\ exitCause' = "none" /\ healthy' = FALSE
    /\ head' = h /\ libSent' = h /\ forked' = {}
    /\ grp' = [first |-> h, count |-> 0, idx |-> 0]
    /\ UNCHANGED <<wlog, flushed, basePut, baseIrr>>

Start ==
    /\ phase = "down" /\ starts < MaxStarts
    /\ starts' = starts + 1
    /\ \/ /\ baseIrr = {} /\ ~AllowLiveOnEmptyTable   \* LIB lookup fails
          /\ phase' = "fatal"
          /\ UNCHANGED <<srcLive, basePut, baseIrr, loaderVars, resolverVars>>
       \/ baseIrr = {} /\ AllowLiveOnEmptyTable /\ ResumeAt(GenesisNum)
       \/ baseIrr # {} /\ ResumeAt(LastOf(baseIrr))  \* exclusive gate on the LIB

-----------------------------------------------------------------------------

\* A table left by earlier runs: heights finalized from genesis up to some
\* LIB, blocks stored up to the LIB or one past it; or an empty table.
InitStores ==
    {[irr |-> GenesisNum..l, put |-> {CanonBlock(x) : x \in (GenesisNum..(l + d)) \cap Heights}] :
        l \in (GenesisNum - 1)..MaxBlock, d \in {0, 1}}
        \cup {[irr |-> {}, put |-> {}]}

Init ==
    /\ phase = "down" /\ starts = 0
    /\ terminating = FALSE /\ exitCause = "none"
    /\ srcLive = FALSE /\ healthy = FALSE
    /\ head = GenesisNum /\ libSent = GenesisNum /\ forked = {}
    /\ grp = [first |-> GenesisNum, count |-> 0, idx |-> 0]
    /\ wlog = <<>> /\ flushed = 0
    /\ \E st \in InitStores : basePut = st.put /\ baseIrr = st.irr

Next ==
    \/ DeliverNew
    \/ \E h \in ForkAt : DeliverFork(h)
    \/ \E k \in 1..MaxGroup : DeliverIrreversible(k)
    \/ DeliverGroupRest
    \/ SourceStops
    \/ SourceFails
    \/ Exit
    \/ Crash
    \/ Start

Spec == Init /\ [][Next]_vars

\* The fork resolver keeps delivering (EnsureAllBlocksTriggerLongestChain),
\* the shutdown callbacks run, a stopped process exits and the supervisor
\* restarts it. Crashes, source failures and forks are not forced.
Fairness ==
    /\ WF_vars(DeliverNew)
    /\ WF_vars(\E k \in 1..MaxGroup : DeliverIrreversible(k))
    /\ WF_vars(DeliverGroupRest)
    /\ WF_vars(SourceStops)
    /\ WF_vars(Exit)
    /\ WF_vars(Start)

FairSpec == Spec /\ Fairness

-----------------------------------------------------------------------------
(* Properties.                                                             *)

\* Every variable holds a value of its type; the flushed index stays within
\* the write buffer.
TypeOK ==
    /\ phase \in {"down", "running", "fatal", "done"}
    /\ terminating \in BOOLEAN /\ srcLive \in BOOLEAN /\ healthy \in BOOLEAN
    /\ exitCause \in {"none", "clean", "error", "source"}
    /\ head \in Heights /\ libSent \in Heights /\ forked \subseteq ForkAt
    /\ grp \in [first : Heights, count : 0..MaxGroup, idx : 0..MaxGroup]
    /\ wlog \in Seq(Mutations) /\ flushed \in 0..Len(wlog)
    /\ basePut \subseteq Blocks /\ baseIrr \subseteq Heights
    /\ starts \in 0..MaxStarts

Contiguous(S) == \A h \in S : h = GenesisNum \/ h - 1 \in S

\* The durable store, across partial flushes, crashes and restarts from the
\* last written LIB, finalizes heights without a gap from genesis, and only
\* blocks whose data it durably holds (FullJob, UpdateIrreversibleData,
\* BuildPipelineLive's exclusive gate).
DurableConsistent ==
    /\ Contiguous(DurableIrr)
    /\ \A h \in DurableIrr : CanonBlock(h) \in DurablePut

\* A clean stop at the stop block leaves every height below it durably
\* finalized (the forced flush before l.Shutdown(nil)).
CleanStopComplete ==
    exitCause = "clean" => GenesisNum..(EndBlock - 1) \subseteq DurableIrr

\* Once the loader is shutting down, the blocks the source still delivers
\* change nothing in the store (ProcessBlock's IsTerminating check).
StoreFrozenAfterShutdown ==
    [][(phase = "running" /\ terminating /\ phase' = "running")
         => UNCHANGED <<wlog, flushed>>]_vars

\* Started on a table whose LIB is below the stop block, the pipeline ends:
\* cleanly at the stop block, on a fatal start error, or after the
\* supervisor's last restart.
EventuallyStops ==
    (baseIrr = {} \/ LastOf(baseIrr) < EndBlock) =>
    <>(phase \in {"done", "fatal"} \/ (phase = "down" /\ starts = MaxStarts))

-----------------------------------------------------------------------------
(* The inductive strengthening of TypeOK and DurableConsistent proved in   *)
(* LoaderProofs: every prefix of the write log from the flushed point on   *)
(* leaves the store finalized on an interval from genesis with the data of *)
(* each finalized block, and a running loader has finalized exactly up to  *)
(* the resolver's last Irreversible height and stored every block above.   *)

Hist(n) == baseIrr \cup IrrIn(wlog, n)
Stored(n) == basePut \cup PutIn(wlog, n)
IsInterval(S) == S = {} \/ \E m \in Heights : S = GenesisNum..m
Anchored(n) == \A h \in Hist(n) : CanonBlock(h) \in Stored(n)

IInv ==
    /\ TypeOK
    /\ libSent <= head
    /\ grp.idx <= grp.count
    /\ grp.count = 0 \/ grp.idx >= 1
    /\ phase # "running" => wlog = <<>> /\ flushed = 0
    /\ IsInterval(baseIrr)
    /\ \A h \in baseIrr : CanonBlock(h) \in basePut
    /\ \A n \in flushed..Len(wlog) : IsInterval(Hist(n)) /\ Anchored(n)
    /\ phase = "running" /\ ~terminating =>
          /\ \/ Hist(Len(wlog)) = GenesisNum..libSent
             \/ Hist(Len(wlog)) = {} /\ head = GenesisNum
          /\ \A h \in (libSent + 1)..head : CanonBlock(h) \in Stored(Len(wlog))

-----------------------------------------------------------------------------
(* The loader implements DurableTable: its durable table, the earlier      *)
(* processes' table with this process's flushed writes, is the abstract    *)
(* table.                                                                  *)

Table == INSTANCE DurableTable WITH irr <- DurableIrr, put <- DurablePut

\* Every step of the pipeline, crashes, partial flushes and restarts
\* included, leaves the durable table consistent and loses nothing that was
\* durable: a flush only adds, and a process that halts hands over exactly
\* what its DBWriter flushed (FullJob, DoFlush, BuildPipelineLive).
RefinesDurableTable == Table!TableSpec

-----------------------------------------------------------------------------
\* StopBeforeBlock's comment: "block num will not be inserted"; a loader
\* given a stop block never durably writes a block at or past it.
StopBlockExclusive ==
    EndBlock # 0 => \A b \in PutIn(wlog, flushed) : b.num < EndBlock

\* Spec 4.5: health turns false only when the source stops without the
\* loader having initiated the shutdown; a clean stop keeps it.
HealthKeptOnCleanStop ==
    [][(phase = "running" /\ phase' = "running" /\ exitCause = "clean")
         => (healthy => healthy')]_vars

=============================================================================
