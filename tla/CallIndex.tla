------------------------------ MODULE CallIndex ------------------------------
(***************************************************************************)
(* The generate-callto-index tool (generateCalltoIdxE,                     *)
(* src/tools/account_call_index.go): flag and argument validation, the two *)
(* FindNextUnindexed lookups run in parallel (one in a goroutine joined on *)
(* the done channel), the resume point taken as the smaller result, and    *)
(* the firehose stream that feeds every irreversible block from there to   *)
(* the stop block to the call-to indexer and, with                         *)
(* --create-irreversible-indexes, to the irreversible-blocks indexer.      *)
(*                                                                         *)
(* bstransform.FindNextUnindexed (module IndexLookup) and the firehose     *)
(* stream are outside the repository and are modelled from their         *)
(* contracts. Block contents are left out: an indexer is the set of        *)
(* heights it was given.                                                   *)
(***************************************************************************)
EXTENDS IndexLookup

CONSTANTS
    SizeLists,    \* values given to the two IntSlice size flags
    StartArgs,    \* values of the start-block-num argument
    StopArgs,     \* values of the stop-block-num argument
    BadArg        \* an argument strconv.ParseUint rejects

ASSUME CallIndexAssumption ==
    /\ SizeLists \subseteq Seq(Int)
    /\ StartArgs \subseteq Nat \cup {BadArg} /\ StopArgs \subseteq Nat \cup {BadArg}
    /\ BadArg \notin Nat

VARIABLES
    cmd,            \* the command line: flags and arguments
    mpc,            \* where the command's goroutine is
    gpc,            \* where the lookup goroutine is
    done,           \* the done channel is closed
    irrStart,       \* written by the goroutine, read by the main goroutine
    accStart,
    startBlockNum,
    stopBlockNum,
    accFiles,       \* index files in the account index store
    irrFiles,       \* index files in the irreversible index store
    cursor,         \* next height the stream delivers
    processed,      \* heights given to the call-to indexer (t.ProcessBlock)
    irrAdded        \* heights given to irreversibleIndexer.Add

vars == <<cmd, mpc, gpc, done, irrStart, accStart, startBlockNum, stopBlockNum,
          accFiles, irrFiles, cursor, processed, irrAdded>>

-----------------------------------------------------------------------------
(* generateCalltoIdxE.                                                     *)

HasNegative(sizes) == \E i \in 1..Len(sizes) : sizes[i] < 0

\* The size flags: a negative size of either list is an error; zero passes.
ParseFlags ==
    /\ mpc = "flags"
    /\ mpc' = IF HasNegative(cmd.iis) \/ HasNegative(cmd.lais) THEN "error" ELSE "args"
    /\ UNCHANGED <<cmd, gpc, done, irrStart, accStart, startBlockNum, stopBlockNum,
                   accFiles, irrFiles, cursor, processed, irrAdded>>

\* Mutant: stop-block-num taken without the len(args) == 5 guard.
ParseArgsUnguarded ==
    /\ mpc = "args"
    /\ \/ /\ cmd.start = BadArg \/ cmd.stop = BadArg
          /\ mpc' = "error"
          /\ UNCHANGED <<startBlockNum, stopBlockNum>>
       \/ /\ cmd.start # BadArg
          /\ startBlockNum' = cmd.start /\ stopBlockNum' = cmd.stop
          /\ mpc' = "stores"
    /\ UNCHANGED <<cmd, gpc, done, irrStart, accStart, accFiles, irrFiles, cursor,
                   processed, irrAdded>>

\* The positional arguments: start-block-num, and stop-block-num when given.
ParseArgs ==
    /\ mpc = "args"
    /\ \/ /\ cmd.start = BadArg \/ (cmd.nargs = 5 /\ cmd.stop = BadArg)
          /\ mpc' = "error"
          /\ UNCHANGED <<startBlockNum, stopBlockNum>>
       \/ /\ cmd.start # BadArg /\ (cmd.nargs = 4 \/ cmd.stop # BadArg)
          /\ startBlockNum' = cmd.start
          /\ stopBlockNum' = IF cmd.nargs = 5 THEN cmd.stop ELSE 0
          /\ mpc' = "stores"
    /\ UNCHANGED <<cmd, gpc, done, irrStart, accStart, accFiles, irrFiles, cursor,
                   processed, irrAdded>>

\* The three stores are opened (any may fail), then the goroutine is started.
OpenStores ==
    /\ mpc = "stores"
    /\ \/ mpc' = "error" /\ UNCHANGED <<gpc, accFiles, irrFiles>>
       \/ \E af, irf \in SUBSET IndexFiles :
             /\ accFiles' = af /\ irrFiles' = irf
             /\ mpc' = "scan" /\ gpc' = "scan"
    /\ UNCHANGED <<cmd, done, irrStart, accStart, startBlockNum, stopBlockNum,
                   cursor, processed, irrAdded>>

\* A panic in either goroutine ends the process.
Panic == mpc' = "panic" /\ gpc' = "dead"

\* The main goroutine's lookup in the account index store.
MainScan ==
    /\ mpc = "scan"
    /\ LET r == FindNextUnindexed(startBlockNum, cmd.lais, accFiles)
       IN  \/ r.panic /\ Panic /\ UNCHANGED accStart
           \/ ~r.panic /\ accStart' = r.next /\ mpc' = "wait" /\ UNCHANGED gpc
    /\ UNCHANGED <<cmd, done, irrStart, startBlockNum, stopBlockNum, accFiles,
                   irrFiles, cursor, processed, irrAdded>>

\* The goroutine's lookup in the irreversible index store.
GoScan ==
    /\ gpc = "scan"
    /\ LET r == FindNextUnindexed(startBlockNum, cmd.iis, irrFiles)
       IN  \/ r.panic /\ Panic /\ UNCHANGED irrStart
           \/ ~r.panic /\ irrStart' = r.next /\ gpc' = "close" /\ UNCHANGED mpc
    /\ UNCHANGED <<cmd, done, accStart, startBlockNum, stopBlockNum, accFiles,
                   irrFiles, cursor, processed, irrAdded>>

\* Mutant: the goroutine returns without closing done.
GoCloseForgotten ==
    /\ gpc = "close"
    /\ gpc' = "exited"
    /\ UNCHANGED <<cmd, mpc, done, irrStart, accStart, startBlockNum, stopBlockNum,
                   accFiles, irrFiles, cursor, processed, irrAdded>>

\* close(done).
GoClose ==
    /\ gpc = "close"
    /\ gpc' = "exited" /\ done' = TRUE
    /\ UNCHANGED <<cmd, mpc, irrStart, accStart, startBlockNum, stopBlockNum,
                   accFiles, irrFiles, cursor, processed, irrAdded>>

\* Mutants of the join: irrStart read without waiting on done (a data race:
\* the zero value or the written one), and the larger lookup result taken.
JoinUnsynchronized ==
    /\ mpc = "wait"
    /\ startBlockNum' = IF irrStart < accStart THEN irrStart ELSE accStart
    /\ mpc' = "open"
    /\ UNCHANGED <<cmd, gpc, done, irrStart, accStart, stopBlockNum, accFiles,
                   irrFiles, cursor, processed, irrAdded>>
JoinLarger ==
    /\ mpc = "wait" /\ done
    /\ startBlockNum' = IF irrStart < accStart THEN accStart ELSE irrStart
    /\ mpc' = "open"
    /\ UNCHANGED <<cmd, gpc, done, irrStart, accStart, stopBlockNum, accFiles,
                   irrFiles, cursor, processed, irrAdded>>

\* <-done, then the stream starts at the smaller of the two lookups.
Join ==
    /\ mpc = "wait" /\ done
    /\ startBlockNum' = IF irrStart < accStart THEN irrStart ELSE accStart
    /\ mpc' = "open"
    /\ UNCHANGED <<cmd, gpc, done, irrStart, accStart, stopBlockNum, accFiles,
                   irrFiles, cursor, processed, irrAdded>>

\* Mutant: the stream requested from the block after the resume point.
OpenStreamExclusive ==
    /\ mpc = "open"
    /\ \/ mpc' = "error" /\ UNCHANGED cursor
       \/ mpc' = "stream" /\ cursor' = startBlockNum + 1
    /\ UNCHANGED <<cmd, gpc, done, irrStart, accStart, startBlockNum, stopBlockNum,
                   accFiles, irrFiles, processed, irrAdded>>

\* The indexers are built and streamFactory.New may fail.
OpenStream ==
    /\ mpc = "open"
    /\ \/ mpc' = "error" /\ UNCHANGED cursor
       \/ mpc' = "stream" /\ cursor' = startBlockNum
    /\ UNCHANGED <<cmd, gpc, done, irrStart, accStart, startBlockNum, stopBlockNum,
                   accFiles, irrFiles, processed, irrAdded>>

Streaming == mpc = "stream" /\ (stopBlockNum = 0 \/ cursor <= stopBlockNum)

\* The handler, for the next irreversible block of the stream.
StreamBlock ==
    /\ Streaming /\ cursor <= MaxBlock
    /\ irrAdded' = IF cmd.createIrr THEN irrAdded \cup {cursor} ELSE irrAdded
    /\ processed' = processed \cup {cursor}
    /\ cursor' = cursor + 1
    /\ UNCHANGED <<cmd, mpc, gpc, done, irrStart, accStart, startBlockNum,
                   stopBlockNum, accFiles, irrFiles>>

\* stream.Run returns nil after the stop block (inclusive), or an error.
StreamEnds ==
    /\ mpc = "stream" /\ stopBlockNum # 0 /\ cursor > stopBlockNum
    /\ mpc' = "done"
    /\ UNCHANGED <<cmd, gpc, done, irrStart, accStart, startBlockNum, stopBlockNum,
                   accFiles, irrFiles, cursor, processed, irrAdded>>

StreamFails ==
    /\ mpc = "stream"
    /\ mpc' = "error"
    /\ UNCHANGED <<cmd, gpc, done, irrStart, accStart, startBlockNum, stopBlockNum,
                   accFiles, irrFiles, cursor, processed, irrAdded>>

\* The command lines cobra accepts (four or five arguments) with any flags.
Commands ==
    [createIrr : BOOLEAN, iis : SizeLists, lais : SizeLists,
     nargs : {4, 5}, start : StartArgs, stop : StopArgs]

Init ==
    /\ cmd \in Commands
    /\ mpc = "flags" /\ gpc = "idle" /\ done = FALSE
    /\ irrStart = 0 /\ accStart = 0 /\ startBlockNum = 0 /\ stopBlockNum = 0
    /\ accFiles = {} /\ irrFiles = {}
    /\ cursor = 0 /\ processed = {} /\ irrAdded = {}

MainStep ==
    ParseFlags \/ ParseArgs \/ OpenStores \/ MainScan \/ Join \/ OpenStream
    \/ StreamBlock \/ StreamEnds \/ StreamFails

GoStep == GoScan \/ GoClose

Next == MainStep \/ GoStep

Spec == Init /\ [][Next]_vars

\* The Go scheduler runs every runnable goroutine eventually.
FairSpec == Spec /\ WF_vars(MainStep) /\ WF_vars(GoStep)

-----------------------------------------------------------------------------
(* Properties.                                                             *)

Phases == {"flags", "args", "stores", "scan", "wait", "open", "stream",
           "done", "error", "panic"}

\* Every variable holds a value of its type; heights are naturals (uint64
\* in the code).
TypeOK ==
    /\ cmd \in Commands
    /\ mpc \in Phases /\ gpc \in {"idle", "scan", "close", "exited", "dead"}
    /\ done \in BOOLEAN
    /\ {irrStart, accStart, startBlockNum, stopBlockNum} \subseteq Nat
    /\ accFiles \subseteq IndexFiles /\ irrFiles \subseteq IndexFiles
    /\ cursor \in Nat /\ processed \subseteq Nat /\ irrAdded \subseteq Nat

\* Height h lies in an index file, of one of the looked-up sizes, in files.
Covered(files, sizes, h) ==
    \E f \in files : f.size \in Range(sizes) /\ f.base <= h /\ h < f.base + f.size

\* After a run to the stop block, every height from the start argument to
\* the stop block is call-to indexed (an existing index file or the
\* indexer), and also irreversible indexed when the tool creates those
\* indexes: the two lookups, their minimum and the stream leave no gap.
IndexComplete ==
    mpc = "done" =>
        \A h \in cmd.start..stopBlockNum :
            /\ Covered(accFiles, cmd.lais, h) \/ h \in processed
            /\ cmd.createIrr => Covered(irrFiles, cmd.iis, h) \/ h \in irrAdded

\* Once joined, the stream starts exactly at the first block unindexed in
\* either store: the value the goroutine wrote, not one read before it.
StartIsFirstGap ==
    mpc \in {"open", "stream", "done"} =>
        startBlockNum = Min({FindNextUnindexed(cmd.start, cmd.iis, irrFiles).next,
                             FindNextUnindexed(cmd.start, cmd.lais, accFiles).next})

\* The two indexes as the tool leaves them: the heights in an index file of
\* a looked-up size (every file ends by MaxBlock), and those given to the
\* indexer.
AccIndexed == {h \in 0..MaxBlock : Covered(accFiles, cmd.lais, h)} \cup processed
IrrIndexed == {h \in 0..MaxBlock : Covered(irrFiles, cmd.iis, h)} \cup irrAdded

\* The stores are open once the lookup goroutine is started.
Stage == IF gpc = "idle" THEN "closed" ELSE IF mpc = "done" THEN "finished" ELSE "open"

Promise == INSTANCE IndexRange
    WITH from <- cmd.start, to <- IF cmd.nargs = 5 THEN cmd.stop ELSE 0,
         withIrr <- cmd.createIrr, acc <- AccIndexed, irr <- IrrIndexed,
         stage <- Stage

\* The tool implements IndexRange: every block the handler gives the
\* indexers extends both indexes without a gap from the start argument
\* (the lookups' answers, their minimum and the stream's order), and the
\* stream ends cleanly only with the range complete.
RefinesIndexRange == Promise!RangeSpec

\* With a stop block, the command returns: the join on done cannot block
\* forever, and the stream ends.
EventuallyReturns ==
    cmd.nargs = 5 => <>(mpc \in {"done", "error", "panic"})

\* The size flags reject negative sizes "for bundle-sizes"; a size that
\* passes that validation never crashes the lookup.
ValidatedSizesNoPanic == mpc # "panic"

=============================================================================
