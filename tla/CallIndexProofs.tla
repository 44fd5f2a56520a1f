--------------------------- MODULE CallIndexProofs ---------------------------
(***************************************************************************)
(* Proofs about the generate-callto-index tool: the stream starts at the   *)
(* first height either index store lacks (StartIsFirstGap), and a clean    *)
(* return leaves no height from the start argument to the stop block       *)
(* unindexed (IndexComplete), for every instance of the constants.         *)
(***************************************************************************)
EXTENDS CallIndex, WellFoundedInduction, TLAPS

USE IndexLookupAssumption, CallIndexAssumption

\* The two lookups' answers, from the start argument, in the stores opened.
IrrNext == FindNextUnindexed(cmd.start, cmd.iis, irrFiles).next
AccNext == FindNextUnindexed(cmd.start, cmd.lais, accFiles).next

\* The inductive invariant. Each conjunct ties a variable to the step of
\* the two goroutines that wrote it: startBlockNum keeps the argument until
\* the join; irrStart and accStart hold the lookups' answers once their
\* goroutine has passed its lookup; done is closed only by the goroutine
\* after its write, and a panic ends both goroutines; the goroutine is
\* started when the stores are opened; the stores and the parsed stop block
\* do not change afterwards; and the stream has given every height from the
\* joined start below the cursor to the indexers.
IInv ==
    /\ cmd \in Commands
    /\ accFiles \subseteq IndexFiles /\ irrFiles \subseteq IndexFiles
    /\ mpc \in {"flags", "args", "stores"} => gpc = "idle"
    /\ gpc = "scan" => mpc \in {"scan", "wait"}
    /\ done => gpc \in {"exited", "dead"}
    /\ gpc = "dead" => mpc = "panic"
    /\ gpc \in {"close", "exited"} => irrStart = IrrNext
    /\ mpc \in {"scan", "wait", "open", "stream", "done"} => gpc # "idle"
    /\ mpc \in {"stores", "scan", "wait", "open", "stream", "done"} =>
            /\ cmd.start \in Nat /\ stopBlockNum \in Nat
            /\ stopBlockNum = IF cmd.nargs = 5 THEN cmd.stop ELSE 0
    /\ mpc \in {"stores", "scan", "wait"} => startBlockNum = cmd.start
    /\ mpc \in {"wait", "open", "stream", "done"} => accStart = AccNext
    /\ mpc \in {"open", "stream", "done"} =>
            startBlockNum = IF IrrNext < AccNext THEN IrrNext ELSE AccNext
    /\ mpc \in {"stream", "done"} =>
            /\ cursor \in Int /\ startBlockNum \in Int /\ startBlockNum <= cursor
            /\ startBlockNum..(cursor - 1) \subseteq processed
            /\ cmd.createIrr => startBlockNum..(cursor - 1) \subseteq irrAdded
    /\ mpc = "done" => stopBlockNum # 0 /\ cursor > stopBlockNum

-----------------------------------------------------------------------------
(* The lookup.                                                             *)

\* A nonempty set of naturals has a least element (from the
\* well-foundedness of < on Nat).
LEMMA NatLeast ==
    ASSUME NEW T \in SUBSET Nat, T # {}
    PROVE  \E m \in T : \A k \in T : m <= k
<1>1. \E x \in T : \A y \in T : ~(<<y, x>> \in OpToRel(<, Nat))
    BY NatLessThanWellFounded, WFMin
<1>2. PICK x \in T : \A y \in T : ~(<<y, x>> \in OpToRel(<, Nat))
    BY <1>1
<1>3. ASSUME NEW y \in T PROVE x <= y
    <2>1. y < x => <<y, x>> \in OpToRel(<, Nat)
        BY DEF OpToRel
    <2>2. ~(<<y, x>> \in OpToRel(<, Nat))
        BY <1>2
    <2>3. ~(y < x)
        BY <2>1, <2>2, Zenon
    <2>. QED  BY <2>3
<1>. QED  BY <1>3

\* Every indexed height lies in a whole bundle the stream delivered.
LEMMA IndexedBelow ==
    ASSUME NEW h \in Int, NEW sizes, NEW files \in SUBSET IndexFiles,
           Indexed(h, sizes, files)
    PROVE  h <= MaxBlock
<1>1. PICK i \in 1..Len(sizes) : sizes[i] # 0 /\ FileAt(h, sizes[i]) \in files
    BY DEF Indexed
<1>. DEFINE s == sizes[i]
<1>2. FileAt(h, s) \in IndexFiles
    BY <1>1
<1>3. s \in Nat \ {0} /\ LowBoundary(h, s) + s <= MaxBlock + 1
    BY <1>2 DEF IndexFiles, FileAt
<1>4. h % s \in 0..(s - 1)
    BY <1>3
<1>5. h - (h % s) + s <= MaxBlock + 1
    BY <1>3 DEF LowBoundary
<1>. QED  BY <1>3, <1>4, <1>5

\* An indexed height is covered by an index file of a listed size.
LEMMA IndexedCovered ==
    ASSUME NEW h \in Int, NEW sizes \in Seq(Int), NEW files \in SUBSET IndexFiles,
           Indexed(h, sizes, files)
    PROVE  Covered(files, sizes, h)
<1>1. PICK i \in 1..Len(sizes) : sizes[i] # 0 /\ FileAt(h, sizes[i]) \in files
    BY DEF Indexed
<1>. DEFINE s == sizes[i]  f == FileAt(h, s)
<1>2. s \in Nat \ {0}
    BY <1>1 DEF IndexFiles, FileAt
<1>3. f.size \in Range(sizes)
    BY <1>1 DEF FileAt, Range
<1>4. f.base <= h /\ h < f.base + f.size
    <2>1. h % s \in 0..(s - 1)
        BY <1>2
    <2>2. f.base = h - (h % s) /\ f.size = s
        BY DEF FileAt, LowBoundary
    <2>. QED  BY <1>2, <2>1, <2>2
<1>. QED  BY <1>1, <1>3, <1>4 DEF Covered

\* The lookup answers a height from cur up to the first past every file,
\* below which every height is indexed.
LEMMA FindNextUnindexedNext ==
    ASSUME NEW cur \in Nat, NEW sizes, NEW files \in SUBSET IndexFiles
    PROVE  /\ FindNextUnindexed(cur, sizes, files).next \in cur..(cur + MaxBlock + 1)
           /\ \A h \in cur..(FindNextUnindexed(cur, sizes, files).next - 1) :
                 Indexed(h, sizes, files)
<1>. DEFINE T == {h \in cur..(cur + MaxBlock + 1) : ~Indexed(h, sizes, files)}
<1>1. cur + MaxBlock + 1 \in T
    BY IndexedBelow
<1>2. PICK m \in T : \A k \in T : m <= k
    <2>1. T \in SUBSET Nat /\ T # {}
        BY <1>1
    <2>. QED  BY <2>1, NatLeast
<1>3. Min(T) \in T /\ \A k \in T : Min(T) <= k
    BY <1>2 DEF Min
<1>4. FindNextUnindexed(cur, sizes, files).next = Min(T)
    BY DEF FindNextUnindexed
<1>5. ASSUME NEW h \in cur..(Min(T) - 1) PROVE Indexed(h, sizes, files)
    <2>1. h \in cur..(cur + MaxBlock + 1) /\ h < Min(T)
        BY <1>3
    <2>. QED  BY <1>3, <2>1
<1>. QED  BY <1>3, <1>4, <1>5

\* The join's comparison takes the smaller of two integers.
LEMMA MinOfTwo ==
    ASSUME NEW a \in Int, NEW b \in Int
    PROVE  Min({a, b}) = IF a < b THEN a ELSE b
BY DEF Min


-----------------------------------------------------------------------------
(* The invariant.                                                          *)

\* The command line parsed by cobra, before any step, satisfies IInv.
LEMMA InitIInv == Init => IInv
BY DEF Init, IInv

\* The lookups' answers once the arguments are parsed and the stores open.
LEMMA NextsAreHeights ==
    ASSUME IInv, mpc \in {"scan", "wait", "open", "stream", "done"}
    PROVE  IrrNext \in Nat /\ AccNext \in Nat
BY FindNextUnindexedNext DEF IInv, IrrNext, AccNext

\* Steps that change neither the command nor the stores leave both
\* lookups' answers as they were.
LEMMA NextsUnchanged ==
    ASSUME UNCHANGED <<cmd, irrFiles, accFiles>>
    PROVE  IrrNext' = IrrNext /\ AccNext' = AccNext
BY DEF IrrNext, AccNext

\* Every step of either goroutine preserves IInv.
LEMMA NextIInv == IInv /\ [Next]_vars => IInv'
<1> SUFFICES ASSUME IInv, [Next]_vars PROVE IInv'
    OBVIOUS
<1>1. CASE ParseFlags
    BY <1>1, NextsUnchanged DEF ParseFlags, IInv
<1>2. CASE ParseArgs
    <2>. USE <1>2
    <2>1. CASE mpc' = "error"
        BY <2>1, NextsUnchanged DEF ParseArgs, IInv
    <2>2. CASE mpc' = "stores"
        <3>1. cmd.start \in StartArgs /\ cmd.stop \in StopArgs
            BY DEF IInv, Commands
        <3>2. cmd.start # BadArg /\ (cmd.nargs = 4 \/ cmd.stop # BadArg)
            BY <2>2 DEF ParseArgs
        <3>3. startBlockNum' = cmd.start
              /\ stopBlockNum' = IF cmd.nargs = 5 THEN cmd.stop ELSE 0
            BY <2>2 DEF ParseArgs
        <3>4. stopBlockNum' \in Nat
            <4>1. CASE cmd.nargs = 5
                <5>1. cmd.stop # BadArg
                    BY <3>2, <4>1
                <5>. QED  BY <3>1, <3>3, <4>1, <5>1
            <4>2. CASE cmd.nargs # 5
                BY <3>3, <4>2
            <4>. QED  BY <4>1, <4>2
        <3>. QED  BY <2>2, <3>1, <3>2, <3>3, <3>4, NextsUnchanged DEF ParseArgs, IInv
    <2>. QED  BY <2>1, <2>2 DEF ParseArgs
<1>3. CASE OpenStores
    BY <1>3 DEF OpenStores, IInv
<1>4. CASE MainScan
    BY <1>4, NextsUnchanged DEF MainScan, Panic, IInv, AccNext
<1>5. CASE Join
    BY <1>5, NextsUnchanged DEF Join, IInv
<1>6. CASE OpenStream
    BY <1>6, NextsUnchanged, NextsAreHeights DEF OpenStream, IInv
<1>7. CASE StreamBlock
    <2>. USE <1>7
    <2>1. mpc = "stream" /\ cursor \in Int /\ startBlockNum \in Int
          /\ startBlockNum <= cursor
        BY DEF StreamBlock, Streaming, IInv
    <2>2. startBlockNum..(cursor' - 1) = startBlockNum..(cursor - 1) \cup {cursor}
        BY <2>1 DEF StreamBlock
    <2>3. startBlockNum..(cursor' - 1) \subseteq processed'
        BY <2>1, <2>2 DEF StreamBlock, IInv
    <2>4. ASSUME cmd.createIrr PROVE startBlockNum..(cursor' - 1) \subseteq irrAdded'
        <3>1. irrAdded' = irrAdded \cup {cursor}
            BY <2>4 DEF StreamBlock
        <3>2. startBlockNum..(cursor - 1) \subseteq irrAdded
            BY <2>1, <2>4 DEF IInv
        <3>. QED  BY <2>2, <3>1, <3>2, Zenon
    <2>5. cmd.createIrr => startBlockNum..(cursor' - 1) \subseteq irrAdded'
        BY <2>4
    <2>6. cursor' \in Int /\ startBlockNum <= cursor'
        <3>1. cursor' = cursor + 1
            BY DEF StreamBlock
        <3>2. startBlockNum \in Int
            BY <2>1
        <3>. QED  BY <2>1, <3>1, <3>2
    <2>7. IrrNext' = IrrNext /\ AccNext' = AccNext
        BY NextsUnchanged DEF StreamBlock
    <2>8. UNCHANGED <<cmd, mpc, gpc, done, irrStart, accStart, startBlockNum,
                      stopBlockNum, accFiles, irrFiles>>
        BY DEF StreamBlock
    <2>. QED  BY <2>1, <2>3, <2>5, <2>6, <2>7, <2>8 DEF IInv
<1>8. CASE StreamEnds
    BY <1>8, NextsUnchanged DEF StreamEnds, IInv
<1>9. CASE StreamFails
    BY <1>9, NextsUnchanged DEF StreamFails, IInv
<1>10. CASE GoScan
    BY <1>10, NextsUnchanged DEF GoScan, Panic, IInv, IrrNext
<1>11. CASE GoClose
    BY <1>11, NextsUnchanged DEF GoClose, IInv
<1>12. CASE UNCHANGED vars
    BY <1>12, NextsUnchanged DEF vars, IInv
<1>. QED  BY <1>1, <1>2, <1>3, <1>4, <1>5, <1>6, <1>7, <1>8, <1>9, <1>10,
             <1>11, <1>12 DEF Next, MainStep, GoStep

\* The inductive invariant holds in every reachable state.
THEOREM CallIndexIInv == Spec => []IInv
BY InitIInv, NextIInv, PTL DEF Spec


-----------------------------------------------------------------------------
(* The properties the callindex run checks.                                *)

\* IInv gives the joined start as the minimum of the two answers.
LEMMA IInvStartIsFirstGap == IInv => StartIsFirstGap
<1> SUFFICES ASSUME IInv, mpc \in {"open", "stream", "done"}
             PROVE  startBlockNum = Min({IrrNext, AccNext})
    BY DEF StartIsFirstGap, IrrNext, AccNext
<1>1. IrrNext \in Nat /\ AccNext \in Nat
    BY NextsAreHeights
<1>2. Min({IrrNext, AccNext}) = IF IrrNext < AccNext THEN IrrNext ELSE AccNext
    BY <1>1, MinOfTwo
<1>. QED  BY <1>2 DEF IInv

\* Once joined, the stream starts at the smaller of the two lookups'
\* answers from the start argument, for every size list and store content:
\* the main goroutine reads irrStart only after the goroutine wrote it and
\* closed done (generateCalltoIdxE's <-done), and neither lookup's inputs
\* change in between.
THEOREM StartIsFirstGapHolds == Spec => []StartIsFirstGap
BY CallIndexIInv, IInvStartIsFirstGap, PTL

\* IInv leaves no height from the start argument to the stop block
\* unindexed once the command is done.
LEMMA IInvIndexComplete == IInv => IndexComplete
<1> SUFFICES ASSUME IInv, mpc = "done", NEW h \in cmd.start..stopBlockNum
             PROVE  /\ Covered(accFiles, cmd.lais, h) \/ h \in processed
                    /\ cmd.createIrr => Covered(irrFiles, cmd.iis, h) \/ h \in irrAdded
    BY DEF IndexComplete
<1>1. /\ cmd.start \in Nat /\ stopBlockNum \in Nat /\ cursor \in Int
      /\ cursor > stopBlockNum
      /\ startBlockNum = IF IrrNext < AccNext THEN IrrNext ELSE AccNext
      /\ startBlockNum..(cursor - 1) \subseteq processed
      /\ cmd.createIrr => startBlockNum..(cursor - 1) \subseteq irrAdded
      /\ cmd.iis \in Seq(Int) /\ cmd.lais \in Seq(Int)
      /\ irrFiles \subseteq IndexFiles /\ accFiles \subseteq IndexFiles
    BY DEF IInv, Commands
<1>2. /\ IrrNext \in cmd.start..(cmd.start + MaxBlock + 1)
      /\ \A g \in cmd.start..(IrrNext - 1) : Indexed(g, cmd.iis, irrFiles)
    BY <1>1, FindNextUnindexedNext DEF IrrNext
<1>3. /\ AccNext \in cmd.start..(cmd.start + MaxBlock + 1)
      /\ \A g \in cmd.start..(AccNext - 1) : Indexed(g, cmd.lais, accFiles)
    BY <1>1, FindNextUnindexedNext DEF AccNext
<1>4. CASE h < startBlockNum
    <2>1. Indexed(h, cmd.lais, accFiles) /\ Indexed(h, cmd.iis, irrFiles)
        BY <1>1, <1>2, <1>3, <1>4
    <2>. QED  BY <1>1, <2>1, IndexedCovered
<1>5. CASE h >= startBlockNum
    <2>1. h \in startBlockNum..(cursor - 1)
        BY <1>1, <1>2, <1>3, <1>5
    <2>. QED  BY <1>1, <2>1
<1>. QED  BY <1>1, <1>2, <1>3, <1>4, <1>5

\* A command that returns after streaming to the stop block leaves every
\* height from the start argument to the stop block in an index file of
\* each store or given to its indexer, for every size list and store
\* content: the heights below the joined start are indexed in both stores
\* (each lookup stops at its first gap), and the stream gave the indexers
\* every height from there to the stop block.
THEOREM IndexCompleteHolds == Spec => []IndexComplete
BY CallIndexIInv, IInvIndexComplete, PTL


-----------------------------------------------------------------------------
(* Types.                                                                  *)

\* The command line parsed by cobra, before any step, is well typed.
LEMMA InitTypeOK == Init => TypeOK
<1> SUFFICES ASSUME Init PROVE TypeOK
    OBVIOUS
<1>1. cmd \in Commands /\ mpc \in Phases /\ done \in BOOLEAN
      /\ gpc \in {"idle", "scan", "close", "exited", "dead"}
    BY DEF Init, Phases
<1>2. {irrStart, accStart, startBlockNum, stopBlockNum} \subseteq Nat
      /\ cursor \in Nat /\ processed \subseteq Nat /\ irrAdded \subseteq Nat
    BY DEF Init
<1>3. accFiles \subseteq IndexFiles /\ irrFiles \subseteq IndexFiles
    BY DEF Init
<1>. QED  BY <1>1, <1>2, <1>3 DEF TypeOK

\* Every step keeps the variables typed, given IInv before and after it.
LEMMA NextTypeOK == IInv /\ IInv' /\ TypeOK /\ [Next]_vars => TypeOK'
<1> SUFFICES ASSUME IInv, IInv', TypeOK, [Next]_vars PROVE TypeOK'
    OBVIOUS
<1>1. CASE ParseFlags
    BY <1>1 DEF ParseFlags, TypeOK, Phases
<1>2. CASE ParseArgs
    <2>1. CASE mpc' = "error"
        BY <1>2, <2>1 DEF ParseArgs, TypeOK, Phases
    <2>2. CASE mpc' = "stores"
        <3>1. startBlockNum' = cmd.start /\ cmd.start \in Nat /\ stopBlockNum' \in Nat
            BY <1>2, <2>2 DEF ParseArgs, IInv
        <3>. QED  BY <1>2, <2>2, <3>1 DEF ParseArgs, TypeOK, Phases
    <2>. QED  BY <1>2, <2>1, <2>2 DEF ParseArgs
<1>3. CASE OpenStores
    BY <1>3 DEF OpenStores, TypeOK, Phases
<1>4. CASE MainScan
    <2>1. startBlockNum \in Nat /\ accFiles \subseteq IndexFiles
        BY <1>4 DEF MainScan, IInv
    <2>2. FindNextUnindexed(startBlockNum, cmd.lais, accFiles).next \in Nat
        BY <2>1, FindNextUnindexedNext
    <2>. QED  BY <1>4, <2>2 DEF MainScan, Panic, TypeOK, Phases
<1>5. CASE GoScan
    <2>1. startBlockNum \in Nat /\ irrFiles \subseteq IndexFiles
        BY <1>5 DEF GoScan, IInv
    <2>2. FindNextUnindexed(startBlockNum, cmd.iis, irrFiles).next \in Nat
        BY <2>1, FindNextUnindexedNext
    <2>. QED  BY <1>5, <2>2 DEF GoScan, Panic, TypeOK, Phases
<1>6. CASE GoClose
    BY <1>6 DEF GoClose, TypeOK
<1>7. CASE Join
    BY <1>7 DEF Join, TypeOK, Phases
<1>8. CASE OpenStream
    BY <1>8 DEF OpenStream, TypeOK, Phases
<1>9. CASE StreamBlock
    BY <1>9 DEF StreamBlock, TypeOK
<1>10. CASE StreamEnds
    BY <1>10 DEF StreamEnds, TypeOK, Phases
<1>11. CASE StreamFails
    BY <1>11 DEF StreamFails, TypeOK, Phases
<1>12. CASE UNCHANGED vars
    BY <1>12 DEF vars, TypeOK
<1>. QED  BY <1>1, <1>2, <1>3, <1>4, <1>5, <1>6, <1>7, <1>8, <1>9, <1>10,
             <1>11, <1>12 DEF Next, MainStep, GoStep

\* IInv and TypeOK hold together in every reachable state.
LEMMA SpecInvariants == Spec => [](IInv /\ TypeOK)
<1>1. Init => IInv /\ TypeOK
    BY InitIInv, InitTypeOK
<1>2. IInv /\ TypeOK /\ [Next]_vars => IInv' /\ TypeOK'
    BY NextIInv, NextTypeOK
<1>. QED  BY <1>1, <1>2, PTL DEF Spec

\* Every variable of the tool keeps its type for every instance of the
\* constants: in particular both lookups answer a natural height, and the
\* stop block is a parsed number or 0 (ParseArgs' len(args) == 5 test).
THEOREM CallIndexTypeCorrect == Spec => []TypeOK
BY SpecInvariants, PTL


-----------------------------------------------------------------------------
(* The refinement of IndexRange.                                           *)

\* Every height from the start argument below the stream's cursor is in
\* both indexes: below the joined start it is in a file of each store (each
\* lookup stops at its first gap), from there on the stream gave it.
LEMMA GapFree ==
    ASSUME IInv, mpc \in {"stream", "done"}, NEW h \in cmd.start..(cursor - 1)
    PROVE  /\ h \in AccIndexed
           /\ cmd.createIrr => h \in IrrIndexed
<1>1. /\ cmd.start \in Nat /\ cursor \in Int
      /\ startBlockNum = IF IrrNext < AccNext THEN IrrNext ELSE AccNext
      /\ startBlockNum..(cursor - 1) \subseteq processed
      /\ cmd.createIrr => startBlockNum..(cursor - 1) \subseteq irrAdded
      /\ cmd.iis \in Seq(Int) /\ cmd.lais \in Seq(Int)
      /\ irrFiles \subseteq IndexFiles /\ accFiles \subseteq IndexFiles
    BY DEF IInv, Commands
<1>2. /\ IrrNext \in cmd.start..(cmd.start + MaxBlock + 1)
      /\ \A g \in cmd.start..(IrrNext - 1) : Indexed(g, cmd.iis, irrFiles)
    BY <1>1, FindNextUnindexedNext DEF IrrNext
<1>3. /\ AccNext \in cmd.start..(cmd.start + MaxBlock + 1)
      /\ \A g \in cmd.start..(AccNext - 1) : Indexed(g, cmd.lais, accFiles)
    BY <1>1, FindNextUnindexedNext DEF AccNext
<1>4. CASE h < startBlockNum
    <2>1. Indexed(h, cmd.lais, accFiles) /\ Indexed(h, cmd.iis, irrFiles)
        BY <1>1, <1>2, <1>3, <1>4
    <2>2. h \in 0..MaxBlock
        BY <1>1, <2>1, IndexedBelow
    <2>3. Covered(accFiles, cmd.lais, h) /\ Covered(irrFiles, cmd.iis, h)
        BY <1>1, <2>1, IndexedCovered
    <2>. QED  BY <2>2, <2>3 DEF AccIndexed, IrrIndexed
<1>5. CASE h >= startBlockNum
    <2>1. h \in startBlockNum..(cursor - 1)
        BY <1>1, <1>2, <1>3, <1>5
    <2>. QED  BY <1>1, <2>1 DEF AccIndexed, IrrIndexed
<1>. QED  BY <1>1, <1>2, <1>3, <1>4, <1>5

\* The command line before any step maps to IndexRange's initial state.
LEMMA InitRange == Init => Promise!RangeInit
BY DEF Init, Promise!RangeInit, AccIndexed, IrrIndexed, Covered, Stage

\* A step that changes neither the command, the stores, the indexers nor
\* the stage is a stutter of IndexRange.
LEMMA RangeStutter ==
    ASSUME UNCHANGED <<cmd, accFiles, irrFiles, processed, irrAdded>>, Stage' = Stage
    PROVE  UNCHANGED Promise!range
BY DEF Promise!range, AccIndexed, IrrIndexed

\* Every step of the tool is a step of IndexRange or a stutter.
LEMMA NextRange == IInv /\ TypeOK /\ [Next]_vars => [Promise!RangeNext]_Promise!range
<1> SUFFICES ASSUME IInv, TypeOK, [Next]_vars PROVE [Promise!RangeNext]_Promise!range
    OBVIOUS
<1>1. CASE ParseFlags \/ ParseArgs
    <2>1. gpc = "idle" /\ gpc' = "idle"
        BY <1>1 DEF ParseFlags, ParseArgs, IInv
    <2>. QED  BY <1>1, <2>1, RangeStutter DEF ParseFlags, ParseArgs, Stage
<1>2. CASE OpenStores
    <2>1. CASE mpc' = "error"
        <3>1. UNCHANGED <<gpc, accFiles, irrFiles>>
            BY <1>2, <2>1 DEF OpenStores
        <3>. QED  BY <1>2, <3>1, RangeStutter DEF OpenStores, Stage
    <2>2. CASE mpc' = "scan"
        <3>1. gpc = "idle" /\ gpc' = "scan" /\ processed \subseteq Nat /\ irrAdded \subseteq Nat
            BY <1>2, <2>2 DEF OpenStores, IInv, TypeOK
        <3>2. Stage = "closed" /\ Stage' = "open"
            BY <2>2, <3>1 DEF Stage
        <3>3. processed' = processed /\ irrAdded' = irrAdded
            BY <1>2 DEF OpenStores
        <3>4. AccIndexed' \subseteq (0..MaxBlock) \cup processed'
              /\ IrrIndexed' \subseteq (0..MaxBlock) \cup irrAdded'
            BY DEF AccIndexed, IrrIndexed
        <3>5. AccIndexed' \subseteq Nat /\ IrrIndexed' \subseteq Nat
            BY <3>1, <3>3, <3>4
        <3>. QED  BY <1>2, <3>2, <3>5 DEF OpenStores, Promise!RangeNext, Promise!Open
    <2>. QED  BY <1>2, <2>1, <2>2 DEF OpenStores
<1>3. CASE MainScan \/ GoScan \/ GoClose \/ Join \/ OpenStream \/ StreamFails
    <2>1. gpc # "idle" /\ gpc' # "idle"
        BY <1>3 DEF MainScan, GoScan, GoClose, Join, OpenStream, StreamFails, Panic, IInv
    <2>2. (mpc = "done") = (mpc' = "done")
        BY <1>3 DEF MainScan, GoScan, GoClose, Join, OpenStream, StreamFails, Panic, IInv
    <2>3. Stage' = Stage
        BY <2>1, <2>2 DEF Stage
    <2>. QED  BY <1>3, <2>3, RangeStutter
               DEF MainScan, GoScan, GoClose, Join, OpenStream, StreamFails, Panic
<1>4. CASE StreamBlock
    <2>. USE <1>4
    <2>1. mpc = "stream" /\ gpc # "idle" /\ cursor \in Nat
        BY DEF StreamBlock, Streaming, IInv, TypeOK
    <2>2. Stage = "open" /\ Stage' = "open"
        BY <2>1 DEF StreamBlock, Stage
    <2>3. cmd.start..(cursor - 1) \subseteq AccIndexed
          /\ (cmd.createIrr => cmd.start..(cursor - 1) \subseteq IrrIndexed)
        BY <2>1, GapFree
    <2>4. AccIndexed' = AccIndexed \cup {cursor}
        BY DEF StreamBlock, AccIndexed
    <2>5. IrrIndexed' = IF cmd.createIrr THEN IrrIndexed \cup {cursor} ELSE IrrIndexed
        BY DEF StreamBlock, IrrIndexed
    <2>6. cursor \in AccIndexed'
        BY <2>4
    <2>7. Promise!Add
        BY <2>2, <2>3, <2>4, <2>5, <2>6 DEF StreamBlock, Promise!Add
    <2>. QED  BY <2>7 DEF Promise!RangeNext
<1>5. CASE StreamEnds
    <2>. USE <1>5
    <2>1. /\ mpc = "stream" /\ gpc # "idle" /\ cursor \in Int
          /\ stopBlockNum \in Nat /\ stopBlockNum # 0 /\ cursor > stopBlockNum
          /\ stopBlockNum = IF cmd.nargs = 5 THEN cmd.stop ELSE 0
        BY DEF StreamEnds, IInv
    <2>2. Stage = "open" /\ Stage' = "finished"
        BY <2>1 DEF StreamEnds, Stage
    <2>3. cmd.start..stopBlockNum \subseteq AccIndexed
          /\ (cmd.createIrr => cmd.start..stopBlockNum \subseteq IrrIndexed)
        <3>1. cmd.start..stopBlockNum \subseteq cmd.start..(cursor - 1)
            BY <2>1
        <3>. QED  BY <2>1, <3>1, GapFree
    <2>4. AccIndexed' = AccIndexed /\ IrrIndexed' = IrrIndexed
        BY DEF StreamEnds, AccIndexed, IrrIndexed
    <2>5. Promise!Finish
        BY <2>1, <2>2, <2>3, <2>4 DEF StreamEnds, Promise!Finish
    <2>. QED  BY <2>5 DEF Promise!RangeNext
<1>6. CASE UNCHANGED vars
    BY <1>6, RangeStutter DEF vars, Stage
<1>. QED  BY <1>1, <1>2, <1>3, <1>4, <1>5, <1>6 DEF Next, MainStep, GoStep

\* The tool implements IndexRange for every instance of the constants: it
\* indexes each block the handler receives with no gap from the start
\* argument below it, in both indexes when it creates irreversible indexes,
\* and returns cleanly only with the whole range to the stop block indexed.
THEOREM CallIndexRefinement == Spec => RefinesIndexRange
<1>1. Init => Promise!RangeInit
    BY InitRange
<1>2. [](IInv /\ TypeOK) /\ [][Next]_vars => [][Promise!RangeNext]_Promise!range
    BY NextRange, PTL
<1>. QED  BY <1>1, <1>2, SpecInvariants, PTL
          DEF Spec, RefinesIndexRange, Promise!RangeSpec

=============================================================================
