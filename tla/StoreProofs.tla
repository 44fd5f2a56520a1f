------------------------------ MODULE StoreProofs ------------------------------
(***************************************************************************)
(* Proofs about the durable table of module Loader, built on the inductive *)
(* invariant IInv of LoaderProofs.                                         *)
(*                                                                         *)
(* The loader implements the abstract DurableTable: under the refinement   *)
(* mapping irr <- DurableIrr, put <- DurablePut, every initial state of    *)
(* Loader is one of DurableTable, and every step of Loader is a Commit or  *)
(* leaves the durable table as it is. The consistency of the new table     *)
(* comes from the inductive invariant IInv of LoaderProofs; that it only   *)
(* grows comes from the shape of each step: a ProcessBlock call appends to *)
(* the log and moves the flushed point forward, and a halting process      *)
(* hands exactly its durable table to the next one.                        *)
(*                                                                         *)
(* A clean stop leaves every height below the stop block durable: the     *)
(* stop is taken by a running loader that has finalized up to the          *)
(* resolver's Irreversible height, which is at least the stop block minus  *)
(* one, and it flushes the whole log first; afterwards nothing durable is  *)
(* lost.                                                                   *)
(***************************************************************************)
EXTENDS LoaderProofs

USE ConstantsAssumption

-----------------------------------------------------------------------------
(* Lemmas.                                                                 *)

\* A longer prefix of a log finalizes and stores at least as much.
LEMMA InMono ==
    ASSUME NEW s, NEW n \in Nat, NEW m \in Nat, n <= m
    PROVE  IrrIn(s, n) \subseteq IrrIn(s, m) /\ PutIn(s, n) \subseteq PutIn(s, m)
BY DEF IrrIn, PutIn

\* A step of the shape of a ProcessBlock call loses nothing durable: the
\* flushed prefix of the old log is a prefix of the new one, and the
\* flushed point does not move back.
LEMMA ShapeGrows ==
    ASSUME TypeOK, NEW ms \in Seq(Mutations), Shape(ms),
           baseIrr' = baseIrr, basePut' = basePut
    PROVE  DurableIrr \subseteq DurableIrr' /\ DurablePut \subseteq DurablePut'
<1>1. PICK j \in 0..Len(ms) :
        wlog' = wlog \o SubSeq(ms, 1, j) /\ flushed' \in flushed..Len(wlog')
    BY DEF Shape
<1>2. SubSeq(ms, 1, j) \in Seq(Mutations)
    BY <1>1, PrefixOf
<1>3. wlog \in Seq(Mutations) /\ Len(wlog) \in Nat /\ flushed \in 0..Len(wlog)
    BY LenProperties DEF TypeOK
<1>4. \A i \in 1..flushed : wlog'[i] = wlog[i]
    <2>1. \A i \in 1..Len(wlog) + Len(SubSeq(ms, 1, j)) :
             (wlog \o SubSeq(ms, 1, j))[i] =
                IF i <= Len(wlog) THEN wlog[i] ELSE SubSeq(ms, 1, j)[i - Len(wlog)]
        BY <1>2, <1>3, ConcatProperties
    <2>2. Len(SubSeq(ms, 1, j)) \in Nat
        BY <1>2, LenProperties
    <2>. QED  BY <1>1, <1>3, <2>1, <2>2
<1>5. IrrIn(wlog', flushed) = IrrIn(wlog, flushed)
      /\ PutIn(wlog', flushed) = PutIn(wlog, flushed)
    BY <1>3, <1>4, PrefixAgree
<1>6. flushed' \in Nat /\ flushed <= flushed'
    BY <1>1, <1>3
<1>7. IrrIn(wlog', flushed) \subseteq IrrIn(wlog', flushed')
      /\ PutIn(wlog', flushed) \subseteq PutIn(wlog', flushed')
    BY <1>3, <1>6, InMono
<1>. QED  BY <1>5, <1>7 DEF DurableIrr, DurablePut

\* A step that leaves the log, the flushed point and the table alone leaves
\* the durable table alone.
LEMMA KeepsTable ==
    ASSUME wlog' = wlog, flushed' = flushed, baseIrr' = baseIrr, basePut' = basePut
    PROVE  DurableIrr' = DurableIrr /\ DurablePut' = DurablePut
BY DEF DurableIrr, DurablePut

\* A halting process hands its durable table to the next one as it is.
LEMMA HaltKeepsTable ==
    ASSUME NEW next, Halt(next)
    PROVE  DurableIrr' = DurableIrr /\ DurablePut' = DurablePut
<1>1. IrrIn(<<>>, 0) = {} /\ PutIn(<<>>, 0) = {}
    BY DEF IrrIn, PutIn
<1>. QED  BY <1>1 DEF Halt, DurableIrr, DurablePut

\* A table finalized on an interval from genesis, each finalized height
\* with its block stored, is consistent in DurableTable's sense.
LEMMA ConsistentOf ==
    ASSUME NEW bI, NEW bP, NEW s \in Seq(Mutations), NEW n \in 0..Len(s),
           bP \subseteq Blocks, IsInterval(bI \cup IrrIn(s, n)),
           \A h \in bI \cup IrrIn(s, n) : CanonBlock(h) \in bP \cup PutIn(s, n)
    PROVE  Table!Consistent(bI \cup IrrIn(s, n), bP \cup PutIn(s, n))
<1>1. PutIn(s, n) \subseteq Blocks
    BY PutInType
<1>. QED  BY <1>1
          DEF Table!Consistent, Table!TableHeights, Table!TableBlocks,
              IsInterval, Heights, Blocks, CanonBlock

\* What IInv says of the durable table is DurableTable's consistency.
LEMMA IInvConsistent ==
    ASSUME IInv
    PROVE  Table!Consistent(DurableIrr, DurablePut)
<1>1. /\ wlog \in Seq(Mutations) /\ flushed \in 0..Len(wlog) /\ basePut \subseteq Blocks
      /\ IsInterval(Hist(flushed)) /\ Anchored(flushed)
    BY DEF IInv, TypeOK
<1>. QED  BY <1>1, ConsistentOf DEF Hist, Anchored, Stored, DurableIrr, DurablePut

-----------------------------------------------------------------------------
(* Each action of Loader loses nothing durable.                            *)

\* The deliveries: each one is a ProcessBlock call over the same table.
LEMMA DeliveriesGrow ==
    ASSUME IInv,
           \/ DeliverNew
           \/ \E f \in ForkAt : DeliverFork(f)
           \/ \E k \in 1..MaxGroup : DeliverIrreversible(k)
           \/ DeliverGroupRest
    PROVE  DurableIrr \subseteq DurableIrr' /\ DurablePut \subseteq DurablePut'
<1>0. IParts /\ TypeOK
    BY IInvParts DEF IParts
<1>1. CASE DeliverNew
    <2>. DEFINE b == CanonBlock(head + 1)
    <2>1. b \in Blocks
        BY <1>0, <1>1 DEF DeliverNew, TypeOK, Blocks, Heights, CanonBlock
    <2>2. PICK recent : ProcessBlock(NewObj(b), recent)
        BY <1>1 DEF DeliverNew, Deliver
    <2>3. Shape(NewWrites(b)) /\ NewWrites(b) \in Seq(Mutations)
        BY <1>0, <2>1, <2>2, ProcessNewShape, NewWritesFacts
    <2>. QED  BY <1>0, <1>1, <2>3, ShapeGrows DEF DeliverNew
<1>2. CASE \E f \in ForkAt : DeliverFork(f)
    <2>1. PICK f \in ForkAt : DeliverFork(f)
        BY <1>2
    <2>2. ForkBlock(f) \in Blocks
        BY <2>1, ConstantsAssumption DEF DeliverFork, Blocks, Heights, ForkBlock
    <2>3. PICK recent : ProcessBlock(NewObj(ForkBlock(f)), recent)
        BY <2>1 DEF DeliverFork, Deliver
    <2>4. Shape(NewWrites(ForkBlock(f))) /\ NewWrites(ForkBlock(f)) \in Seq(Mutations)
        BY <1>0, <2>2, <2>3, ProcessNewShape, NewWritesFacts
    <2>. QED  BY <1>0, <2>1, <2>4, ShapeGrows DEF DeliverFork
<1>3. CASE \E k \in 1..MaxGroup : DeliverIrreversible(k)
    <2>1. PICK k \in 1..MaxGroup : DeliverIrreversible(k)
        BY <1>3
    <2>2. /\ libSent + 1 \in Heights /\ k \in Nat /\ (libSent + 1) + k - 1 <= MaxBlock
          /\ libSent + 1 \in Int /\ libSent + 1 >= GenesisNum
        BY <1>0, <2>1 DEF DeliverIrreversible, TypeOK, Heights
    <2>3. PICK recent : ProcessBlock(IrrObj(libSent + 1, k, 0), recent)
        BY <2>1 DEF DeliverIrreversible, Deliver
    <2>4. Shape(GroupWrites(libSent + 1, k))
        BY <1>0, <2>2, <2>3, ProcessGroupShape
    <2>5. GroupWrites(libSent + 1, k) \in Seq(Mutations)
        BY <2>2, GroupWritesFacts
    <2>. QED  BY <1>0, <2>1, <2>4, <2>5, ShapeGrows DEF DeliverIrreversible
<1>4. CASE DeliverGroupRest
    <2>1. /\ grp.first \in Heights /\ grp.count \in Nat /\ grp.idx \in Nat
          /\ grp.idx # 0
        BY <1>0, <1>4 DEF DeliverGroupRest, Delivering, GroupIdle, IParts, TypeOK
    <2>2. PICK recent : ProcessBlock(IrrObj(grp.first, grp.count, grp.idx), recent)
        BY <1>4 DEF DeliverGroupRest, Deliver
    <2>3. Shape(<<>>) /\ <<>> \in Seq(Mutations)
        BY <1>0, <2>1, <2>2, ProcessRestShape, EmptySeq
    <2>. QED  BY <1>0, <1>4, <2>3, ShapeGrows DEF DeliverGroupRest
<1>. QED  BY <1>1, <1>2, <1>3, <1>4

\* Every step of Loader, and a stuttering step, loses nothing durable.
LEMMA NextGrows ==
    ASSUME IInv, [Next]_vars
    PROVE  DurableIrr \subseteq DurableIrr' /\ DurablePut \subseteq DurablePut'
<1>1. CASE \/ DeliverNew
           \/ \E f \in ForkAt : DeliverFork(f)
           \/ \E k \in 1..MaxGroup : DeliverIrreversible(k)
           \/ DeliverGroupRest
    BY <1>1, DeliveriesGrow
<1>2. CASE SourceStops \/ SourceFails
    BY <1>2, KeepsTable DEF SourceStops, SourceFails
<1>3. CASE Exit
    <2>1. PICK nx \in {"down", "done"} : Halt(nx)
        BY <1>3, Zenon DEF Exit
    <2>. QED  BY <2>1, HaltKeepsTable
<1>4. CASE Crash
    BY <1>4, HaltKeepsTable DEF Crash
<1>5. CASE Start
    <2>1. wlog' = wlog /\ flushed' = flushed /\ baseIrr' = baseIrr /\ basePut' = basePut
        BY <1>5 DEF Start, ResumeAt, loaderVars
    <2>. QED  BY <2>1, KeepsTable
<1>6. CASE UNCHANGED vars
    BY <1>6, KeepsTable DEF vars, loaderVars
<1>. QED  BY <1>1, <1>2, <1>3, <1>4, <1>5, <1>6 DEF Next

-----------------------------------------------------------------------------
(* The refinement.                                                         *)

\* The loader implements DurableTable (RefinesDurableTable, checked by the
\* loader_refines_table run): whatever the interleaving of deliveries,
\* partial flushes, crashes and restarts, the durable table starts
\* consistent, stays consistent, and never loses a finalized height or a
\* stored block, for every value of the constants.
THEOREM RefinementHolds == Spec => RefinesDurableTable
<1>1. Init => Table!TableInit
    BY InitIInv, IInvConsistent DEF Table!TableInit
<1>2. IInv /\ IInv' /\ [Next]_vars => [Table!Commit]_Table!table
    <2>1. SUFFICES ASSUME IInv, IInv', [Next]_vars
                   PROVE  [Table!Commit]_Table!table
        OBVIOUS
    <2>2. DurableIrr \subseteq DurableIrr' /\ DurablePut \subseteq DurablePut'
        BY <2>1, NextGrows
    <2>3. Table!Consistent(DurableIrr', DurablePut')
        <3>1. /\ wlog' \in Seq(Mutations) /\ flushed' \in 0..Len(wlog')
              /\ basePut' \subseteq Blocks
              /\ IsInterval(Hist(flushed)') /\ Anchored(flushed)'
            BY <2>1 DEF IInv, TypeOK
        <3>. QED  BY <3>1, ConsistentOf DEF Hist, Anchored, Stored, DurableIrr, DurablePut
    <2>. QED  BY <2>2, <2>3 DEF Table!Commit
<1>. QED  BY <1>1, <1>2, SpecIInv, PTL
          DEF Spec, RefinesDurableTable, Table!TableSpec
-----------------------------------------------------------------------------
(* The clean stop.                                                         *)

\* The group being delivered ends at the resolver's Irreversible height.
GroupEnds == grp.count = 0 \/ grp.first + grp.count - 1 = libSent

\* Every step keeps GroupEnds: only DeliverIrreversible and a restart set
\* the group, and both set it to end at the new Irreversible height.
LEMMA GroupEndsStep ==
    ASSUME TypeOK, GroupEnds, [Next]_vars
    PROVE  GroupEnds'
<1>1. CASE \E k \in 1..MaxGroup : DeliverIrreversible(k)
    <2>1. PICK k \in 1..MaxGroup : DeliverIrreversible(k)
        BY <1>1
    <2>2. grp' = [first |-> libSent + 1, count |-> k, idx |-> 1] /\ libSent' = libSent + k
        BY <2>1 DEF DeliverIrreversible
    <2>3. libSent \in Int /\ k \in Int
        BY DEF TypeOK, Heights
    <2>. QED  BY <2>2, <2>3 DEF GroupEnds
<1>2. CASE DeliverGroupRest
    <2>1. grp' = [grp EXCEPT !.idx = @ + 1] /\ libSent' = libSent
        BY <1>2 DEF DeliverGroupRest
    <2>2. grp'.first = grp.first /\ grp'.count = grp.count
        BY <2>1 DEF TypeOK
    <2>. QED  BY <2>1, <2>2 DEF GroupEnds
<1>3. CASE Start
    BY <1>3 DEF Start, ResumeAt, GroupEnds, resolverVars
<1>4. CASE \/ DeliverNew \/ \E f \in ForkAt : DeliverFork(f)
           \/ SourceStops \/ SourceFails \/ Exit \/ Crash \/ UNCHANGED vars
    BY <1>4 DEF DeliverNew, DeliverFork, SourceStops, SourceFails, Exit, Crash,
                vars, resolverVars, GroupEnds
<1>. QED  BY <1>1, <1>2, <1>3, <1>4 DEF Next

\* A ProcessBlock call turns the exit cause to "clean" only at the stop
\* block of an Irreversible step, after flushing the whole unchanged log.
LEMMA CleanOnlyAtStop ==
    ASSUME NEW o, NEW recent, ProcessBlock(o, recent),
           exitCause # "clean", exitCause' = "clean"
    PROVE  /\ ~terminating /\ o.step = "irreversible" /\ StopReached(o)
           /\ wlog' = wlog /\ flushed' = Len(wlog)
<1>1. ~terminating /\ FullJob(o, recent)
    BY DEF ProcessBlock, loaderVars
<1>2. ~(o.step = "new" /\ FullJobNew(o.blk, recent))
    BY DEF FullJobNew, FlushIfNeeded, Continue, Fail, ShutdownWith
<1>3. o.step = "irreversible" /\ FullJobIrreversible(o, recent)
    BY <1>1, <1>2 DEF FullJob
<1>4. StopReached(o) /\ StopAtEndBlock(o)
    BY <1>3 DEF FullJobIrreversible, FlushIfNeeded, Continue, Fail, ShutdownWith
<1>5. wlog' = wlog /\ flushed' = Len(wlog')
    BY <1>4 DEF StopAtEndBlock, Fail, ShutdownWith, FlushOk
<1>. QED  BY <1>1, <1>3, <1>4, <1>5

\* The step that stops cleanly makes every height below the stop block
\* durable.
LEMMA StopFlushesAll ==
    ASSUME IInv, GroupEnds, [Next]_vars, exitCause # "clean", exitCause' = "clean"
    PROVE  GenesisNum..(EndBlock - 1) \subseteq DurableIrr'
<1>0. IParts /\ TypeOK
    BY IInvParts DEF IParts
<1>. DEFINE L == Len(wlog)
\* What the stop step does on a running loader, given the delivered object.
<1>1. ASSUME NEW o, NEW recent, ProcessBlock(o, recent), phase = "running",
             baseIrr' = baseIrr, o.blk.num \in Int, o.blk.num <= libSent + 1,
             o.blk.num = libSent + 1 => libSent + 1 <= head
      PROVE  GenesisNum..(EndBlock - 1) \subseteq DurableIrr'
    <2>1. ~terminating /\ StopReached(o) /\ wlog' = wlog /\ flushed' = L
        BY <1>1, CleanOnlyAtStop
    <2>2. DurableIrr' = Hist(L)
        BY <1>1, <2>1 DEF DurableIrr, Hist
    <2>3. RunningOK
        BY <1>0, <1>1, <2>1 DEF IParts
    <2>4. EndBlock <= o.blk.num
        BY <2>1 DEF StopReached
    <2>5. CASE Hist(L) = GenesisNum..libSent
        BY <1>1, <2>2, <2>4, <2>5, <1>0 DEF TypeOK, Heights
    <2>6. CASE Hist(L) = {} /\ head = GenesisNum
        <3>1. libSent = GenesisNum
            BY <1>0, <2>6 DEF IParts, TypeOK, Heights
        <3>2. o.blk.num <= GenesisNum
            BY <1>0, <1>1, <2>6, <3>1 DEF TypeOK, Heights
        <3>3. GenesisNum..(EndBlock - 1) = {}
            BY <1>1, <2>4, <3>2
        <3>. QED  BY <3>3
    <2>. QED  BY <2>3, <2>5, <2>6 DEF RunningOK
<1>2. CASE \E k \in 1..MaxGroup : DeliverIrreversible(k)
    <2>1. PICK k \in 1..MaxGroup : DeliverIrreversible(k)
        BY <1>2
    <2>2. PICK recent : ProcessBlock(IrrObj(libSent + 1, k, 0), recent)
        BY <2>1 DEF DeliverIrreversible, Deliver
    <2>3. libSent \in Int /\ head \in Int /\ k \in Nat /\ k >= 1 /\ libSent + k <= head
        BY <1>0, <2>1 DEF DeliverIrreversible, TypeOK, Heights
    <2>4. IrrObj(libSent + 1, k, 0).blk.num = libSent + 1
        BY <2>3 DEF IrrObj, CanonBlock
    <2>5. libSent + 1 <= head /\ libSent + 1 \in Int
        BY <2>3
    <2>6. phase = "running" /\ baseIrr' = baseIrr
        BY <2>1 DEF DeliverIrreversible, Delivering
    <2>. QED  BY <1>1, <2>2, <2>4, <2>5, <2>6
<1>3. CASE DeliverGroupRest
    <2>1. PICK recent : ProcessBlock(IrrObj(grp.first, grp.count, grp.idx), recent)
        BY <1>3 DEF DeliverGroupRest, Deliver
    <2>2. /\ grp.idx < grp.count /\ grp.idx >= 1
          /\ grp.first \in Heights /\ grp.count \in Nat /\ grp.idx \in Nat
          /\ phase = "running" /\ baseIrr' = baseIrr
        BY <1>0, <1>3 DEF DeliverGroupRest, Delivering, GroupIdle, IParts, TypeOK
    <2>3. grp.first + grp.count - 1 = libSent
        BY <2>2 DEF GroupEnds
    <2>4. IrrObj(grp.first, grp.count, grp.idx).blk.num = grp.first + grp.idx
        BY DEF IrrObj, CanonBlock
    <2>5. grp.first + grp.idx <= libSent
        BY <2>2, <2>3 DEF Heights
    <2>. QED  BY <1>1, <2>1, <2>4, <2>5, <2>2, <1>0 DEF TypeOK, Heights
<1>4. CASE DeliverNew
    <2>1. PICK recent : ProcessBlock(NewObj(CanonBlock(head + 1)), recent)
        BY <1>4 DEF DeliverNew, Deliver
    <2>. QED  BY <2>1, CleanOnlyAtStop DEF NewObj
<1>5. CASE \E f \in ForkAt : DeliverFork(f)
    <2>1. PICK f \in ForkAt, recent \in BOOLEAN : ProcessBlock(NewObj(ForkBlock(f)), recent)
        BY <1>5 DEF DeliverFork, Deliver
    <2>. QED  BY <2>1, CleanOnlyAtStop DEF NewObj
<1>6. CASE \/ SourceStops \/ SourceFails \/ Exit \/ Crash \/ Start \/ UNCHANGED vars
    BY <1>6 DEF SourceStops, SourceFails, ShutdownWith, Exit, Crash, Start, ResumeAt,
                vars, loaderVars
<1>. QED  BY <1>2, <1>3, <1>4, <1>5, <1>6 DEF Next

\* IInv, GroupEnds and CleanStopComplete together are inductive.
LEMMA CleanStopStep ==
    ASSUME IInv, GroupEnds, CleanStopComplete, [Next]_vars
    PROVE  CleanStopComplete'
<1>1. CASE exitCause' # "clean"
    BY <1>1 DEF CleanStopComplete
<1>2. CASE exitCause = "clean"
    <2>1. GenesisNum..(EndBlock - 1) \subseteq DurableIrr
        BY <1>2 DEF CleanStopComplete
    <2>2. DurableIrr \subseteq DurableIrr'
        BY NextGrows
    <2>. QED  BY <2>1, <2>2 DEF CleanStopComplete
<1>3. CASE exitCause # "clean" /\ exitCause' = "clean"
    BY <1>3, StopFlushesAll DEF CleanStopComplete
<1>. QED  BY <1>1, <1>2, <1>3

\* A clean stop at the stop block leaves every height below it durably
\* finalized (CleanStopComplete, checked by the loader_stop run): the forced
\* flush before l.Shutdown(nil) writes out a log that finalizes up to the
\* resolver's Irreversible height, and no later crash or restart loses it,
\* for every value of the constants.
THEOREM CleanStopCompleteHolds == Spec => []CleanStopComplete
<1>1. Init => IInv /\ GroupEnds /\ CleanStopComplete
    BY InitIInv DEF Init, GroupEnds, CleanStopComplete
<1>2. IInv /\ GroupEnds /\ CleanStopComplete /\ [Next]_vars
        => (IInv /\ GroupEnds /\ CleanStopComplete)'
    BY NextIInv, GroupEndsStep, CleanStopStep DEF IInv
<1>. QED  BY <1>1, <1>2, PTL DEF Spec
-----------------------------------------------------------------------------
(* The loader writes nothing once it is shutting down.                     *)

\* A ProcessBlock call on a loader already shutting down changes nothing it
\* buffered or flushed (the IsTerminating check).
LEMMA TerminatingProcessFrozen ==
    ASSUME terminating, NEW o, NEW recent, ProcessBlock(o, recent)
    PROVE  UNCHANGED <<wlog, flushed>>
BY DEF ProcessBlock, loaderVars

\* Every step that keeps a shutting-down loader running leaves its write
\* log and its flushed point alone.
LEMMA FrozenStep ==
    ASSUME [Next]_vars, phase = "running", terminating, phase' = "running"
    PROVE  UNCHANGED <<wlog, flushed>>
<1>1. CASE DeliverNew
    BY <1>1, TerminatingProcessFrozen DEF DeliverNew, Deliver
<1>2. CASE \E f \in ForkAt : DeliverFork(f)
    BY <1>2, TerminatingProcessFrozen DEF DeliverFork, Deliver
<1>3. CASE \E k \in 1..MaxGroup : DeliverIrreversible(k)
    BY <1>3, TerminatingProcessFrozen DEF DeliverIrreversible, Deliver
<1>4. CASE DeliverGroupRest
    BY <1>4, TerminatingProcessFrozen DEF DeliverGroupRest, Deliver
<1>5. CASE SourceStops \/ SourceFails
    BY <1>5 DEF SourceStops, SourceFails
<1>6. CASE Exit \/ Crash
    BY <1>6 DEF Exit, Crash, Halt
<1>7. CASE Start
    BY <1>7 DEF Start
<1>8. CASE UNCHANGED vars
    BY <1>8 DEF vars, loaderVars
<1>. QED  BY <1>1, <1>2, <1>3, <1>4, <1>5, <1>6, <1>7, <1>8 DEF Next

\* Once the loader is shutting down, the blocks the source still delivers
\* change nothing in the store (StoreFrozenAfterShutdown, checked by the
\* loader_stop run; ProcessBlock's IsTerminating check), for every value of
\* the constants.
THEOREM StoreFrozenHolds == Spec => StoreFrozenAfterShutdown
<1>1. [Next]_vars =>
        [(phase = "running" /\ terminating /\ phase' = "running")
            => UNCHANGED <<wlog, flushed>>]_vars
    BY FrozenStep
<1>. QED  BY <1>1, PTL DEF Spec, StoreFrozenAfterShutdown
=============================================================================
