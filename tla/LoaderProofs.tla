---------------------------- MODULE LoaderProofs ----------------------------
(***************************************************************************)
(* Proofs about the live-mode loader of module Loader, for every value of  *)
(* the constants that satisfies ConstantsAssumption: the strengthened      *)
(* invariant IInv is inductive, hence the type invariant TypeOK and the    *)
(* durability invariant DurableConsistent hold in every reachable state.   *)
(***************************************************************************)
EXTENDS Loader, SequenceTheorems, TLAPS

USE ConstantsAssumption

-----------------------------------------------------------------------------
(* Lemmas about the write log.                                             *)

\* The largest element of an interval starting at genesis is its upper end:
\* what GetLastWrittenIrreversibleBlockRef returns on a gap-free table.
LEMMA LastOfInterval ==
    ASSUME NEW m \in Heights
    PROVE  LastOf(GenesisNum..m) = m
<1>1. m \in GenesisNum..m /\ \A x \in GenesisNum..m : x <= m
    BY DEF Heights
<1>2. \A y \in GenesisNum..m : (\A x \in GenesisNum..m : x <= y) => y = m
    BY DEF Heights
<1>. QED  BY <1>1, <1>2 DEF LastOf

\* The empty log finalizes and stores nothing.
LEMMA EmptyLog ==
    Len(<<>>) = 0 /\ <<>> \in Seq(Mutations) /\ IrrIn(<<>>, 0) = {} /\ PutIn(<<>>, 0) = {}
<1>1. Len(<<>>) = 0 /\ <<>> \in Seq(Mutations)
    BY EmptySeq
<1>2. IrrIn(<<>>, 0) = {} /\ PutIn(<<>>, 0) = {}
    BY DEF IrrIn, PutIn
<1>. QED  BY <1>1, <1>2

\* What the first n mutations finalize and store depends on them only.
LEMMA PrefixAgree ==
    ASSUME NEW s, NEW t, NEW n \in Nat,
           \A i \in 1..n : s[i] = t[i]
    PROVE  IrrIn(s, n) = IrrIn(t, n) /\ PutIn(s, n) = PutIn(t, n)
BY DEF IrrIn, PutIn

\* Appending t to s: the first Len(s) + i mutations finalize and store what
\* s does and what the first i of t do.
LEMMA ConcatIn ==
    ASSUME NEW s \in Seq(Mutations), NEW t \in Seq(Mutations),
           NEW i \in 0..Len(t)
    PROVE  /\ IrrIn(s \o t, Len(s) + i) = IrrIn(s, Len(s)) \cup IrrIn(t, i)
           /\ PutIn(s \o t, Len(s) + i) = PutIn(s, Len(s)) \cup PutIn(t, i)
<1>1. /\ Len(s \o t) = Len(s) + Len(t)
      /\ \A j \in 1..Len(s) + Len(t) :
            (s \o t)[j] = IF j <= Len(s) THEN s[j] ELSE t[j - Len(s)]
    BY ConcatProperties
<1>a. Len(s) \in Nat /\ Len(t) \in Nat
    BY LenProperties
<1>2. IrrIn(s \o t, Len(s) + i) = IrrIn(s, Len(s)) \cup IrrIn(t, i)
    <2>1. ASSUME NEW j \in 1..Len(s) + i, (s \o t)[j].op = "irr"
          PROVE  (s \o t)[j].blk.num \in IrrIn(s, Len(s)) \cup IrrIn(t, i)
        <3>1. CASE j <= Len(s)
            BY <1>1, <1>a, <2>1, <3>1 DEF IrrIn
        <3>2. CASE j > Len(s)
            <4>1. j - Len(s) \in 1..i /\ (s \o t)[j] = t[j - Len(s)]
                BY <1>1, <1>a, <3>2
            <4>. QED  BY <4>1, <2>1 DEF IrrIn
        <3>. QED  BY <3>1, <3>2, <1>a
    <2>2. ASSUME NEW j \in 1..Len(s), s[j].op = "irr"
          PROVE  s[j].blk.num \in IrrIn(s \o t, Len(s) + i)
        <3>1. j \in 1..Len(s) + i /\ (s \o t)[j] = s[j]
            BY <1>1, <1>a
        <3>. QED  BY <3>1, <2>2 DEF IrrIn
    <2>3. ASSUME NEW j \in 1..i, t[j].op = "irr"
          PROVE  t[j].blk.num \in IrrIn(s \o t, Len(s) + i)
        <3>1. Len(s) + j \in 1..Len(s) + i /\ (s \o t)[Len(s) + j] = t[j]
            BY <1>1, <1>a
        <3>. QED  BY <3>1, <2>3 DEF IrrIn
    <2>4. IrrIn(s \o t, Len(s) + i) \subseteq IrrIn(s, Len(s)) \cup IrrIn(t, i)
        BY <2>1 DEF IrrIn
    <2>5. IrrIn(s, Len(s)) \subseteq IrrIn(s \o t, Len(s) + i)
        BY <2>2 DEF IrrIn
    <2>6. IrrIn(t, i) \subseteq IrrIn(s \o t, Len(s) + i)
        BY <2>3 DEF IrrIn
    <2>. QED  BY <2>4, <2>5, <2>6
<1>3. PutIn(s \o t, Len(s) + i) = PutIn(s, Len(s)) \cup PutIn(t, i)
    <2>1. ASSUME NEW j \in 1..Len(s) + i, (s \o t)[j].op = "put"
          PROVE  (s \o t)[j].blk \in PutIn(s, Len(s)) \cup PutIn(t, i)
        <3>1. CASE j <= Len(s)
            BY <1>1, <1>a, <2>1, <3>1 DEF PutIn
        <3>2. CASE j > Len(s)
            <4>1. j - Len(s) \in 1..i /\ (s \o t)[j] = t[j - Len(s)]
                BY <1>1, <1>a, <3>2
            <4>. QED  BY <4>1, <2>1 DEF PutIn
        <3>. QED  BY <3>1, <3>2, <1>a
    <2>2. ASSUME NEW j \in 1..Len(s), s[j].op = "put"
          PROVE  s[j].blk \in PutIn(s \o t, Len(s) + i)
        <3>1. j \in 1..Len(s) + i /\ (s \o t)[j] = s[j]
            BY <1>1, <1>a
        <3>. QED  BY <3>1, <2>2 DEF PutIn
    <2>3. ASSUME NEW j \in 1..i, t[j].op = "put"
          PROVE  t[j].blk \in PutIn(s \o t, Len(s) + i)
        <3>1. Len(s) + j \in 1..Len(s) + i /\ (s \o t)[Len(s) + j] = t[j]
            BY <1>1, <1>a
        <3>. QED  BY <3>1, <2>3 DEF PutIn
    <2>4. PutIn(s \o t, Len(s) + i) \subseteq PutIn(s, Len(s)) \cup PutIn(t, i)
        BY <2>1 DEF PutIn
    <2>5. PutIn(s, Len(s)) \subseteq PutIn(s \o t, Len(s) + i)
        BY <2>2 DEF PutIn
    <2>6. PutIn(t, i) \subseteq PutIn(s \o t, Len(s) + i)
        BY <2>3 DEF PutIn
    <2>. QED  BY <2>4, <2>5, <2>6
<1>. QED  BY <1>2, <1>3

\* Two intervals from 1 are equal only when their upper ends are.
LEMMA IntervalLength ==
    ASSUME NEW a \in Nat, NEW b \in Nat, 1..a = 1..b
    PROVE  a = b
<1>1. ~(a < b)
    <2>1. SUFFICES ASSUME a < b PROVE FALSE
        OBVIOUS
    <2>2. b \in 1..b /\ b \notin 1..a
        BY <2>1
    <2>. QED  BY <2>2
<1>2. ~(b < a)
    <2>1. SUFFICES ASSUME b < a PROVE FALSE
        OBVIOUS
    <2>2. a \in 1..a /\ a \notin 1..b
        BY <2>1
    <2>. QED  BY <2>2
<1>. QED  BY <1>1, <1>2

\* A log prefix whose finalized heights, on top of bI, form an interval
\* from genesis, each with its block stored in bP or the prefix.
GoodAt(bI, bP, s, n) ==
    /\ IsInterval(bI \cup IrrIn(s, n))
    /\ \A h \in bI \cup IrrIn(s, n) : CanonBlock(h) \in bP \cup PutIn(s, n)

\* The writes of UpdateIrreversibleData finalize the group's heights in
\* order and store nothing.
LEMMA GroupWritesFacts ==
    ASSUME NEW f \in Int, NEW c \in Nat, f >= GenesisNum, f + c - 1 <= MaxBlock
    PROVE  /\ GroupWrites(f, c) \in Seq(Mutations)
           /\ Len(GroupWrites(f, c)) = c
           /\ \A i \in 0..c : /\ IrrIn(GroupWrites(f, c), i) = f..(f + i - 1)
                              /\ PutIn(GroupWrites(f, c), i) = {}
<1>1. \A i \in 1..c : GroupWrites(f, c)[i] = Irr(CanonBlock(f + i - 1))
    BY DEF GroupWrites
<1>2. GroupWrites(f, c) \in [1..c -> Mutations]
    BY DEF GroupWrites, Irr, CanonBlock, Mutations, Blocks, Heights
<1>3. GroupWrites(f, c) \in Seq(Mutations) /\ Len(GroupWrites(f, c)) = c
    <2>1. GroupWrites(f, c) \in Seq(Mutations)
        BY <1>2, SeqDef
    <2>2. DOMAIN GroupWrites(f, c) = 1..Len(GroupWrites(f, c))
          /\ Len(GroupWrites(f, c)) \in Nat
        BY <2>1, LenProperties
    <2>3. 1..c = 1..Len(GroupWrites(f, c))
        BY <2>2, <1>2
    <2>4. Len(GroupWrites(f, c)) = c
        BY <2>2, <2>3, IntervalLength
    <2>. QED  BY <2>1, <2>4
<1>a. ASSUME NEW j \in 1..c
      PROVE  GroupWrites(f, c)[j].op = "irr" /\ GroupWrites(f, c)[j].blk.num = f + j - 1
    <2>1. GroupWrites(f, c)[j] = Irr(CanonBlock(f + j - 1))
        BY <1>1
    <2>. QED  BY <2>1 DEF Irr, CanonBlock
<1>4. ASSUME NEW i \in 0..c PROVE IrrIn(GroupWrites(f, c), i) = f..(f + i - 1)
    <2>1. {j \in 1..i : GroupWrites(f, c)[j].op = "irr"} = 1..i
        <3>1. \A j \in 1..i : GroupWrites(f, c)[j].op = "irr"
            BY <1>a
        <3>. QED  BY <3>1
    <2>2. \A j \in 1..i : GroupWrites(f, c)[j].blk.num = f + j - 1
        BY <1>a
    <2>3. {f + j - 1 : j \in 1..i} = f..(f + i - 1)
        <3>1. ASSUME NEW x \in f..(f + i - 1) PROVE \E j \in 1..i : x = f + j - 1
            <4>1. x - f + 1 \in 1..i /\ x = f + (x - f + 1) - 1
                OBVIOUS
            <4>. QED  BY <4>1
        <3>2. \A j \in 1..i : f + j - 1 \in f..(f + i - 1)
            OBVIOUS
        <3>. QED  BY <3>1, <3>2, Zenon
    <2>4. IrrIn(GroupWrites(f, c), i) = {GroupWrites(f, c)[j].blk.num : j \in 1..i}
        BY <2>1 DEF IrrIn
    <2>. QED  BY <2>2, <2>3, <2>4
<1>5. ASSUME NEW i \in 0..c PROVE PutIn(GroupWrites(f, c), i) = {}
    <2>1. \A j \in 1..i : GroupWrites(f, c)[j].op # "put"
        BY <1>a
    <2>. QED  BY <2>1 DEF PutIn
<1>. QED  BY <1>3, <1>4, <1>5

\* The writes of a New step store the block, and finalize only the genesis
\* sentinel, after storing it.
LEMMA NewWritesFacts ==
    ASSUME NEW b \in Blocks
    PROVE  /\ NewWrites(b) \in Seq(Mutations)
           /\ \A i \in 0..Len(NewWrites(b)) :
                 /\ IrrIn(NewWrites(b), i) \subseteq {GenesisNum}
                 /\ GenesisNum \in IrrIn(NewWrites(b), i)
                      => GenesisBlock \in PutIn(NewWrites(b), i)
           /\ IrrIn(NewWrites(b), Len(NewWrites(b)))
                 = IF b.num = FirstStreamable THEN {GenesisNum} ELSE {}
           /\ b \in PutIn(NewWrites(b), Len(NewWrites(b)))
<1>g. GenesisBlock \in Blocks
    BY DEF GenesisBlock, CanonBlock, Blocks, Heights
<1>1. CASE b.num = FirstStreamable
    <2>. DEFINE w == <<Put(GenesisBlock), Irr(GenesisBlock), Put(b)>>
    <2>1. NewWrites(b) = w  BY <1>1 DEF NewWrites
    <2>2. w \in Seq(Mutations) /\ Len(w) = 3
        BY <1>g DEF Put, Irr, Mutations
    <2>3. /\ IrrIn(w, 0) = {} /\ IrrIn(w, 1) = {}
          /\ IrrIn(w, 2) = {GenesisNum} /\ IrrIn(w, 3) = {GenesisNum}
        BY DEF IrrIn, Put, Irr, GenesisBlock, CanonBlock
    <2>4. GenesisBlock \in PutIn(w, 2) /\ b \in PutIn(w, 3)
          /\ GenesisBlock \in PutIn(w, 3)
        BY DEF PutIn, Put, Irr
    <2>. QED  BY <1>1, <2>1, <2>2, <2>3, <2>4
<1>2. CASE b.num # FirstStreamable
    <2>. DEFINE w == <<Put(b)>>
    <2>1. NewWrites(b) = w  BY <1>2 DEF NewWrites
    <2>2. w \in Seq(Mutations) /\ Len(w) = 1
        BY DEF Put, Mutations
    <2>3. IrrIn(w, 0) = {} /\ IrrIn(w, 1) = {}
        BY DEF IrrIn, Put
    <2>4. b \in PutIn(w, 1)
        BY DEF PutIn, Put
    <2>. QED  BY <1>2, <2>1, <2>2, <2>3, <2>4
<1>. QED  BY <1>1, <1>2

\* A prefix of a write sequence finalizes and stores what the same prefix
\* of the whole sequence does.
LEMMA PrefixOf ==
    ASSUME NEW ms \in Seq(Mutations), NEW j \in 0..Len(ms)
    PROVE  /\ SubSeq(ms, 1, j) \in Seq(Mutations)
           /\ Len(SubSeq(ms, 1, j)) = j
           /\ \A i \in 0..j : /\ IrrIn(SubSeq(ms, 1, j), i) = IrrIn(ms, i)
                              /\ PutIn(SubSeq(ms, 1, j), i) = PutIn(ms, i)
<1>0. Len(ms) \in Nat /\ \A i \in 1..j : ms[i] \in Mutations
    BY LenProperties, ElementOfSeq
<1>1. /\ SubSeq(ms, 1, j) \in Seq(Mutations)
      /\ Len(SubSeq(ms, 1, j)) = j
      /\ \A i \in 1..j : SubSeq(ms, 1, j)[i] = ms[i]
    <2>1. /\ SubSeq(ms, 1, j) \in Seq(Mutations)
          /\ Len(SubSeq(ms, 1, j)) = IF 1 <= j THEN j - 1 + 1 ELSE 0
          /\ \A i \in 1..j - 1 + 1 : SubSeq(ms, 1, j)[i] = ms[1 + i - 1]
        BY <1>0, SubSeqProperties
    <2>. QED  BY <2>1, <1>0
<1>2. ASSUME NEW i \in 0..j
      PROVE  IrrIn(SubSeq(ms, 1, j), i) = IrrIn(ms, i)
             /\ PutIn(SubSeq(ms, 1, j), i) = PutIn(ms, i)
    <2>1. i \in Nat /\ \A k \in 1..i : SubSeq(ms, 1, j)[k] = ms[k]
        BY <1>1
    <2>. QED  BY <2>1, PrefixAgree
<1>. QED  BY <1>1, <1>2

\* Extending the log by t keeps every prefix from f on good, when every
\* prefix of t is good on top of the whole of s.
LEMMA Extend ==
    ASSUME NEW bI, NEW bP, NEW s \in Seq(Mutations), NEW t \in Seq(Mutations),
           NEW f \in 0..Len(s),
           \A n \in f..Len(s) : GoodAt(bI, bP, s, n),
           \A i \in 0..Len(t) :
               GoodAt(bI \cup IrrIn(s, Len(s)), bP \cup PutIn(s, Len(s)), t, i)
    PROVE  \A n \in f..Len(s \o t) : GoodAt(bI, bP, s \o t, n)
<1>a. /\ Len(s) \in Nat /\ Len(t) \in Nat
      /\ Len(s \o t) = Len(s) + Len(t)
      /\ \A i \in 1..Len(s) + Len(t) :
            (s \o t)[i] = IF i <= Len(s) THEN s[i] ELSE t[i - Len(s)]
    BY LenProperties, ConcatProperties
<1>1. ASSUME NEW n \in f..Len(s) PROVE GoodAt(bI, bP, s \o t, n)
    <2>1. n \in Nat /\ \A i \in 1..n : (s \o t)[i] = s[i]
        BY <1>a
    <2>2. IrrIn(s \o t, n) = IrrIn(s, n) /\ PutIn(s \o t, n) = PutIn(s, n)
        BY <2>1, PrefixAgree
    <2>3. GoodAt(bI, bP, s, n)
        BY <1>a
    <2>. QED  BY <2>2, <2>3 DEF GoodAt
<1>2. ASSUME NEW i \in 1..Len(t) PROVE GoodAt(bI, bP, s \o t, Len(s) + i)
    <2>1. IrrIn(s \o t, Len(s) + i) = IrrIn(s, Len(s)) \cup IrrIn(t, i)
          /\ PutIn(s \o t, Len(s) + i) = PutIn(s, Len(s)) \cup PutIn(t, i)
        BY <1>a, ConcatIn
    <2>0. i \in 0..Len(t)
        BY <1>a
    <2>2. GoodAt(bI \cup IrrIn(s, Len(s)), bP \cup PutIn(s, Len(s)), t, i)
        BY <2>0, Zenon
    <2>. QED  BY <2>1, <2>2 DEF GoodAt
<1>3. ASSUME NEW n \in f..Len(s \o t) PROVE n \in f..Len(s) \/ \E i \in 1..Len(t) : n = Len(s) + i
    BY <1>a
<1>. QED  BY <1>1, <1>2, <1>3

-----------------------------------------------------------------------------
(* The shape of one ProcessBlock call: the log grows by a prefix of the    *)
(* step's writes, the flushed point moves forward within it, and unless    *)
(* the loader is now shutting down the whole of the writes were buffered.  *)

Causes == {"none", "clean", "error", "source"}

Shape(ms) ==
    \E j \in 0..Len(ms) :
        /\ wlog' = wlog \o SubSeq(ms, 1, j)
        /\ flushed' \in flushed..Len(wlog')
        /\ \/ terminating' = TRUE /\ exitCause' \in Causes
           \/ j = Len(ms) /\ UNCHANGED <<terminating, exitCause>>

\* Buffering writes and then flushing if due, or failing part way through
\* the writes, has that shape.
LEMMA FlushShape ==
    ASSUME NEW ms \in Seq(Mutations), NEW num \in Int, NEW recent,
           wlog \in Seq(Mutations), flushed \in 0..Len(wlog),
           \/ Buffer(ms) /\ FlushIfNeeded(num, recent)
           \/ BufferFailing(ms) /\ UNCHANGED flushed /\ Fail
    PROVE  Shape(ms)
<1>0. Len(ms) \in Nat /\ Len(wlog) \in Nat
    BY LenProperties
<1>1. CASE Buffer(ms) /\ FlushIfNeeded(num, recent)
    <2>1. wlog' = wlog \o SubSeq(ms, 1, Len(ms))
        BY <1>1, SubSeqFull DEF Buffer
    <2>2. Len(wlog') = Len(wlog) + Len(ms)
        BY <1>1, ConcatProperties DEF Buffer
    <2>3. flushed' \in flushed..Len(wlog')
        BY <1>1, <2>2, <1>0 DEF FlushIfNeeded, FlushOk, FlushFails
    <2>4. \/ terminating' = TRUE /\ exitCause' \in Causes
          \/ UNCHANGED <<terminating, exitCause>>
        BY <1>1 DEF FlushIfNeeded, Continue, Fail, ShutdownWith, Causes
    <2>5. Len(ms) \in 0..Len(ms)
        BY <1>0
    <2>. QED  BY <2>1, <2>3, <2>4, <2>5, Zenon DEF Shape
<1>2. CASE BufferFailing(ms) /\ UNCHANGED flushed /\ Fail
    <2>1. PICK j \in 0..Len(ms) - 1 : wlog' = wlog \o SubSeq(ms, 1, j)
        BY <1>2 DEF BufferFailing
    <2>2. j \in 0..Len(ms)
        BY <1>0
    <2>3. SubSeq(ms, 1, j) \in Seq(Mutations) /\ Len(SubSeq(ms, 1, j)) = j
        BY <2>2, PrefixOf
    <2>4. Len(wlog') = Len(wlog) + j
        BY <2>1, <2>3, ConcatProperties
    <2>5. flushed' \in flushed..Len(wlog')
        BY <1>2, <2>4, <1>0
    <2>6. terminating' = TRUE /\ exitCause' \in Causes
        BY <1>2 DEF Fail, ShutdownWith, Causes
    <2>. QED  BY <2>1, <2>2, <2>5, <2>6 DEF Shape
<1>. QED  BY <1>1, <1>2

\* Leaving the log as it is while shutting down has the shape of any writes.
LEMMA StayShape ==
    ASSUME NEW ms \in Seq(Mutations), wlog \in Seq(Mutations),
           wlog' = wlog, flushed' \in flushed..Len(wlog),
           terminating' = TRUE, exitCause' \in Causes
    PROVE  Shape(ms)
<1>1. SubSeq(ms, 1, 0) = <<>>
    BY SubSeqEmpty
<1>2. wlog' = wlog \o SubSeq(ms, 1, 0)
    BY <1>1, ConcatEmptySeq
<1>3. 0 \in 0..Len(ms)
    BY LenProperties
<1>4. flushed' \in flushed..Len(wlog')
    OBVIOUS
<1>. QED  BY <1>2, <1>3, <1>4, Zenon DEF Shape

\* Leaving the log as it is has the shape of no writes at all.
LEMMA EmptyShape ==
    ASSUME wlog \in Seq(Mutations), wlog' = wlog, flushed' \in flushed..Len(wlog),
           \/ terminating' = TRUE /\ exitCause' \in Causes
           \/ UNCHANGED <<terminating, exitCause>>
    PROVE  Shape(<<>>)
<1>1. SubSeq(<<>>, 1, 0) = <<>>
    BY SubSeqEmpty
<1>2. wlog \o <<>> = wlog
    BY ConcatEmptySeq
<1>3. Len(<<>>) = 0
    BY EmptySeq
<1>4. 0 \in 0..Len(<<>>) /\ wlog' = wlog \o SubSeq(<<>>, 1, 0)
    BY <1>1, <1>2, <1>3
<1>. QED  BY <1>3, <1>4 DEF Shape

\* A New step handed to ProcessBlock.
LEMMA ProcessNewShape ==
    ASSUME TypeOK, NEW b \in Blocks, NEW recent,
           ProcessBlock(NewObj(b), recent)
    PROVE  Shape(NewWrites(b)) /\ healthy' \in BOOLEAN
<1>0. NewWrites(b) \in Seq(Mutations) /\ b.num \in Int
    BY NewWritesFacts DEF Blocks, Heights
<1>1. CASE terminating /\ UNCHANGED loaderVars
    <2>1. Shape(NewWrites(b))
        BY <1>0, <1>1, StayShape DEF TypeOK, loaderVars, Causes
    <2>. QED  BY <2>1, <1>1 DEF TypeOK, loaderVars
<1>2. CASE ~terminating /\ FullJob(NewObj(b), recent)
    <2>1. FullJobNew(b, recent)
        BY <1>2 DEF FullJob, NewObj
    <2>2. Shape(NewWrites(b))
        BY <2>1, <1>0, FlushShape DEF FullJobNew, TypeOK
    <2>. QED  BY <2>1, <2>2 DEF FullJobNew
<1>. QED  BY <1>1, <1>2 DEF ProcessBlock

\* The first StepIndex of an Irreversible group handed to ProcessBlock.
LEMMA ProcessGroupShape ==
    ASSUME TypeOK, NEW f \in Heights, NEW c \in Nat, NEW recent,
           f + c - 1 <= MaxBlock,
           ProcessBlock(IrrObj(f, c, 0), recent)
    PROVE  Shape(GroupWrites(f, c)) /\ healthy' \in BOOLEAN
<1>0. GroupWrites(f, c) \in Seq(Mutations) /\ f \in Int /\ f >= GenesisNum
    BY GroupWritesFacts DEF Heights
<1>1. CASE terminating /\ UNCHANGED loaderVars
    <2>1. Shape(GroupWrites(f, c))
        BY <1>0, <1>1, StayShape DEF TypeOK, loaderVars, Causes
    <2>. QED  BY <2>1, <1>1 DEF TypeOK, loaderVars
<1>2. CASE ~terminating /\ FullJob(IrrObj(f, c, 0), recent)
    <2>. DEFINE o == IrrObj(f, c, 0)
    <2>1. FullJobIrreversible(o, recent)
        BY <1>2 DEF FullJob, IrrObj, o
    <2>a. o.blk.num = f /\ o.first = f /\ o.count = c /\ o.idx = 0
        BY <1>0 DEF IrrObj, CanonBlock, o
    <2>h. healthy' \in BOOLEAN
        BY <2>1 DEF FullJobIrreversible, TypeOK
    <2>s. SUFFICES Shape(GroupWrites(f, c))
        BY <2>h
    <2>2. CASE StopReached(o) /\ StopAtEndBlock(o)
        <3>1. wlog' = wlog /\ flushed' \in flushed..Len(wlog)
              /\ terminating' = TRUE /\ exitCause' \in Causes
            BY <2>2 DEF StopAtEndBlock, FlushOk, FlushFails, ShutdownWith, Fail, o,
                        Causes, TypeOK
        <3>. QED  BY <3>1, <1>0, StayShape DEF o, TypeOK
    <2>3. CASE ~StopReached(o) /\ o.idx # 0 /\ UNCHANGED <<wlog, flushed>> /\ Continue
        BY <2>3, <2>a DEF o
    <2>4. CASE /\ ~StopReached(o) /\ o.idx = 0
               /\ \/ Buffer(GroupWrites(o.first, o.count))
                     /\ FlushIfNeeded(o.blk.num, recent)
                  \/ BufferFailing(GroupWrites(o.first, o.count))
                     /\ UNCHANGED flushed /\ Fail
        <3>1. \/ Buffer(GroupWrites(f, c)) /\ FlushIfNeeded(f, recent)
              \/ BufferFailing(GroupWrites(f, c)) /\ UNCHANGED flushed /\ Fail
            BY <2>4, <2>a
        <3>. QED  BY <3>1, <1>0, FlushShape DEF TypeOK
    <2>. QED  BY <2>1, <2>2, <2>3, <2>4 DEF FullJobIrreversible, TypeOK, o
<1>. QED  BY <1>1, <1>2 DEF ProcessBlock

\* A later StepIndex of an Irreversible group handed to ProcessBlock.
LEMMA ProcessRestShape ==
    ASSUME TypeOK, NEW f \in Heights, NEW c \in Nat, NEW i \in Nat, NEW recent,
           i # 0, ProcessBlock(IrrObj(f, c, i), recent)
    PROVE  Shape(<<>>) /\ healthy' \in BOOLEAN
<1>0. <<>> \in Seq(Mutations) /\ Len(<<>>) = 0
    BY EmptySeq
<1>1. CASE terminating /\ UNCHANGED loaderVars
    <2>0. /\ wlog' = wlog /\ flushed' \in flushed..Len(wlog)
          /\ terminating' = TRUE /\ exitCause' \in Causes
        BY <1>1, LenProperties DEF TypeOK, loaderVars, Causes
    <2>1. Shape(<<>>)
        BY <2>0, EmptyShape DEF TypeOK
    <2>. QED  BY <2>1, <1>1 DEF TypeOK, loaderVars
<1>2. CASE ~terminating /\ FullJob(IrrObj(f, c, i), recent)
    <2>. DEFINE o == IrrObj(f, c, i)
    <2>1. FullJobIrreversible(o, recent)
        BY <1>2 DEF FullJob, IrrObj, o
    <2>a. o.idx = i
        BY DEF IrrObj, o
    <2>h. healthy' \in BOOLEAN
        BY <2>1 DEF FullJobIrreversible, TypeOK
    <2>s. SUFFICES Shape(<<>>)
        BY <2>h
    <2>2. CASE StopReached(o) /\ StopAtEndBlock(o)
        <3>1. wlog' = wlog /\ flushed' \in flushed..Len(wlog)
              /\ terminating' = TRUE /\ exitCause' \in Causes
            BY <2>2 DEF StopAtEndBlock, FlushOk, FlushFails, ShutdownWith, Fail, o,
                        Causes, TypeOK
        <3>. QED  BY <3>1, EmptyShape DEF TypeOK
    <2>3. CASE ~StopReached(o) /\ o.idx # 0 /\ UNCHANGED <<wlog, flushed>> /\ Continue
        <3>1. flushed \in flushed..Len(wlog)
            BY LenProperties DEF TypeOK
        <3>. QED  BY <2>3, <3>1, EmptyShape DEF TypeOK, Continue
    <2>4. CASE ~StopReached(o) /\ o.idx = 0
        BY <2>4, <2>a DEF o
    <2>. QED  BY <2>1, <2>2, <2>3, <2>4 DEF FullJobIrreversible, TypeOK, o
<1>. QED  BY <1>1, <1>2 DEF ProcessBlock

\* A step of that shape keeps every prefix from the flushed point on good,
\* when every prefix of its writes is good on top of the whole log; and a
\* loader still running afterwards has buffered all of them.
LEMMA ShapeGood ==
    ASSUME TypeOK, NEW ms \in Seq(Mutations),
           \A n \in flushed..Len(wlog) : GoodAt(baseIrr, basePut, wlog, n),
           \A i \in 0..Len(ms) :
               GoodAt(Hist(Len(wlog)), Stored(Len(wlog)), ms, i),
           Shape(ms), UNCHANGED <<baseIrr, basePut>>
    PROVE  /\ wlog' \in Seq(Mutations) /\ flushed' \in 0..Len(wlog')
           /\ terminating' \in BOOLEAN /\ exitCause' \in Causes
           /\ \A n \in flushed'..Len(wlog') : GoodAt(baseIrr', basePut', wlog', n)
           /\ ~terminating' => ~terminating /\ wlog' = wlog \o ms
<1>0. Len(wlog) \in Nat /\ flushed \in 0..Len(wlog) /\ Len(ms) \in Nat
    BY LenProperties DEF TypeOK
<1>1. PICK j \in 0..Len(ms) :
        /\ wlog' = wlog \o SubSeq(ms, 1, j)
        /\ flushed' \in flushed..Len(wlog')
        /\ \/ terminating' = TRUE /\ exitCause' \in Causes
           \/ j = Len(ms) /\ UNCHANGED <<terminating, exitCause>>
    BY DEF Shape
<1>. DEFINE t == SubSeq(ms, 1, j)
<1>2. /\ t \in Seq(Mutations) /\ Len(t) = j
      /\ \A i \in 0..j : IrrIn(t, i) = IrrIn(ms, i) /\ PutIn(t, i) = PutIn(ms, i)
    BY PrefixOf
<1>3. \A i \in 0..Len(t) :
        GoodAt(baseIrr \cup IrrIn(wlog, Len(wlog)), basePut \cup PutIn(wlog, Len(wlog)), t, i)
    <2>1. SUFFICES ASSUME NEW i \in 0..Len(t)
                   PROVE  GoodAt(baseIrr \cup IrrIn(wlog, Len(wlog)),
                                 basePut \cup PutIn(wlog, Len(wlog)), t, i)
        OBVIOUS
    <2>2. i \in 0..Len(ms) /\ IrrIn(t, i) = IrrIn(ms, i) /\ PutIn(t, i) = PutIn(ms, i)
        BY <1>0, <1>2
    <2>3. GoodAt(Hist(Len(wlog)), Stored(Len(wlog)), ms, i)
        BY <2>2
    <2>. QED  BY <2>2, <2>3 DEF GoodAt, Hist, Stored
<1>4. \A n \in flushed..Len(wlog \o t) : GoodAt(baseIrr, basePut, wlog \o t, n)
    BY <1>0, <1>2, <1>3, Extend DEF TypeOK
<1>5. wlog' \in Seq(Mutations) /\ Len(wlog') = Len(wlog) + j
    BY <1>1, <1>2, ConcatProperties DEF TypeOK
<1>6. \A n \in flushed'..Len(wlog') : GoodAt(baseIrr', basePut', wlog', n)
    <2>1. flushed \in Nat /\ flushed' \in flushed..Len(wlog')
        BY <1>0, <1>1
    <2>. QED  BY <1>1, <1>4, <2>1
<1>7. ~terminating' => ~terminating /\ wlog' = wlog \o ms
    <2>1. SUFFICES ASSUME ~terminating' PROVE ~terminating /\ wlog' = wlog \o ms
        OBVIOUS
    <2>2. j = Len(ms) /\ ~terminating
        BY <1>1, <2>1
    <2>3. t = ms
        BY <2>2, SubSeqFull
    <2>. QED  BY <1>1, <2>2, <2>3
<1>8. terminating' \in BOOLEAN /\ exitCause' \in Causes
    BY <1>1 DEF TypeOK, Causes
<1>. QED  BY <1>0, <1>1, <1>5, <1>6, <1>7, <1>8

\* The writes of a New step keep the store good: they finalize at most the
\* genesis sentinel, and store it first.
LEMMA NewGood ==
    ASSUME NEW B, NEW P, NEW b \in Blocks,
           IsInterval(B), \A h \in B : CanonBlock(h) \in P
    PROVE  \A i \in 0..Len(NewWrites(b)) : GoodAt(B, P, NewWrites(b), i)
<1>1. SUFFICES ASSUME NEW i \in 0..Len(NewWrites(b))
               PROVE  GoodAt(B, P, NewWrites(b), i)
    OBVIOUS
<1>. DEFINE I == IrrIn(NewWrites(b), i)
<1>2. I \subseteq {GenesisNum} /\ (GenesisNum \in I => GenesisBlock \in PutIn(NewWrites(b), i))
    BY NewWritesFacts
<1>3. IsInterval(B \cup I)
    <2>1. CASE I = {}
        BY <2>1
    <2>2. CASE I = {GenesisNum} /\ B = {}
        <3>1. GenesisNum \in Heights /\ {GenesisNum} = GenesisNum..GenesisNum
            BY DEF Heights
        <3>. QED  BY <2>2, <3>1 DEF IsInterval
    <2>3. CASE I = {GenesisNum} /\ B # {}
        <3>1. PICK m \in Heights : B = GenesisNum..m
            BY <2>3 DEF IsInterval
        <3>2. GenesisNum \in B
            BY <3>1 DEF Heights
        <3>3. B \cup I = B
            BY <2>3, <3>2
        <3>. QED  BY <3>3
    <2>. QED  BY <1>2, <2>1, <2>2, <2>3
<1>4. \A h \in B \cup I : CanonBlock(h) \in P \cup PutIn(NewWrites(b), i)
    BY <1>2 DEF GenesisBlock
<1>. QED  BY <1>3, <1>4 DEF GoodAt

\* The writes of an Irreversible group keep the store good when they extend
\* the finalized interval by blocks it already holds.
LEMMA GroupGood ==
    ASSUME NEW P, NEW l \in Heights, NEW c \in Nat, l + c <= MaxBlock,
           \A h \in GenesisNum..(l + c) : CanonBlock(h) \in P
    PROVE  \A i \in 0..c : GoodAt(GenesisNum..l, P, GroupWrites(l + 1, c), i)
<1>1. SUFFICES ASSUME NEW i \in 0..c
               PROVE  GoodAt(GenesisNum..l, P, GroupWrites(l + 1, c), i)
    OBVIOUS
<1>2. IrrIn(GroupWrites(l + 1, c), i) = (l + 1)..(l + 1 + i - 1)
      /\ PutIn(GroupWrites(l + 1, c), i) = {}
    BY GroupWritesFacts DEF Heights
<1>3. (GenesisNum..l) \cup IrrIn(GroupWrites(l + 1, c), i) = GenesisNum..(l + i)
    BY <1>2 DEF Heights
<1>4. l + i \in Heights
    BY DEF Heights
<1>5. IsInterval(GenesisNum..(l + i))
    BY <1>4 DEF IsInterval
<1>6. \A h \in GenesisNum..(l + i) : CanonBlock(h) \in P
    BY DEF Heights
<1>. QED  BY <1>3, <1>5, <1>6 DEF GoodAt

-----------------------------------------------------------------------------
(* IInv is inductive.                                                      *)

\* The log prefixes from the flushed point on, as GoodAt states them.
GoodLog == \A n \in flushed..Len(wlog) : GoodAt(baseIrr, basePut, wlog, n)

\* The running part of IInv: finalized up to the resolver's LIB, and every
\* block above it that the resolver sent is stored.
RunningOK ==
    /\ \/ Hist(Len(wlog)) = GenesisNum..libSent
       \/ Hist(Len(wlog)) = {} /\ head = GenesisNum
    /\ \A h \in (libSent + 1)..head : CanonBlock(h) \in Stored(Len(wlog))

\* IInv restated through GoodLog and RunningOK.
IParts ==
    /\ TypeOK /\ libSent <= head /\ grp.idx <= grp.count
    /\ grp.count = 0 \/ grp.idx >= 1
    /\ phase # "running" => wlog = <<>> /\ flushed = 0
    /\ IsInterval(baseIrr) /\ \A h \in baseIrr : CanonBlock(h) \in basePut
    /\ GoodLog
    /\ phase = "running" /\ ~terminating => RunningOK

LEMMA IInvParts == IInv <=> IParts
BY DEF IInv, IParts, GoodLog, GoodAt, RunningOK, Hist, Stored, Anchored

\* The initial states satisfy IInv.
THEOREM InitIInv == Init => IInv
<1>1. SUFFICES ASSUME Init PROVE IInv
    OBVIOUS
<1>0. /\ phase = "down" /\ starts = 0
      /\ terminating = FALSE /\ exitCause = "none"
      /\ srcLive = FALSE /\ healthy = FALSE
      /\ head = GenesisNum /\ libSent = GenesisNum /\ forked = {}
      /\ grp = [first |-> GenesisNum, count |-> 0, idx |-> 0]
      /\ wlog = <<>> /\ flushed = 0
    BY <1>1 DEF Init
<1>2. PICK st \in InitStores : basePut = st.put /\ baseIrr = st.irr
    BY <1>1 DEF Init
<1>3. /\ IsInterval(baseIrr) /\ baseIrr \subseteq Heights /\ basePut \subseteq Blocks
      /\ \A h \in baseIrr : CanonBlock(h) \in basePut
    <2>1. CASE st = [irr |-> {}, put |-> {}]
        BY <1>2, <2>1 DEF IsInterval
    <2>2. CASE \E l \in (GenesisNum - 1)..MaxBlock, d \in {0, 1} :
                 st = [irr |-> GenesisNum..l,
                       put |-> {CanonBlock(x) : x \in (GenesisNum..(l + d)) \cap Heights}]
        <3>1. PICK l \in (GenesisNum - 1)..MaxBlock, d \in {0, 1} :
                 st = [irr |-> GenesisNum..l,
                       put |-> {CanonBlock(x) : x \in (GenesisNum..(l + d)) \cap Heights}]
            BY <2>2, Zenon
        <3>2. baseIrr = GenesisNum..l
              /\ basePut = {CanonBlock(x) : x \in (GenesisNum..(l + d)) \cap Heights}
            BY <1>2, <3>1
        <3>3. IsInterval(baseIrr)
            <4>1. CASE l = GenesisNum - 1
                BY <3>2, <4>1 DEF IsInterval
            <4>2. CASE l >= GenesisNum
                BY <3>2, <4>2 DEF IsInterval, Heights
            <4>. QED  BY <4>1, <4>2
        <3>4. basePut \subseteq Blocks
            <4>1. \A x \in Heights : CanonBlock(x) \in Blocks
                BY DEF CanonBlock, Blocks
            <4>. QED  BY <3>2, <4>1
        <3>. QED  BY <3>2, <3>3, <3>4 DEF Heights
    <2>. QED  BY <2>1, <2>2 DEF InitStores
<1>4. IrrIn(<<>>, 0) = {} /\ PutIn(<<>>, 0) = {}
    BY DEF IrrIn, PutIn
<1>5. TypeOK
    <2>1. <<>> \in Seq(Mutations) /\ Len(<<>>) = 0
        BY EmptySeq
    <2>2. GenesisNum \in Heights /\ 0 \in 0..MaxGroup
        BY DEF Heights
    <2>3. grp \in [first : Heights, count : 0..MaxGroup, idx : 0..MaxGroup]
        BY <1>0, <2>2
    <2>4. starts \in 0..MaxStarts /\ wlog \in Seq(Mutations) /\ flushed \in 0..Len(wlog)
          /\ head \in Heights /\ libSent \in Heights /\ forked \subseteq ForkAt
        BY <1>0, <2>1, <2>2
    <2>5. /\ phase \in {"down", "running", "fatal", "done"}
          /\ terminating \in BOOLEAN /\ srcLive \in BOOLEAN /\ healthy \in BOOLEAN
          /\ exitCause \in {"none", "clean", "error", "source"}
        BY <1>0
    <2>6. basePut \subseteq Blocks /\ baseIrr \subseteq Heights
        BY <1>3
    <2>. QED  BY <2>3, <2>4, <2>5, <2>6 DEF TypeOK
<1>6. GoodLog
    <2>1. Len(<<>>) = 0
        BY EmptySeq
    <2>2. flushed..Len(wlog) = {0}
        BY <1>0, <2>1
    <2>3. IrrIn(wlog, 0) = {} /\ PutIn(wlog, 0) = {}
        BY <1>0, <1>4
    <2>4. GoodAt(baseIrr, basePut, wlog, 0)
        BY <1>3, <2>3 DEF GoodAt
    <2>. QED  BY <2>2, <2>4 DEF GoodLog
<1>7. grp.idx <= grp.count /\ libSent <= head
    BY <1>0
<1>. QED  BY <1>0, <1>3, <1>5, <1>6, <1>7, IInvParts DEF IParts

\* The loader's side of a New step: the log stays good, and a loader still
\* running afterwards has stored the block and finalized at most genesis.
LEMMA NewLoaderStep ==
    ASSUME IParts, phase = "running", NEW b \in Blocks, NEW recent,
           ProcessBlock(NewObj(b), recent), baseIrr' = baseIrr, basePut' = basePut
    PROVE  /\ wlog' \in Seq(Mutations) /\ flushed' \in 0..Len(wlog')
           /\ terminating' \in BOOLEAN /\ exitCause' \in Causes /\ healthy' \in BOOLEAN
           /\ GoodLog'
           /\ ~terminating' =>
                 /\ ~terminating
                 /\ Hist(Len(wlog))' = Hist(Len(wlog))
                       \cup (IF b.num = FirstStreamable THEN {GenesisNum} ELSE {})
                 /\ Stored(Len(wlog)) \cup {b} \subseteq Stored(Len(wlog))'
<1>. DEFINE ms == NewWrites(b)
            L == Len(wlog)
<1>1. wlog \in Seq(Mutations) /\ L \in Nat /\ flushed \in 0..L /\ TypeOK
    BY LenProperties DEF IParts, TypeOK
<1>2. Shape(ms) /\ healthy' \in BOOLEAN
    BY <1>1, ProcessNewShape
<1>3. IsInterval(Hist(L)) /\ \A h \in Hist(L) : CanonBlock(h) \in Stored(L)
    <2>1. GoodAt(baseIrr, basePut, wlog, L)
        BY <1>1 DEF IParts, GoodLog
    <2>. QED  BY <2>1 DEF GoodAt, Hist, Stored
<1>4. \A i \in 0..Len(ms) : GoodAt(Hist(L), Stored(L), ms, i)
    BY <1>3, NewGood
<1>5. /\ wlog' \in Seq(Mutations) /\ flushed' \in 0..Len(wlog')
      /\ terminating' \in BOOLEAN /\ exitCause' \in Causes
      /\ \A n \in flushed'..Len(wlog') : GoodAt(baseIrr', basePut', wlog', n)
      /\ ~terminating' => ~terminating /\ wlog' = wlog \o ms
    <2>1. ms \in Seq(Mutations)
        BY NewWritesFacts
    <2>. QED  BY <1>1, <1>2, <1>4, <2>1, ShapeGood DEF IParts, GoodLog
<1>6. ASSUME ~terminating'
      PROVE  /\ Hist(L)' = Hist(L) \cup (IF b.num = FirstStreamable THEN {GenesisNum} ELSE {})
             /\ Stored(L) \cup {b} \subseteq Stored(L)'
    <2>1. wlog' = wlog \o ms
        BY <1>5, <1>6
    <2>2. /\ ms \in Seq(Mutations)
          /\ IrrIn(ms, Len(ms)) = IF b.num = FirstStreamable THEN {GenesisNum} ELSE {}
          /\ b \in PutIn(ms, Len(ms))
        BY NewWritesFacts
    <2>3. /\ Len(wlog') = L + Len(ms)
          /\ IrrIn(wlog', Len(wlog')) = IrrIn(wlog, L) \cup IrrIn(ms, Len(ms))
          /\ PutIn(wlog', Len(wlog')) = PutIn(wlog, L) \cup PutIn(ms, Len(ms))
        <3>1. Len(ms) \in 0..Len(ms) /\ Len(wlog \o ms) = L + Len(ms)
            BY <1>1, <2>2, LenProperties, ConcatProperties
        <3>. QED  BY <1>1, <2>1, <2>2, <3>1, ConcatIn
    <2>. QED  BY <2>2, <2>3 DEF Hist, Stored
<1>. QED  BY <1>2, <1>5, <1>6 DEF GoodLog

\* DeliverNew preserves IInv: the block is stored, and the genesis sentinel
\* finalized with it completes the interval when the table was empty.
LEMMA DeliverNewIInv ==
    ASSUME IInv, DeliverNew
    PROVE  IInv'
<1>0. IParts
    BY IInvParts
<1>. SUFFICES IParts'
    BY DEF IParts, IInv, GoodLog, GoodAt, RunningOK, Hist, Stored, Anchored
<1>. DEFINE b == CanonBlock(head + 1)
<1>1. /\ b \in Blocks /\ head + 1 \in Heights /\ phase = "running"
      /\ head \in Heights /\ libSent \in Heights /\ libSent <= head
    BY <1>0 DEF DeliverNew, Delivering, IParts, TypeOK, Blocks, Heights, CanonBlock
<1>2. /\ libSent' = libSent /\ grp' = grp /\ phase' = phase /\ forked' = forked
      /\ basePut' = basePut /\ baseIrr' = baseIrr /\ head' = head + 1
      /\ srcLive' = srcLive /\ starts' = starts
    BY DEF DeliverNew
<1>3. PICK recent : ProcessBlock(NewObj(b), recent)
    BY DEF DeliverNew, Deliver
<1>4. /\ wlog' \in Seq(Mutations) /\ flushed' \in 0..Len(wlog')
      /\ terminating' \in BOOLEAN /\ exitCause' \in Causes /\ healthy' \in BOOLEAN
      /\ GoodLog'
      /\ ~terminating' =>
            /\ ~terminating
            /\ Hist(Len(wlog))' = Hist(Len(wlog))
                  \cup (IF b.num = FirstStreamable THEN {GenesisNum} ELSE {})
            /\ Stored(Len(wlog)) \cup {b} \subseteq Stored(Len(wlog))'
    BY <1>0, <1>1, <1>2, <1>3, NewLoaderStep
<1>5. TypeOK'
    BY <1>0, <1>1, <1>2, <1>4 DEF IParts, TypeOK, Causes
<1>6. phase' = "running" /\ ~terminating' => RunningOK'
    <2>1. SUFFICES ASSUME ~terminating' PROVE RunningOK'
        OBVIOUS
    <2>2. RunningOK
        BY <1>0, <1>1, <1>4, <2>1 DEF IParts
    <2>3. Hist(Len(wlog))' = GenesisNum..libSent'
        <3>1. CASE Hist(Len(wlog)) = GenesisNum..libSent
            <4>1. GenesisNum \in GenesisNum..libSent
                BY <1>1 DEF Heights
            <4>. QED  BY <3>1, <4>1, <1>2, <1>4, <2>1
        <3>2. CASE Hist(Len(wlog)) = {} /\ head = GenesisNum
            <4>1. b.num = FirstStreamable /\ libSent = GenesisNum
                BY <3>2, <1>1 DEF CanonBlock, Heights
            <4>. QED  BY <3>2, <4>1, <1>2, <1>4, <2>1
        <3>. QED  BY <2>2, <3>1, <3>2 DEF RunningOK
    <2>4. \A h \in (libSent' + 1)..head' : CanonBlock(h) \in Stored(Len(wlog))'
        <3>1. \A h \in (libSent + 1)..head : CanonBlock(h) \in Stored(Len(wlog))
            BY <2>2 DEF RunningOK
        <3>. QED  BY <3>1, <1>1, <1>2, <1>4, <2>1 DEF Heights
    <2>. QED  BY <2>3, <2>4 DEF RunningOK
<1>7. /\ libSent' <= head' /\ grp'.idx <= grp'.count /\ (grp'.count = 0 \/ grp'.idx >= 1)
      /\ phase' = "running"
      /\ IsInterval(baseIrr') /\ \A h \in baseIrr' : CanonBlock(h) \in basePut'
    <2>1. libSent <= head /\ grp.idx <= grp.count /\ (grp.count = 0 \/ grp.idx >= 1)
          /\ IsInterval(baseIrr) /\ \A h \in baseIrr : CanonBlock(h) \in basePut
        BY <1>0 DEF IParts
    <2>. QED  BY <2>1, <1>1, <1>2 DEF Heights
<1>. QED  BY <1>4, <1>5, <1>6, <1>7 DEF IParts

\* DeliverFork preserves IInv: a competing block is stored but never
\* finalized; it can only add the genesis sentinel to the interval.
LEMMA DeliverForkIInv ==
    ASSUME IInv, NEW f \in ForkAt, DeliverFork(f)
    PROVE  IInv'
<1>0. IParts
    BY IInvParts
<1>. SUFFICES IParts'
    BY DEF IParts, IInv, GoodLog, GoodAt, RunningOK, Hist, Stored, Anchored
<1>. DEFINE b == ForkBlock(f)
<1>1. /\ b \in Blocks /\ b.num = f /\ phase = "running"
      /\ head \in Heights /\ libSent \in Heights /\ libSent <= head
      /\ libSent < f /\ f <= head + 1 /\ f \in Heights
    BY <1>0, ConstantsAssumption
       DEF DeliverFork, Delivering, IParts, TypeOK, Blocks, Heights, ForkBlock
<1>2. /\ libSent' = libSent /\ grp' = grp /\ phase' = phase
      /\ basePut' = basePut /\ baseIrr' = baseIrr /\ head' = head
      /\ srcLive' = srcLive /\ starts' = starts /\ forked' = forked \cup {f}
    BY DEF DeliverFork
<1>3. PICK recent : ProcessBlock(NewObj(b), recent)
    BY DEF DeliverFork, Deliver
<1>4. /\ wlog' \in Seq(Mutations) /\ flushed' \in 0..Len(wlog')
      /\ terminating' \in BOOLEAN /\ exitCause' \in Causes /\ healthy' \in BOOLEAN
      /\ GoodLog'
      /\ ~terminating' =>
            /\ ~terminating
            /\ Hist(Len(wlog))' = Hist(Len(wlog))
                  \cup (IF b.num = FirstStreamable THEN {GenesisNum} ELSE {})
            /\ Stored(Len(wlog)) \cup {b} \subseteq Stored(Len(wlog))'
    BY <1>0, <1>1, <1>2, <1>3, NewLoaderStep
<1>5. TypeOK'
    BY <1>0, <1>1, <1>2, <1>4 DEF IParts, TypeOK, Causes
<1>6. phase' = "running" /\ ~terminating' => RunningOK'
    <2>1. SUFFICES ASSUME ~terminating' PROVE RunningOK'
        OBVIOUS
    <2>2. RunningOK
        BY <1>0, <1>1, <1>4, <2>1 DEF IParts
    <2>3. \/ Hist(Len(wlog))' = GenesisNum..libSent'
          \/ Hist(Len(wlog))' = {} /\ head' = GenesisNum
        <3>1. CASE Hist(Len(wlog)) = GenesisNum..libSent
            <4>1. GenesisNum \in GenesisNum..libSent
                BY <1>1 DEF Heights
            <4>. QED  BY <3>1, <4>1, <1>2, <1>4, <2>1
        <3>2. CASE Hist(Len(wlog)) = {} /\ head = GenesisNum /\ f = FirstStreamable
            <4>1. libSent = GenesisNum
                BY <3>2, <1>1 DEF Heights
            <4>. QED  BY <3>2, <4>1, <1>1, <1>2, <1>4, <2>1
        <3>3. CASE Hist(Len(wlog)) = {} /\ head = GenesisNum /\ f # FirstStreamable
            BY <3>3, <1>1, <1>2, <1>4, <2>1
        <3>. QED  BY <2>2, <3>1, <3>2, <3>3 DEF RunningOK
    <2>4. \A h \in (libSent' + 1)..head' : CanonBlock(h) \in Stored(Len(wlog))'
        <3>1. \A h \in (libSent + 1)..head : CanonBlock(h) \in Stored(Len(wlog))
            BY <2>2 DEF RunningOK
        <3>. QED  BY <3>1, <1>2, <1>4, <2>1
    <2>. QED  BY <2>3, <2>4 DEF RunningOK
<1>7. /\ libSent' <= head' /\ grp'.idx <= grp'.count /\ (grp'.count = 0 \/ grp'.idx >= 1)
      /\ phase' = "running"
      /\ IsInterval(baseIrr') /\ \A h \in baseIrr' : CanonBlock(h) \in basePut'
    <2>1. libSent <= head /\ grp.idx <= grp.count /\ (grp.count = 0 \/ grp.idx >= 1)
          /\ IsInterval(baseIrr) /\ \A h \in baseIrr : CanonBlock(h) \in basePut
        BY <1>0 DEF IParts
    <2>. QED  BY <2>1, <1>1, <1>2 DEF Heights
<1>. QED  BY <1>4, <1>5, <1>6, <1>7 DEF IParts

\* The loader's side of the first StepIndex of an Irreversible group: a
\* loader still running afterwards has finalized exactly up to the group's
\* last block, and stored nothing new.
LEMMA GroupLoaderStep ==
    ASSUME IParts, phase = "running", NEW k \in 1..MaxGroup, libSent + k <= head,
           NEW recent, ProcessBlock(IrrObj(libSent + 1, k, 0), recent),
           baseIrr' = baseIrr, basePut' = basePut
    PROVE  /\ wlog' \in Seq(Mutations) /\ flushed' \in 0..Len(wlog')
           /\ terminating' \in BOOLEAN /\ exitCause' \in Causes /\ healthy' \in BOOLEAN
           /\ GoodLog'
           /\ ~terminating' =>
                 /\ ~terminating
                 /\ Hist(Len(wlog))' = GenesisNum..(libSent + k)
                 /\ Stored(Len(wlog))' = Stored(Len(wlog))
<1>. DEFINE ms == GroupWrites(libSent + 1, k)
            L == Len(wlog)
<1>1. /\ wlog \in Seq(Mutations) /\ L \in Nat /\ flushed \in 0..L /\ TypeOK
      /\ libSent \in Heights /\ head \in Heights /\ k \in Nat
      /\ libSent + 1 \in Heights /\ libSent + k <= MaxBlock
    BY LenProperties DEF IParts, TypeOK, Heights
<1>2. /\ ms \in Seq(Mutations) /\ Len(ms) = k
      /\ IrrIn(ms, k) = (libSent + 1)..(libSent + k) /\ PutIn(ms, k) = {}
    BY <1>1, GroupWritesFacts DEF Heights
<1>3. CASE terminating
    <2>1. UNCHANGED loaderVars
        BY <1>3 DEF ProcessBlock
    <2>2. GoodLog'
        BY <2>1 DEF IParts, GoodLog, loaderVars
    <2>. QED  BY <1>1, <1>3, <2>1, <2>2 DEF TypeOK, loaderVars, Causes
<1>4. CASE ~terminating
    <2>0. (libSent + 1) + k - 1 <= MaxBlock
        BY <1>1 DEF Heights
    <2>1. Shape(ms) /\ healthy' \in BOOLEAN
        BY <1>1, <2>0, ProcessGroupShape
    <2>2. RunningOK
        BY <1>4 DEF IParts
    <2>3. Hist(L) = GenesisNum..libSent
        BY <2>2, <1>1 DEF RunningOK, Heights
    <2>4. \A h \in GenesisNum..(libSent + k) : CanonBlock(h) \in Stored(L)
        <3>1. \A h \in Hist(L) : CanonBlock(h) \in Stored(L)
            <4>1. GoodAt(baseIrr, basePut, wlog, L)
                BY <1>1 DEF IParts, GoodLog
            <4>. QED  BY <4>1 DEF GoodAt, Hist, Stored
        <3>2. \A h \in (libSent + 1)..head : CanonBlock(h) \in Stored(L)
            BY <2>2 DEF RunningOK
        <3>. QED  BY <2>3, <3>1, <3>2, <1>1 DEF Heights
    <2>5. \A i \in 0..Len(ms) : GoodAt(Hist(L), Stored(L), ms, i)
        BY <1>1, <1>2, <2>3, <2>4, GroupGood
    <2>6. /\ wlog' \in Seq(Mutations) /\ flushed' \in 0..Len(wlog')
          /\ terminating' \in BOOLEAN /\ exitCause' \in Causes
          /\ \A n \in flushed'..Len(wlog') : GoodAt(baseIrr', basePut', wlog', n)
          /\ ~terminating' => ~terminating /\ wlog' = wlog \o ms
        BY <1>1, <1>2, <2>1, <2>5, ShapeGood DEF IParts, GoodLog
    <2>7. ASSUME ~terminating'
          PROVE  Hist(L)' = GenesisNum..(libSent + k) /\ Stored(L)' = Stored(L)
        <3>1. wlog' = wlog \o ms
            BY <2>6, <2>7
        <3>2. /\ Len(wlog') = L + k
              /\ IrrIn(wlog', Len(wlog')) = IrrIn(wlog, L) \cup IrrIn(ms, k)
              /\ PutIn(wlog', Len(wlog')) = PutIn(wlog, L) \cup PutIn(ms, k)
            <4>0. Len(wlog \o ms) = Len(wlog) + Len(ms)
                BY <1>1, <1>2, ConcatProperties
            <4>1. k \in 0..Len(ms) /\ Len(wlog \o ms) = L + k
                BY <1>1, <1>2, <4>0
            <4>2. /\ IrrIn(wlog \o ms, Len(wlog) + k) = IrrIn(wlog, Len(wlog)) \cup IrrIn(ms, k)
                  /\ PutIn(wlog \o ms, Len(wlog) + k) = PutIn(wlog, Len(wlog)) \cup PutIn(ms, k)
                BY <1>1, <1>2, <4>1, ConcatIn
            <4>. QED  BY <3>1, <4>1, <4>2
        <3>3. Hist(L)' = Hist(L) \cup ((libSent + 1)..(libSent + k))
            BY <1>2, <3>2 DEF Hist
        <3>4. Stored(L)' = basePut' \cup PutIn(wlog', Len(wlog'))
            BY DEF Stored
        <3>5. Stored(L)' = Stored(L)
            BY <1>2, <3>2, <3>4 DEF Stored
        <3>6. Hist(L) \cup ((libSent + 1)..(libSent + k)) = GenesisNum..(libSent + k)
            BY <2>3, <1>1 DEF Heights
        <3>. QED  BY <3>3, <3>5, <3>6
    <2>. QED  BY <2>1, <2>6, <2>7 DEF GoodLog
<1>. QED  BY <1>3, <1>4

\* DeliverIrreversible preserves IInv: the group extends the finalized
\* interval by blocks the loader already stored.
LEMMA DeliverIrreversibleIInv ==
    ASSUME IInv, NEW k \in 1..MaxGroup, DeliverIrreversible(k)
    PROVE  IInv'
<1>0. IParts
    BY IInvParts
<1>. SUFFICES IParts'
    BY DEF IParts, IInv, GoodLog, GoodAt, RunningOK, Hist, Stored, Anchored
<1>1. /\ phase = "running" /\ libSent + k <= head
      /\ head \in Heights /\ libSent \in Heights /\ libSent <= head
      /\ libSent + 1 \in Heights /\ libSent + k \in Heights
    BY <1>0 DEF DeliverIrreversible, Delivering, IParts, TypeOK, Heights
<1>2. /\ libSent' = libSent + k /\ grp' = [first |-> libSent + 1, count |-> k, idx |-> 1]
      /\ phase' = phase /\ basePut' = basePut /\ baseIrr' = baseIrr /\ head' = head
      /\ srcLive' = srcLive /\ starts' = starts /\ forked' = forked
    BY DEF DeliverIrreversible
<1>3. PICK recent : ProcessBlock(IrrObj(libSent + 1, k, 0), recent)
    BY DEF DeliverIrreversible, Deliver
<1>4. /\ wlog' \in Seq(Mutations) /\ flushed' \in 0..Len(wlog')
      /\ terminating' \in BOOLEAN /\ exitCause' \in Causes /\ healthy' \in BOOLEAN
      /\ GoodLog'
      /\ ~terminating' =>
            /\ ~terminating
            /\ Hist(Len(wlog))' = GenesisNum..(libSent + k)
            /\ Stored(Len(wlog))' = Stored(Len(wlog))
    BY <1>0, <1>1, <1>2, <1>3, GroupLoaderStep
<1>5. TypeOK'
    <2>1. grp' \in [first : Heights, count : 0..MaxGroup, idx : 0..MaxGroup]
        BY <1>1, <1>2 DEF Heights
    <2>. QED  BY <1>0, <1>1, <1>2, <1>4, <2>1 DEF IParts, TypeOK, Causes
<1>6. phase' = "running" /\ ~terminating' => RunningOK'
    <2>1. SUFFICES ASSUME ~terminating' PROVE RunningOK'
        OBVIOUS
    <2>2. RunningOK
        BY <1>0, <1>1, <1>4, <2>1 DEF IParts
    <2>3. \A h \in (libSent' + 1)..head' : CanonBlock(h) \in Stored(Len(wlog))'
        <3>1. \A h \in (libSent + 1)..head : CanonBlock(h) \in Stored(Len(wlog))
            BY <2>2 DEF RunningOK
        <3>. QED  BY <3>1, <1>1, <1>2, <1>4, <2>1 DEF Heights
    <2>. QED  BY <1>2, <1>4, <2>1, <2>3 DEF RunningOK
<1>7. /\ libSent' <= head' /\ grp'.idx <= grp'.count /\ (grp'.count = 0 \/ grp'.idx >= 1)
      /\ phase' = "running"
      /\ IsInterval(baseIrr') /\ \A h \in baseIrr' : CanonBlock(h) \in basePut'
    <2>1. IsInterval(baseIrr) /\ \A h \in baseIrr : CanonBlock(h) \in basePut
        BY <1>0 DEF IParts
    <2>. QED  BY <2>1, <1>1, <1>2 DEF Heights
<1>. QED  BY <1>4, <1>5, <1>6, <1>7 DEF IParts

\* DeliverGroupRest preserves IInv: a later StepIndex writes nothing unless
\* it reaches the stop block, and then only flushes and shuts down.
LEMMA DeliverGroupRestIInv ==
    ASSUME IInv, DeliverGroupRest
    PROVE  IInv'
<1>0. IParts
    BY IInvParts
<1>. SUFFICES IParts'
    BY DEF IParts, IInv, GoodLog, GoodAt, RunningOK, Hist, Stored, Anchored
<1>. DEFINE L == Len(wlog)
<1>1. /\ phase = "running" /\ grp.idx # grp.count /\ grp.idx <= grp.count
      /\ grp.first \in Heights /\ grp.count \in 0..MaxGroup /\ grp.idx \in 1..MaxGroup
      /\ wlog \in Seq(Mutations) /\ L \in Nat /\ flushed \in 0..L /\ TypeOK
    BY <1>0, LenProperties DEF DeliverGroupRest, Delivering, GroupIdle, IParts, TypeOK
<1>2. /\ grp' = [grp EXCEPT !.idx = @ + 1]
      /\ libSent' = libSent /\ phase' = phase /\ basePut' = basePut /\ baseIrr' = baseIrr
      /\ head' = head /\ srcLive' = srcLive /\ starts' = starts /\ forked' = forked
    BY DEF DeliverGroupRest
<1>3. PICK recent : ProcessBlock(IrrObj(grp.first, grp.count, grp.idx), recent)
    BY DEF DeliverGroupRest, Deliver
<1>4. Shape(<<>>) /\ healthy' \in BOOLEAN
    BY <1>1, <1>3, ProcessRestShape
<1>5. \A i \in 0..Len(<<>>) : GoodAt(Hist(L), Stored(L), <<>>, i)
    <2>1. GoodAt(baseIrr, basePut, wlog, L)
        BY <1>0, <1>1 DEF IParts, GoodLog
    <2>2. Len(<<>>) = 0 /\ IrrIn(<<>>, 0) = {} /\ PutIn(<<>>, 0) = {}
        BY EmptyLog
    <2>3. SUFFICES ASSUME NEW i \in 0..Len(<<>>)
                   PROVE  GoodAt(Hist(L), Stored(L), <<>>, i)
        OBVIOUS
    <2>4. i = 0
        BY <2>2, <2>3
    <2>. QED  BY <2>1, <2>2, <2>4 DEF GoodAt, Hist, Stored
<1>6. /\ wlog' \in Seq(Mutations) /\ flushed' \in 0..Len(wlog')
      /\ terminating' \in BOOLEAN /\ exitCause' \in Causes
      /\ \A n \in flushed'..Len(wlog') : GoodAt(baseIrr', basePut', wlog', n)
      /\ ~terminating' => ~terminating /\ wlog' = wlog \o <<>>
    <2>1. <<>> \in Seq(Mutations)
        BY EmptySeq
    <2>. QED  BY <1>0, <1>1, <1>2, <1>4, <1>5, <2>1, ShapeGood DEF IParts, GoodLog
<1>7. TypeOK'
    <2>0. grp \in [first : Heights, count : 0..MaxGroup, idx : 0..MaxGroup]
          /\ grp.idx + 1 \in 0..MaxGroup
        BY <1>1 DEF TypeOK
    <2>1. grp' \in [first : Heights, count : 0..MaxGroup, idx : 0..MaxGroup]
        BY <2>0, <1>2
    <2>. QED  BY <1>1, <1>2, <1>4, <1>6, <2>1 DEF TypeOK, Causes
<1>8. phase' = "running" /\ ~terminating' => RunningOK'
    <2>1. SUFFICES ASSUME ~terminating' PROVE RunningOK'
        OBVIOUS
    <2>2. ~terminating /\ wlog' = wlog
        BY <1>1, <1>6, <2>1, ConcatEmptySeq
    <2>3. RunningOK
        BY <1>0, <1>1, <2>2 DEF IParts
    <2>. QED  BY <2>2, <2>3, <1>2 DEF RunningOK, Hist, Stored
<1>9. /\ libSent' <= head' /\ grp'.idx <= grp'.count /\ (grp'.count = 0 \/ grp'.idx >= 1)
      /\ phase' = "running"
      /\ IsInterval(baseIrr') /\ \A h \in baseIrr' : CanonBlock(h) \in basePut'
    <2>1. libSent <= head /\ IsInterval(baseIrr) /\ \A h \in baseIrr : CanonBlock(h) \in basePut
        BY <1>0 DEF IParts
    <2>. QED  BY <2>1, <1>1, <1>2
<1>. QED  BY <1>6, <1>7, <1>8, <1>9 DEF IParts, GoodLog

\* SourceStops preserves IInv: it only marks the source stopped and the
\* loader unhealthy, during a shutdown.
LEMMA SourceStopsIInv ==
    ASSUME IInv, SourceStops
    PROVE  IInv'
<1>0. IParts
    BY IInvParts
<1>. SUFFICES IParts'
    BY DEF IParts, IInv, GoodLog, GoodAt, RunningOK, Hist, Stored, Anchored
<1>1. /\ terminating /\ phase = "running"
      /\ srcLive' = FALSE /\ healthy' = FALSE
      /\ UNCHANGED <<phase, terminating, exitCause, wlog, flushed, basePut, baseIrr, starts>>
      /\ UNCHANGED <<head, libSent, grp, forked>>
    BY DEF SourceStops, resolverVars
<1>2. TypeOK'
    BY <1>0, <1>1 DEF IParts, TypeOK
<1>. QED  BY <1>0, <1>1, <1>2 DEF IParts, GoodLog, IsInterval

\* SourceFails preserves IInv: the loader starts shutting down and nothing
\* is written.
LEMMA SourceFailsIInv ==
    ASSUME IInv, SourceFails
    PROVE  IInv'
<1>0. IParts
    BY IInvParts
<1>. SUFFICES IParts'
    BY DEF IParts, IInv, GoodLog, GoodAt, RunningOK, Hist, Stored, Anchored
<1>1. /\ phase = "running" /\ srcLive' = FALSE /\ healthy' = FALSE
      /\ terminating' = TRUE /\ exitCause' = "source"
      /\ UNCHANGED <<phase, wlog, flushed, basePut, baseIrr, starts>>
      /\ UNCHANGED <<head, libSent, grp, forked>>
    BY DEF SourceFails, ShutdownWith, resolverVars
<1>2. TypeOK'
    BY <1>0, <1>1 DEF IParts, TypeOK
<1>. QED  BY <1>0, <1>1, <1>2 DEF IParts, GoodLog, IsInterval

\* The first n mutations of a well-typed log store well-typed blocks.
LEMMA PutInType ==
    ASSUME NEW s \in Seq(Mutations), NEW n \in 0..Len(s)
    PROVE  PutIn(s, n) \subseteq Blocks
<1>1. ASSUME NEW i \in 1..n PROVE s[i].blk \in Blocks
    <2>1. s[i] \in Mutations
        BY ElementOfSeq
    <2>. QED  BY <2>1 DEF Mutations
<1>. QED  BY <1>1 DEF PutIn

\* The process ends (Exit or Crash): the durable prefix of the log becomes
\* the table the next process starts from, and it is gap-free and anchored.
LEMMA HaltIParts ==
    ASSUME IParts, NEW next \in {"down", "done"}, Halt(next), healthy' \in BOOLEAN,
           UNCHANGED <<terminating, exitCause, srcLive, starts>>,
           UNCHANGED <<head, libSent, grp, forked>>
    PROVE  IParts'
<1>1. /\ phase' = next /\ wlog' = <<>> /\ flushed' = 0
      /\ baseIrr' = baseIrr \cup IrrIn(wlog, flushed)
      /\ basePut' = basePut \cup PutIn(wlog, flushed)
    BY DEF Halt, DurableIrr, DurablePut
<1>2. /\ TypeOK /\ libSent <= head /\ grp.idx <= grp.count
      /\ (grp.count = 0 \/ grp.idx >= 1)
      /\ GoodAt(baseIrr, basePut, wlog, flushed)
    BY DEF IParts, GoodLog, TypeOK
<1>3. IsInterval(baseIrr') /\ \A h \in baseIrr' : CanonBlock(h) \in basePut'
    BY <1>1, <1>2 DEF GoodAt
<1>4. baseIrr' \subseteq Heights
    BY <1>3 DEF IsInterval, Heights
<1>5. basePut' \subseteq Blocks
    <2>1. PutIn(wlog, flushed) \subseteq Blocks
        BY <1>2, PutInType DEF TypeOK
    <2>. QED  BY <1>1, <1>2, <2>1 DEF TypeOK
<1>6. Len(<<>>) = 0 /\ <<>> \in Seq(Mutations) /\ IrrIn(<<>>, 0) = {} /\ PutIn(<<>>, 0) = {}
    BY EmptyLog
<1>7. GoodLog'
    <2>1. SUFFICES ASSUME NEW i \in flushed'..Len(wlog')
                   PROVE  GoodAt(baseIrr', basePut', wlog', i)
        BY DEF GoodLog
    <2>2. i = 0
        BY <1>1, <1>6
    <2>. QED  BY <1>1, <1>3, <1>6, <2>2 DEF GoodAt
<1>8. TypeOK'
    <2>1. phase' \in {"down", "running", "fatal", "done"} /\ flushed' \in 0..Len(wlog')
        BY <1>1, <1>6
    <2>. QED  BY <1>1, <1>2, <1>4, <1>5, <1>6, <2>1 DEF TypeOK
<1>. QED  BY <1>1, <1>2, <1>3, <1>7, <1>8 DEF IParts

\* Exit preserves IInv.
LEMMA ExitIInv ==
    ASSUME IInv, Exit
    PROVE  IInv'
<1>0. IParts
    BY IInvParts
<1>1. /\ Halt(IF exitCause = "clean" THEN "done" ELSE "down")
      /\ UNCHANGED <<terminating, exitCause, srcLive, healthy, starts>>
      /\ UNCHANGED <<head, libSent, grp, forked>>
    BY DEF Exit, resolverVars
<1>2. healthy' \in BOOLEAN
    BY <1>0, <1>1 DEF IParts, TypeOK
<1>. SUFFICES IParts'
    BY DEF IParts, IInv, GoodLog, GoodAt, RunningOK, Hist, Stored, Anchored
<1>3. PICK nx \in {"down", "done"} : Halt(nx)
    BY <1>1, Zenon
<1>. QED  BY <1>0, <1>1, <1>2, <1>3, HaltIParts

\* Crash preserves IInv: whatever was flushed before it is the next table.
LEMMA CrashIInv ==
    ASSUME IInv, Crash
    PROVE  IInv'
<1>0. IParts
    BY IInvParts
<1>1. /\ Halt("down") /\ healthy' = FALSE
      /\ UNCHANGED <<terminating, exitCause, srcLive, starts>>
      /\ UNCHANGED <<head, libSent, grp, forked>>
    BY DEF Crash, resolverVars
<1>. SUFFICES IParts'
    BY DEF IParts, IInv, GoodLog, GoodAt, RunningOK, Hist, Stored, Anchored
<1>2. "down" \in {"down", "done"} /\ healthy' \in BOOLEAN
    BY <1>1
<1>. QED  BY <1>0, <1>1, <1>2, HaltIParts

\* A fresh process resuming at a height h the table justifies: the log is
\* empty, and nothing above h has been delivered.
LEMMA ResumeIParts ==
    ASSUME IParts, phase = "down", starts < MaxStarts, starts' = starts + 1,
           NEW h \in Heights, ResumeAt(h),
           baseIrr = GenesisNum..h \/ (baseIrr = {} /\ h = GenesisNum)
    PROVE  IParts'
<1>1. /\ phase' = "running" /\ srcLive' = TRUE
      /\ terminating' = FALSE /\ exitCause' = "none" /\ healthy' = FALSE
      /\ head' = h /\ libSent' = h /\ forked' = {}
      /\ grp' = [first |-> h, count |-> 0, idx |-> 0]
      /\ wlog' = wlog /\ flushed' = flushed /\ basePut' = basePut /\ baseIrr' = baseIrr
    BY DEF ResumeAt
<1>2. /\ TypeOK /\ wlog = <<>> /\ flushed = 0 /\ GoodLog
      /\ IsInterval(baseIrr) /\ \A x \in baseIrr : CanonBlock(x) \in basePut
    BY DEF IParts
<1>3. Len(<<>>) = 0 /\ IrrIn(<<>>, 0) = {} /\ PutIn(<<>>, 0) = {}
    BY EmptyLog
<1>4. TypeOK'
    <2>1. grp' \in [first : Heights, count : 0..MaxGroup, idx : 0..MaxGroup]
        BY <1>1 DEF Heights
    <2>2. starts' \in 0..MaxStarts
        BY <1>2 DEF TypeOK
    <2>. QED  BY <1>1, <1>2, <2>1, <2>2 DEF TypeOK
<1>5. RunningOK'
    <2>1. Hist(Len(wlog))' = baseIrr
        BY <1>1, <1>2, <1>3 DEF Hist
    <2>2. (libSent' + 1)..head' = {}
        BY <1>1 DEF Heights
    <2>. QED  BY <1>1, <2>1, <2>2 DEF RunningOK
<1>6. GoodLog'
    BY <1>1, <1>2 DEF GoodLog
<1>. QED  BY <1>1, <1>2, <1>4, <1>5, <1>6 DEF IParts, Heights

\* Start preserves IInv: a failed LIB lookup, a start on an empty table
\* from genesis, or a resume at the last written irreversible height.
LEMMA StartIInv ==
    ASSUME IInv, Start
    PROVE  IInv'
<1>0. IParts
    BY IInvParts
<1>. SUFFICES IParts'
    BY DEF IParts, IInv, GoodLog, GoodAt, RunningOK, Hist, Stored, Anchored
<1>1. phase = "down" /\ starts < MaxStarts /\ starts' = starts + 1
    BY DEF Start
<1>2. CASE baseIrr = {} /\ ~AllowLiveOnEmptyTable /\ phase' = "fatal"
           /\ UNCHANGED <<srcLive, basePut, baseIrr, loaderVars, resolverVars>>
    <2>1. /\ UNCHANGED <<srcLive, basePut, baseIrr, terminating, exitCause, healthy>>
          /\ UNCHANGED <<wlog, flushed, head, libSent, grp, forked>>
        BY <1>2 DEF loaderVars, resolverVars
    <2>2. TypeOK /\ wlog = <<>> /\ flushed = 0
        BY <1>0, <1>1 DEF IParts
    <2>3. TypeOK'
        BY <1>1, <1>2, <2>1, <2>2 DEF TypeOK
    <2>. QED  BY <1>0, <1>2, <2>1, <2>2, <2>3 DEF IParts, GoodLog, IsInterval
<1>3. CASE baseIrr = {} /\ AllowLiveOnEmptyTable /\ ResumeAt(GenesisNum)
    <2>1. GenesisNum \in Heights
        BY DEF Heights
    <2>. QED  BY <1>0, <1>1, <1>3, <2>1, ResumeIParts
<1>4. CASE baseIrr # {} /\ ResumeAt(LastOf(baseIrr))
    <2>1. PICK m \in Heights : baseIrr = GenesisNum..m
        BY <1>0, <1>4 DEF IParts, IsInterval
    <2>2. LastOf(baseIrr) = m
        BY <2>1, LastOfInterval
    <2>3. ResumeAt(m)
        BY <1>4, <2>2 DEF ResumeAt
    <2>. QED  BY <1>0, <1>1, <2>1, <2>3, ResumeIParts
<1>. QED  BY <1>2, <1>3, <1>4 DEF Start

\* Every step of the system, and a stuttering step, preserves IInv.
THEOREM NextIInv == IInv /\ [Next]_vars => IInv'
<1>1. SUFFICES ASSUME IInv, [Next]_vars PROVE IInv'
    OBVIOUS
<1>2. CASE DeliverNew
    BY <1>1, <1>2, DeliverNewIInv
<1>3. CASE \E f \in ForkAt : DeliverFork(f)
    BY <1>1, <1>3, DeliverForkIInv
<1>4. CASE \E k \in 1..MaxGroup : DeliverIrreversible(k)
    BY <1>1, <1>4, DeliverIrreversibleIInv
<1>5. CASE DeliverGroupRest
    BY <1>1, <1>5, DeliverGroupRestIInv
<1>6. CASE SourceStops
    BY <1>1, <1>6, SourceStopsIInv
<1>7. CASE SourceFails
    BY <1>1, <1>7, SourceFailsIInv
<1>8. CASE Exit
    BY <1>1, <1>8, ExitIInv
<1>9. CASE Crash
    BY <1>1, <1>9, CrashIInv
<1>10. CASE Start
    BY <1>1, <1>10, StartIInv
<1>11. CASE UNCHANGED vars
    BY <1>1, <1>11 DEF vars, loaderVars, resolverVars, IInv, TypeOK, Hist, Stored,
                      Anchored, IsInterval
<1>. QED  BY <1>1, <1>2, <1>3, <1>4, <1>5, <1>6, <1>7, <1>8, <1>9, <1>10, <1>11 DEF Next

\* IInv holds in every reachable state.
THEOREM SpecIInv == Spec => []IInv
BY InitIInv, NextIInv, PTL DEF Spec

\* Every variable keeps its type in every reachable state (TypeOK, checked
\* by the loader_stop and loader_refines_table runs).
THEOREM TypeCorrect == Spec => []TypeOK
<1>1. IInv => TypeOK
    BY DEF IInv
<1>. QED  BY <1>1, SpecIInv, PTL

\* What the table durably holds after any interleaving of deliveries,
\* partial flushes, shutdowns, crashes and restarts is finalized without a
\* gap from genesis, each finalized height with its block stored
\* (DurableConsistent, checked by the loader_stop and loader_refines_table runs).
THEOREM DurableConsistentHolds == Spec => []DurableConsistent
<1>1. IInv => DurableConsistent
    <2>1. SUFFICES ASSUME IInv PROVE DurableConsistent
        OBVIOUS
    <2>2. IParts
        BY <2>1, IInvParts
    <2>3. GoodAt(baseIrr, basePut, wlog, flushed)
        BY <2>2 DEF IParts, GoodLog, TypeOK
    <2>4. DurableIrr = baseIrr \cup IrrIn(wlog, flushed)
          /\ DurablePut = basePut \cup PutIn(wlog, flushed)
        BY DEF DurableIrr, DurablePut
    <2>5. ASSUME NEW S, IsInterval(S) PROVE Contiguous(S)
        BY <2>5 DEF IsInterval, Contiguous, Heights
    <2>. QED  BY <2>3, <2>4, <2>5 DEF GoodAt, DurableConsistent
<1>. QED  BY <1>1, SpecIInv, PTL

=============================================================================
