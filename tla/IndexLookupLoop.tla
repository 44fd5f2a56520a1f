--------------------------- MODULE IndexLookupLoop ---------------------------
(***************************************************************************)
(* The loop of bstransform.FindNextUnindexed, step by step, checked        *)
(* against its contract in IndexLookup for every start height, size list  *)
(* and store content of an instance: the loop tries each size in order at  *)
(* the current height; the first whose index file exists moves the height  *)
(* past that file and the search starts over; when none exists the height  *)
(* is the answer. lowBoundary(i, 0) panics.                                *)
(***************************************************************************)
EXTENDS IndexLookup

CONSTANT SizeLists    \* size lists that pass the negative-size validation

ASSUME IndexLookupLoopAssumption == SizeLists \subseteq Seq(Nat)

VARIABLES
    cur,      \* the height the lookup starts from
    sizes,    \* the bundle sizes, in the order of the flag
    files     \* the index files in the store

vars == <<cur, sizes, files>>

\* The sizes tried at height c before the first zero or the first hit: a
\* zero panics, a hit moves past its file.
Hits(c, sz, fs) == {i \in 1..Len(sz) : sz[i] # 0 /\ FileAt(c, sz[i]) \in fs}
Zeros(sz) == {i \in 1..Len(sz) : sz[i] = 0}

\* Mutant: the height moved by the bundle size from c, not past the file.
RECURSIVE FindNextUnindexedLoopUnaligned(_, _, _)
FindNextUnindexedLoopUnaligned(c, sz, fs) ==
    IF Zeros(sz) # {} /\ (Hits(c, sz, fs) = {} \/ Min(Zeros(sz)) < Min(Hits(c, sz, fs)))
    THEN [panic |-> TRUE, next |-> c]
    ELSE IF Hits(c, sz, fs) = {}
    THEN [panic |-> FALSE, next |-> c]
    ELSE FindNextUnindexedLoopUnaligned(c + sz[Min(Hits(c, sz, fs))], sz, fs)

RECURSIVE FindNextUnindexedLoop(_, _, _)
FindNextUnindexedLoop(c, sz, fs) ==
    IF Zeros(sz) # {} /\ (Hits(c, sz, fs) = {} \/ Min(Zeros(sz)) < Min(Hits(c, sz, fs)))
    THEN [panic |-> TRUE, next |-> c]
    ELSE IF Hits(c, sz, fs) = {}
    THEN [panic |-> FALSE, next |-> c]
    ELSE LET s == sz[Min(Hits(c, sz, fs))]
         IN  FindNextUnindexedLoop(LowBoundary(c, s) + s, sz, fs)

\* Any size list and store; the start height sweeps every height.
Init == sizes \in SizeLists /\ files \in SUBSET IndexFiles /\ cur = 0

NextStart ==
    /\ cur <= MaxBlock
    /\ cur' = cur + 1
    /\ UNCHANGED <<sizes, files>>

Spec == Init /\ [][NextStart]_vars

\* The loop panics exactly when a size is zero, and otherwise stops at the
\* first height no index file of the listed sizes holds: jumping from file
\* end to file end skips no unindexed height, whatever the size order.
LoopMeetsContract ==
    LET l == FindNextUnindexedLoop(cur, sizes, files)
        c == FindNextUnindexed(cur, sizes, files)
    IN  l.panic = c.panic /\ (~c.panic => l.next = c.next)

=============================================================================
