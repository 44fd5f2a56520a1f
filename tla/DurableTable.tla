----------------------------- MODULE DurableTable -----------------------------
(***************************************************************************)
(* What the trxdb loader promises of the table it writes, whatever happens *)
(* to the processes writing it: the durable finalized heights form an      *)
(* interval from genesis, each with its canonical block durably stored,    *)
(* and nothing durable is ever lost. A commit may add stored blocks and    *)
(* finalized heights at once, or nothing.                                  *)
(***************************************************************************)
EXTENDS Integers

CONSTANTS GenesisNum, MaxBlock

VARIABLES
    irr,   \* heights durably finalized (UpdateNowIrreversibleBlock, flushed)
    put    \* blocks durably stored (PutBlock, flushed)

table == <<irr, put>>

TableHeights == GenesisNum..MaxBlock
TableBlocks == [num : TableHeights, canon : BOOLEAN]

\* Finalized from genesis without a gap, each height with its block.
Consistent(I, P) ==
    /\ I = {} \/ \E m \in TableHeights : I = GenesisNum..m
    /\ P \subseteq TableBlocks
    /\ \A h \in I : [num |-> h, canon |-> TRUE] \in P

TableInit == Consistent(irr, put)

\* A flush: the table grows and stays consistent.
Commit ==
    /\ irr \subseteq irr' /\ put \subseteq put'
    /\ Consistent(irr', put')

TableSpec == TableInit /\ [][Commit]_table

=============================================================================
