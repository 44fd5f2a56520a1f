------------------------------ MODULE IndexRange ------------------------------
(***************************************************************************)
(* What the generate-callto-index tool promises of the two indexes it      *)
(* fills: once the stores are open, it indexes one height at a time, each  *)
(* only when every height from the start argument below it is already      *)
(* indexed, and it returns cleanly only when the whole range from the      *)
(* start argument to the stop block is indexed. The irreversible index is  *)
(* held to the same when the tool creates those indexes, and is left       *)
(* alone otherwise.                                                        *)
(***************************************************************************)
EXTENDS Integers

VARIABLES
    from,      \* the start argument
    to,        \* the stop block (0: none)
    withIrr,   \* the tool also creates irreversible indexes
    acc,       \* heights in the account index (its files or its indexer)
    irr,       \* heights in the irreversible index
    stage      \* "closed" until the stores are open, then "open", "finished"

range == <<from, to, withIrr, acc, irr, stage>>

RangeInit == acc = {} /\ irr = {} /\ stage = "closed"

\* The stores are opened with whatever they already hold.
Open ==
    /\ stage = "closed" /\ stage' = "open"
    /\ acc' \subseteq Nat /\ irr' \subseteq Nat
    /\ UNCHANGED <<from, to, withIrr>>

\* One height is indexed, with no gap below it from the start argument.
Add ==
    /\ stage = "open"
    /\ \E h \in acc' :
          /\ from..(h - 1) \subseteq acc
          /\ acc' = acc \cup {h}
          /\ IF withIrr THEN from..(h - 1) \subseteq irr /\ irr' = irr \cup {h}
                        ELSE irr' = irr
    /\ UNCHANGED <<from, to, withIrr, stage>>

\* A clean return after the stop block, with the whole range indexed.
Finish ==
    /\ stage = "open" /\ to # 0 /\ stage' = "finished"
    /\ from..to \subseteq acc
    /\ withIrr => from..to \subseteq irr
    /\ UNCHANGED <<from, to, withIrr, acc, irr>>

RangeNext == Open \/ Add \/ Finish

RangeSpec == RangeInit /\ [][RangeNext]_range

=============================================================================
