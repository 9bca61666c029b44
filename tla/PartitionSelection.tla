------------------------- MODULE PartitionSelection -------------------------
(***************************************************************************)
(* What the partition select of the topic meta page promises (spec 3 and   *)
(* 4.2): it starts empty, is filled once with the partitions of a page of  *)
(* meta rows with the first of them selected, and from then on only the    *)
(* operator changes the selection, to one of the offered partitions.       *)
(***************************************************************************)
EXTENDS Sequences, SequencesExt

CONSTANTS
    Columns,       \* the partition columns a meta page can show
    NoSelection    \* the select holds no value

VARIABLES
    options,       \* the partitions offered, in order
    selected       \* the partition selected

vars == <<options, selected>>

Init ==
    /\ options = <<>>
    /\ selected = NoSelection

\* The select is filled, once, from a meta page; its first entry is chosen.
Offer(c) ==
    /\ options = <<>>
    /\ options' = c
    /\ selected' = Head(c)

\* The operator picks one of the offered partitions.
Choose(p) ==
    /\ p \in ToSet(options)
    /\ selected' = p
    /\ UNCHANGED options

Next ==
    \/ \E c \in Columns : Offer(c)
    \/ \E p \in ToSet(options) : Choose(p)

Spec == Init /\ [][Next]_vars

====
