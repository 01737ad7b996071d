------------------------------ MODULE AppendLog ------------------------------
(***************************************************************************)
(* What a reader of a kept series expects of it: items are added, an item  *)
(* whose addition was reported stays, and nothing is ever taken out.       *)
(* EstateHistory is checked against this module.                           *)
(***************************************************************************)
CONSTANT Items          \* what may be added to the series

VARIABLES
    log,                \* the items in the series
    acked               \* the items some writer was told are in the series

vars == <<log, acked>>

TypeOK ==
    /\ log \in SUBSET Items
    /\ acked \in SUBSET Items

Init ==
    /\ log = {}
    /\ acked = {}

\* An item is added and nobody hears of it: the answer was lost.
Record(item) ==
    /\ log' = log \cup {item}
    /\ UNCHANGED acked

\* An item is in the series, new or not, and its writer is told so.
Acknowledge(item) ==
    /\ log' = log \cup {item}
    /\ acked' = acked \cup {item}

Next == \E item \in Items : Record(item) \/ Acknowledge(item)

Spec == Init /\ [][Next]_vars
=============================================================================
