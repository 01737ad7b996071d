--------------------------- MODULE MCEstateHistory ---------------------------
EXTENDS EstateHistory

\* Three snapshots; 2 and 3 were generated before 1, so pushing them after it
\* is a backfill, and 2 and 3 record the same time, so their digests decide.
MCSnapshots == 1..3
MCGeneratedAt == <<2, 1, 1>>

\* Pushes one at a time with failed writes; pushes that overlap, with a failed
\* read and a failed write.
MCCircumstances == {[serial |-> TRUE, reads |-> 0, writes |-> 2],
                    [serial |-> FALSE, reads |-> 1, writes |-> 1]}

\* Pushes one at a time with one failed read.
MCFailedRead == {[serial |-> TRUE, reads |-> 1, writes |-> 0]}

PusherSymmetry == Permutations(Pushers)
=============================================================================
