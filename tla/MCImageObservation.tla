-------------------------- MODULE MCImageObservation --------------------------
(* Two images, under other IDs in a second inventory, or one image twice.  *)
EXTENDS ImageObservation
Spec1(i, r) == [id |-> i, ref |-> r]
MCInventories == {<<Spec1(2, "a"), Spec1(1, "b")>>, <<Spec1(1, "a")>>,
                  <<Spec1(1, "b"), Spec1(2, "b"), Spec1(3, "a")>>}
=============================================================================
