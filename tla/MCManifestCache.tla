---------------------------- MODULE MCManifestCache ---------------------------
(* An index and the image it lists: asked for images only, a registry serves *)
(* the image for a tag that names the index.                                *)
EXTENDS ManifestCache, TLC
MCServed == [d \in Digests |->
                [a \in {"any", "image"} |->
                    IF d = "index" /\ a = "image" THEN "image" ELSE d]]
\* The goroutines run the same code.
MCSymmetry == Permutations(Clients)
=============================================================================
