----------------------------- MODULE MCReferrers ------------------------------
(* One class for every way evidence is stored and listed.                    *)
EXTENDS Referrers, TLC

Stored(place, listedAs, holds, predicate, kind) ==
    [place |-> place, listedAs |-> listedAs, holds |-> holds,
     predicate |-> predicate, annotation |-> "", kind |-> kind]
MCForm ==
    [ours |-> Stored("referrer", "evidence", "evidence", "", ""),
     more |-> Stored("referrer", "evidence", "evidence", "", ""),
     scan |-> Stored("referrer", "empty", "bundle", "vulnerabilityScan",
                     "vulnerabilityScan"),
     sbom |-> Stored("referrer", "sbom", "document", "spdx", "sbom"),
     untyped |-> Stored("referrer", "", "document", "", ""),
     garbage |-> Stored("referrer", "bundle", "garbage", "", ""),
     signature |-> Stored(".sig", "", "signature", "signature", "signature"),
     recipe |-> [Stored(".att", "", "bundle", "legacyRecipe", "recipe")
                    EXCEPT !.annotation = "other"]]

MCBefore == {{}, {"ours", "more"}, {"ours", "scan"}}
Commands == Permutations(Clients)
===============================================================================
