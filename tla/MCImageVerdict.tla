---------------------------- MODULE MCImageVerdict ----------------------------
(* Images of one platform and of two, which may have one name, and policies *)
(* of one rule or a few.                                                   *)
EXTENDS ImageVerdict

\* "amd2" is another image for the platform of "amd".
MCNames == [d \in {"top", "amd", "amd2", "arm"} |->
               CASE d = "top" -> 0 [] d \in {"amd", "amd2"} -> 1 [] d = "arm" -> 2]

Holds(signature, rebase, recipe, sbom, scan) ==
    [signature |-> signature, provenance |-> "missing", rebase |-> rebase,
     recipe |-> recipe, tests |-> "missing", sbom |-> sbom, scan |-> scan]
Clean == [readable |-> TRUE, found |-> FALSE, fixed |-> FALSE,
          suppressed |-> FALSE, at |-> "recent"]
Scans == {s \in [readable : BOOLEAN, found : BOOLEAN, fixed : BOOLEAN,
                 suppressed : BOOLEAN, at : {"recent", "old", "unknown"}] :
             /\ ~s.found => ~s.fixed /\ ~s.suppressed
             /\ ~s.readable => s = [Clean EXCEPT !.readable = FALSE]}

\* An image of one platform that was built from a verified recipe.
Plain == [observed |-> TRUE, children |-> <<"top">>, smokeTest |-> TRUE,
          base |-> "root", rebuild |-> "reproduced", attested |-> "none",
          held |-> [d \in DOMAIN MCNames |->
              Holds("verified", "missing", "verified", "verified", "verified")],
          scan |-> [d \in DOMAIN MCNames |-> Clean]]
Index == [Plain EXCEPT !.children = <<"amd", "arm">>,
                       !.held["top"]["sbom"] = "missing",
                       !.held["top"]["scan"] = "missing"]
Twin == [Index EXCEPT !.children = <<"amd", "amd2">>]
Unread == [Plain EXCEPT !.observed = FALSE, !.base = "none"]

\* Images with the scans their platforms may have been given.
ScanOf(i, d, status, scan) ==
    [i EXCEPT !.held[d]["scan"] = status, !.scan[d] = scan]
Scanned(i, d) ==
    {ScanOf(i, d, "verified", s) : s \in Scans} \cup
    {ScanOf(i, d, h, Clean) : h \in Held}
EveryScan == Scanned(Plain, "top") \cup
             UNION {Scanned(i, "arm") : i \in Scanned(Index, "amd")} \cup
             UNION {Scanned(i, "amd2") : i \in Scanned(Twin, "amd")}
ScanImages ==
              {Unread, [Index EXCEPT !.children = <<>>]} \cup
              EveryScan \cup
              {[i EXCEPT !.held["top"] =
                   Holds(h, "present", "missing", "missing", "missing")] :
                 i \in Scanned(Index, "arm"), h \in Held}

\* Images with the evidence they may have been given, and base drift.
Bases == {"root", "current", "far behind", "undated", "unknown", "none"}
FaultImages ==
    {[i EXCEPT !.held["top"] = Holds(h, rebase, recipe, "missing", "missing"),
               !.held["arm"]["sbom"] = sbom, !.base = base] :
        i \in Scanned(Index, "amd"), h \in Held, rebase \in Held \ {"present"},
        recipe \in Held \ {"present"}, sbom \in {"verified", "missing"},
        base \in {"root", "far behind"}}
BaseImages == {[i EXCEPT !.base = b, !.rebuild = r, !.attested = a] :
                 i \in {Plain, Index, [Index EXCEPT !.held["top"]["rebase"]
                                           = "failed"]},
                 b \in Bases, a \in {"none", "recipe", "rebase"},
                 r \in {"reproduced", "not-reproduced", "not-checked"}}

Open == [required |-> {}, failOn |-> FALSE, onlyFixed |-> FALSE,
         maxScanAge |-> FALSE, maxDaysBehind |-> FALSE, reproduce |-> FALSE,
         hasSigners |-> TRUE]
FailOn == [Open EXCEPT !.failOn = TRUE]
Fixable == [FailOn EXCEPT !.onlyFixed = TRUE]
Reproduce == [Open EXCEPT !.reproduce = TRUE]
ScanPolicies ==
    {Open, FailOn, Fixable, [Open EXCEPT !.maxScanAge = TRUE],
     [Fixable EXCEPT !.maxScanAge = TRUE],
     [FailOn EXCEPT !.required = {"signature", "scan", "recipe"}],
     [Open EXCEPT !.hasSigners = FALSE]}
FaultPolicies ==
    {FailOn, [Open EXCEPT !.required = {"signature", "sbom"}],
     [Open EXCEPT !.required = {"recipe", "rebase", "tests"}],
     [FailOn EXCEPT !.required = {"scan"}, !.maxDaysBehind = TRUE]}
DriftPolicies == {[Open EXCEPT !.maxDaysBehind = TRUE], Reproduce,
                  [Reproduce EXCEPT !.maxDaysBehind = TRUE]}

MCImages == ScanImages \cup BaseImages \cup FaultImages
MCPolicies == ScanPolicies \cup DriftPolicies \cup FaultPolicies

=============================================================================
