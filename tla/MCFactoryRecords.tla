--------------------------- MODULE MCFactoryRecords ---------------------------
(* An app, its rebase, the rebase of that, and an image elsewhere: which of  *)
(* them carry which records, and where those lead, varies.                   *)
EXTENDS FactoryRecords

Missing == [status |-> "missing", readable |-> FALSE, id |-> "none",
            stack |-> NoStack, from |-> NoImage]
Recipes(i, stacks) == {Missing} \cup
    {[status |-> s, readable |-> r, id |-> <<i, "recipe">>, stack |-> v,
      from |-> NoImage] : s \in {"verified", "present"}, r \in BOOLEAN,
                          v \in stacks}
Rebases(i, origins) == {Missing} \cup
    {[status |-> s, readable |-> r, id |-> <<i, "rebase">>, stack |-> NoStack,
      from |-> o] : s \in {"verified", "present"}, r \in BOOLEAN, o \in origins}

Attestation(i, kind) ==
    [status |-> "verified", about |-> {i}, gave |-> i, names |-> i,
     from |-> <<i, kind>>, fromType |-> kind, method |-> Method[kind], at |-> 1]
Attestations(i) ==
    {{}, {Attestation(i, "recipe")},
     {Attestation(i, "rebase"), [Attestation(i, "recipe") EXCEPT !.at = 2]},
     {[Attestation(i, "recipe") EXCEPT !.status = "present"],
      [Attestation(i, "rebase") EXCEPT !.about = {i, "app"}]},
     {[Attestation(i, "recipe") EXCEPT !.method = Method["rebase"]],
      [Attestation(i, "recipe") EXCEPT !.fromType = "rebase"]},
     {Attestation(i, "rebase"),
      [Attestation(i, "recipe") EXCEPT !.gave = "app", !.at = 2]},
     {[Attestation(i, "recipe") EXCEPT !.gave = "app", !.names = "app"]},
     {[Attestation(i, "rebase") EXCEPT !.from = <<"app", "recipe">>]}}

Carrying(recipe, rebase, attests) ==
    [recipe |-> recipe, rebase |-> rebase, attests |-> attests]
Good(records) == CHOOSE x \in records : x.status = "verified" /\ x.readable

\* Every chain of records, then every set of attestations.
Chains ==
    {[app |-> Carrying(a, Missing, {}), rebased |-> Carrying(r, b, {}),
      again |-> Carrying(Missing, c, {})] :
        a \in Recipes("app", {"v1"}), r \in Recipes("rebased", {"v2"}),
        b \in Rebases("rebased", {"app", "again"}),
        c \in {Good(Rebases("again", {"rebased"})),
               Good(Rebases("again", {"again"}))}}
Attested ==
    {[app |-> Carrying(Good(Recipes("app", {"v1"})), Missing, {}),
      rebased |-> Carrying(Missing, Missing, {}),
      again |-> Carrying(n, c, t)] :
        n \in Recipes("again", {"v2"}), c \in Rebases("again", {"app"}),
        t \in Attestations("again")}
MCHeld == Chains \cup Attested
===============================================================================
