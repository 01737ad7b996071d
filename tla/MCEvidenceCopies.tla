--------------------------- MODULE MCEvidenceCopies ---------------------------
(* A small policy and the copies that can tell its signers apart: s trusts  *)
(* a workflow wherever it runs, t only where the image's source is; cosign's *)
(* flags cannot say where, so t's flags accept more than t does.            *)
EXTENDS EvidenceCopies

MCCerts == {"a", "b", "elsewhere"}
MCKeys == {"key1", "key2"}
MCKeyless == {"s", "t", "wildcard"}
MCContents == {1, 2}
MCScanTime == [c \in MCContents |-> c]
MCFlagIdentities ==
    [s \in MCKeyless |-> IF s = "s" THEN {"a", "elsewhere"} ELSE MCCerts]
MCAccepts ==
    [s \in MCKeyless |-> CASE s = "s" -> {"a", "elsewhere"}
                           [] s = "t" -> {"b"}
                           [] OTHER -> MCCerts]
MCConstrained == {"t"}
MCFromElsewhere == {"elsewhere"}
MCRefused == {"wildcard"}

Raw == [raw |-> TRUE, cert |-> "none", by |-> "nobody", content |-> 1]
MCCopyOptions ==
    {Raw} \cup
    {c \in [raw : {FALSE}, cert : MCCerts \cup {"none"},
            by : MCCerts \cup MCKeys \cup {"nobody"}, content : MCContents] :
        /\ c.by \in MCCerts => c.cert = c.by
        /\ c.by \in MCKeys => c.cert = "none"}

MCSignerLists ==
    {<<>>, <<"s">>, <<"s", "t">>, <<"t", "key1">>, <<"key1", "key2">>,
     <<"s", "wildcard">>}
=============================================================================
