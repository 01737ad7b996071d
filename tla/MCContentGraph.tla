---------------------------- MODULE MCContentGraph ----------------------------
(* Two repositories whose images end in the same name, and three releases.   *)
EXTENDS ContentGraph

MCRepositories == <<[path |-> "a/app", base |-> "app"],
                    [path |-> "b/app", base |-> "app"]>>
MCTagNames == <<"1", "2", "latest", "sha256-1.att">>
MCSanitized == [app |-> <<"app">>, latest |-> <<"latest">>] @@
               ("1" :> <<"1">> @@ "2" :> <<"2">> @@ "app-2" :> <<"app", "2">> @@
                "sha256-1.att" :> <<"sha256", "1", "att">>)
MCWords == <<"1", "2", "app">>
Version(content, tags) == [content |-> content, tags |-> tags]
MCPublished ==
    {<<<<Version("c1", {3}), Version("c2", {2}), Version("c3", {1}),
         Version("c4", {4})>>,
       <<Version("c2", {3})>>>>,
     <<<<Version("c3", {1, 3})>>,
       <<Version("c2", {2}), Version("c1", {3})>>>>}

\* Three repositories with one image each, all of them latest.
MCNumbered == <<[path |-> "a/app", base |-> "app"],
                [path |-> "b/app", base |-> "app"],
                [path |-> "c/app-2", base |-> "app-2"]>>
MCLatest == {<<<<Version("c1", {3})>>, <<Version("c2", {3})>>, <<Version("c3", {3})>>>>}

MCLayers == [c1 |-> {1, 2, 3, 4}, c2 |-> {1, 2}, c3 |-> {1, 3, 4}, c4 |-> {}]
MCRecorded == [c1 |-> {}, c2 |-> {}, c3 |-> {1, 4}, c4 |-> {}]
MCAttached == [c1 |-> <<{1, 2}, {2, 3}>>, c2 |-> <<{1, 4, 9}>>, c3 |-> <<>>,
               c4 |-> <<>>]
===============================================================================
