---------------------------- MODULE MCEstateBases -----------------------------
(* Two upstream versions and a mirror of the first, run images on them, and  *)
(* apps: what each is built on and what it says it is built on may differ.   *)
(* One run image is built on an app, whose builder names another run image.  *)
EXTENDS EstateBases

Nowhere == [repo |-> NoRepo, digest |-> NoDigest]
At(r, d) == [repo |-> r, digest |-> d]
NoRun == [digest |-> NoDigest, top |-> NoLayer]

Plain(r, d, layers, created) ==
    [repo |-> r, digest |-> d, layers |-> layers, created |-> created,
     label |-> Nowhere, annotation |-> Nowhere, run |-> NoRun,
     mentions |-> {}, pin |-> Nowhere]

Upstream == 1
Mirror == 2
Run == 3
App == 4

MCImage == <<
    Plain(Upstream, 1, <<1>>, 2),
    Plain(Upstream, 2, <<2>>, 1),
    Plain(Mirror, 1, <<1>>, 2),
    [Plain(Mirror, 3, <<1>>, 0) EXCEPT !.annotation = At(Upstream, 1)],
    [Plain(Run, 4, <<1, 3>>, 2) EXCEPT !.label = At(Mirror, NoDigest)],
    Plain(Run, 5, <<5, 7>>, 0),
    [Plain(App, 6, <<1, 3, 4>>, 3) EXCEPT !.mentions = {Mirror},
                                          !.annotation = At(Upstream, 2)],
    [Plain(App, 7, <<5>>, 3) EXCEPT !.run = [digest |-> NoDigest, top |-> 3],
                                    !.annotation = At(Run, 4)],
    [Plain(App, 8, <<2, 6>>, 3) EXCEPT !.label = At(Run, 5),
                                       !.pin = At(Upstream, 2)] >>

Levels == {"read", "unread", "nothing"}
MCEstates ==
    {e \in UNION {[s -> Levels] : s \in UNION {kSubset(k, 1..9) : k \in 1..3}} :
        Cardinality({i \in DOMAIN e : e[i] # "read"}) <= 1}
MCOptions == {Unnamed, [named |-> {Upstream, Run}, minimum |-> 1]}
\* The upstream tag may have moved on.
MCTags == {<<1, 3, 5, 9>>, <<2, 3, 5, 9>>}
=============================================================================
