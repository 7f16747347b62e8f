--------------------------- MODULE MCRegistryAccess ---------------------------
(***************************************************************************)
(* Instances of RegistryAccess for TLC: every way of writing an image, and *)
(* credentials at one or two places.                                       *)
(***************************************************************************)
EXTENDS RegistryAccess, TLC

Name(segments) ==
    [form |-> "bare", host |-> None, port |-> FALSE, path |-> segments, tag |-> None,
     digest |-> None]
Private == [Name(<<"img">>) EXCEPT !.host = "reg.io"]
Alias == [Name(<<"library", "nginx">>) EXCEPT !.host = "docker.io"]
Local == [Name(<<"img">>) EXCEPT !.host = "localhost", !.port = TRUE]

Urls ==
    {Name(<<"nginx">>), [Name(<<"org", "img">>) EXCEPT !.tag = "v1"],
     [Name(<<"nginx">>) EXCEPT !.tag = "v1", !.digest = "sha256"],
     Private, [Private EXCEPT !.digest = "sha256"], [Private EXCEPT !.form = "full"],
     [Private EXCEPT !.form = "full", !.port = TRUE], [Private EXCEPT !.form = "full", !.path = <<>>],
     Alias, [Alias EXCEPT !.form = "full"],
     Local, [Local EXCEPT !.tag = "v1"], [Local EXCEPT !.port = FALSE],
     [Local EXCEPT !.digest = "sha256"],
     [Name(<<"r", "org", "img">>) EXCEPT !.form = "page"],
     [Name(<<"_", "nginx">>) EXCEPT !.form = "page", !.tag = "v1"],
     [Name(<<"nginx">>) EXCEPT !.form = "page", !.digest = "sha256"]}

MCHubAliases == {Hub, "docker.io", "index.docker.io"}

NoOffers == [p \in {Places[i] : i \in DOMAIN Places} |-> <<>>]
Better == {<<Half>>, <<Half, "good">>, <<"bad">>, <<"good", "bad">>}
Offers == {NoOffers} \union
    {[NoOffers EXCEPT ![q] = <<"good">>, ![p] = x] : p, q \in DOMAIN NoOffers, x \in Better}

MCInvocations ==
    {[url |-> u, offers |-> [NoOffers EXCEPT !["REGIS_*"] = <<"good">>]] : u \in Urls}
    \union {[url |-> u, offers |-> o] : u \in {Name(<<"nginx">>), Private, Alias}, o \in Offers}

MCServices ==
    {[challenge |-> "none", readers |-> {}],
     [challenge |-> "bearer", readers |-> {Anonymous, "good"}],
     [challenge |-> "bearer", readers |-> {"good"}],
     [challenge |-> "basic", readers |-> {"good"}]}
=============================================================================
