---------------------------- MODULE RegistryAccess ----------------------------
(***************************************************************************)
(* RegistryClient and those who use it: the command check, the digest that *)
(* analyze looks up first, and get_referrers with its fallback.  A request *)
(* is made with the token the client has; a 401 makes it authenticate and  *)
(* ask once more.                                                          *)
(***************************************************************************)
EXTENDS ImageReference, Credentials

CONSTANTS
    HubAliases,   \* the hosts that count as Docker Hub when credentials are looked up
    Invocations,  \* what is written, and what the places for credentials hold
    Services,     \* how the registry challenges, and who may read the image
    MaxCalls,     \* bound: the calls of one client
    MaxFaults     \* bound: the requests that time out or fail with 429, 500, ...

Expired == "expired"
Foreign == "foreign"    \* a token of Docker Hub at another registry

ASSUME InvocationsAssumption ==
    \A i \in Invocations :
        /\ Writable(i.url)
        /\ i.offers \in [{Places[n] : n \in DOMAIN Places} -> Seq(Pairs \union {Half})]
ASSUME ServicesAssumption ==
    \A s \in Services : /\ s.challenge \in {"none", "bearer", "basic"}
                        /\ s.readers \subseteq Pairs \union {Anonymous}
ASSUME TokensAssumption == {None, Expired, Foreign} \intersect (Pairs \union {Anonymous}) = {}
ASSUME OutcomesAssumption ==
    None \notin {"check", "digest", "referrers", "exit 0", "exit 1", "no referrers"}
ASSUME BoundsAssumption == MaxCalls \in Nat /\ MaxFaults \in Nat

VARIABLES
    invocation,   \* [url, offers]
    service,      \* [challenge, readers]
    content,      \* [image, api, fallback]: is there an image; its referrers
    at,           \* where the client is
    call,         \* the call in progress or the last one
    path,         \* get_referrers: the path that is tried
    token,        \* None, Expired, Foreign, or for whom it was issued
    outcome,      \* what the call returned, or that it raised
    calls, faults

worldVars == <<invocation, service, content>>
vars == <<worldVars, at, call, path, token, outcome, calls, faults>>

ref == Parsed(invocation.url)
pair == Resolved(invocation.offers, ref.registry \in HubAliases)

\* What the user means: the host and port as they are written, a name without a
\* host on Docker Hub.
Meant(u) ==
    LET page == u.form = "page"
        path1 == IF page /\ Len(u.path) > 1 /\ Head(u.path) = "r" THEN Tail(u.path) ELSE u.path
        hub == page \/ u.host = None
    IN [registry |-> IF hub THEN Hub ELSE u.host, port |-> u.port,
        repository |->
            IF page /\ Len(path1) > 1 /\ Head(path1) = "_" THEN <<"library">> \o Tail(path1)
            ELSE IF hub /\ Len(path1) = 1 THEN <<"library">> \o path1
            ELSE path1,
        suffix |-> None, reference |-> Reference(u)]

Init ==
    /\ invocation \in Invocations /\ service \in Services
    /\ content \in [image : BOOLEAN, api : {"absent", "none", "some"}, fallback : BOOLEAN]
    /\ at = "ready" /\ call = None /\ path = 1 /\ token = None /\ outcome = None
    /\ calls = 0 /\ faults = 0

\* check makes one call; the other two are made by a client that goes on.
Start(c) ==
    /\ at = "ready" /\ calls < MaxCalls /\ call # "check"
    /\ c = "check" => calls = 0
    /\ call' = c /\ path' = 1 /\ outcome' = None /\ calls' = calls + 1
    /\ at' = IF ref = Invalid THEN "invalid" ELSE "ask"
    /\ UNCHANGED <<worldVars, token, faults>>

\* A token lives for minutes: longer than from its issue to the retry.
Expire ==
    /\ at = "ready" /\ token \notin {None, Expired}
    /\ token' = Expired
    /\ UNCHANGED <<worldVars, at, call, path, outcome, calls, faults>>

-----------------------------------------------------------------------------
(* The registry.                                                           *)

Exists ==
    /\ ref = Meant(invocation.url)
    /\ call # "referrers" => content.image
    /\ call = "referrers" /\ path = 1 => content.api # "absent"
    /\ call = "referrers" /\ path = 2 => content.fallback

Admitted == service.challenge = "none" \/ token \in service.readers

\* The status of a response; a request that fails takes a fault from the bound.
Status == IF ~Admitted THEN 401 ELSE IF Exists THEN 200 ELSE 404

Answered(status) ==
    \/ status = Status /\ UNCHANGED faults
    \/ status \in {429, 500} /\ faults < MaxFaults /\ faults' = faults + 1

TimesOut == faults < MaxFaults /\ faults' = faults + 1

-----------------------------------------------------------------------------
(* The client.                                                             *)

Return(o) == outcome' = o /\ at' = "ready" /\ UNCHANGED <<call, path, token, calls>>

\* Mutant: a list that cannot be had is a list that is not there.
Unavailable(status) == status # 200
NotFound(status) == status = 404

\* A response that is not answered by authentication.
Settle(status) ==
    \/ call = "check" /\ Return(IF status = 200 THEN "exit 0" ELSE "exit 1")
    \/ call = "digest" /\ Return(IF status = 200 THEN "digest" ELSE "tag")
    \/ /\ call = "referrers" /\ NotFound(status) /\ path = 1
       /\ path' = 2 /\ at' = "ask"
       /\ UNCHANGED <<call, token, outcome, calls>>
    \/ /\ call = "referrers" /\ NotFound(status) /\ path = 2
       /\ Return("no referrers")
    \/ /\ call = "referrers" /\ ~NotFound(status)
       /\ Return(IF status # 200 THEN "raised"
                 ELSE IF path = 1 /\ content.api = "none" THEN "no referrers" ELSE "referrers")

\* Every exception ends check with 1, and makes analyze use the tag.
Raised ==
    Return(CASE call = "check" -> "exit 1" [] call = "digest" -> "tag" [] OTHER -> "raised")

Ask ==
    /\ at = "ask"
    /\ \/ \E status \in {200, 401, 404, 429, 500} :
             /\ Answered(status)
             /\ \/ status # 401 /\ Settle(status)
                \/ /\ status = 401 /\ at' = "authenticate"
                   /\ UNCHANGED <<call, path, token, outcome, calls>>
       \/ TimesOut /\ Raised
    /\ UNCHANGED worldVars

Issue(t) == token' = t /\ at' = "again" /\ UNCHANGED <<call, path, outcome, calls>>

\* The token service refuses a pair it does not know.  A challenge that is not
\* Bearer has no realm, so Docker Hub is asked, which knows none of the pairs; an
\* answer may come without a token.
Authenticate ==
    /\ at = "authenticate"
    /\ \/ /\ service.challenge = "bearer" /\ pair \in service.readers \union {Anonymous}
          /\ Issue(pair) /\ UNCHANGED faults
       \/ /\ service.challenge = "basic" /\ pair = Anonymous
          /\ Issue(Foreign) /\ UNCHANGED faults
       \/ /\ pair \notin {Anonymous} \union
                         IF service.challenge = "bearer" THEN service.readers ELSE {}
          /\ Raised /\ UNCHANGED faults
       \/ TimesOut /\ (Raised \/ Issue(None))
    /\ UNCHANGED worldVars

Again ==
    /\ at = "again"
    /\ \/ \E status \in {200, 401, 404, 429, 500} : Answered(status) /\ Settle(status)
       \/ TimesOut /\ Raised
    /\ UNCHANGED worldVars

\* A reference that cannot be parsed ends the command.
Refuse ==
    /\ at = "invalid"
    /\ Raised
    /\ UNCHANGED <<worldVars, faults>>

Next ==
    \/ \E c \in {"check", "digest", "referrers"} : Start(c)
    \/ Expire \/ Ask \/ Authenticate \/ Again \/ Refuse

Spec == Init /\ [][Next]_vars

-----------------------------------------------------------------------------

\* The forms the docstring of parse_image_url lists, and a port where there is a
\* tag or a digest too.
WellNamed(u) ==
    /\ u.host # None => u.host \in Dotted \/ u.port
    /\ u.port => u.form = "bare" /\ (u.tag # None \/ u.digest # None)
    /\ u.tag = None \/ u.digest = None
    /\ u.form = "page" => u.digest = None
    /\ u.path # <<>>

\* The complete pair that is asked for: that of the first place that has one,
\* unless an --auth option for the registry comes without one.
Complete(place, offers) ==
    {n \in DOMAIN offers :
        /\ offers[n] \in Pairs
        /\ place \in {"--auth", "DOCKER_AUTH_CONFIG", "config.json"} => n = 1}
Intended(i) ==
    LET o == i.offers
        onHub == Meant(i.url).registry \in HubAliases
        Has(k) == /\ Places[k] = "DOCKER_HUB_*" => onHub
                  /\ Complete(Places[k], o[Places[k]]) # {}
    IN {x \in Pairs :
           /\ o["--auth"] = <<>> \/ Head(o["--auth"]) # Half
           /\ \E k \in DOMAIN Places : \E n \in Complete(Places[k], o[Places[k]]) :
                 /\ Has(k) /\ \A j \in 1 .. k - 1 : ~Has(j)
                 /\ o[Places[k]][n] = x
                 /\ \A m \in Complete(Places[k], o[Places[k]]) : n <= m}

\* The image is there, and whom the user asks as may read it.
Readable ==
    /\ content.image
    /\ \/ service.challenge = "none"
       \/ Intended(invocation) \intersect service.readers # {}
       \/ Intended(invocation) = {} /\ Anonymous \in service.readers

\* Whatever fails on the way (429, 500, a timeout, a token service that answers
\* without a token), check exits with 0 only if the image can be read, by whom the
\* user asks as; and with 1 of an image that can be read only if a request failed or
\* the registry issues no tokens.
CheckTellsTheTruth ==
    WellNamed(invocation.url) =>
        /\ outcome = "exit 0" => Readable
        /\ outcome = "exit 1" /\ Readable => faults > 0 \/ service.challenge = "basic"

\* Whatever fails, and whatever became of the token since the call before,
\* get_referrers says that there are none only if the API says so, or neither the
\* API nor the fallback tag is there.
ReferrersTold ==
    outcome = "no referrers" /\ WellNamed(invocation.url) =>
        content.api = "none" \/ (content.api = "absent" /\ ~content.fallback)
=============================================================================
