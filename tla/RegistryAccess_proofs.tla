------------------------ MODULE RegistryAccess_proofs ------------------------
(***************************************************************************)
(* Proofs about RegistryAccess.  That parse_image_url and                  *)
(* resolve_credentials find what the user means is proved once, for every  *)
(* reference and every offer, and then of every run of a client: what      *)
(* get_referrers and check conclude from the answers of the registry.      *)
(***************************************************************************)
EXTENDS RegistryAccess, TLAPS, SequenceTheorems, NaturalsInduction, WellFoundedInduction

-----------------------------------------------------------------------------
(* parse_image_url.                                                        *)

LEMMA TailNotEmpty ==
    ASSUME NEW S, NEW s \in Seq(S), Len(s) > 1
    PROVE  Tail(s) # <<>>
  <1>1. s # <<>> /\ Len(s) \in Nat
    BY EmptySeq
  <1>2. Len(Tail(s)) = Len(s) - 1
    BY <1>1, HeadTailProperties
  <1>3. Len(<<>>) = 0
    BY EmptySeq
  <1>4. Len(Tail(s)) # Len(<<>>)
    BY <1>1, <1>2, <1>3
  <1> QED
    BY <1>4, Zenon

\* A reference of a form that the docstring lists is parsed as it is meant.
LEMMA ParsedAsMeant ==
    ASSUME NEW u, Writable(u), WellNamed(u)
    PROVE  Parsed(u) = Meant(u) /\ Parsed(u) # Invalid
  <1>1. CASE u.form = "bare"
    <2>1. CASE u.host = None
      <3>1. u.port = FALSE
        BY <2>1 DEF Writable
      <3>2. Parsed(u) = [registry |-> Hub, port |-> FALSE, repository |-> OnHub(u.path),
                         suffix |-> None, reference |-> Reference(u)]
        BY <1>1, <2>1, <3>1 DEF Parsed, Bare, PortTaken, Suffix, WellNamed
      <3> QED
        <4>1. Meant(u) = [registry |-> Hub, port |-> FALSE,
                          repository |-> IF Len(u.path) = 1 THEN <<"library">> \o u.path ELSE u.path,
                          suffix |-> None, reference |-> Reference(u)]
          BY <1>1, <2>1, <3>1 DEF Meant
        <4>2. Parsed(u).registry = Hub /\ Invalid.registry = None
          BY <3>2 DEF Invalid
        <4> QED
          BY <3>2, <4>1, <4>2, HubAssumption DEF OnHub
    <2>2. CASE u.host # None
      <3>1. Parsed(u) = [registry |-> u.host, port |-> u.port, repository |-> u.path,
                         suffix |-> None, reference |-> Reference(u)]
        BY <1>1, <2>2 DEF Parsed, Bare, PortTaken, LooksLikeHost, Suffix, WellNamed
      <3> QED
        <4>1. Meant(u) = [registry |-> u.host, port |-> u.port, repository |-> u.path,
                          suffix |-> None, reference |-> Reference(u)]
          BY <1>1, <2>2 DEF Meant
        <4>2. Parsed(u).registry = u.host /\ Invalid.registry = None
          BY <3>1 DEF Invalid
        <4> QED
          BY <2>2, <3>1, <4>1, <4>2
    <2> QED
      BY <2>1, <2>2
  <1>2. CASE u.form = "full"
    <2>1. u.host # None /\ u.port = FALSE /\ u.path # <<>>
      BY <1>2 DEF Writable, WellNamed
    <2>2. Parsed(u) = [registry |-> u.host, port |-> FALSE, repository |-> u.path,
                       suffix |-> None, reference |-> Reference(u)]
      BY <1>2, <2>1 DEF Parsed, Full, Suffix, WellNamed
    <2> QED
      <3>1. Meant(u) = [registry |-> u.host, port |-> FALSE, repository |-> u.path,
                        suffix |-> None, reference |-> Reference(u)]
        BY <1>2, <2>1 DEF Meant
      <3>2. Parsed(u).registry = u.host /\ Invalid.registry = None
        BY <2>2 DEF Invalid
      <3> QED
        BY <2>1, <2>2, <3>1, <3>2
  <1>3. CASE u.form = "page"
    <2> DEFINE named == IF Len(u.path) > 1 /\ Head(u.path) = "r" THEN Tail(u.path) ELSE u.path
    <2>1. u.port = FALSE /\ u.path # <<>> /\ u.digest = None
      BY <1>3 DEF Writable, WellNamed
    <2>2. named # <<>>
      <3>1. u.path \in Seq(STRING)
        BY DEF Writable
      <3>3. Len(u.path) > 1 => Tail(u.path) # <<>>
        BY <3>1, TailNotEmpty
      <3> QED
        BY <2>1, <3>3
    <2> HIDE DEF named
    <2>3. Parsed(u) = Page(u)
      BY <1>3 DEF Parsed
    <2> DEFINE repository == IF Len(named) > 1 /\ Head(named) = "_"
                               THEN <<"library">> \o Tail(named) ELSE OnHub(named)
    <2>4. Page(u) = [registry |-> Hub, port |-> FALSE, repository |-> repository,
                     suffix |-> None, reference |-> Reference(u)]
      BY <2>1, <2>2 DEF Page, named
    <2>5. Meant(u) = [registry |-> Hub, port |-> FALSE, repository |-> repository,
                      suffix |-> None, reference |-> Reference(u)]
      BY <1>3, <2>1 DEF Meant, OnHub, named
    <2> HIDE DEF repository
    <2>6. Page(u).registry = Hub /\ Invalid.registry = None
      BY <2>4 DEF Invalid
    <2> QED
      BY <2>3, <2>4, <2>5, <2>6, HubAssumption
  <1> QED
    BY <1>1, <1>2, <1>3 DEF Writable

-----------------------------------------------------------------------------
(* resolve_credentials.                                                    *)

\* The less-than relation of the naturals, as a set, is well founded.
LEMMA NatOrder == \E R : IsWellFoundedOn(R, Nat) /\ \A x, y \in Nat : <<x, y>> \in R <=> x < y
  <1> DEFINE R == OpToRel(<, Nat)
  <1>1. \A x, y \in Nat : <<x, y>> \in R <=> x < y
    BY Zenon DEF OpToRel
  <1>2. IsWellFoundedOn(R, Nat)
    BY NatLessThanWellFounded
  <1> HIDE DEF R
  <1> QED
    BY <1>1, <1>2

\* Among some positions there is a first one.
LEMMA FirstOf ==
    ASSUME NEW S \in SUBSET Nat, S # {}
    PROVE  \E n \in S : \A m \in S : n <= m
  <1>1. PICK R : IsWellFoundedOn(R, Nat) /\ \A x, y \in Nat : <<x, y>> \in R <=> x < y
    BY NatOrder
  <1>2. \E x \in S : \A y \in S : ~(<<y, x>> \in R)
    <2>1. S \subseteq Nat /\ S # {}
      OBVIOUS
    <2>2. IsWellFoundedOn(R, Nat)
      BY <1>1
    <2> HIDE <1>1
    <2> QED
      BY <2>1, <2>2, WFMin
  <1>3. \E x \in S : \A y \in S : ~(y < x)
    BY <1>1, <1>2, Zenon
  <1> QED
    BY <1>3

\* A place answers with its first complete pair that counts, if it has one.  On
\* the command line that holds unless half a pair stands first.
LEMMA AnswerIsComplete ==
    ASSUME NEW place, NEW offers \in Seq(Pairs \union {Half}),
           place = "--auth" => offers = <<>> \/ Head(offers) # Half
    PROVE  /\ Answer(place, offers) \in Pairs \union {Anonymous}
           /\ Answer(place, offers) = Anonymous <=> Complete(place, offers) = {}
           /\ \A n \in Complete(place, offers) :
                 (\A k \in Complete(place, offers) : n <= k) => offers[n] = Answer(place, offers)
  <1>0. /\ DOMAIN offers = 1 .. Len(offers) /\ Len(offers) \in Nat
        /\ \A n \in DOMAIN offers : offers[n] \in Pairs \union {Half}
    OBVIOUS
  <1>1. CASE place \in {"--auth", "DOCKER_AUTH_CONFIG", "config.json"}
    <2>1. CASE offers = <<>>
      <3>1. Complete(place, offers) = {}
        BY <2>1 DEF Complete
      <3>2. Answer(place, offers) = Anonymous
        BY <1>1, <2>1, PairsAssumption DEF Answer, FirstEntry
      <3> QED
        BY <3>1, <3>2
    <2>2. CASE offers # <<>>
      <3>1. 1 \in DOMAIN offers /\ Head(offers) = offers[1]
        BY <1>0, <2>2, EmptySeq
      <3>2. Complete(place, offers) = IF offers[1] \in Pairs THEN {1} ELSE {}
        BY <1>1, <3>1 DEF Complete
      <3>3. FirstEntry(offers) = offers[1]
        BY <2>2, <3>1 DEF FirstEntry
      <3>4. Answer(place, offers) = IF offers[1] \in Pairs THEN offers[1] ELSE Anonymous
        <4>1. CASE place = "--auth"
          <5>1. offers[1] \in Pairs
            BY <1>0, <2>2, <3>1, <4>1
          <5> QED
            BY <3>3, <4>1, <5>1 DEF Answer
        <4>2. CASE place # "--auth"
          BY <1>1, <3>3, <4>2 DEF Answer
        <4> QED
          BY <4>1, <4>2
      <3> QED
        BY <3>2, <3>4, PairsAssumption
    <2> QED
      BY <2>1, <2>2
  <1>2. CASE place \notin {"--auth", "DOCKER_AUTH_CONFIG", "config.json"}
    <2> DEFINE found == {i \in DOMAIN offers : offers[i] \in Pairs}
    <2>1. Complete(place, offers) = found
      BY <1>2 DEF Complete
    <2>2. Answer(place, offers) = FirstComplete(offers)
      BY <1>2 DEF Answer
    <2>3. CASE found = {}
      BY <2>1, <2>2, <2>3 DEF FirstComplete
    <2>4. CASE found # {}
      <3> DEFINE IsFirst(i) == offers[i] \in Pairs /\ \A j \in 1 .. i - 1 : offers[j] \notin Pairs
                 first == CHOOSE i \in DOMAIN offers : IsFirst(i)
      <3>1. \E i \in found : \A j \in found : i <= j
        <4>1. found \in SUBSET Nat /\ found # {}
          BY <1>0, <2>4
        <4> HIDE DEF found
        <4> QED
          BY <4>1, FirstOf
      <3>2. \E i \in DOMAIN offers : IsFirst(i)
        BY <1>0, <3>1
      <3>3. first \in DOMAIN offers /\ IsFirst(first)
        BY <3>2
      <3>4. FirstComplete(offers) = offers[first]
        BY <2>4 DEF FirstComplete
      <3>5. first \in found /\ \A j \in found : first <= j
        BY <1>0, <3>3
      <3> HIDE DEF first
      <3>6. \A n \in found : (\A k \in found : n <= k) => n = first
        BY <1>0, <3>5
      <3> QED
        BY <2>1, <2>2, <2>4, <3>3, <3>4, <3>6, PairsAssumption
    <2> QED
      BY <2>3, <2>4
  <1> QED
    BY <1>1, <1>2

\* The client holds the complete pair that is meant, or none if there is none.
LEMMA PairIsIntended ==
    ASSUME invocation \in Invocations, WellNamed(invocation.url)
    PROVE  /\ pair \in Pairs \union {Anonymous}
           /\ Intended(invocation) = IF pair = Anonymous THEN {} ELSE {pair}
  <1> DEFINE o == invocation.offers
             onHub == ref.registry \in HubAliases
             A(i) == Answer(Places[i], o[Places[i]])
             C(i) == Complete(Places[i], o[Places[i]])
             Has(i) == (Places[i] = "DOCKER_HUB_*" => onHub) /\ C(i) # {}
             Answers(i) == (Places[i] = "DOCKER_HUB_*" => onHub) /\ A(i) # Anonymous
             answering == {i \in DOMAIN Places : Answers(i)}
             first == CHOOSE i \in answering : \A j \in answering : i <= j
  <1>1. DOMAIN Places = 1 .. 6 /\ Places[1] = "--auth" /\ \A i \in 2 .. 6 : Places[i] # "--auth"
    BY DEF Places
  <1>2. \A i \in 1 .. 6 : o[Places[i]] \in Seq(Pairs \union {Half})
    BY <1>1, InvocationsAssumption
  <1>3. Meant(invocation.url) = ref
    BY ParsedAsMeant, InvocationsAssumption DEF ref
  <1>4. pair = IF answering = {} \/ A(first) = Half THEN Anonymous ELSE A(first)
    BY DEF pair, Resolved
  <1>5. Intended(invocation) = {x \in Pairs :
           /\ o["--auth"] = <<>> \/ Head(o["--auth"]) # Half
           /\ \E i \in DOMAIN Places : \E n \in C(i) :
                 /\ Has(i) /\ \A j \in 1 .. i - 1 : ~Has(j)
                 /\ o[Places[i]][n] = x
                 /\ \A k \in C(i) : n <= k}
    BY <1>3 DEF Intended
  <1>6. answering # {} => first \in answering /\ \A j \in answering : first <= j
    <2> SUFFICES ASSUME answering # {}
                 PROVE  \E i \in answering : \A j \in answering : i <= j
      OBVIOUS
    <2>1. answering \in SUBSET Nat
      BY <1>1
    <2> QED
      BY <2>1, FirstOf
  <1>7. CASE o["--auth"] # <<>> /\ Head(o["--auth"]) = Half
    <2>1. A(1) = Half
      BY <1>1, <1>7 DEF Answer, FirstEntry
    <2>2. 1 \in answering
      BY <1>1, <2>1, PairsAssumption
    <2>3. first = 1
      <3>1. first \in 1 .. 6 /\ first <= 1
        BY <1>1, <1>6, <2>2
      <3> HIDE DEF first
      <3> QED
        BY <3>1
    <2>4. pair = Anonymous
      BY <1>4, <2>1, <2>3
    <2>5. Intended(invocation) = {}
      BY <1>5, <1>7
    <2> QED
      BY <2>4, <2>5
  <1>8. CASE o["--auth"] = <<>> \/ Head(o["--auth"]) # Half
    <2>1. \A i \in 1 .. 6 : /\ A(i) \in Pairs \union {Anonymous}
                            /\ A(i) = Anonymous <=> C(i) = {}
                            /\ \A n \in C(i) : (\A k \in C(i) : n <= k) => o[Places[i]][n] = A(i)
      <3> SUFFICES ASSUME NEW i \in 1 .. 6
                   PROVE  /\ A(i) \in Pairs \union {Anonymous}
                          /\ A(i) = Anonymous <=> C(i) = {}
                          /\ \A n \in C(i) : (\A k \in C(i) : n <= k) => o[Places[i]][n] = A(i)
        OBVIOUS
      <3>1. o[Places[i]] \in Seq(Pairs \union {Half})
        BY <1>2
      <3>2. Places[i] = "--auth" => o[Places[i]] = <<>> \/ Head(o[Places[i]]) # Half
        BY <1>8
      <3> HIDE DEF o
      <3> QED
        BY <3>1, <3>2, AnswerIsComplete
    <2>2. \A i \in 1 .. 6 : C(i) \in SUBSET Nat
      <3> SUFFICES ASSUME NEW i \in 1 .. 6 PROVE C(i) \in SUBSET Nat
        OBVIOUS
      <3>1. DOMAIN o[Places[i]] = 1 .. Len(o[Places[i]]) /\ Len(o[Places[i]]) \in Nat
        BY <1>2
      <3> HIDE DEF o
      <3> QED
        BY <3>1 DEF Complete
    <2> HIDE DEF o, A, C, onHub
    <2>3. \A i \in 1 .. 6 : Has(i) <=> i \in answering
      BY <1>1, <2>1
    <2>4. CASE answering = {}
      <3>1. Intended(invocation) = {}
        BY <1>1, <1>5, <2>3, <2>4
      <3> QED
        BY <1>4, <2>4, <3>1
    <2>5. CASE answering # {}
      <3>1. first \in 1 .. 6 /\ first \in answering /\ \A j \in answering : first <= j
        BY <1>1, <1>6, <2>5
      <3> HIDE DEF first
      <3>2. A(first) \in Pairs /\ A(first) # Anonymous
        BY <2>1, <3>1
      <3>3. pair = A(first)
        BY <1>4, <2>5, <3>2, PairsAssumption
      <3>4. C(first) # {} /\ C(first) \in SUBSET Nat
        BY <2>1, <2>2, <3>1, <3>2
      <3>5. PICK n \in C(first) : \A k \in C(first) : n <= k
        BY <3>4, FirstOf
      <3>6. o[Places[first]][n] = A(first)
        BY <2>1, <3>1, <3>5
      <3>7. Has(first) /\ \A j \in 1 .. first - 1 : ~Has(j)
        BY <2>3, <3>1
      <3>8. A(first) \in Intended(invocation)
        BY <1>1, <1>5, <1>8, <3>1, <3>2, <3>5, <3>6, <3>7
      <3>9. ASSUME NEW x \in Intended(invocation) PROVE x = A(first)
        <4>1. PICK i \in 1 .. 6 : \E m \in C(i) :
                 /\ Has(i) /\ \A j \in 1 .. i - 1 : ~Has(j)
                 /\ o[Places[i]][m] = x
                 /\ \A k \in C(i) : m <= k
          BY <1>1, <1>5, <3>9
        <4>2. i = first
          BY <2>3, <3>1, <3>7, <4>1
        <4> QED
          BY <2>1, <4>1, <4>2
      <3> QED
        BY <3>2, <3>3, <3>8, <3>9
    <2> QED
      BY <2>4, <2>5
  <1> QED
    BY <1>7, <1>8

-----------------------------------------------------------------------------
(* The client.                                                             *)

TypeInv ==
    /\ invocation \in Invocations /\ service \in Services
    /\ content \in [image : BOOLEAN, api : {"absent", "none", "some"}, fallback : BOOLEAN]
    /\ at \in {"ready", "invalid", "ask", "authenticate", "again"}
    /\ call \in {None, "check", "digest", "referrers"} /\ path \in {1, 2}
    /\ calls \in Nat /\ faults \in Nat

\* The second list of referrers is asked for because the first is not there.
Fallback ==
    WellNamed(invocation.url) /\ call = "referrers" /\ path = 2 /\ at # "ready" =>
        content.api = "absent"

\* check is the first call of its client, so that the token it holds is the one it
\* has been issued.
CheckToken ==
    /\ calls = 0 => call = None /\ token = None /\ at = "ready"
    /\ call = "check" /\ at \in {"ask", "authenticate"} => token = None
    /\ call = "check" /\ at \in {"authenticate", "again"} => service.challenge # "none"
    /\ call = "check" /\ at = "again" =>
          token = pair \/ (token \in {None, Foreign} /\ (faults > 0 \/ service.challenge = "basic"))
    /\ at = "invalid" => ref = Invalid
    /\ outcome \in {"exit 0", "exit 1"} => call = "check"

IInv == TypeInv /\ Fallback /\ CheckToken /\ ReferrersTold /\ CheckTellsTheTruth

\* The answer of a registry to a call of check, unless it is a fault.
LEMMA Answer200 ==
    ASSUME TypeInv, WellNamed(invocation.url), NEW status, Answered(status),
           faults' = 0 \/ status \in {200, 401}, call = "check"
    PROVE  /\ status = 200 <=> Admitted /\ content.image
           /\ status = 401 <=> ~Admitted
           /\ faults' = faults
  <1>1. status = Status /\ faults' = faults
    BY DEF Answered, TypeInv
  <1>2. ref = Meant(invocation.url)
    BY ParsedAsMeant, InvocationsAssumption DEF ref, TypeInv
  <1>3. call # "referrers"
    OBVIOUS
  <1>4. Exists <=> content.image
    BY <1>2, <1>3, Zenon DEF Exists
  <1>5. /\ Status = 200 <=> Admitted /\ Exists
        /\ Status = 401 <=> ~Admitted
    BY DEF Status
  <1> QED
    BY <1>1, <1>4, <1>5

\* 404 is the answer only where what is asked for is not there.
LEMMA Answer404 ==
    ASSUME TypeInv, WellNamed(invocation.url), Answered(404), call = "referrers"
    PROVE  /\ path = 1 => content.api = "absent"
           /\ path = 2 => ~content.fallback
  <1>1. ~Exists
    BY DEF Answered, Status
  <1>2. ref = Meant(invocation.url)
    BY ParsedAsMeant, InvocationsAssumption DEF ref, TypeInv
  <1>3. ~(path = 1 /\ path = 2)
    OBVIOUS
  <1> QED
    BY <1>1, <1>2, <1>3, Zenon DEF Exists

\* Who may read the image, by the pair that the client holds.
LEMMA ReadableByPair ==
    ASSUME TypeInv, WellNamed(invocation.url)
    PROVE  Readable <=> content.image /\ (service.challenge = "none" \/ pair \in service.readers)
  <1>1. /\ pair \in Pairs \union {Anonymous}
        /\ Intended(invocation) = IF pair = Anonymous THEN {} ELSE {pair}
    BY PairIsIntended DEF TypeInv
  <1> QED
    BY <1>1 DEF Readable

LEMMA InitInv == Init => IInv
  <1> SUFFICES ASSUME Init PROVE IInv
    OBVIOUS
  <1>1. TypeInv
    BY DEF Init, TypeInv
  <1>2. at = "ready" /\ call = None /\ token = None /\ outcome = None
    BY DEF Init
  <1> QED
    BY <1>1, <1>2, OutcomesAssumption
       DEF IInv, Fallback, CheckToken, ReferrersTold, CheckTellsTheTruth

\* What is to be told changes with nothing.
LEMMA TruthTold ==
    ASSUME UNCHANGED worldVars,
           WellNamed(invocation.url) =>
               /\ outcome' = "exit 0" => Readable
               /\ outcome' = "exit 1" /\ Readable => faults' > 0 \/ service.challenge = "basic"
    PROVE  CheckTellsTheTruth'
  <1>1. UNCHANGED <<invocation, service, content>>
    BY DEF worldVars
  <1>2. Readable' <=> Readable
    BY <1>1, Zenon DEF Readable
  <1> QED
    BY <1>1, <1>2, Zenon DEF CheckTellsTheTruth
LEMMA TruthKept ==
    ASSUME TypeInv, TypeInv', CheckTellsTheTruth, UNCHANGED <<worldVars, outcome>>,
           faults' >= faults
    PROVE  CheckTellsTheTruth'
  <1>1. faults > 0 => faults' > 0
    BY DEF TypeInv
  <1> QED
    BY <1>1, TruthTold, Zenon DEF CheckTellsTheTruth, worldVars

LEMMA NextType == TypeInv /\ [Next]_vars => TypeInv'
  <1> SUFFICES ASSUME TypeInv, [Next]_vars PROVE TypeInv'
    OBVIOUS
  <1> USE DEF TypeInv, worldVars
  <1>1. ASSUME NEW c \in {"check", "digest", "referrers"}, Start(c) PROVE TypeInv'
    BY <1>1 DEF Start
  <1>2. CASE Expire
    BY <1>2 DEF Expire
  <1>3. ASSUME NEW status, Answered(status) PROVE faults' \in Nat
    BY <1>3 DEF Answered
  <1>4. ASSUME NEW status, Settle(status)
        PROVE  call' = call /\ calls' = calls /\ path' \in {1, 2} /\ at' \in {"ready", "ask"}
    BY <1>4 DEF Settle, Return
  <1>5. Raised => call' = call /\ calls' = calls /\ path' = path /\ at' = "ready"
    BY DEF Raised, Return
  <1>6. TimesOut => faults' \in Nat
    BY DEF TimesOut
  <1>7. CASE Ask
    BY <1>7, <1>3, <1>4, <1>5, <1>6 DEF Ask
  <1>8. CASE Authenticate
    BY <1>8, <1>5, <1>6 DEF Authenticate, Issue
  <1>9. CASE Again
    BY <1>9, <1>3, <1>4, <1>5, <1>6 DEF Again
  <1>10. CASE Refuse
    BY <1>10, <1>5 DEF Refuse
  <1>11. CASE UNCHANGED vars
    BY <1>11 DEF vars
  <1> QED
    BY <1>1, <1>2, <1>7, <1>8, <1>9, <1>10, <1>11 DEF Next

\* A response that settles a call.
LEMMA SettleStep ==
    ASSUME IInv, TypeInv', UNCHANGED worldVars, at \in {"ask", "again"},
           NEW status \in {200, 401, 404, 429, 500}, Answered(status), Settle(status),
           at = "ask" => status # 401
    PROVE  IInv'
  <1> USE DEF IInv, worldVars
  <1>1. CASE call = "check"
    <2>1. /\ at' = "ready" /\ call' = "check" /\ calls' = calls /\ calls # 0
          /\ outcome' = IF status = 200 THEN "exit 0" ELSE "exit 1"
      BY <1>1, OutcomesAssumption DEF Settle, Return, CheckToken
    <2>2. Fallback' /\ ReferrersTold'
      BY <2>1 DEF Fallback, ReferrersTold
    <2>3. CheckToken'
      BY <2>1 DEF CheckToken
    <2>4. CheckTellsTheTruth'
      <3> SUFFICES ASSUME WellNamed(invocation.url)
                   PROVE  /\ outcome' = "exit 0" => Readable
                          /\ outcome' = "exit 1" /\ Readable =>
                                faults' > 0 \/ service.challenge = "basic"
        BY TruthTold
      <3>1. service.challenge \in {"none", "bearer", "basic"}
            /\ service.readers \subseteq Pairs \union {Anonymous}
        BY ServicesAssumption DEF TypeInv
      <3>2. token \in {None, Foreign} => token \notin service.readers
        BY <3>1, TokensAssumption
      <3>3. outcome' = "exit 0" <=> status = 200
        BY <2>1
      <3>4. Readable <=> content.image /\ (service.challenge = "none" \/ pair \in service.readers)
        BY ReadableByPair
      <3>5. at = "ask" => token = None
        BY <1>1 DEF CheckToken
      <3>6. at = "again" => /\ service.challenge # "none"
                            /\ \/ token = pair
                               \/ /\ token \in {None, Foreign}
                                  /\ faults > 0 \/ service.challenge = "basic"
        BY <1>1 DEF CheckToken
      <3>7. CASE status = 200
        <4>1. Admitted /\ content.image
          BY <1>1, <3>7, Answer200
        <4>2. Readable
          BY <3>2, <3>4, <3>5, <3>6, <4>1 DEF Admitted
        <4> QED
          BY <2>1, <3>7, <4>2
      <3>8. CASE status # 200
        <4>0. faults' = 0 \/ faults' > 0
          BY DEF TypeInv
        <4> SUFFICES ASSUME Readable, faults' = 0, service.challenge # "basic"
                     PROVE  FALSE
          BY <3>3, <3>8, <4>0, Zenon
        <4>1. /\ status = 200 <=> Admitted /\ content.image
              /\ status = 401 <=> ~Admitted
              /\ faults = 0
          BY <1>1, Answer200
        <4>2. ~Admitted
          BY <3>4, <3>8, <4>1
        <4>3. service.challenge # "none" /\ token \notin service.readers /\ at = "again"
          BY <4>1, <4>2 DEF Admitted
        <4>4. token = pair
          BY <3>6, <4>1, <4>3
        <4> QED
          BY <3>4, <4>3, <4>4
      <3> QED
        BY <3>7, <3>8
    <2> QED
      BY <2>2, <2>3, <2>4
  <1>2. CASE call = "digest"
    <2>1. /\ at' = "ready" /\ call' = "digest" /\ calls' = calls /\ calls # 0
          /\ outcome' \in {"digest", "tag"}
      BY <1>2, OutcomesAssumption DEF Settle, Return, CheckToken
    <2> QED
      BY <2>1 DEF Fallback, ReferrersTold, CheckToken, CheckTellsTheTruth
  <1>3. CASE call = "referrers"
    <2>1. call' = "referrers" /\ calls' = calls /\ calls # 0 /\ at' \in {"ready", "ask"}
      BY <1>3, OutcomesAssumption DEF Settle, Return, CheckToken
    <2>2. outcome' \notin {"exit 0", "exit 1"}
      BY <1>3 DEF Settle, Return, CheckToken
    <2>3. CheckToken' /\ CheckTellsTheTruth'
      BY <2>1, <2>2 DEF CheckToken, CheckTellsTheTruth
    <2>4. Fallback'
      <3> SUFFICES ASSUME WellNamed(invocation.url), path' = 2, at' # "ready"
                   PROVE  content.api = "absent"
        BY DEF Fallback
      <3>1. status = 404 /\ path = 1
        BY <1>3 DEF Settle, Return, NotFound
      <3> QED
        BY <1>3, <3>1, Answer404
    <2>5. ReferrersTold'
      <3> SUFFICES ASSUME WellNamed(invocation.url), outcome' = "no referrers"
                   PROVE  content.api = "none" \/ (content.api = "absent" /\ ~content.fallback)
        BY DEF ReferrersTold
      <3>1. CASE outcome = "no referrers"
        BY <3>1 DEF ReferrersTold
      <3>2. CASE outcome # "no referrers"
        <4>1. \/ status = 404 /\ path = 2
              \/ content.api = "none"
          BY <1>3, <3>2 DEF Settle, Return, NotFound
        <4>2. ASSUME status = 404, path = 2
              PROVE  content.api = "absent" /\ ~content.fallback
          BY <1>3, <4>2, Answer404 DEF Fallback
        <4> QED
          BY <4>1, <4>2
      <3> QED
        BY <3>1, <3>2
    <2> QED
      BY <2>3, <2>4, <2>5
  <1>4. call # None
    BY <1>1, OutcomesAssumption DEF Settle
  <1> QED
    BY <1>1, <1>2, <1>3, <1>4 DEF TypeInv

\* A call that raises for want of an answer, before which no fault is unaccounted for.
LEMMA RaisedStep ==
    ASSUME IInv, TypeInv', UNCHANGED worldVars, at # "ready", Raised, faults' >= faults,
           call = "check" /\ faults' = 0 /\ WellNamed(invocation.url) /\ service.challenge # "basic"
               => ~Readable
    PROVE  IInv'
  <1> USE DEF IInv, worldVars
  <1>1. /\ at' = "ready" /\ call' = call /\ calls' = calls /\ calls # 0
        /\ outcome' = CASE call = "check" -> "exit 1" [] call = "digest" -> "tag"
                           [] OTHER -> "raised"
    BY DEF Raised, Return, CheckToken
  <1>2. Fallback' /\ ReferrersTold' /\ CheckToken'
    BY <1>1 DEF Fallback, ReferrersTold, CheckToken
  <1>3. CheckTellsTheTruth'
    <2>1. outcome' # "exit 0" /\ (outcome' = "exit 1" => call = "check")
      BY <1>1
    <2>2. faults' > 0 \/ faults' = 0
      BY DEF TypeInv
    <2> QED
      BY <2>1, <2>2, TruthTold
  <1> QED
    BY <1>2, <1>3

LEMMA NextInv == IInv /\ [Next]_vars => IInv'
  <1> SUFFICES ASSUME IInv, [Next]_vars PROVE IInv'
    OBVIOUS
  <1>0. TypeInv'
    BY NextType DEF IInv
  <1>1. ASSUME NEW c \in {"check", "digest", "referrers"}, Start(c) PROVE IInv'
    <2>1. outcome' = None /\ path' = 1 /\ calls' # 0 /\ call' = c /\ call # "check"
      BY <1>1 DEF Start, IInv, TypeInv
    <2>2. c = "check" => token' = None
      BY <1>1 DEF Start, IInv, CheckToken
    <2>3. at' = "invalid" => ref' = Invalid
      BY <1>1 DEF Start, ref, worldVars
    <2>4. at' \in {"invalid", "ask"}
      BY <1>1 DEF Start
    <2> QED
      <3>1. Fallback'
        BY <2>1 DEF Fallback
      <3>2. ReferrersTold' /\ CheckTellsTheTruth'
        BY <2>1, OutcomesAssumption DEF ReferrersTold, CheckTellsTheTruth
      <3>3. CheckToken'
        BY <2>1, <2>2, <2>3, <2>4, OutcomesAssumption DEF CheckToken
      <3> QED
        BY <1>0, <3>1, <3>2, <3>3 DEF IInv
  <1>2. CASE Expire
    <2>1. at' = "ready" /\ calls' # 0 /\ UNCHANGED <<worldVars, call, outcome, faults>>
      BY <1>2 DEF Expire, IInv, CheckToken
    <2>2. Fallback' /\ CheckToken' /\ ReferrersTold'
      BY <2>1 DEF IInv, Fallback, CheckToken, ReferrersTold, worldVars
    <2>3. UNCHANGED <<worldVars, outcome>> /\ faults' >= faults
      BY <2>1 DEF IInv, TypeInv
    <2> QED
      BY <1>0, <2>2, <2>3, TruthKept DEF IInv
  <1>3. CASE Ask
    <2>1. CASE \E status \in {200, 404, 429, 500} : Answered(status) /\ Settle(status)
      BY <1>0, <1>3, <2>1, SettleStep DEF Ask
    <2>2. CASE TimesOut /\ Raised
      BY <1>0, <1>3, <2>2, RaisedStep DEF Ask, TimesOut, IInv, TypeInv
    <2>3. CASE Answered(401) /\ at' = "authenticate" /\ UNCHANGED <<call, path, token, outcome, calls>>
      <3>1. ~Admitted
        BY <2>3 DEF Answered, Status
      <3>2. service.challenge # "none" /\ UNCHANGED worldVars /\ at = "ask"
        BY <1>3, <3>1 DEF Ask, Admitted
      <3>3. calls # 0
        BY <3>2 DEF IInv, CheckToken
      <3>4. faults' >= faults
        BY <2>3 DEF Answered, IInv, TypeInv
      <3>5. service.challenge # "none" /\ calls # 0 /\ UNCHANGED worldVars /\ faults' >= faults
        BY <3>2, <3>3, <3>4
      <3>6. CheckToken' /\ Fallback' /\ ReferrersTold'
        BY <1>3, <2>3, <3>5 DEF Ask, IInv, CheckToken, Fallback, ReferrersTold, worldVars
      <3>7. CheckTellsTheTruth'
        <4>1. UNCHANGED <<worldVars, outcome>> /\ faults' >= faults
          BY <2>3, <3>5
        <4> QED
          BY <1>0, <4>1, TruthKept DEF IInv
      <3> QED
        BY <1>0, <3>6, <3>7 DEF IInv
    <2> QED
      BY <1>3, <2>1, <2>2, <2>3 DEF Ask
  <1>4. CASE Authenticate
    <2>1. at = "authenticate" /\ UNCHANGED worldVars
      BY <1>4 DEF Authenticate
    <2>2. ASSUME NEW t, Issue(t), faults' >= faults,
                 \/ t = pair
                 \/ t \in {None, Foreign} /\ (faults' > 0 \/ service.challenge = "basic")
          PROVE  IInv'
      <3>1. /\ at' = "again" /\ token' = t /\ calls # 0 /\ UNCHANGED <<call, path, outcome, calls>>
        BY <2>1, <2>2 DEF Issue, IInv, CheckToken
      <3>2. pair' = pair
        BY <2>1 DEF pair, ref, worldVars
      <3>3. CheckToken' /\ Fallback' /\ ReferrersTold'
        BY <2>1, <2>2, <3>1, <3>2 DEF IInv, CheckToken, Fallback, ReferrersTold, worldVars
      <3>4. CheckTellsTheTruth'
        <4>1. UNCHANGED <<worldVars, outcome>> /\ faults' >= faults
          BY <2>1, <2>2, <3>1
        <4> QED
          BY <1>0, <4>1, TruthKept DEF IInv
      <3> QED
        BY <1>0, <3>3, <3>4 DEF IInv
    <2>3. CASE /\ service.challenge = "bearer" /\ pair \in service.readers \union {Anonymous}
               /\ Issue(pair) /\ UNCHANGED faults
      BY <2>2, <2>3 DEF IInv, TypeInv
    <2>4. CASE service.challenge = "basic" /\ Issue(Foreign) /\ UNCHANGED faults
      BY <2>2, <2>4 DEF IInv, TypeInv
    <2>5. CASE /\ pair \notin {Anonymous} \union
                         IF service.challenge = "bearer" THEN service.readers ELSE {}
               /\ Raised /\ UNCHANGED faults
      <3>1. ASSUME call = "check", WellNamed(invocation.url), service.challenge # "basic"
            PROVE  ~Readable
        <4>1. service.challenge = "bearer"
          BY <2>1, <3>1, ServicesAssumption DEF IInv, TypeInv, CheckToken
        <4> QED
          BY <2>5, <3>1, <4>1, ReadableByPair DEF IInv
      <3> QED
        BY <1>0, <2>1, <2>5, <3>1, RaisedStep DEF IInv, TypeInv
    <2>6. CASE TimesOut /\ Issue(None)
      BY <2>2, <2>6 DEF TimesOut, IInv, TypeInv
    <2>7. CASE TimesOut /\ Raised
      BY <1>0, <2>1, <2>7, RaisedStep DEF TimesOut, IInv, TypeInv
    <2> QED
      BY <1>4, <2>3, <2>4, <2>5, <2>6, <2>7 DEF Authenticate
  <1>5. CASE Again
    <2>1. CASE \E status \in {200, 401, 404, 429, 500} : Answered(status) /\ Settle(status)
      BY <1>0, <1>5, <2>1, SettleStep DEF Again
    <2>2. CASE TimesOut /\ Raised
      BY <1>0, <1>5, <2>2, RaisedStep DEF Again, TimesOut, IInv, TypeInv
    <2> QED
      BY <1>5, <2>1, <2>2 DEF Again
  <1>6. CASE Refuse
    <2>1. ref = Invalid
      BY <1>6 DEF Refuse, IInv, CheckToken
    <2>2. ~WellNamed(invocation.url)
      BY <2>1, ParsedAsMeant, InvocationsAssumption DEF ref, IInv, TypeInv
    <2> QED
      BY <1>0, <1>6, <2>2, RaisedStep DEF Refuse, worldVars, IInv, TypeInv
  <1>7. CASE UNCHANGED vars
    <2>1. Fallback' /\ CheckToken' /\ ReferrersTold'
      BY <1>7 DEF vars, worldVars, IInv, Fallback, CheckToken, ReferrersTold, pair, ref
    <2>2. UNCHANGED <<worldVars, outcome>> /\ faults' >= faults
      BY <1>7 DEF vars, IInv, TypeInv
    <2> QED
      BY <1>0, <2>1, <2>2, TruthKept DEF IInv
  <1> QED
    BY <1>1, <1>2, <1>3, <1>4, <1>5, <1>6, <1>7 DEF Next

LEMMA Invariance == Spec => []IInv
  BY InitInv, NextInv, PTL DEF Spec

\* get_referrers never takes a failure, a refused token or a list that it asked for
\* under another name for an image without referrers.
THEOREM ReferrersToldHolds == Spec => []ReferrersTold
  <1>1. IInv => ReferrersTold
    BY DEF IInv
  <1> QED
    BY <1>1, Invariance, PTL

\* Whatever fails on the way, check exits with 0 only of an image that may be read by
\* whom the user asks as, and with 1 of one only after a failure, whatever reference
\* and credentials are written where.
THEOREM CheckTellsTheTruthHolds == Spec => []CheckTellsTheTruth
  <1>1. IInv => CheckTellsTheTruth
    BY DEF IInv
  <1> QED
    BY <1>1, Invariance, PTL

=============================================================================
