------------------------------ MODULE Credentials ------------------------------
(***************************************************************************)
(* resolve_credentials: the places that may hold a user and a password for *)
(* a registry, in the order in which they are asked.                       *)
(*                                                                         *)
(* A place offers a sequence of values: the --auth options, the variables  *)
(* of each alias of the registry, the entries of a Docker configuration.   *)
(* A value is a pair, or Half: a user without a password or the reverse.   *)
(***************************************************************************)
EXTENDS Integers, Sequences

CONSTANTS
    Half,
    Anonymous,  \* no pair
    Pairs

ASSUME PairsAssumption == Half \notin Pairs /\ Anonymous \notin Pairs \union {Half}

\* DOCKER_HUB_* and DOCKER_* are for Docker Hub.
Places == <<"--auth", "REGIS_AUTH_*", "DOCKER_AUTH_CONFIG", "DOCKER_HUB_*", "REGIS_*",
            "config.json">>

\* In the environment a value counts if it is complete; of a configuration the
\* first entry counts, if it is.
FirstComplete(offers) ==
    IF \E i \in DOMAIN offers : offers[i] \in Pairs
      THEN offers[CHOOSE i \in DOMAIN offers :
                     offers[i] \in Pairs /\ \A j \in 1 .. i - 1 : offers[j] \notin Pairs]
      ELSE Anonymous
FirstEntry(offers) == IF offers = <<>> THEN Anonymous ELSE Head(offers)

\* Mutant: one variable of the two is enough.
HalfAnswer(place, offers) == FirstEntry(offers)

\* What a place answers.  A half pair counts as an answer on the command line.
Answer(place, offers) ==
    CASE place = "--auth" -> FirstEntry(offers)
      [] place \in {"DOCKER_AUTH_CONFIG", "config.json"} ->
            IF FirstEntry(offers) \in Pairs THEN FirstEntry(offers) ELSE Anonymous
      [] OTHER -> FirstComplete(offers)

\* A client that holds half a pair authenticates without one.
Resolved(offers, onHub) ==
    LET Answers(i) == /\ Places[i] = "DOCKER_HUB_*" => onHub
                      /\ Answer(Places[i], offers[Places[i]]) # Anonymous
        answering == {i \in DOMAIN Places : Answers(i)}
        first == CHOOSE i \in answering : \A j \in answering : i <= j
        answer == Answer(Places[first], offers[Places[first]])
    IN IF answering = {} \/ answer = Half THEN Anonymous ELSE answer
=============================================================================
