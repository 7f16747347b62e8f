---------------------------- MODULE ImageReference ----------------------------
(***************************************************************************)
(* parse_image_url: from what the user writes to a registry, a repository  *)
(* and a tag or digest.                                                    *)
(*                                                                         *)
(* What is written is a record: its form (a bare reference, a URL of a     *)
(* registry, a page of hub.docker.com), host and port, the segments of the *)
(* path, tag and digest.                                                   *)
(***************************************************************************)
EXTENDS Integers, Sequences

CONSTANTS
    None,
    Hub,        \* registry-1.docker.io
    Dotted      \* the hosts with a dot in their name

ASSUME HubAssumption == Hub # None

\* Only a name in a URL or in front of a port is a host in any case.
Writable(u) ==
    /\ u.form \in {"bare", "full", "page"} /\ u.port \in BOOLEAN /\ u.path \in Seq(STRING)
    /\ u.form = "full" \/ u.port => u.host # None

Invalid == [registry |-> None, port |-> FALSE, repository |-> <<>>, suffix |-> None,
            reference |-> None]

OnHub(path) == IF Len(path) = 1 THEN <<"library">> \o path ELSE path

\* _split_tag, on a path with neither port nor host in front: what stands before
\* the @ is the repository, a tag included.
Suffix(u) == IF u.digest # None THEN u.tag ELSE None
Reference(u) ==
    IF u.digest # None THEN u.digest ELSE IF u.tag # None THEN u.tag ELSE "latest"

\* The last colon of a reference with a port but no tag is that of the port.
PortTaken(u) == u.port /\ u.tag = None /\ u.digest = None

\* Mutant: a port does not make a name a host.
HasDot(u) == u.host \in Dotted
LooksLikeHost(u) == u.host \in Dotted \/ u.port

Bare(u) ==
    IF PortTaken(u)
      THEN [registry |-> Hub, port |-> FALSE, repository |-> OnHub(<<u.host>>),
            suffix |-> None, reference |-> u.path]
    ELSE IF u.host # None /\ LooksLikeHost(u)
      THEN [registry |-> u.host, port |-> u.port, repository |-> u.path,
            suffix |-> Suffix(u), reference |-> Reference(u)]
    ELSE [registry |-> Hub, port |-> FALSE,
          repository |-> OnHub(IF u.host = None THEN u.path ELSE <<u.host>> \o u.path),
          suffix |-> Suffix(u), reference |-> Reference(u)]

\* urlparse(...).hostname has no port.
Full(u) ==
    IF u.path = <<>> THEN Invalid
    ELSE [registry |-> u.host, port |-> FALSE, repository |-> u.path,
          suffix |-> Suffix(u), reference |-> Reference(u)]

\* Its pages are known as /r/org/name, /library/name and /_/name.
Page(u) ==
    LET path == IF Len(u.path) > 1 /\ Head(u.path) = "r" THEN Tail(u.path) ELSE u.path
    IN IF path = <<>> \/ u.digest # None THEN Invalid
       ELSE [registry |-> Hub, port |-> FALSE,
             repository |-> IF Len(path) > 1 /\ Head(path) = "_" THEN <<"library">> \o Tail(path)
                                                                ELSE OnHub(path),
             suffix |-> None, reference |-> Reference(u)]

Parsed(u) ==
    CASE u.form = "bare" -> Bare(u) [] u.form = "full" -> Full(u) [] u.form = "page" -> Page(u)
=============================================================================
