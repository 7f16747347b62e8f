------------------------------ MODULE MCRuleSet ------------------------------
(***************************************************************************)
(* Instances of RuleSet for TLC: a count criterion, one that is shipped    *)
(* disabled and reads the user's metadata (of an analyzer that is plugged  *)
(* in), and entries for each way of writing a rule.                        *)
(***************************************************************************)
EXTENDS RuleSet

FromParams(p) == [reads |-> p, at |-> None, limit |-> None, open |-> FALSE]

MCCatalogue ==
    (<<"cve", "count">> :> [level |-> "warning", enable |-> TRUE, at |-> "critical",
                            limit |-> 0, condition |-> FromParams("cve")])
 @@ (<<"owners", "named">> :> [level |-> "critical", enable |-> FALSE, at |-> "high",
                            limit |-> 0, condition |-> FromParams("metadata")])

Blank ==
    [provider |-> None, criterion |-> None, slug |-> None, level |-> None,
     enable |-> None, at |-> None, limit |-> None, condition |-> None]
Count == [Blank EXCEPT !.provider = "cve", !.criterion = "count"]
Named(d, s) == [d EXCEPT !.slug = <<s>>]
Owner == [Blank EXCEPT !.provider = "owners", !.criterion = "named"]
Own(l, n, open) ==
    [Blank EXCEPT !.slug = <<"own">>, !.level = l,
     !.condition = [reads |-> "cve", at |-> "critical", limit |-> n, open |-> open]]
Override == [Blank EXCEPT !.provider = "cve", !.slug = <<"cap">>, !.level = "critical"]

Written ==
    {[Count EXCEPT !.at = "critical", !.limit = 1], Named(Count, "cap"),
     [Override EXCEPT !.limit = 1], Named(Owner, "cap"), [Named(Owner, "named") EXCEPT !.level = "none"],
     Own("warning", 0, FALSE), Own("critical", 1, TRUE), Own(None, None, FALSE),
     Own("critical", 0, FALSE), [Named(Count, "cap") EXCEPT !.limit = 1],
     [Override EXCEPT !.enable = FALSE],
     [Named(Blank, "cap") EXCEPT !.provider = "cve", !.criterion = "unknown"],
     [Blank EXCEPT !.criterion = "orphan"], Blank}
Compared ==
    {Named(Count, "cap"), [Named(Count, "cap") EXCEPT !.limit = 1],
     [Named(Owner, "named") EXCEPT !.level = "none"],
     Own("warning", 0, FALSE), Own("critical", 0, FALSE), Own("critical", 1, TRUE)}
=============================================================================
