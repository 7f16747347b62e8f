----------------------------- MODULE MCPlaybooks -----------------------------
(***************************************************************************)
(* Instances of Playbooks for TLC: documents of the old format and the new *)
(* one, with conditions on every value of the context.                     *)
(***************************************************************************)
EXTENDS Playbooks

When(reads, of, is) == [reads |-> reads, of |-> of, is |-> is, neg |-> FALSE]
Unless(reads, of, is) == [When(reads, of, is) EXCEPT !.neg = TRUE]
Broken == When("broken", "", "")

Old(c) == [criterion |-> None, rule |-> c, reads |-> "rule", own |-> FALSE]
New(c) == [criterion |-> c, rule |-> None, reads |-> "criterion", own |-> FALSE]
Both(c, r) == [criterion |-> c, rule |-> r, reads |-> "results", own |-> FALSE]
Own(c) == [New(c) EXCEPT !.own = TRUE]

Tier(name, id, when) == [name |-> name, id |-> id, when |-> when]
Badge(slug, reads, of, when) ==
    [slug |-> slug, value |-> [reads |-> reads, of |-> of], when |-> when, whole |-> TRUE]
Url(by, reads, of) == [by |-> by, reads |-> reads, of |-> of]
Link(label, url, when) == [label |-> label, url |-> url, when |-> when]
Item(label, when, check) == [label |-> label, when |-> when, check |-> check]
Template(url, when) == [url |-> url, when |-> when]

Gold == Tier("gold", "gold", When("rule", "cve", "passed"))
Silver == Tier("silver", None, Unless("fact", "sbom", "bad"))
Nobody == Tier("nobody", "gold", Broken)

Clean == Badge("clean", "playbook", "tier", When("playbook", "tier", "gold"))
Doubt == Badge("doubt", "fact", "sbom", Unless("rule", "sbom", "passed"))
Score == Badge("score", "text", "score", None)
Slogans == <<Clean, Doubt>>

\* A fact's page, the page of the tier, the merge request of default/playbook.yaml.
Why == Link("why", Url("format", "fact", "cve"), When("fact", "cve", "bad"))
Tiered == Link("tier", Url("template", "playbook", "tier"), None)
Review == Link("review", Url("expression", "fact", "sbom"), None)
\* What these read is there in a saved report only.
Promoted == Link("promoted", Url("format", "report", "tier"), None)
Earlier == Link("earlier", Url("format", "playbook", "tier"), None)
Raw == Link("raw", Url("template", "broken", "{{"), None)

Items == <<Item("look", None, Unless("fact", "sbom", "bad")),
           Item("sign", Unless("fact", "cve", "good"), Broken)>>
Gitlab == [badges |-> <<"clean">>, checklists |-> None, checklist |-> Items,
           templates |-> <<Template("bare", None), Template("gold", When("playbook", "tier", "gold"))>>]
Presentation == [badges |-> <<"clean", "doubt">>, checklists |-> <<Items>>, templates |-> None]

\* Flat, with everything the old format had.
Flat ==
    [Blank EXCEPT !.tiers = <<Nobody, Silver>>, !.entries = <<Old("cve"), Both("sbom", "cve")>>,
     !.badges = Slogans, !.gitlab = Gitlab, !.links = <<Why, Raw>>,
     !.pages = "pages"]
\* An envelope that says its presentation in both ways.
Half ==
    [Blank EXCEPT !.envelope = TRUE, !.version = "semantic", !.tiers = <<Gold, Silver>>,
     !.entries = <<Old("sbom"), New("cve"), Old("sbom")>>, !.badges = Slogans,
     !.gitlab = [Gitlab EXCEPT !.checklists = <<Items, <<>> >>],
     !.presentation = [Presentation EXCEPT !.checklists = None],
     !.links = <<Tiered, Review>>]
Modern ==
    [Half EXCEPT !.gitlab = None, !.presentation = Presentation,
     !.entries = <<New("cve"), New("unknown")>>]
Ruleless == [Flat EXCEPT !.entries = None, !.pages = None]
Shifty == [Modern EXCEPT !.tiers = <<Tier("silver", None, When("report", "tier", "gold")), Gold>>]
Linked == [Modern EXCEPT !.links = <<Promoted, Earlier, Tiered>>]
\* Badges and tiers as docs/concepts/playbooks.md has them, without a condition.
Unconditional == [Flat EXCEPT !.badges = <<Doubt, Score>>]
Everyone == [Flat EXCEPT !.tiers = <<Silver, Tier("all", "all", None)>>]

MCDocuments ==
    {Flat, [Flat EXCEPT !.presentation = Presentation, !.tiers = <<Gold, Nobody>>],
     [Flat EXCEPT !.version = "loose", !.gitlab = None],
     [Flat EXCEPT !.entries = <<Own("cve")>>, !.other = "other"],
     Half, Modern, Ruleless, Shifty, Linked, Unconditional, Everyone}

MCFacts == [{"cve", "sbom"} -> {"good", "bad", None}]
=============================================================================
