-------------------------- MODULE PlaybookEvaluation --------------------------
(***************************************************************************)
(* evaluate of playbook/evaluator.py: the rules of a playbook on the facts *)
(* of a report, and what depends on them: the tier, the badges, the links, *)
(* the checklists, the templates and the labels of presentation.           *)
(*                                                                         *)
(* A rule is known by its criterion, and a criterion by one fact, which is *)
(* "good", "bad" or None; RuleSet has the rules in detail.  A condition    *)
(* says that one value of the context is (or, with neg, is not) a certain  *)
(* one: the status of a rule, a fact, playbook.tier of this evaluation,    *)
(* tier at the top of the report; or its evaluation raises ("broken").     *)
(* The values of badges and the URLs of links read the same, and URLs that *)
(* str.format fills in read what the report says of an earlier playbook.   *)
(* Badges have slugs of their own.                                         *)
(***************************************************************************)
EXTENDS PlaybookDocument, FiniteSets, SequencesExt

\* "criterion", or the legacy key.
Bound(e) == Or(e.criterion, e.rule)

\* Rules by criterion; the last one of a criterion overrides.  A message reads
\* the criterion under its old and its new name.
Rules(doc, facts) ==
    LET entries == Or(doc.entries, <<>>)
        bound == {i \in DOMAIN entries : Bound(entries[i]) \in DOMAIN facts}
        Final(c) == CHOOSE i \in bound :
                       /\ Bound(entries[i]) = c
                       /\ \A j \in bound : Bound(entries[j]) = c => j <= i
    IN [c \in {Bound(entries[i]) : i \in bound} |->
           [status |-> CASE facts[c] = "good" -> "passed"
                         [] facts[c] = "bad"  -> "failed"
                         [] OTHER             -> "incomplete",
            message |-> entries[Final(c)].reads \in {"rule", "criterion", "results"}]]

-----------------------------------------------------------------------------

\* Mutant: the context is made of the report alone, before this evaluation's
\* rules are put into it.
RulesOfReport(doc, report) == report.rules
RulesInContext(doc, report) == Rules(doc, report.facts)

\* What a condition may read: this evaluation's rules, the report, the tier once
\* it is resolved.  earlier is the tier of the playbook the report has already.
Context(doc, report, tier) ==
    [rules |-> RulesInContext(doc, report), facts |-> report.facts, saved |-> report.tier,
     tier |-> tier, earlier |-> report.playbook]

\* A tier that is promoted though there is none.
Null == "null"

Value(when, ctx) ==
    CASE when.reads = "rule"     -> IF when.of \in DOMAIN ctx.rules
                                      THEN ctx.rules[when.of].status ELSE None
      [] when.reads = "fact"     -> ctx.facts[when.of]
      [] when.reads = "playbook" -> ctx.tier
      [] when.reads = "report"   -> ctx.saved

\* jsonLogic; the callers take an exception for a no.
Holds(when, ctx) == when.reads # "broken" /\ when.neg # (Value(when, ctx) = when.is)

\* evaluate_condition: an exception, and data that is missing, are incomplete; a
\* rule that is not there is not noticed, as rules is no dictionary.
Incomplete(when, ctx) ==
    when.reads = "broken" \/ (when.reads # "rule" /\ Value(when, ctx) \in {None, Null})
Certain(when, ctx) == Holds(when, ctx) /\ ~Incomplete(when, ctx)

\* The first tier whose condition holds; one without a condition never does.
WinningTier(doc, ctx) ==
    LET winners == {i \in DOMAIN doc.tiers :
                       doc.tiers[i].when # None /\ Holds(doc.tiers[i].when, ctx)}
    IN IF winners = {} THEN None
       ELSE doc.tiers[CHOOSE i \in winners : \A j \in winners : i <= j].name

\* Badges and links stay if their condition is absent or holds.
Stays(d, ctx) == d.when = None \/ Holds(d.when, ctx)

\* The placeholder of a badge stays as it is written if it reads nothing.
Interpolated(value, ctx) ==
    IF value.reads = "text" \/ Value(value, ctx) \in {None, Null} THEN value.of
    ELSE Value(value, ctx)
ResolvedBadges(doc, ctx) ==
    {[slug |-> d.slug, value |-> Interpolated(d.value, ctx)] :
        d \in {b \in ToSet(doc.badges) : Stays(b, ctx)}}

\* str.format sees the report only, and raises where Jinja2 leaves a hole; a template
\* that cannot be rendered is its own result.
Formatted(url, ctx) ==
    CASE url.reads = "broken"   -> None
      [] url.reads = "playbook" -> ctx.earlier
      [] OTHER                  -> Value(url, ctx)
Rendered(url, ctx) ==
    CASE url.reads = "broken"   -> url.of
      [] url.by = "template"    -> Or(Value(url, ctx), "")
      [] OTHER                  -> Value(url, ctx)
Resolved(url, ctx) ==
    CASE url.reads = "text"     -> IF url.of = "" THEN None ELSE url.of
      [] url.by = "format"      -> Formatted(url, ctx)
      [] OTHER                  -> Rendered(url, ctx)

\* A link whose URL raises, or is empty, is left out.
ResolvedLinks(doc, ctx) ==
    {[label |-> d.label, url |-> Resolved(d.url, ctx)] :
        d \in {l \in ToSet(doc.links) : Stays(l, ctx) /\ Resolved(l.url, ctx) # None}}

\* What presentation shows has to be certain: the places of a list that stay, and
\* a list of which nothing is left goes.
Shown(list, ctx) == {i \in DOMAIN list : list[i].when = None \/ Certain(list[i].when, ctx)}
ResolvedChecklists(doc, ctx) ==
    LET lists == Or(doc.presentation.checklists, <<>>)
        Item(d) == [label |-> d.label, checked |-> d.check # None /\ Certain(d.check, ctx)]
    IN [l \in {k \in DOMAIN lists : Shown(lists[k], ctx) # {}} |->
           [i \in Shown(lists[l], ctx) |-> Item(lists[l][i])]]
ResolvedTemplates(doc, ctx) ==
    LET list == Or(doc.presentation.templates, <<>>)
    IN {list[i].url : i \in Shown(list, ctx)}

\* _resolve_badge_labels: the badges of the context are those of the report.
BadgeLabels(doc, report) ==
    {b \in report.badges : b.slug \in ToSet(Or(doc.presentation.badges, <<>>))}

Evaluation(doc, report) ==
    LET tier == WinningTier(doc, Context(doc, report, None))
        ctx == Context(doc, report, tier)
    IN [rules |-> Rules(doc, report.facts), tier |-> tier,
        badges |-> ResolvedBadges(doc, ctx), links |-> ResolvedLinks(doc, ctx),
        checklists |-> ResolvedChecklists(doc, ctx),
        templates |-> ResolvedTemplates(doc, ctx), labels |-> BadgeLabels(doc, report)]
=============================================================================
