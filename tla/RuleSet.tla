------------------------------ MODULE RuleSet ------------------------------
(***************************************************************************)
(* The rules engine: a playbook's declared rules are resolved against the  *)
(* criteria the analyzers ship (resolve_rules), evaluated on the facts of  *)
(* a report (evaluate_rules), compared with --fail-level (breached_slugs), *)
(* summed up for the reader (build_verdict) and pinned by a hash           *)
(* (ruleset_fingerprint).                                                  *)
(*                                                                         *)
(* A condition reads one count of one part of the report and compares it   *)
(* with a limit; without the count it says what open says.  The count's    *)
(* severity and the limit are written in the condition                     *)
(* or, where that says None, taken from the rule's params, which are what  *)
(* an entry's options (here at and limit) make of those of its template.   *)
(* A dotted slug p.s is the provider p and the slug s.  None stands for an *)
(* absent key.                                                             *)
(***************************************************************************)
EXTENDS Integers, FiniteSets, SequencesExt

CONSTANTS
    Catalogue,     \* default_criteria: <<provider, slug>> to a template
    Declarations,  \* entries of a playbook, or of the file of "rules evaluate":
                   \* only that one takes a rule with a condition of its own
    Providers, Severities, Counts,
    Sources,       \* the parts of a report that conditions read
    Optional,      \* those that may be absent: the user's metadata
    None,
    Pinnable,      \* those among them of a playbook that is pinned or compared
    MaxRules,      \* bound: the entries of one playbook
    MaxPinned      \* bound: those of a playbook that is pinned or compared

Levels == {"critical", "warning", "info", "none"}
Conditions ==
    [reads : Sources, at : Severities \union {None},
     limit : Nat \union {None}, open : BOOLEAN]

ASSUME CatalogueAssumption ==
    \A c \in DOMAIN Catalogue :
        /\ c \in Providers \X STRING
        /\ Catalogue[c].level \in Levels /\ Catalogue[c].enable \in BOOLEAN
        /\ Catalogue[c].at \in Severities \union {None}
        /\ Catalogue[c].limit \in Nat \union {None}
        /\ Catalogue[c].condition \in Conditions
ASSUME DeclarationsAssumption ==
    \A d \in Declarations :
        /\ d.provider \in Providers \union {None} /\ d.criterion \in STRING \union {None}
        /\ d.slug \in Seq(STRING) \union {None}
        /\ d.level \in Levels \union {None} /\ d.enable \in BOOLEAN \union {None}
        /\ d.at \in Severities \union {None}
        /\ d.limit \in Nat \union {None}
        /\ d.condition \in Conditions \union {None}
ASSUME CountsAssumption == Counts \subseteq Nat
ASSUME OptionalAssumption == Optional \subseteq Sources
ASSUME NoneAssumption ==
    /\ None \notin Nat \union BOOLEAN \union Severities \union Levels
    /\ \A d \in Declarations : None # <<d.criterion>>
ASSUME StringsAssumption ==
    Severities \subseteq STRING /\ \A n \in 0 .. MaxRules : ToString(n) \in STRING
ASSUME BoundsAssumption ==
    Pinnable \subseteq Declarations /\ MaxRules \in Nat /\ MaxPinned \in Nat

Or(x, y) == IF x = None THEN y ELSE x

-----------------------------------------------------------------------------
(* resolve_rules                                                           *)

\* The name of a binding without a slug: its severity, else its position.
GeneratedSlug(d, position) ==
    IF d.at # None THEN <<d.criterion, d.at>> ELSE <<d.criterion, ToString(position)>>

Binds(d) == d.provider # None /\ d.criterion # None
InCatalogue(d) == <<d.provider, d.criterion>> \in DOMAIN Catalogue

\* Mutant: the template's opt-in flag is kept.
KeepsOptIn(d, position) ==
    LET t == Catalogue[<<d.provider, d.criterion>>]
    IN [provider |-> d.provider, slug |-> Or(d.slug, GeneratedSlug(d, position)),
        level |-> Or(d.level, t.level), enable |-> Or(d.enable, t.enable),
        at |-> Or(d.at, t.at), limit |-> Or(d.limit, t.limit),
        condition |-> Or(d.condition, t.condition)]

\* Case A: a binding instantiates the template and is enabled by it.
Instance(d, position) ==
    LET t == Catalogue[<<d.provider, d.criterion>>]
    IN [provider |-> d.provider, slug |-> Or(d.slug, GeneratedSlug(d, position)),
        level |-> Or(d.level, t.level), enable |-> Or(d.enable, TRUE),
        at |-> Or(d.at, t.at), limit |-> Or(d.limit, t.limit),
        condition |-> Or(d.condition, t.condition)]

\* Case B, and Case A whose template is unknown: the entry as it is written,
\* whose options nobody reads.
AsWritten(d) ==
    [provider |-> Or(d.provider, "custom"),
     slug |-> IF Binds(d) \/ d.criterion = None THEN d.slug ELSE <<d.criterion>>,
     level |-> d.level, enable |-> d.enable, at |-> None, limit |-> None,
     condition |-> d.condition]

Process(processed, d) ==
    IF Binds(d) /\ InCatalogue(d) THEN Append(processed, Instance(d, Len(processed)))
    ELSE IF AsWritten(d).slug # None THEN Append(processed, AsWritten(d))
    ELSE processed

SameKey(r, s) == r.provider = s.provider /\ r.slug = s.slug

\* Mutant: the first entry of a key is final.
FirstWins(final, r) ==
    IF \E i \in DOMAIN final : SameKey(final[i], r) THEN final ELSE Append(final, r)

\* A later entry of the same key overrides the keys it says.
Assemble(final, r) ==
    IF \E i \in DOMAIN final : SameKey(final[i], r)
      THEN [i \in DOMAIN final |->
               IF SameKey(final[i], r)
                 THEN [f \in DOMAIN r |-> Or(r[f], final[i][f])]
                 ELSE final[i]]
      ELSE Append(final, r)

Processed(declared) == FoldLeft(Process, <<>>, declared)
Resolve(declared) == FoldLeft(Assemble, <<>>, Processed(declared))

-----------------------------------------------------------------------------
(* evaluate_rules                                                          *)

IsEnabled(r) == r.enable # FALSE
Enabled(rules) == {i \in DOMAIN rules : IsEnabled(rules[i])}

\* A condition that is absent, or raises, is a failed rule.  Only what had to be
\* there makes a rule incomplete: a parameter, or a result of an analyzer.
Outcome(r, facts) ==
    LET c == r.condition
        at == Or(c.at, r.at)
        limit == Or(c.limit, r.limit)
        fact == IF at = None THEN None ELSE facts[c.reads][at]
        missing == fact = None \/ limit = None
        passed == IF missing THEN c.open ELSE fact <= limit
        optional == at # None /\ limit # None /\ c.reads \in Optional
    IN IF c = None THEN [passed |-> FALSE, status |-> "failed"]
       ELSE [passed |-> passed,
             status |-> IF missing /\ ~optional THEN "incomplete"
                        ELSE IF passed THEN "passed" ELSE "failed"]

\* Mutant: a rule without a level stays without one.
LevelAsWritten(r, facts) ==
    [provider |-> r.provider, slug |-> r.slug, level |-> r.level,
     passed |-> Outcome(r, facts).passed, status |-> Outcome(r, facts).status]

Entry(r, facts) ==
    [provider |-> r.provider, slug |-> r.slug, level |-> Or(r.level, "info"),
     passed |-> Outcome(r, facts).passed, status |-> Outcome(r, facts).status]

Entries(declared, facts) ==
    LET rules == Resolve(declared)
    IN {Entry(rules[i], facts) : i \in Enabled(rules)}

\* round(), which rounds halves to the even neighbour.
Rounded(n, d) ==
    LET whole == n \div d rest == 2 * (n % d)
    IN IF rest > d \/ (rest = d /\ whole % 2 = 1) THEN whole + 1 ELSE whole

Score(declared, facts) ==
    LET rules == Resolve(declared)
        all == Enabled(rules)
        passed == {i \in all : Outcome(rules[i], facts).passed}
    IN IF all = {} THEN 0 ELSE Rounded(100 * Cardinality(passed), Cardinality(all))

-----------------------------------------------------------------------------
(* breached_slugs: an unknown level is as mild as info; "none" never fails *)

Rank(level) ==
    CASE level = "critical" -> 1 [] level = "warning" -> 2 [] OTHER -> 3

Breached(entries, failLevel) ==
    IF failLevel = "none" THEN {}
    ELSE {e \in entries : ~e.passed /\ Rank(e.level) <= Rank(failLevel)}

-----------------------------------------------------------------------------
(* build_verdict                                                           *)

Failures(entries) == {e \in entries : ~e.passed /\ e.status # "incomplete"}

Incompletes(entries) == {e \in entries : e.status = "incomplete"}

\* Mutant: a level that is not in the table comes before those that are.
UnknownFirst(level) ==
    CASE level = "critical" -> 0 [] level = "warning" -> 1 [] level = "info" -> 2 [] OTHER -> -1
SeverityOrder(level) ==
    CASE level = "critical" -> 0 [] level = "warning" -> 1 [] level = "info" -> 2 [] OTHER -> 99

\* The level in the headline: that of the worst failed rule.
WorstLevel(entries) ==
    LET failed == {e.level : e \in Failures(entries)}
    IN IF failed = {} THEN None
       ELSE CHOOSE l \in failed : \A m \in failed : SeverityOrder(l) <= SeverityOrder(m)

-----------------------------------------------------------------------------
(* The commands "rules list", "rules show" and "rules evaluate".  What they *)
(* are given has its rules at the top, like rules.yaml, or under spec, like *)
(* a playbook; they look at the top only.                                   *)

DeclaredIn(file, written) == IF file = "rules.yaml" THEN written ELSE <<>>

Shipped ==
    {[provider |-> c[1], slug |-> <<c[2]>>, level |-> Catalogue[c].level,
      enable |-> Catalogue[c].enable, at |-> Catalogue[c].at,
      limit |-> Catalogue[c].limit, condition |-> Catalogue[c].condition] :
        c \in DOMAIN Catalogue}

FilterLevels == {"critical", "warning", "info"}

\* Mutant: a rule without a level is not taken for info.
ListedAsLabelled(file, written, level, provider) ==
    LET declared == DeclaredIn(file, written)
        rules == IF declared = <<>> THEN Shipped ELSE ToSet(Resolve(declared))
    IN {r \in rules : /\ level = None \/ (level \in FilterLevels /\ r.level = level)
                      /\ provider = None \/ r.provider = provider}
\* The resolved rules, or all that are shipped, with --filter-level and
\* --filter-provider.
Listed(file, written, level, provider) ==
    LET declared == DeclaredIn(file, written)
        rules == IF declared = <<>> THEN Shipped ELSE ToSet(Resolve(declared))
    IN {r \in rules : /\ level = None \/ (level \in FilterLevels /\ Or(r.level, "info") = level)
                      /\ provider = None \/ r.provider = provider}

\* The first rule of a slug, whoever provides it.  Those that are shipped come in
\* the order in which their analyzers are found.
Shown(file, written, slug) ==
    LET declared == DeclaredIn(file, written)
        rules == Resolve(declared)
        named == {i \in DOMAIN rules : rules[i].slug = slug}
        shipped == {r \in Shipped : r.slug = slug}
    IN IF declared = <<>> THEN IF shipped = {} THEN None ELSE CHOOSE r \in shipped : TRUE
       ELSE IF named = {} THEN None ELSE rules[Min(named)]

\* rules evaluate --fail.
EvaluateExit(file, written, report, failLevel) ==
    IF Breached(Entries(DeclaredIn(file, written), report), failLevel) = {} THEN 0 ELSE 1

-----------------------------------------------------------------------------
(* ruleset_fingerprint: the rules sorted by slug, ties as they come.  A     *)
(* sorted list is the set of its elements, each with its number among      *)
(* those of the same slug.                                                 *)

\* Mutant: the level is not part of the identity.
ConditionOnly(r) == [condition |-> r.condition]
Pinned(r) == [level |-> Or(r.level, "info"), condition |-> r.condition]

\* Mutant: the rules are hashed as they are declared.
Unsorted(declared) ==
    LET rules == Resolve(declared)
    IN {<<rules[i].slug, i, Pinned(rules[i])>> : i \in Enabled(rules)}
Fingerprint(declared) ==
    LET rules == Resolve(declared)
        Tie(i) == {j \in Enabled(rules) : j <= i /\ rules[j].slug = rules[i].slug}
    IN {<<rules[i].slug, Cardinality(Tie(i)), Pinned(rules[i])>> : i \in Enabled(rules)}

-----------------------------------------------------------------------------
(* The author writes a playbook entry by entry, pins it by its hash and    *)
(* starts another; the reports it is evaluated on change.                  *)

VARIABLES
    playbook,   \* the entries written so far
    pinned,     \* the playbook whose hash a consumer holds
    facts       \* facts[p][s]: the count in the report, None without data

vars == <<playbook, pinned, facts>>

Facts == [Sources -> [Severities -> Counts \union {None}]]

Init == playbook = <<>> /\ pinned = <<>> /\ facts \in Facts

Declare(d) ==
    /\ Len(playbook) < MaxRules
    /\ pinned # <<>> => d \in Pinnable /\ Len(playbook) < MaxPinned
    /\ playbook' = Append(playbook, d)
    /\ UNCHANGED <<pinned, facts>>

Pin ==
    /\ Len(playbook) \in 1 .. MaxPinned /\ ToSet(playbook) \subseteq Pinnable
    /\ pinned' = playbook /\ playbook' = <<>>
    /\ UNCHANGED facts

Observe(p, s) ==
    /\ \E n \in Counts \union {None} : facts' = [facts EXCEPT ![p][s] = n]
    /\ UNCHANGED <<playbook, pinned>>

Next ==
    \/ \E d \in Declarations : Declare(d)
    \/ Pin
    \/ \E p \in Sources, s \in Severities : Observe(p, s)

Spec == Init /\ [][Next]_vars

-----------------------------------------------------------------------------

Now == Entries(playbook, facts)

TypeOK ==
    /\ playbook \in Seq(Declarations) /\ Len(playbook) <= MaxRules
    /\ pinned \in Seq(Declarations) /\ Len(pinned) <= MaxRules
    /\ facts \in Facts
    /\ Now \subseteq [provider : Providers \union {"custom"}, slug : Seq(STRING),
                      level : Levels, passed : BOOLEAN,
                      status : {"passed", "failed", "incomplete"}]
    /\ Score(playbook, facts) \in 0 .. 100

\* The resolved rules have distinct keys, in the order in which these are first
\* written, and each key of a rule has the value the last entry gives it.
LastWordWins ==
    LET final == Resolve(playbook) entries == Processed(playbook)
        First(i) == CHOOSE j \in DOMAIN entries :
                        /\ SameKey(entries[j], final[i])
                        /\ \A k \in 1 .. j - 1 : ~SameKey(entries[k], final[i])
        Said(i, f) == {j \in DOMAIN entries :
                           SameKey(entries[j], final[i]) /\ entries[j][f] # None}
    IN /\ \A j \in DOMAIN entries : \E i \in DOMAIN final : SameKey(entries[j], final[i])
       /\ \A i, j \in DOMAIN final : i < j => First(i) < First(j)
       /\ \A i \in DOMAIN final : \A f \in DOMAIN final[i] :
             final[i][f] = IF Said(i, f) = {} THEN None ELSE entries[Max(Said(i, f))][f]

\* d says enable: false of the key of r, or may do so, having no slug.
MaySwitchOff(d, r) ==
    d.enable = FALSE /\ AsWritten(d).provider = r.provider /\ AsWritten(d).slug \in {r.slug, None}

\* A binding of a criterion that is shipped disabled is evaluated, whatever comes
\* before and after it, unless an entry of its provider, with its slug or without
\* one, says enable: false.
BindingActivates ==
    \A j \in DOMAIN playbook :
        LET d == playbook[j]
        IN /\ Binds(d) /\ InCatalogue(d) /\ d.slug # None
           /\ \A k \in DOMAIN playbook : ~MaySwitchOff(playbook[k], d)
           => \E e \in Now : e.provider = d.provider /\ e.slug = d.slug

\* The gate and the headline rank the levels with tables of their own, and a file
\* of rules may say "none" or no level at all.  Still --fail refuses an image at a
\* level exactly if the headline names that level or a worse one, or an incomplete
\* rule of such a level has not passed; at "none" it refuses nothing.
HeadlineTellsGate ==
    LET now == Now
        worst == WorstLevel(now)
        stuck == {e \in Incompletes(now) : ~e.passed}
    IN /\ Breached(now, "none") = {}
       /\ \A l \in FilterLevels :
             Breached(now, l) # {} <=>
                 \/ worst # None /\ Rank(worst) <= Rank(l)
                 \/ \E e \in stuck : Rank(e.level) <= Rank(l)

\* A rule the gate refuses is on the list, switched on, under its provider and any
\* level one can filter by; and where one provider only uses its slug, the rule
\* "rules show" prints is the one that was judged.
GateExplained ==
    LET rules == ToSet(Resolve(playbook))
    IN \A e \in Breached(Now, "info") :
        /\ \E r \in Listed("rules.yaml", playbook,
                            IF e.level \in FilterLevels THEN e.level ELSE None, e.provider) :
              r.slug = e.slug /\ IsEnabled(r)
        /\ (\A r \in rules : r.slug = e.slug => r.provider = e.provider) =>
              Entry(Shown("rules.yaml", playbook, e.slug), facts) = e

\* A permutation of a playbook whose rules have slugs of their own is the same
\* ruleset: the same hash, the same verdicts.
OwnSlugs(declared) ==
    \A i, j \in DOMAIN declared :
        /\ declared[i].slug # None /\ (Binds(declared[i]) \/ declared[i].criterion = None)
        /\ i # j => declared[i].slug # declared[j].slug
OrderImmaterial ==
    OwnSlugs(playbook) /\ OwnSlugs(pinned) /\ ToSet(playbook) = ToSet(pinned)
    => Fingerprint(playbook) = Fingerprint(pinned) /\ Now = Entries(pinned, facts)

\* Where all conditions carry their limits, the hash pins the verdicts: no
\* ruleset of the same hash and the same slugs lets through what this one refuses.
SelfContained(declared) ==
    LET rules == Resolve(declared)
    IN \A i \in Enabled(rules) : LET c == rules[i].condition
                               IN c # None /\ c.at # None /\ c.limit # None
PinHolds ==
    SelfContained(playbook) /\ SelfContained(pinned)
        /\ Fingerprint(playbook) = Fingerprint(pinned)
    => \A l \in Levels :
          {e.slug : e \in Breached(Now, l)} =
              {e.slug : e \in Breached(Entries(pinned, facts), l)}

-----------------------------------------------------------------------------
(* What the comments and docstrings say, and the code does not do.         *)

\* docs/concepts/rules.md: rules evaluate takes a playbook, and --fail exits with 1
\* when one of its rules is breached.
EvaluateFollowsPlaybook ==
    \A l \in Levels :
        EvaluateExit("playbook", playbook, facts, l) =
            IF Breached(Now, l) = {} THEN 0 ELSE 1

\* fingerprint.py: loosening a threshold changes the hash.
LooseningChangesHash ==
    Fingerprint(playbook) = Fingerprint(pinned) =>
        {e.slug : e \in Breached(Now, "info")} =
            {e.slug : e \in Breached(Entries(pinned, facts), "info")}

=============================================================================
