--------------------------- MODULE PlaybookDocument ---------------------------
(***************************************************************************)
(* A playbook as a YAML document, and what the commands of the playbook    *)
(* group make of it: upgrade puts a flat document into the apiVersion/spec *)
(* envelope, migrate replaces the vocabulary of rules by that of criteria  *)
(* and integrations.gitlab by presentation, load_playbook accepts or       *)
(* refuses.                                                                *)
(*                                                                         *)
(* A document is a record of its keys; those of the envelope's spec and    *)
(* those at the top of a flat document are the same.  None is an absent    *)
(* key.  integrations are the keys gitlab and other (all the rest of them),*)
(* pages stands for pages, sections and sidebar.                           *)
(***************************************************************************)
EXTENDS Integers, Sequences

CONSTANTS None

Or(x, y) == IF x = None THEN y ELSE x

NoParts == [badges |-> None, checklists |-> None, templates |-> None]
Blank ==
    [envelope |-> FALSE, version |-> None, tiers |-> <<>>, entries |-> None,
     badges |-> <<>>, gitlab |-> None, other |-> None, presentation |-> NoParts,
     links |-> <<>>, pages |-> None]

\* What authors write: an entry has its criterion under the new key, the legacy
\* one, or both, and a message that reads a path; own says that it has a condition.
Optional(S) == S \union {None}
Whens ==
    [reads : {"rule", "fact", "playbook", "report", "broken"}, of : STRING, is : STRING,
     neg : BOOLEAN]
\* The value of a badge, the URL of a link: plain text, or text with one placeholder.
\* A URL is filled in by str.format or by Jinja2; an expression is nothing but its
\* placeholder.
Values == [reads : {"text", "rule", "fact", "playbook", "report"}, of : STRING]
Urls ==
    [reads : {"text", "rule", "fact", "playbook", "report", "broken"}, of : STRING,
     by : {"format", "template", "expression"}]
RuleEntries ==
    [criterion : Optional(STRING), rule : Optional(STRING),
     reads : {"rule", "criterion", "results"}, own : BOOLEAN]
\* whole: a badge has its scope, its value and its class.
Tiers == [name : STRING, id : Optional(STRING), when : Optional(Whens)]
Badges == [slug : STRING, value : Values, when : Optional(Whens), whole : BOOLEAN]
Links == [label : STRING, url : Urls, when : Optional(Whens)]
ChecklistItems == [label : STRING, when : Optional(Whens), check : Optional(Whens)]
Templates == [url : STRING, when : Optional(Whens)]
Presentations ==
    [badges : Optional(Seq(STRING)), checklists : Optional(Seq(Seq(ChecklistItems))),
     templates : Optional(Seq(Templates))]
Integrations ==
    [badges : Optional(Seq(STRING)), checklists : Optional(Seq(Seq(ChecklistItems))),
     checklist : Optional(Seq(ChecklistItems)), templates : Optional(Seq(Templates))]
Playbook ==
    [envelope : BOOLEAN, version : Optional({"semantic", "loose"}),
     tiers : Seq(Tiers), entries : Optional(Seq(RuleEntries)), badges : Seq(Badges),
     gitlab : Optional(Integrations), other : Optional({"other"}),
     presentation : Presentations, links : Seq(Links), pages : Optional({"pages"})]

ASSUME NoneAssumption == None # "semantic" /\ None \notin Seq(RuleEntries)

-----------------------------------------------------------------------------
(* playbook upgrade                                                        *)

\* Mutant: the key the new format has introduced is forgotten.
OldKeys == {"version", "tiers", "entries", "badges", "gitlab", "other", "links"}
KeptKeys ==
    {"version", "tiers", "entries", "badges", "gitlab", "other", "presentation", "links"}

Upgraded(doc) ==
    IF doc.envelope THEN doc
    ELSE [[k \in DOMAIN doc |-> IF k \in KeptKeys THEN doc[k] ELSE Blank[k]]
             EXCEPT !.envelope = TRUE, !.version = Or(@, "semantic")]

-----------------------------------------------------------------------------
(* playbook migrate                                                        *)

\* The root of a path: rule becomes criterion, results and the others stay.
MigratedPath(root) == IF root = "rule" THEN "criterion" ELSE root

\* The legacy key is renamed unless the entry has both.
MigratedEntry(e) ==
    [e EXCEPT !.criterion = Or(@, e.rule),
              !.rule = IF e.criterion = None THEN None ELSE @,
              !.reads = MigratedPath(@)]

\* The deprecated single checklist is folded into the list of checklists.
Checklists(gitlab) ==
    IF gitlab.checklists \notin {None, <<>>} THEN gitlab.checklists
    ELSE IF gitlab.checklist \notin {None, <<>>} THEN <<gitlab.checklist>>
    ELSE None

\* What presentation says already is not overwritten.
Moved(doc) ==
    LET old == doc.presentation
        new == [badges |-> Or(old.badges, doc.gitlab.badges),
                checklists |-> Or(old.checklists, Checklists(doc.gitlab)),
                templates |-> Or(old.templates, doc.gitlab.templates)]
    IN [doc EXCEPT !.presentation = new, !.gitlab = None]

\* Mutant: only an envelope has its integrations moved.
MovedInSpec(doc) ==
    IF doc.gitlab = None \/ ~doc.envelope THEN doc ELSE Moved(doc)
ToPresentation(doc) == IF doc.gitlab = None THEN doc ELSE Moved(doc)

\* A document without rules is left as it is.
Migrated(doc) ==
    IF doc.entries = None THEN doc
    ELSE ToPresentation([doc EXCEPT !.entries =
                            [i \in DOMAIN @ |-> MigratedEntry(@[i])]])

-----------------------------------------------------------------------------
(* load_playbook: the envelope, the schema, and tier ids that are unique.  *)

UniqueTierIds(doc) ==
    \A i, j \in DOMAIN doc.tiers :
        doc.tiers[i].id # None /\ doc.tiers[i].id = doc.tiers[j].id => i = j

\* What the schema refuses whatever the format: a rule with a condition of its
\* own, a tier or a badge without one, a badge without a value, a version that is
\* not semantic, integrations regis does not have.
ContentValid(doc) ==
    /\ doc.entries # None => \A i \in DOMAIN doc.entries : ~doc.entries[i].own
    /\ \A i \in DOMAIN doc.tiers : doc.tiers[i].when # None
    /\ \A i \in DOMAIN doc.badges : doc.badges[i].when # None /\ doc.badges[i].whole
    /\ doc.version # "loose"
    /\ doc.other = None
    /\ UniqueTierIds(doc)

Loads(doc) ==
    /\ doc.envelope /\ doc.version # None
    /\ doc.gitlab = None /\ doc.pages = None
    /\ ContentValid(doc)
=============================================================================
