------------------------------- MODULE Playbooks -------------------------------
(***************************************************************************)
(* A playbook's life: its author writes it in the old format or the new    *)
(* one, upgrades and migrates the file in any order, and the process may   *)
(* be killed as it writes; images are analyzed with what is on disk, and   *)
(* the report of an analysis is evaluated again, with the same playbook or *)
(* with what has become of it.                                             *)
(***************************************************************************)
EXTENDS PlaybookEvaluation

CONSTANTS
    Documents,    \* what the author writes
    Facts,        \* what an analysis finds
    Unreadable,   \* a file that is empty, or no YAML
    NoReport

ASSUME DocumentsAssumption == Documents \subseteq Playbook /\ Unreadable \notin Playbook

VARIABLES
    file,     \* the playbook on disk
    written,  \* what the author wrote
    ran,      \* the commands that have rewritten it since
    writing,  \* <<command, document>> while the file is open for writing
    torn,     \* a command was killed as it wrote
    report,   \* the saved report
    again     \* the result of evaluating it again

fileVars == <<file, written, ran, writing, torn>>
vars == <<fileVars, report, again>>

Init ==
    /\ file \in Documents /\ written = file
    /\ ran = {} /\ writing = <<>> /\ torn = FALSE
    /\ report = NoReport /\ again = NoReport

-----------------------------------------------------------------------------
(* upgrade and migrate --in-place read the file, open it for writing, which *)
(* empties it, and dump the new document into it.                           *)

Rewrite(command, doc) ==
    /\ writing = <<>> /\ file # Unreadable
    /\ writing' = <<command, doc>>
    /\ file' = Unreadable
    /\ UNCHANGED <<written, ran, torn, report, again>>

Upgrade == file # Unreadable /\ ~file.envelope /\ Rewrite("upgrade", Upgraded(file))
Migrate == file # Unreadable /\ Rewrite("migrate", Migrated(file))

\* upgrade leaves an envelope alone.
NothingToUpgrade ==
    /\ writing = <<>> /\ file # Unreadable /\ file.envelope
    /\ ran' = ran \union {"upgrade"}
    /\ UNCHANGED <<file, written, writing, torn, report, again>>

Dump ==
    /\ writing # <<>>
    /\ file' = writing[2] /\ ran' = ran \union {writing[1]}
    /\ writing' = <<>>
    /\ UNCHANGED <<written, torn, report, again>>

\* The keys are dumped in this order; what is on disk when the process dies may
\* still be YAML.
Keys == <<"version", "tiers", "entries", "badges", "gitlab", "other", "presentation",
          "links", "pages">>
Beginnings(doc) ==
    {[k \in DOMAIN doc |-> IF k = "envelope" \/ \E i \in 1 .. n : Keys[i] = k
                             THEN doc[k] ELSE Blank[k]] : n \in DOMAIN Keys}

Kill ==
    /\ writing # <<>>
    /\ file' \in {Unreadable} \union Beginnings(writing[2])
    /\ writing' = <<>> /\ torn' = TRUE
    /\ UNCHANGED <<written, ran, report, again>>

-----------------------------------------------------------------------------
(* analyze --playbook, with or without --evaluate, and evaluate.           *)

Loadable == writing = <<>> /\ file # Unreadable /\ Loads(file)

\* A report that nothing was evaluated on.
Fresh(facts) ==
    [facts |-> facts, rules |-> <<>>, tier |-> None, badges |-> {}, playbook |-> None]

\* The report says what its playbook gave; to its top the results are promoted with
\* --evaluate only.
Analyze(facts, hoist) ==
    LET result == Evaluation(file, Fresh(facts))
    IN /\ Loadable
       /\ report' = [facts |-> facts, rules |-> result.rules,
                     tier |-> IF hoist THEN Or(result.tier, Null) ELSE None,
                     badges |-> IF hoist THEN result.badges ELSE {},
                     playbook |-> result.tier, by |-> file, result |-> result]
       /\ again' = NoReport
       /\ UNCHANGED fileVars

EvaluateAgain ==
    /\ Loadable /\ report # NoReport
    /\ again' = [by |-> file, result |-> Evaluation(file, report)]
    /\ UNCHANGED <<fileVars, report>>

Next ==
    \/ Upgrade \/ Migrate \/ NothingToUpgrade \/ Dump \/ Kill
    \/ \E facts \in Facts, hoist \in BOOLEAN : Analyze(facts, hoist)
    \/ EvaluateAgain

Spec == Init /\ [][Next]_vars

-----------------------------------------------------------------------------

\* What a document means to its reader: integrations.gitlab counts where
\* presentation is silent, and rule is criterion.
Meaning(doc) ==
    LET entries == Or(doc.entries, <<>>)
    IN [rules |-> [i \in DOMAIN entries |->
                      <<Bound(entries[i]), entries[i].reads \in {"rule", "criterion"}>>],
        tiers |-> doc.tiers, badges |-> doc.badges, links |-> doc.links,
        presentation |-> IF doc.gitlab = None THEN doc.presentation
                         ELSE Moved(doc).presentation]

\* However often and in whatever order upgrade and migrate rewrite a playbook, it
\* means what its author wrote, unless one of them was killed as it wrote.
MeaningKept ==
    writing = <<>> /\ ~torn => file # Unreadable /\ Meaning(file) = Meaning(written)

\* A playbook with rules that both commands have gone over, in either order, is
\* accepted, unless its content is at fault.
SettledIsLoadable ==
    /\ writing = <<>> /\ ~torn /\ ran = {"upgrade", "migrate"}
    /\ written.entries # None /\ ContentValid(written)
    /\ written.envelope => written.version # None /\ written.pages = None
    => Loads(file)

Conditions(doc) ==
    LET lists == Or(doc.presentation.checklists, <<>>)
        items == UNION {ToSet(lists[i]) : i \in DOMAIN lists}
        Of(list) == {d.when : d \in list}
    IN (UNION {Of(ToSet(doc.tiers)), Of(ToSet(doc.badges)), Of(ToSet(doc.links)),
               Of(items), {d.check : d \in items},
               Of(ToSet(Or(doc.presentation.templates, <<>>)))}) \ {None}

\* A condition, a badge or a link asks what the report says of an earlier evaluation:
\* what --evaluate has promoted, or the results that str.format finds in it.
AsksEarlier(doc) ==
    \/ \E when \in Conditions(doc) : when.reads = "report"
    \/ \E badge \in ToSet(doc.badges) : badge.value.reads = "report"
    \/ \E link \in ToSet(doc.links) :
          \/ link.url.reads = "report"
          \/ link.url.reads = "playbook" /\ link.url.by = "format"

\* evaluate on a saved report comes to the conclusions of the analysis that saved
\* it, to the values of the badges and the URLs of the links, unless the playbook asks
\* for what an evaluation has left in the report: nothing else of the report that is
\* read comes from the evaluation before.  (But for the labels: see LabelsAreBadges.)
DryRunAgrees ==
    again # NoReport /\ again.by = report.by /\ ~AsksEarlier(report.by) =>
        \A k \in {"rules", "tier", "badges", "links", "checklists", "templates"} :
            again.result[k] = report.result[k]

-----------------------------------------------------------------------------
(* What the schema and the README say, and the code does not do.           *)

\* playbook.schema.json: presentation.badges are the slugs of the badges that are
\* surfaced as labels; so the labels of an analysis are its badges of these slugs.
LabelsAreBadges ==
    report # NoReport =>
        report.result.labels =
            {b \in report.result.badges :
                b.slug \in ToSet(Or(report.by.presentation.badges, <<>>))}

\* README.md: the same image and the same playbook give the same verdict; so does
\* evaluating the saved report again.
VerdictReplays ==
    again # NoReport /\ again.by = report.by => again.result.tier = report.result.tier
=============================================================================
