-------------------------- MODULE MCAnalyzeCommand --------------------------
(***************************************************************************)
(* Instances of AnalyzeCommand for TLC: two digests, one of them           *)
(* vulnerable, the analyzers cve and sbom, and a playbook for each way of  *)
(* reading them.                                                           *)
(***************************************************************************)
EXTENDS AnalyzeCommand, TLC

CONSTANTS good, bad, cve, sbom, project, ticket, strict, lax

MCWatches == (strict :> {cve, project}) @@ (lax :> {sbom})

\* regis analyze: every analyzer, the default playbook, no gate.
Plain ==
    [kind |-> "analyze", at |-> Tag, rerun |-> Metadata,
     select |-> {cve, Metadata}, playbooks |-> <<>>, cache |-> FALSE,
     evaluate |-> FALSE, fail |-> FALSE, sarif |-> FALSE, meta |-> {project},
     schema |-> TRUE, advisory |-> FALSE, merge |-> FALSE]
Gated == [Plain EXCEPT !.evaluate = TRUE, !.fail = TRUE]
Cached == [Gated EXCEPT !.cache = TRUE]
CachedByBoth == [Cached EXCEPT !.playbooks = <<strict, lax>>]
Unregistered == [Gated EXCEPT !.meta = {}]
Advised == [Unregistered EXCEPT !.advisory = TRUE]
Both == [Plain EXCEPT !.playbooks = <<strict, lax>>, !.select = {cve, sbom}, !.schema = FALSE]
GatedByBoth == [Both EXCEPT !.evaluate = TRUE, !.fail = TRUE]
Sarif == [Gated EXCEPT !.sarif = TRUE]
DryRunOf(k) == [Plain EXCEPT !.kind = "evaluate", !.at = k, !.sarif = TRUE]
Redone(k, a) == [Plain EXCEPT !.kind = "rerun", !.at = k, !.rerun = a, !.meta = {}]
Registered(k) ==
    [Plain EXCEPT !.kind = "rerun", !.at = k, !.meta = {ticket}, !.merge = TRUE]

OneByOne == {Gated, Cached, Unregistered, Advised, Both, GatedByBoth, Sarif,
             DryRunOf(good),
             Redone(good, cve), Redone(good, sbom), Registered(good)}
Shared == {CachedByBoth, Redone(good, cve), Registered(good)}
Symmetry == Permutations(Procs)

Fresh == {Gated}
=============================================================================
