--------------------------- MODULE AnalyzeCommand ---------------------------
(***************************************************************************)
(* The analyze and evaluate commands (regis/adapters/driving/cli/commands/ *)
(* analyze.py) and the report files they leave: a normal analysis, a       *)
(* --cache hit, a --rerun that patches a report in place, and the dry run  *)
(* of evaluate.  Several commands may share the report directory; no lock  *)
(* protects it.  The tag they analyze may be pushed again at any moment.   *)
(*                                                                         *)
(* One repository and one tag are modelled.  A rule is known by the one    *)
(* thing it reads: the result of an analyzer or a field of the metadata.   *)
(* All rules are at the level of --fail-level or above.  The pool that     *)
(* runs the analyzers is AnalyzeImage; here each has its result in some    *)
(* order.  A report at the default path is known by its digest directory.  *)
(***************************************************************************)
EXTENDS Integers, FiniteSets, Sequences

CONSTANTS
    Procs,            \* regis processes
    Digests,          \* manifests the tag can point at
    Vulnerable,       \* those whose results the rules refuse
    Analyzers,        \* analyzers of the image; metadata is apart
    Fields, Required, \* metadata fields, and those the schema requires
    Playbooks, DefaultPlaybook,
    Watches,          \* Watches[b]: what the rules of playbook b read
    FailOpen,         \* what a rule reads and passes without
    Commands,         \* the command lines in use
    Metadata,         \* the name of the metadata analyzer
    Tag, Cwd, DryRun, \* directories: named by the tag, the fallback, evaluate's
    None, Stub, Empty, Torn,
    MaxStarts, MaxPushes, MaxKills   \* bounds of the model

Keys == Digests \union {Tag, Cwd, DryRun}
Selectable == Analyzers \union {Metadata}
Kinds == {"analyze", "rerun", "evaluate"}
CommandType ==
    [kind : Kinds, at : Keys, rerun : Selectable, select : SUBSET Selectable,
     playbooks : Seq(Playbooks), cache : BOOLEAN, evaluate : BOOLEAN,
     fail : BOOLEAN, sarif : BOOLEAN, meta : SUBSET Fields, schema : BOOLEAN,
     advisory : BOOLEAN, merge : BOOLEAN]

ASSUME NamesAssumption ==
    /\ Vulnerable \subseteq Digests
    /\ Required \subseteq Fields
    /\ DefaultPlaybook \in Playbooks
    /\ Watches \in [Playbooks -> SUBSET (Analyzers \union Fields)]
    /\ FailOpen \subseteq Analyzers \union Fields
    /\ Metadata \notin Analyzers
    /\ Analyzers \intersect Fields = {}
    /\ {None, Stub} \intersect Digests = {}
    /\ {Cwd, DryRun} \intersect (Digests \union {Tag}) = {}
\* "All analyzers were skipped" ends the command before anything happens.
ASSUME CommandsAssumption == \A c \in Commands : c \in CommandType /\ c.select # {}
ASSUME BoundsAssumption == MaxStarts \in Nat /\ MaxPushes \in Nat /\ MaxKills \in Nat

VARIABLES
    remote,      \* the manifest the tag points at
    store,       \* store[k]: report.json in directory k
    receipts,    \* receipts[k]: report.sarif in directory k
    pc,          \* where a process is in its command
    cmd,         \* its command line
    dir,         \* the directory it reads from, then writes to
    draft,       \* the report it holds in memory
    hit,         \* draft came from the cache
    exit,        \* the exit code of its last command
    before,      \* history: what the file held when the process opened it
    starts, pushes, kills

processVars == <<pc, cmd, dir, draft, hit, exit, before>>
fileVars == <<store, receipts>>
bounds == <<starts, pushes, kills>>
vars == <<remote, fileVars, processVars, bounds>>

\* An evaluated playbook: the rules not passed, and those without their data.
Evaluations ==
    [by : Playbooks, refused : SUBSET (Analyzers \union Fields),
     missing : SUBSET (Analyzers \union Fields)]
Checks == [supplied : SUBSET Fields, schema : BOOLEAN, advisory : BOOLEAN]
Report ==
    [digest : Digests \union {Tag}, listed : SUBSET Selectable,
     results : [Analyzers -> Digests \union {None, Stub}],
     checked : Checks \union {None}, metadata : SUBSET Fields,
     playbooks : Seq(Evaluations), rules : Evaluations \union {None},
     tier : Evaluations \union {None}]
Receipts ==
    [by : Playbooks, pin : Playbooks, fails : SUBSET (Analyzers \union Fields)]

\* What is absent is no evaluation, no check and no exit code.
ASSUME NoneAssumption == None \notin Evaluations \union Checks \union {0, 1, 3, 137}

\* Mutant: the file exists, so it is read.
Present(k) == store[k] # None
Readable(k) == store[k] \notin {None, Empty, Torn}

-----------------------------------------------------------------------------
(* Playbooks                                                               *)

\* A metadata field may be absent without a rule counting as incomplete.
EvaluationOf(b, r) ==
    LET missing == {a \in Analyzers : r.results[a] \in {None, Stub}}
        vulnerable == {a \in Analyzers : r.results[a] \in Vulnerable}
        absent == (missing \union (Fields \ r.metadata)) \ FailOpen
    IN [by |-> b,
        refused |-> Watches[b] \intersect (vulnerable \union absent),
        missing |-> Watches[b] \intersect missing]

Resolved(c) == IF c.playbooks = <<>> THEN <<DefaultPlaybook>> ELSE c.playbooks

\* evaluate() writes each playbook's rules into the report: the last one's stay.
RunPlaybooks(c, r) ==
    LET evaluations == [i \in DOMAIN Resolved(c) |-> EvaluationOf(Resolved(c)[i], r)]
    IN [r EXCEPT !.playbooks = evaluations,
                 !.rules = evaluations[Len(evaluations)]]

Hoisted(r) == [r EXCEPT !.rules = r.playbooks[1], !.tier = r.playbooks[1]]

Evaluated(c, r) ==
    IF c.evaluate THEN Hoisted(RunPlaybooks(c, r)) ELSE RunPlaybooks(c, r)

\* Mutant: a hit is trusted as it was evaluated before.
AsCached(c, r) == r
\* A hit is evaluated again only when the command line asks for it.
CachedAnswer(c, r) ==
    IF c.evaluate \/ c.playbooks # <<>> THEN Evaluated(c, r) ELSE r

Breached(r) == r.rules # None /\ r.rules.refused # {}

\* A rule without data is no breach here, although --fail counts it as one.
ReceiptOf(r) ==
    [by |-> r.rules.by, pin |-> r.playbooks[1].by,
     fails |-> r.rules.refused \ r.rules.missing]

-----------------------------------------------------------------------------
(* Metadata                                                                *)

CheckOf(c) == [supplied |-> c.meta, schema |-> c.schema, advisory |-> c.advisory]
Valid(check) == check.schema => Required \subseteq check.supplied

\* Mutant: the derogation is not looked at.
RefusedAnyway(r) == r.checked # None /\ ~Valid(r.checked)
MetadataRefused(r) == r.checked # None /\ ~Valid(r.checked) /\ ~r.checked.advisory

-----------------------------------------------------------------------------

\* Mutant: the digest is looked up again for the envelope.
LateReport(c, key) ==
    [digest |-> IF key = Tag THEN Tag ELSE remote, listed |-> c.select,
     results |-> [a \in Analyzers |-> None],
     checked |-> IF Metadata \in c.select THEN CheckOf(c) ELSE None,
     metadata |-> c.meta, playbooks |-> <<>>, rules |-> None, tier |-> None]

NewReport(c, key) ==
    [digest |-> key, listed |-> c.select,
     results |-> [a \in Analyzers |-> None],
     checked |-> IF Metadata \in c.select THEN CheckOf(c) ELSE None,
     metadata |-> c.meta, playbooks |-> <<>>, rules |-> None, tier |-> None]

Merged(c, r) ==
    IF c.meta = {} THEN r.metadata
    ELSE IF c.merge THEN r.metadata \union c.meta ELSE c.meta

\* Mutant: the rerun starts the results afresh.
PatchedAlone(c, r, result) ==
    [r EXCEPT !.metadata = Merged(c, r),
              !.checked = IF c.rerun = Metadata THEN CheckOf(c) ELSE @,
              !.results = [a \in Analyzers |-> IF a = c.rerun THEN result ELSE None]]
Patched(c, r, result) ==
    [r EXCEPT !.metadata = Merged(c, r),
              !.checked = IF c.rerun = Metadata THEN CheckOf(c) ELSE @,
              !.results = [a \in Analyzers |-> IF a = c.rerun THEN result ELSE @[a]]]

Gate(c, r) == c.evaluate /\ c.fail /\ Breached(r)

\* The exit code of a command that reached its end.
ExitCode(p) ==
    LET c == cmd[p] r == draft[p]
    IN CASE c.kind = "evaluate" -> 0
         [] c.kind = "rerun" -> IF MetadataRefused(r) THEN 3 ELSE 0
         [] c.kind = "analyze" /\ hit[p] -> IF Gate(c, r) THEN 1 ELSE 0
         [] OTHER -> IF MetadataRefused(r) THEN 3 ELSE IF Gate(c, r) THEN 1 ELSE 0

-----------------------------------------------------------------------------

Init ==
    /\ remote \in Digests
    /\ store = [k \in Keys |-> None]
    /\ receipts = [k \in Keys |-> None]
    /\ pc = [p \in Procs |-> "idle"]
    /\ cmd = [p \in Procs |-> None]
    /\ dir = [p \in Procs |-> None]
    /\ draft = [p \in Procs |-> None]
    /\ hit = [p \in Procs |-> FALSE]
    /\ exit = [p \in Procs |-> None]
    /\ before = [p \in Procs |-> None]
    /\ starts = 0 /\ pushes = 0 /\ kills = 0

\* Somebody pushes the tag again.
Push ==
    /\ pushes < MaxPushes
    /\ \E d \in Digests \ {remote} : remote' = d
    /\ pushes' = pushes + 1
    /\ UNCHANGED <<fileVars, processVars, starts, kills>>

Start(p, c) ==
    /\ pc[p] = "idle" /\ starts < MaxStarts
    /\ starts' = starts + 1
    /\ cmd' = [cmd EXCEPT ![p] = c]
    /\ dir' = [dir EXCEPT ![p] = IF c.kind = "analyze" THEN None ELSE c.at]
    /\ pc' = [pc EXCEPT ![p] = IF c.kind = "analyze" THEN "lookup" ELSE "read"]
    /\ draft' = [draft EXCEPT ![p] = None]
    /\ hit' = [hit EXCEPT ![p] = FALSE]
    /\ exit' = [exit EXCEPT ![p] = None]
    /\ before' = [before EXCEPT ![p] = None]
    /\ UNCHANGED <<remote, fileVars, pushes, kills>>

Ends(p, code) ==
    /\ pc' = [pc EXCEPT ![p] = "idle"]
    /\ exit' = [exit EXCEPT ![p] = code]

\* An exception before anything is emitted: an unreadable playbook or schema,
\* a report that does not validate, an analyzer that fails under --rerun.
Abort(p) ==
    /\ pc[p] \in {"redo", "analyse", "evaluate", "dry run"}
    /\ Ends(p, 1)
    /\ UNCHANGED <<remote, fileVars, cmd, dir, draft, hit, before, bounds>>

\* What a command that stops leaves of the report it was writing.
Leaves(p) ==
    IF pc[p] = "write" THEN \E left \in {store[dir[p]], Torn} :
                                store' = [store EXCEPT ![dir[p]] = left]
                      ELSE store' = store

Kill(p) ==
    /\ pc[p] # "idle" /\ kills < MaxKills
    /\ kills' = kills + 1
    /\ Ends(p, 137)
    /\ Leaves(p)
    /\ UNCHANGED <<remote, receipts, cmd, dir, draft, hit, before, starts, pushes>>

-----------------------------------------------------------------------------
(* --rerun and evaluate start from the report on disk.                     *)

Read(p) ==
    /\ pc[p] = "read"
    /\ IF Readable(dir[p])
         THEN /\ draft' = [draft EXCEPT ![p] = store[dir[p]]]
              /\ pc' = [pc EXCEPT ![p] =
                           IF cmd[p].kind = "rerun" THEN "redo" ELSE "dry run"]
              /\ exit' = exit
         ELSE Ends(p, 1) /\ draft' = draft
    /\ UNCHANGED <<remote, fileVars, cmd, dir, hit, before, bounds>>

\* Mutant: the playbooks are not replayed.
RedoOnly(p) ==
    /\ pc[p] = "redo"
    /\ draft' = [draft EXCEPT ![p] = Patched(cmd[p], @, remote)]
    /\ pc' = [pc EXCEPT ![p] = "open"]
    /\ UNCHANGED <<remote, fileVars, cmd, dir, hit, exit, before, bounds>>

\* The image is named by the tag: what is analyzed is what it points at now.
Redo(p) ==
    /\ pc[p] = "redo"
    /\ draft' = [draft EXCEPT ![p] = RunPlaybooks(cmd[p], Patched(cmd[p], @, remote))]
    /\ pc' = [pc EXCEPT ![p] = "open"]
    /\ UNCHANGED <<remote, fileVars, cmd, dir, hit, exit, before, bounds>>

DryRunPlaybooks(p) ==
    /\ pc[p] = "dry run"
    /\ draft' = [draft EXCEPT ![p] = RunPlaybooks(cmd[p], @)]
    /\ dir' = [dir EXCEPT ![p] = DryRun]
    /\ pc' = [pc EXCEPT ![p] = "open"]
    /\ UNCHANGED <<remote, fileVars, cmd, hit, exit, before, bounds>>

-----------------------------------------------------------------------------
(* A normal analysis                                                       *)

\* get_digest; any failure falls back on the tag.
LookUp(p) ==
    /\ pc[p] = "lookup"
    /\ \E key \in {remote, Tag} : dir' = [dir EXCEPT ![p] = key]
    /\ pc' = [pc EXCEPT ![p] = IF cmd[p].cache THEN "cache" ELSE "select"]
    /\ UNCHANGED <<remote, fileVars, cmd, draft, hit, exit, before, bounds>>

\* A file that cannot be parsed is as good as none.
CacheLook(p) ==
    /\ pc[p] = "cache"
    /\ IF Readable(dir[p])
         THEN /\ draft' = [draft EXCEPT ![p] = store[dir[p]]]
              /\ hit' = [hit EXCEPT ![p] = TRUE]
              /\ pc' = [pc EXCEPT ![p] = "evaluate"]
         ELSE pc' = [pc EXCEPT ![p] = "select"] /\ UNCHANGED <<draft, hit>>
    /\ UNCHANGED <<remote, fileVars, cmd, dir, exit, before, bounds>>

Select(p) ==
    /\ pc[p] = "select"
    /\ draft' = [draft EXCEPT ![p] = NewReport(cmd[p], dir[p])]
    /\ pc' = [pc EXCEPT ![p] = "analyse"]
    /\ UNCHANGED <<remote, fileVars, cmd, dir, hit, exit, before, bounds>>

\* An analyzer resolves the tag by itself, or leaves an error stub.
Analyse(p, a) ==
    /\ pc[p] = "analyse"
    /\ a \in cmd[p].select /\ draft[p].results[a] = None
    /\ \E result \in {remote, Stub} :
           draft' = [draft EXCEPT ![p].results[a] = result]
    /\ UNCHANGED <<remote, fileVars, pc, cmd, dir, hit, exit, before, bounds>>

\* Mutant: an error stub is no answer.
AllSucceeded(p) ==
    /\ pc[p] = "analyse"
    /\ \A a \in cmd[p].select \intersect Analyzers : draft[p].results[a] \in Digests
    /\ pc' = [pc EXCEPT ![p] = "evaluate"]
    /\ UNCHANGED <<remote, fileVars, cmd, dir, draft, hit, exit, before, bounds>>

AllAnalysed(p) ==
    /\ pc[p] = "analyse"
    /\ \A a \in cmd[p].select \intersect Analyzers : draft[p].results[a] # None
    /\ pc' = [pc EXCEPT ![p] = "evaluate"]
    /\ UNCHANGED <<remote, fileVars, cmd, dir, draft, hit, exit, before, bounds>>

Evaluate(p) ==
    /\ pc[p] = "evaluate"
    /\ draft' = [draft EXCEPT ![p] = IF hit[p] THEN CachedAnswer(cmd[p], @)
                                               ELSE Evaluated(cmd[p], @)]
    /\ pc' = [pc EXCEPT ![p] = "open"]
    /\ UNCHANGED <<remote, fileVars, cmd, dir, hit, exit, before, bounds>>

-----------------------------------------------------------------------------
(* write_text: the file is truncated, then filled.                         *)

Open(p) ==
    /\ pc[p] = "open"
    /\ before' = [before EXCEPT ![p] = store[dir[p]]]
    /\ store' = [store EXCEPT ![dir[p]] = Empty]
    /\ pc' = [pc EXCEPT ![p] = "write"]
    /\ UNCHANGED <<remote, receipts, cmd, dir, draft, hit, exit, bounds>>

\* PermissionError: the working directory is tried instead, once.
Denied(p) ==
    /\ pc[p] = "open" /\ cmd[p].kind # "rerun" /\ dir[p] # Cwd
    /\ dir' = [dir EXCEPT ![p] = Cwd]
    /\ UNCHANGED <<remote, fileVars, pc, cmd, draft, hit, exit, before, bounds>>

\* Mutant: a file that cannot be written is only warned about.
WarnsOnly(p) ==
    /\ pc[p] \in {"open", "write", "sarif"}
    /\ pc' = [pc EXCEPT ![p] = "verdict"]
    /\ Leaves(p)
    /\ UNCHANGED <<remote, receipts, cmd, dir, draft, hit, exit, before, bounds>>

\* Denied there as well, or any other OSError: the command ends, with the files
\* written so far and possibly half a report on disk.
Fails(p) ==
    /\ pc[p] \in {"open", "write", "sarif"}
    /\ Ends(p, 1)
    /\ Leaves(p)
    /\ UNCHANGED <<remote, receipts, cmd, dir, draft, hit, before, bounds>>

\* Where another process has filled the file meanwhile, a longer text of its
\* own may stick out behind ours.
Contents(p) ==
    IF store[dir[p]] = Empty THEN {draft[p]} ELSE {draft[p], Torn}

Write(p) ==
    /\ pc[p] = "write"
    /\ \E text \in Contents(p) : store' = [store EXCEPT ![dir[p]] = text]
    /\ pc' = [pc EXCEPT ![p] = IF cmd[p].sarif /\ cmd[p].kind # "rerun"
                                 THEN "sarif" ELSE "verdict"]
    /\ UNCHANGED <<remote, receipts, cmd, dir, draft, hit, exit, before, bounds>>

\* The directory the templates give for a report.
Home(p) == IF cmd[p].kind = "evaluate" THEN DryRun ELSE draft[p].digest

\* Each format starts with the report's own directory again and has a fallback
\* of its own, so the two files may part.
WriteSarif(p) ==
    /\ pc[p] = "sarif"
    /\ \E k \in {Home(p), Cwd} : receipts' = [receipts EXCEPT ![k] = ReceiptOf(draft[p])]
    /\ pc' = [pc EXCEPT ![p] = "verdict"]
    /\ UNCHANGED <<remote, store, cmd, dir, draft, hit, exit, before, bounds>>

Verdict(p) ==
    /\ pc[p] = "verdict"
    /\ Ends(p, ExitCode(p))
    /\ UNCHANGED <<remote, fileVars, cmd, dir, draft, hit, before, bounds>>

Work(p) ==
    \/ Read(p) \/ Redo(p) \/ DryRunPlaybooks(p)
    \/ LookUp(p) \/ CacheLook(p) \/ Select(p)
    \/ \E a \in Analyzers : Analyse(p, a)
    \/ AllAnalysed(p) \/ Evaluate(p)
    \/ Open(p) \/ Write(p) \/ WriteSarif(p) \/ Verdict(p)

Next ==
    \/ Push
    \/ \E p \in Procs :
        \/ Work(p) \/ Abort(p) \/ Denied(p) \/ Fails(p) \/ Kill(p)
        \/ \E c \in Commands : Start(p, c)

Spec == Init /\ [][Next]_vars /\ \A p \in Procs : WF_vars(Work(p))

-----------------------------------------------------------------------------

TypeOK ==
    /\ remote \in Digests
    /\ store \in [Keys -> Report \union {None, Empty, Torn}]
    /\ receipts \in [Keys -> Receipts \union {None}]
    /\ pc \in [Procs -> {"idle", "read", "redo", "dry run", "lookup", "cache",
                         "select", "analyse", "evaluate", "open", "write",
                         "sarif", "verdict"}]
    /\ cmd \in [Procs -> Commands \union {None}]
    /\ dir \in [Procs -> Keys \union {None}]
    /\ draft \in [Procs -> Report \union {None}]
    /\ hit \in [Procs -> BOOLEAN]
    /\ exit \in [Procs -> {0, 1, 3, 137, None}]
    /\ before \in [Procs -> Report \union {None, Empty, Torn}]
    /\ starts \in 0 .. MaxStarts /\ pushes \in 0 .. MaxPushes /\ kills \in 0 .. MaxKills

Ended(p, kinds, codes) ==
    pc[p] = "idle" /\ exit[p] \in codes /\ cmd[p].kind \in kinds

\* What the command line alone says is missing.
Malformed(c) ==
    Metadata \in c.select /\ c.schema /\ ~c.advisory /\ ~(Required \subseteq c.meta)

\* A gate (--evaluate --fail) that lets an image through has seen a healthy
\* result, of this run or of the cached one, for every analyzer the rules of the
\* first playbook read, and every metadata field they read.
GateHolds ==
    \A p \in Procs :
        Ended(p, {"analyze"}, {0}) /\ cmd[p].evaluate /\ cmd[p].fail =>
            \A w \in Watches[Resolved(cmd[p])[1]] \ FailOpen :
                IF w \in Analyzers THEN draft[p].results[w] \in Digests \ Vulnerable
                                  ELSE w \in draft[p].metadata

\* Whatever commands shared the directory, were killed or wrote over each other,
\* a report that can be read carries verdicts of its own results and metadata.
ReportsAgree ==
    \A k \in Keys : Readable(k) =>
        LET r == store[k]
        IN /\ \A i \in DOMAIN r.playbooks : r.playbooks[i] = EvaluationOf(r.playbooks[i].by, r)
           /\ \E i \in DOMAIN r.playbooks : r.rules = r.playbooks[i]

\* The digest is looked up once: a report records the digest of the directory it
\* sits in, and a cache hit the digest its own command has looked up, however the
\* tag moves and whoever writes there.  (Its results may still be those of
\* another manifest, see SameDigestSameVerdict.)
FiledUnderItsDigest ==
    /\ \A k \in Digests \union {Tag} : Readable(k) => store[k].digest = k
    /\ \A p \in Procs : pc[p] \in {"evaluate", "open", "write"} /\ hit[p] /\ dir[p] # Cwd =>
           draft[p].digest = dir[p]

\* An analysis that reaches its verdict ends with 3 exactly if its own command
\* line lacks a field it opted into: the malformed call outranks a breach, and a
\* derogation suspends it.  Cache hits aside.
MalformedCallOutranks ==
    [][\A p \in Procs :
          /\ pc[p] = "verdict" /\ pc'[p] = "idle" /\ exit'[p] # 137
          /\ cmd[p].kind = "analyze" /\ ~hit[p]
          => ((exit'[p] = 3) <=> Malformed(cmd[p]))]_vars

\* A command that was denied a directory, or whose SARIF file failed after its
\* report was written, does not end as if nothing had happened: 0 and 3 mean that
\* the report is on disk, and the receipt asked for in its directory or in the
\* working directory.  For commands that run one at a time.
ReportBeforeExit ==
    \A p \in Procs : Ended(p, Kinds, {0, 3}) =>
        /\ store[dir[p]] = draft[p]
        /\ cmd[p].sarif /\ cmd[p].kind # "rerun" =>
              \E k \in {Home(p), Cwd} : receipts[k] = ReceiptOf(draft[p])

\* A rerun and a cache hit write back every result, but that of the analyzer
\* run again, as they found it in the file.  For commands one at a time.
OthersKept ==
    [][\A p \in Procs :
          LET old == before[p] new == store'[dir[p]] c == cmd[p]
          IN pc[p] = "write" /\ pc'[p] \in {"sarif", "verdict"}
                /\ old \in Report /\ new \in Report
                /\ (c.kind = "rerun" \/ (hit[p] /\ dir[p] # Cwd))
             => /\ new.digest = old.digest /\ new.listed = old.listed
                /\ \A a \in Analyzers : new.results[a] # old.results[a] =>
                       c.kind = "rerun" /\ a = c.rerun
                /\ new.checked # old.checked => c.kind = "rerun" /\ c.rerun = Metadata
                /\ old.metadata \subseteq new.metadata \/ (c.kind = "rerun" /\ ~c.merge)
      ]_vars

\* Every command ends, whatever a killed one has left on disk.
CommandsEnd == \A p \in Procs : pc[p] # "idle" ~> pc[p] = "idle"

-----------------------------------------------------------------------------
(* What the documentation says, and the code does not do.                  *)

\* docs/architecture/arc42.md:59: "The same image digest, evaluated with the same
\* playbook", tools and database, "yields the identical verdict".  For two fresh
\* analyses in which no analyzer failed.
SameDigestSameVerdict ==
    \A p, q \in Procs :
        /\ \A x \in {p, q} : /\ pc[x] = "verdict" /\ cmd[x].kind = "analyze" /\ ~hit[x]
                             /\ \A a \in cmd[x].select \intersect Analyzers :
                                    draft[x].results[a] # Stub
        /\ cmd[p] = cmd[q]
        /\ draft[p].digest = draft[q].digest /\ draft[p].digest \in Digests
        => draft[p].rules = draft[q].rules

\* docs/concepts/playbooks.md: --rerun replays rules, tiers and badges.
TierFollowsRules ==
    \A k \in Keys : Readable(k) /\ store[k].tier # None => store[k].tier = store[k].playbooks[1]

=============================================================================
