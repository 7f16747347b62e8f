----------------------- MODULE AnalyzeCommand_proofs -----------------------
(***************************************************************************)
(* Proofs about AnalyzeCommand, for any number of processes that share the *)
(* report directory, any playbooks and any command lines: the files they   *)
(* leave agree with themselves and with the directory they are in.         *)
(***************************************************************************)
EXTENDS AnalyzeCommand, TLAPS

\* A report whose verdicts are those of its own results and metadata.
Agrees(r) ==
    /\ \A i \in DOMAIN r.playbooks : r.playbooks[i] = EvaluationOf(r.playbooks[i].by, r)
    /\ \E i \in DOMAIN r.playbooks : r.rules = r.playbooks[i]

\* The steps at which a process holds a report.
Drafting == {"redo", "dry run", "analyse", "evaluate", "open", "write", "sarif", "verdict"}

\* The report is evaluated: it will not change any more.
Settled == {"open", "write", "sarif", "verdict"}

\* What a process holds at which step.
Holds(p) ==
    /\ pc[p] # "idle" => cmd[p] \in Commands
    /\ pc[p] \notin {"idle", "lookup"} => dir[p] \in Keys
    /\ pc[p] \in {"cache", "select"} => dir[p] \in Digests \union {Tag}
    /\ pc[p] \in Drafting => draft[p] \in Report
    /\ pc[p] \in {"read", "redo", "dry run", "lookup", "cache", "select", "analyse"} => ~hit[p]
    /\ pc[p] \in {"evaluate", "open", "write"} /\ hit[p] => dir[p] \in Digests \union {Tag, Cwd}

\* A process that writes to the directory of a digest holds its report.
Filed(p) ==
    pc[p] \in Drafting /\ dir[p] \in Digests \union {Tag} => draft[p].digest = dir[p]

\* What is about to be written agrees with itself.
Agreeing(p) == pc[p] \in Settled \/ (pc[p] = "evaluate" /\ hit[p]) => Agrees(draft[p])

Local(p) == Holds(p) /\ Filed(p) /\ Agreeing(p)

\* Both promises of the files in one.
FilesInv ==
    \A k \in Keys : Readable(k) =>
        Agrees(store[k]) /\ (k \in Digests \union {Tag} => store[k].digest = k)

IInv == TypeOK /\ FilesInv /\ \A p \in Procs : Local(p)

-----------------------------------------------------------------------------

\* The evaluation of a playbook is typed, and names its playbook.
LEMMA EvaluationTyped ==
    ASSUME NEW b \in Playbooks, NEW r
    PROVE  EvaluationOf(b, r) \in Evaluations /\ EvaluationOf(b, r).by = b
  <1> DEFINE missing == {a \in Analyzers : r.results[a] \in {None, Stub}}
             vulnerable == {a \in Analyzers : r.results[a] \in Vulnerable}
             absent == (missing \union (Fields \ r.metadata)) \ FailOpen
             refused == Watches[b] \intersect (vulnerable \union absent)
             without == Watches[b] \intersect missing
  <1>1. Watches[b] \subseteq Analyzers \union Fields
    BY NamesAssumption
  <1>2. refused \in SUBSET (Analyzers \union Fields) /\ without \in SUBSET (Analyzers \union Fields)
    BY <1>1
  <1>3. EvaluationOf(b, r) = [by |-> b, refused |-> refused, missing |-> without]
    BY DEF EvaluationOf
  <1> HIDE DEF refused, without
  <1> QED
    BY <1>2, <1>3 DEF Evaluations

\* An evaluation depends on nothing but the results and the metadata.
LEMMA EvaluationLocal ==
    ASSUME NEW b, NEW r, NEW s, r.results = s.results, r.metadata = s.metadata
    PROVE  EvaluationOf(b, r) = EvaluationOf(b, s)
  BY DEF EvaluationOf

\* A command names at least one playbook, or the default one is taken.
LEMMA ResolvedTyped ==
    ASSUME NEW c \in Commands
    PROVE  /\ Resolved(c) \in Seq(Playbooks)
           /\ Len(Resolved(c)) \in Nat
           /\ Len(Resolved(c)) >= 1
  <1>1. c.playbooks \in Seq(Playbooks)
    BY CommandsAssumption DEF CommandType
  <1>2. CASE c.playbooks = <<>>
    BY <1>2, NamesAssumption DEF Resolved
  <1>3. CASE c.playbooks # <<>>
    BY <1>1, <1>3 DEF Resolved
  <1> QED
    BY <1>2, <1>3

\* Running the playbooks leaves a report that agrees with itself.
LEMMA PlaybooksRun ==
    ASSUME NEW c \in Commands, NEW r \in Report
    PROVE  /\ RunPlaybooks(c, r) \in Report
           /\ RunPlaybooks(c, r).digest = r.digest
           /\ Agrees(RunPlaybooks(c, r))
           /\ 1 \in DOMAIN RunPlaybooks(c, r).playbooks
  <1> DEFINE n == Len(Resolved(c))
             e == [i \in DOMAIN Resolved(c) |-> EvaluationOf(Resolved(c)[i], r)]
             s == RunPlaybooks(c, r)
  <1>1. Resolved(c) \in Seq(Playbooks) /\ n \in Nat /\ n >= 1 /\ DOMAIN Resolved(c) = 1 .. n
    BY ResolvedTyped
  <1>2. \A i \in 1 .. n : Resolved(c)[i] \in Playbooks
    BY <1>1
  <1>3. \A i \in 1 .. n : e[i] \in Evaluations /\ e[i].by = Resolved(c)[i]
                          /\ e[i] = EvaluationOf(Resolved(c)[i], r)
    BY <1>1, <1>2, EvaluationTyped
  <1>4. e \in Seq(Evaluations) /\ Len(e) = n /\ DOMAIN e = 1 .. n
    BY <1>1, <1>3
  <1>5. e[n] \in Evaluations
    BY <1>1, <1>3
  <1>6. s = [r EXCEPT !.playbooks = e, !.rules = e[Len(e)]]
    BY DEF RunPlaybooks
  <1> HIDE DEF n, e, s
  <1>7. s = [r EXCEPT !.playbooks = e, !.rules = e[n]]
    BY <1>4, <1>6
  <1>8. /\ s \in Report /\ s.digest = r.digest
        /\ s.results = r.results /\ s.metadata = r.metadata
        /\ s.playbooks = e /\ s.rules = e[n]
    BY <1>4, <1>5, <1>7 DEF Report
  <1>9. \A i \in DOMAIN s.playbooks : s.playbooks[i] = EvaluationOf(s.playbooks[i].by, s)
    <2> SUFFICES ASSUME NEW i \in 1 .. n
                 PROVE  e[i] = EvaluationOf(e[i].by, s)
      BY <1>4, <1>8
    <2>1. EvaluationOf(e[i].by, s) = EvaluationOf(e[i].by, r)
      BY <1>8, EvaluationLocal
    <2> QED
      BY <1>3, <2>1
  <1>10. \E i \in DOMAIN s.playbooks : s.rules = s.playbooks[i]
    BY <1>1, <1>4, <1>8
  <1>11. Agrees(s)
    BY <1>9, <1>10 DEF Agrees
  <1>12. 1 \in DOMAIN s.playbooks
    BY <1>1, <1>4, <1>8
  <1> QED
    BY <1>8, <1>11, <1>12 DEF s

\* So does their evaluation with the promotion of the first.
LEMMA EvaluatedAgrees ==
    ASSUME NEW c \in Commands, NEW r \in Report
    PROVE  /\ Evaluated(c, r) \in Report
           /\ Evaluated(c, r).digest = r.digest
           /\ Agrees(Evaluated(c, r))
  <1> DEFINE s == RunPlaybooks(c, r)
  <1>1. s \in Report /\ s.digest = r.digest /\ Agrees(s) /\ 1 \in DOMAIN s.playbooks
    BY PlaybooksRun
  <1> HIDE DEF s
  <1>2. CASE ~c.evaluate
    BY <1>1, <1>2 DEF Evaluated, s
  <1>3. CASE c.evaluate
    <2> DEFINE h == [s EXCEPT !.rules = s.playbooks[1], !.tier = s.playbooks[1]]
    <2>1. s.playbooks[1] \in Evaluations
      BY <1>1 DEF Report
    <2>2. /\ h \in Report /\ h.digest = s.digest
          /\ h.results = s.results /\ h.metadata = s.metadata
          /\ h.playbooks = s.playbooks /\ h.rules = s.playbooks[1]
      BY <1>1, <2>1 DEF Report, h
    <2>3. Evaluated(c, r) = h
      BY <1>3 DEF Evaluated, Hoisted, s
    <2> HIDE DEF h
    <2>4. \A i \in DOMAIN h.playbooks : h.playbooks[i] = EvaluationOf(h.playbooks[i].by, h)
      <3> TAKE i \in DOMAIN h.playbooks
      <3>1. s.playbooks[i] = EvaluationOf(s.playbooks[i].by, s)
        BY <1>1, <2>2 DEF Agrees
      <3>2. EvaluationOf(s.playbooks[i].by, s) = EvaluationOf(s.playbooks[i].by, h)
        BY <2>2, EvaluationLocal
      <3> QED
        BY <2>2, <3>1, <3>2
    <2>5. Agrees(h)
      BY <1>1, <2>2, <2>4 DEF Agrees
    <2> QED
      BY <1>1, <2>2, <2>3, <2>5
  <1> QED
    BY <1>2, <1>3

\* A fresh report is typed.
LEMMA NewReportTyped ==
    ASSUME NEW c \in Commands, NEW key \in Digests \union {Tag}
    PROVE  NewReport(c, key) \in Report /\ NewReport(c, key).digest = key
  <1>1. /\ c.select \in SUBSET Selectable /\ c.meta \in SUBSET Fields
        /\ c.schema \in BOOLEAN /\ c.advisory \in BOOLEAN
    BY CommandsAssumption DEF CommandType
  <1>2. CheckOf(c) \in Checks
    BY <1>1 DEF CheckOf, Checks
  <1>3. [a \in Analyzers |-> None] \in [Analyzers -> Digests \union {None, Stub}]
    OBVIOUS
  <1>4. <<>> \in Seq(Evaluations)
    OBVIOUS
  <1> DEFINE check == IF Metadata \in c.select THEN CheckOf(c) ELSE None
             results == [a \in Analyzers |-> None]
  <1>5. check \in Checks \union {None}
    BY <1>2
  <1>6. NewReport(c, key) =
            [digest |-> key, listed |-> c.select, results |-> results, checked |-> check,
             metadata |-> c.meta, playbooks |-> <<>>, rules |-> None, tier |-> None]
    BY DEF NewReport
  <1>7. results \in [Analyzers -> Digests \union {None, Stub}]
    BY <1>3
  <1> HIDE DEF check, results
  <1> QED
    BY <1>1, <1>4, <1>5, <1>6, <1>7 DEF Report

\* Merged metadata consists of fields.
LEMMA MergedTyped ==
    ASSUME NEW c \in Commands, NEW r \in Report
    PROVE  Merged(c, r) \in SUBSET Fields
  <1>1. c.meta \in SUBSET Fields /\ r.metadata \in SUBSET Fields
    BY CommandsAssumption DEF CommandType, Report
  <1> QED
    BY <1>1 DEF Merged

\* A patched report is a report of the same digest.
LEMMA PatchedTyped ==
    ASSUME NEW c \in Commands, NEW r \in Report, NEW d \in Digests
    PROVE  Patched(c, r, d) \in Report /\ Patched(c, r, d).digest = r.digest
  <1> DEFINE m == Merged(c, r)
             check == IF c.rerun = Metadata THEN CheckOf(c) ELSE r.checked
             results == [a \in Analyzers |-> IF a = c.rerun THEN d ELSE r.results[a]]
  <1>1. c.meta \in SUBSET Fields /\ c.schema \in BOOLEAN /\ c.advisory \in BOOLEAN
    BY CommandsAssumption DEF CommandType
  <1>2. CheckOf(c) \in Checks
    BY <1>1 DEF CheckOf, Checks
  <1>3. r.checked \in Checks \union {None}
    BY DEF Report
  <1>4. check \in Checks \union {None}
    BY <1>2, <1>3
  <1>5. r.results \in [Analyzers -> Digests \union {None, Stub}]
    BY DEF Report
  <1>6. results \in [Analyzers -> Digests \union {None, Stub}]
    BY <1>5
  <1>7. m \in SUBSET Fields
    BY MergedTyped
  <1>8. Patched(c, r, d) = [r EXCEPT !.metadata = m, !.checked = check, !.results = results]
    BY DEF Patched, Report
  <1> HIDE DEF m, check, results
  <1> QED
    BY <1>4, <1>6, <1>7, <1>8 DEF Report

\* The result of an analyzer is put into a report.
LEMMA ResultTyped ==
    ASSUME NEW r \in Report, NEW a \in Analyzers, NEW d \in Digests \union {Stub}
    PROVE  [r EXCEPT !.results[a] = d] \in Report /\ [r EXCEPT !.results[a] = d].digest = r.digest
  <1> DEFINE results == [r.results EXCEPT ![a] = d]
  <1>1. r.results \in [Analyzers -> Digests \union {None, Stub}]
    BY DEF Report
  <1>2. results \in [Analyzers -> Digests \union {None, Stub}]
    BY <1>1
  <1>3. [r EXCEPT !.results[a] = d] = [r EXCEPT !.results = results]
    BY DEF Report
  <1> HIDE DEF results
  <1> QED
    BY <1>2, <1>3 DEF Report

\* The receipt of an evaluated report.
LEMMA ReceiptTyped ==
    ASSUME NEW r \in Report, Agrees(r)
    PROVE  ReceiptOf(r) \in Receipts
  <1>1. r.playbooks \in Seq(Evaluations)
    BY DEF Report
  <1>2. PICK i \in DOMAIN r.playbooks : r.rules = r.playbooks[i]
    BY DEF Agrees
  <1>3. 1 \in DOMAIN r.playbooks
    BY <1>1, <1>2
  <1>4. r.rules \in Evaluations /\ r.playbooks[1] \in Evaluations
    BY <1>1, <1>2, <1>3
  <1>5. /\ r.rules.by \in Playbooks /\ r.playbooks[1].by \in Playbooks
        /\ r.rules.refused \in SUBSET (Analyzers \union Fields)
    BY <1>4 DEF Evaluations
  <1>6. r.rules.refused \ r.rules.missing \in SUBSET (Analyzers \union Fields)
    BY <1>5
  <1> QED
    BY <1>5, <1>6 DEF ReceiptOf, Receipts

-----------------------------------------------------------------------------

\* One more is still within the bound.
LEMMA UpToBound ==
    ASSUME NEW m \in Nat, NEW n \in 0 .. m, n < m PROVE n + 1 \in 0 .. m
  OBVIOUS

\* Types are preserved.
LEMMA TypeStep ==
    ASSUME TypeOK, \A p \in Procs : Local(p), [Next]_vars PROVE TypeOK'
  <1> USE BoundsAssumption DEF TypeOK, processVars, fileVars, bounds
  <1>1. CASE Push
    <2>1. pushes' \in 0 .. MaxPushes
      BY <1>1, UpToBound DEF Push
    <2> QED
      BY <1>1, <2>1 DEF Push
  <1>2. ASSUME NEW p \in Procs, NEW c \in Commands, Start(p, c) PROVE TypeOK'
    <2>1. starts' \in 0 .. MaxStarts
      BY <1>2, UpToBound DEF Start
    <2>2. c.at \in Keys
      BY CommandsAssumption DEF CommandType
    <2>3. dir' \in [Procs -> Keys \union {None}]
      BY <1>2, <2>2 DEF Start
    <2>4. /\ pc' \in [Procs -> {"idle", "read", "redo", "dry run", "lookup", "cache",
                         "select", "analyse", "evaluate", "open", "write",
                         "sarif", "verdict"}]
          /\ cmd' \in [Procs -> Commands \union {None}]
          /\ draft' \in [Procs -> Report \union {None}]
          /\ hit' \in [Procs -> BOOLEAN]
          /\ exit' \in [Procs -> {0, 1, 3, 137, None}]
          /\ before' \in [Procs -> Report \union {None, Empty, Torn}]
      BY <1>2 DEF Start
    <2> QED
      BY <1>2, <2>1, <2>3, <2>4 DEF Start
  <1>3. ASSUME NEW p \in Procs, Read(p) PROVE TypeOK'
    <2>1. dir[p] \in Keys
      BY <1>3 DEF Read, Local, Holds
    <2>2. CASE Readable(dir[p])
      <3>1. store[dir[p]] \in Report
        BY <2>1, <2>2 DEF Readable
      <3>2. draft' \in [Procs -> Report \union {None}]
        BY <1>3, <2>2, <3>1 DEF Read
      <3>3. pc' = [pc EXCEPT ![p] = "redo"] \/ pc' = [pc EXCEPT ![p] = "dry run"]
        BY <1>3, <2>2 DEF Read
      <3> QED
        BY <1>3, <2>2, <3>2, <3>3 DEF Read
    <2>3. CASE ~Readable(dir[p])
      BY <1>3, <2>3 DEF Read, Ends
    <2> QED
      BY <2>2, <2>3
  <1>4. ASSUME NEW p \in Procs, Redo(p) PROVE TypeOK'
    <2>1. cmd[p] \in Commands /\ draft[p] \in Report
      BY <1>4 DEF Redo, Local, Holds, Drafting
    <2>2. RunPlaybooks(cmd[p], Patched(cmd[p], draft[p], remote)) \in Report
      BY <2>1, PatchedTyped, PlaybooksRun
    <2> QED
      BY <1>4, <2>2 DEF Redo
  <1>5. ASSUME NEW p \in Procs, DryRunPlaybooks(p) PROVE TypeOK'
    <2>1. cmd[p] \in Commands /\ draft[p] \in Report
      BY <1>5 DEF DryRunPlaybooks, Local, Holds, Drafting
    <2>2. RunPlaybooks(cmd[p], draft[p]) \in Report
      BY <2>1, PlaybooksRun
    <2> QED
      BY <1>5, <2>2 DEF DryRunPlaybooks, Keys
  <1>6. ASSUME NEW p \in Procs, LookUp(p) PROVE TypeOK'
    <2>1. PICK key \in {remote, Tag} : dir' = [dir EXCEPT ![p] = key]
      BY <1>6 DEF LookUp
    <2>2. dir' \in [Procs -> Keys \union {None}]
      BY <2>1 DEF Keys
    <2> QED
      BY <1>6, <2>2 DEF LookUp
  <1>7. ASSUME NEW p \in Procs, CacheLook(p) PROVE TypeOK'
    <2>1. dir[p] \in Keys
      BY <1>7 DEF CacheLook, Local, Holds
    <2>2. CASE Readable(dir[p])
      <3>1. store[dir[p]] \in Report
        BY <2>1, <2>2 DEF Readable
      <3> QED
        BY <1>7, <2>2, <3>1 DEF CacheLook
    <2>3. CASE ~Readable(dir[p])
      BY <1>7, <2>3 DEF CacheLook
    <2> QED
      BY <2>2, <2>3
  <1>8. ASSUME NEW p \in Procs, Select(p) PROVE TypeOK'
    <2>1. cmd[p] \in Commands /\ dir[p] \in Digests \union {Tag}
      BY <1>8 DEF Select, Local, Holds
    <2>2. NewReport(cmd[p], dir[p]) \in Report
      BY <2>1, NewReportTyped
    <2> QED
      BY <1>8, <2>2 DEF Select
  <1>9. ASSUME NEW p \in Procs, NEW a \in Analyzers, Analyse(p, a) PROVE TypeOK'
    <2>1. draft[p] \in Report
      BY <1>9 DEF Analyse, Local, Holds, Drafting
    <2>2. PICK d \in {remote, Stub} : draft' = [draft EXCEPT ![p].results[a] = d]
      BY <1>9 DEF Analyse
    <2>3. [draft[p] EXCEPT !.results[a] = d] \in Report
      BY <2>1, ResultTyped
    <2>4. draft' \in [Procs -> Report \union {None}]
      BY <2>2, <2>3
    <2> QED
      BY <1>9, <2>4 DEF Analyse
  <1>10. ASSUME NEW p \in Procs, AllAnalysed(p) PROVE TypeOK'
    BY <1>10 DEF AllAnalysed
  <1>11. ASSUME NEW p \in Procs, Evaluate(p) PROVE TypeOK'
    <2>1. cmd[p] \in Commands /\ draft[p] \in Report
      BY <1>11 DEF Evaluate, Local, Holds, Drafting
    <2>2. Evaluated(cmd[p], draft[p]) \in Report
      BY <2>1, EvaluatedAgrees
    <2>3. CachedAnswer(cmd[p], draft[p]) \in Report
      BY <2>1, <2>2 DEF CachedAnswer
    <2> QED
      BY <1>11, <2>2, <2>3 DEF Evaluate
  <1>12. ASSUME NEW p \in Procs, Open(p) PROVE TypeOK'
    <2>1. dir[p] \in Keys
      BY <1>12 DEF Open, Local, Holds
    <2>2. /\ store' \in [Keys -> Report \union {None, Empty, Torn}]
          /\ before' \in [Procs -> Report \union {None, Empty, Torn}]
      BY <1>12, <2>1 DEF Open
    <2> QED
      BY <1>12, <2>2 DEF Open
  <1>13. ASSUME NEW p \in Procs, Write(p) PROVE TypeOK'
    <2>1. dir[p] \in Keys /\ draft[p] \in Report
      BY <1>13 DEF Write, Local, Holds, Drafting
    <2>2. PICK text \in {draft[p], Torn} : store' = [store EXCEPT ![dir[p]] = text]
      BY <1>13 DEF Write, Contents
    <2>3. store' \in [Keys -> Report \union {None, Empty, Torn}]
      BY <2>1, <2>2
    <2> QED
      BY <1>13, <2>3 DEF Write
  <1>14. ASSUME NEW p \in Procs, WriteSarif(p) PROVE TypeOK'
    <2>1. dir[p] \in Keys /\ draft[p] \in Report /\ Agrees(draft[p])
      BY <1>14 DEF WriteSarif, Local, Holds, Agreeing, Drafting, Settled
    <2>2. ReceiptOf(draft[p]) \in Receipts
      BY <2>1, ReceiptTyped
    <2>3. {Home(p), Cwd} \subseteq Keys
      BY <2>1 DEF Home, Keys, Report
    <2>4. PICK k \in {Home(p), Cwd} : receipts' = [receipts EXCEPT ![k] = ReceiptOf(draft[p])]
      BY <1>14 DEF WriteSarif
    <2>5. receipts' \in [Keys -> Receipts \union {None}]
      BY <2>2, <2>3, <2>4
    <2> QED
      BY <1>14, <2>5 DEF WriteSarif
  <1>15. ASSUME NEW p \in Procs, Verdict(p) PROVE TypeOK'
    <2>1. cmd[p].kind \in Kinds
      BY <1>15, CommandsAssumption DEF Verdict, Local, Holds, CommandType
    <2>2. ExitCode(p) \in {0, 1, 3}
      BY <2>1 DEF ExitCode, Kinds
    <2>3. exit' \in [Procs -> {0, 1, 3, 137, None}]
      BY <1>15, <2>2 DEF Verdict, Ends
    <2> QED
      BY <1>15, <2>3 DEF Verdict, Ends
  <1>16. ASSUME NEW p \in Procs, Abort(p) PROVE TypeOK'
    BY <1>16 DEF Abort, Ends
  <1>17. ASSUME NEW p \in Procs, Denied(p) PROVE TypeOK'
    <2>1. Cwd \in Keys
      BY DEF Keys
    <2>2. dir' \in [Procs -> Keys \union {None}]
      BY <1>17, <2>1 DEF Denied
    <2> QED
      BY <1>17, <2>2 DEF Denied
  <1>18. ASSUME NEW p \in Procs, pc[p] # "idle", Leaves(p)
         PROVE  store' \in [Keys -> Report \union {None, Empty, Torn}]
    <2>1. CASE pc[p] = "write"
      <3>1. dir[p] \in Keys
        BY <2>1 DEF Local, Holds
      <3>2. PICK left \in {store[dir[p]], Torn} : store' = [store EXCEPT ![dir[p]] = left]
        BY <1>18, <2>1 DEF Leaves
      <3> QED
        BY <3>1, <3>2
    <2>2. CASE pc[p] # "write"
      BY <1>18, <2>2 DEF Leaves
    <2> QED
      BY <2>1, <2>2
  <1>19. ASSUME NEW p \in Procs, Kill(p) PROVE TypeOK'
    <2>1. kills' \in 0 .. MaxKills
      BY <1>19, UpToBound DEF Kill
    <2>2. store' \in [Keys -> Report \union {None, Empty, Torn}]
      BY <1>18, <1>19 DEF Kill
    <2>3. /\ pc' = [pc EXCEPT ![p] = "idle"] /\ exit' = [exit EXCEPT ![p] = 137]
          /\ UNCHANGED <<remote, receipts, cmd, dir, draft, hit, before, starts, pushes>>
      BY <1>19 DEF Kill, Ends
    <2> QED
      BY <2>1, <2>2, <2>3
  <1>20. ASSUME NEW p \in Procs, Fails(p) PROVE TypeOK'
    <2>1. store' \in [Keys -> Report \union {None, Empty, Torn}]
      BY <1>18, <1>20 DEF Fails
    <2>2. /\ pc' = [pc EXCEPT ![p] = "idle"] /\ exit' = [exit EXCEPT ![p] = 1]
          /\ UNCHANGED <<remote, receipts, cmd, dir, draft, hit, before, starts, pushes, kills>>
      BY <1>20 DEF Fails, Ends
    <2> QED
      BY <2>1, <2>2
  <1>21. CASE UNCHANGED vars
    BY <1>21 DEF vars
  <1> QED
    BY <1>1, <1>2, <1>3, <1>4, <1>5, <1>6, <1>7, <1>8, <1>9, <1>10, <1>11, <1>12,
       <1>13, <1>14, <1>15, <1>16, <1>17, <1>19, <1>20, <1>21 DEF Next, Work

-----------------------------------------------------------------------------

\* A step of one process leaves the others where they are.
LEMMA OthersStay ==
    ASSUME TypeOK, NEW p \in Procs, NEW q \in Procs, q # p,
           \/ Work(p) \/ Abort(p) \/ Denied(p) \/ Fails(p) \/ Kill(p)
           \/ \E c \in Commands : Start(p, c)
    PROVE  /\ pc'[q] = pc[q] /\ cmd'[q] = cmd[q] /\ dir'[q] = dir[q]
           /\ draft'[q] = draft[q] /\ hit'[q] = hit[q] /\ exit'[q] = exit[q]
  <1> USE DEF TypeOK, processVars, bounds, Ends
  <1>1. CASE \E c \in Commands : Start(p, c)
    BY <1>1 DEF Start
  <1>2. CASE Abort(p) \/ Denied(p) \/ Fails(p) \/ Kill(p)
    <2>0. CASE Fails(p)
      BY <2>0 DEF Fails
    <2>1. CASE Abort(p)
      BY <2>1 DEF Abort
    <2>2. CASE Denied(p)
      BY <2>2 DEF Denied
    <2>3. CASE Kill(p)
      BY <2>3 DEF Kill
    <2> QED
      BY <1>2, <2>0, <2>1, <2>2, <2>3
  <1>3. CASE Read(p) \/ Redo(p) \/ DryRunPlaybooks(p)
    <2>1. CASE Read(p)
      BY <2>1 DEF Read
    <2>2. CASE Redo(p) \/ DryRunPlaybooks(p)
      BY <2>2 DEF Redo, DryRunPlaybooks
    <2> QED
      BY <1>3, <2>1, <2>2
  <1>4. CASE LookUp(p) \/ CacheLook(p) \/ Select(p)
    <2>1. CASE CacheLook(p)
      BY <2>1 DEF CacheLook
    <2>2. CASE LookUp(p) \/ Select(p)
      BY <2>2 DEF LookUp, Select
    <2> QED
      BY <1>4, <2>1, <2>2
  <1>5. CASE (\E a \in Analyzers : Analyse(p, a)) \/ AllAnalysed(p) \/ Evaluate(p)
    BY <1>5 DEF Analyse, AllAnalysed, Evaluate
  <1>6. CASE Open(p) \/ Write(p) \/ WriteSarif(p) \/ Verdict(p)
    BY <1>6 DEF Open, Write, WriteSarif, Verdict
  <1> QED
    BY <1>1, <1>2, <1>3, <1>4, <1>5, <1>6 DEF Work

\* What is known of a process depends on its own variables only.
LEMMA LocalKept ==
    ASSUME NEW q \in Procs, Local(q),
           pc'[q] = pc[q], cmd'[q] = cmd[q], dir'[q] = dir[q],
           draft'[q] = draft[q], hit'[q] = hit[q]
    PROVE  Local(q)'
  <1>1. Holds(q)' /\ Filed(q)'
    BY DEF Local, Holds, Filed
  <1>2. Agreeing(q)'
    BY DEF Local, Agreeing, Agrees, EvaluationOf
  <1> QED
    BY <1>1, <1>2 DEF Local

\* A step of a process preserves what is known of that process.
LEMMA LocalStep ==
    ASSUME IInv, NEW p \in Procs,
           \/ Work(p) \/ Abort(p) \/ Denied(p) \/ Fails(p) \/ Kill(p)
           \/ \E c \in Commands : Start(p, c)
    PROVE  Local(p)'
  <1> USE DEF TypeOK, processVars, bounds, Local, Holds, Filed, Agreeing, Drafting, Settled
  <1>0. Local(p)
    BY DEF IInv
  <1>1. ASSUME NEW c \in Commands, Start(p, c) PROVE Local(p)'
    <2>1. c.at \in Keys
      BY CommandsAssumption DEF CommandType
    <2>2. /\ pc'[p] \in {"lookup", "read"} /\ cmd'[p] = c
          /\ pc'[p] = "read" => dir'[p] = c.at
          /\ hit'[p] = FALSE
      BY <1>1 DEF Start, IInv
    <2> QED
      BY <2>1, <2>2
  <1>2. CASE Read(p)
    <2>1. dir[p] \in Keys /\ cmd[p] \in Commands
      BY <1>0, <1>2 DEF Read
    <2>2. CASE Readable(dir[p])
      <3>1. store[dir[p]] \in Report
        BY <2>1, <2>2 DEF Readable, IInv
      <3>2. dir[p] \in Digests \union {Tag} => store[dir[p]].digest = dir[p]
        BY <2>1, <2>2 DEF IInv, FilesInv
      <3>3. /\ pc'[p] \in {"redo", "dry run"} /\ draft'[p] = store[dir[p]]
            /\ dir'[p] = dir[p] /\ cmd'[p] = cmd[p] /\ hit'[p] = hit[p] /\ ~hit[p]
        BY <1>0, <1>2, <2>2 DEF Read, IInv
      <3> QED
        BY <2>1, <3>1, <3>2, <3>3
    <2>3. CASE ~Readable(dir[p])
      <3>1. pc'[p] = "idle"
        BY <1>2, <2>3 DEF Read, Ends, IInv
      <3> QED
        BY <3>1
    <2> QED
      BY <2>2, <2>3
  <1>3. CASE Redo(p)
    <2> DEFINE old == Patched(cmd[p], draft[p], remote)
               new == RunPlaybooks(cmd[p], old)
    <2>1. /\ cmd[p] \in Commands /\ draft[p] \in Report /\ dir[p] \in Keys
          /\ dir[p] \in Digests \union {Tag} => draft[p].digest = dir[p]
          /\ remote \in Digests
      BY <1>0, <1>3 DEF Redo, IInv
    <2>2. old \in Report /\ old.digest = draft[p].digest
      BY <2>1, PatchedTyped
    <2> HIDE DEF old
    <2>3. new \in Report /\ new.digest = old.digest /\ Agrees(new)
      BY <2>1, <2>2, PlaybooksRun
    <2>4. /\ pc'[p] = "open" /\ draft'[p] = new /\ dir'[p] = dir[p] /\ cmd'[p] = cmd[p]
          /\ hit'[p] = hit[p] /\ ~hit[p]
      BY <1>0, <1>3 DEF Redo, IInv, old
    <2> HIDE DEF new
    <2> QED
      BY <2>1, <2>2, <2>3, <2>4
  <1>4. CASE DryRunPlaybooks(p)
    <2> DEFINE new == RunPlaybooks(cmd[p], draft[p])
    <2>1. cmd[p] \in Commands /\ draft[p] \in Report
      BY <1>0, <1>4 DEF DryRunPlaybooks
    <2>2. new \in Report /\ Agrees(new)
      BY <2>1, PlaybooksRun
    <2>3. /\ pc'[p] = "open" /\ draft'[p] = new /\ dir'[p] = DryRun /\ cmd'[p] = cmd[p]
          /\ hit'[p] = hit[p] /\ ~hit[p]
      BY <1>0, <1>4 DEF DryRunPlaybooks, IInv
    <2>4. DryRun \in Keys /\ DryRun \notin Digests \union {Tag}
      BY NamesAssumption DEF Keys
    <2> HIDE DEF new
    <2> QED
      BY <2>1, <2>2, <2>3, <2>4
  <1>5. CASE LookUp(p)
    <2>1. /\ pc'[p] \in {"cache", "select"} /\ cmd'[p] = cmd[p] /\ dir'[p] \in {remote, Tag}
          /\ hit'[p] = hit[p]
      BY <1>5 DEF LookUp, IInv
    <2>2. remote \in Digests
      BY DEF IInv
    <2>3. dir'[p] \in Keys /\ dir'[p] \in Digests \union {Tag}
      BY <2>1, <2>2 DEF Keys
    <2>4. cmd[p] \in Commands /\ ~hit[p]
      BY <1>0, <1>5 DEF LookUp
    <2> QED
      BY <2>1, <2>3, <2>4
  <1>6. CASE CacheLook(p)
    <2>1. dir[p] \in Keys /\ dir[p] \in Digests \union {Tag} /\ cmd[p] \in Commands /\ ~hit[p]
      BY <1>0, <1>6 DEF CacheLook
    <2>2. CASE Readable(dir[p])
      <3>1. store[dir[p]] \in Report
        BY <2>1, <2>2 DEF Readable, IInv
      <3>2. store[dir[p]].digest = dir[p]
        BY <2>1, <2>2 DEF IInv, FilesInv
      <3>3. Agrees(store[dir[p]])
        BY <2>1, <2>2 DEF IInv, FilesInv
      <3>4. /\ pc'[p] = "evaluate" /\ draft'[p] = store[dir[p]]
            /\ dir'[p] = dir[p] /\ cmd'[p] = cmd[p]
        BY <1>6, <2>2 DEF CacheLook, IInv
      <3> QED
        BY <2>1, <3>1, <3>2, <3>3, <3>4
    <2>3. CASE ~Readable(dir[p])
      <3>1. pc'[p] = "select" /\ dir'[p] = dir[p] /\ cmd'[p] = cmd[p] /\ hit'[p] = hit[p]
        BY <1>6, <2>3 DEF CacheLook, IInv
      <3> QED
        BY <2>1, <3>1
    <2> QED
      BY <2>2, <2>3
  <1>7. CASE Select(p)
    <2>1. cmd[p] \in Commands /\ dir[p] \in Digests \union {Tag} /\ dir[p] \in Keys /\ ~hit[p]
      BY <1>0, <1>7 DEF Select
    <2>2. NewReport(cmd[p], dir[p]) \in Report /\ NewReport(cmd[p], dir[p]).digest = dir[p]
      BY <2>1, NewReportTyped
    <2>3. /\ pc'[p] = "analyse" /\ draft'[p] = NewReport(cmd[p], dir[p])
          /\ dir'[p] = dir[p] /\ cmd'[p] = cmd[p] /\ hit'[p] = hit[p]
      BY <1>7 DEF Select, IInv
    <2> QED
      BY <2>1, <2>2, <2>3
  <1>8. ASSUME NEW a \in Analyzers, Analyse(p, a) PROVE Local(p)'
    <2>1. /\ cmd[p] \in Commands /\ draft[p] \in Report /\ dir[p] \in Keys
          /\ dir[p] \in Digests \union {Tag} => draft[p].digest = dir[p]
          /\ remote \in Digests /\ ~hit[p]
      BY <1>0, <1>8 DEF Analyse, IInv
    <2>2. PICK d \in {remote, Stub} : draft' = [draft EXCEPT ![p].results[a] = d]
      BY <1>8 DEF Analyse
    <2> DEFINE new == [draft[p] EXCEPT !.results[a] = d]
    <2>3. new \in Report /\ new.digest = draft[p].digest
      BY <2>1, <2>2, ResultTyped
    <2>4. /\ pc'[p] = "analyse" /\ draft'[p] = new
          /\ dir'[p] = dir[p] /\ cmd'[p] = cmd[p] /\ hit'[p] = hit[p]
      BY <1>8, <2>2 DEF Analyse, IInv
    <2> HIDE DEF new
    <2> QED
      BY <2>1, <2>3, <2>4
  <1>9. CASE AllAnalysed(p)
    <2>1. ~hit[p]
      BY <1>0, <1>9 DEF AllAnalysed
    <2>2. /\ pc[p] = "analyse" /\ pc'[p] = "evaluate" /\ draft'[p] = draft[p]
          /\ dir'[p] = dir[p] /\ cmd'[p] = cmd[p] /\ hit'[p] = hit[p]
      BY <1>9 DEF AllAnalysed, IInv
    <2> QED
      BY <1>0, <2>1, <2>2
  <1>10. CASE Evaluate(p)
    <2> DEFINE new == IF hit[p] THEN CachedAnswer(cmd[p], draft[p]) ELSE Evaluated(cmd[p], draft[p])
    <2>1. /\ cmd[p] \in Commands /\ draft[p] \in Report /\ dir[p] \in Keys
          /\ dir[p] \in Digests \union {Tag} => draft[p].digest = dir[p]
          /\ hit[p] => Agrees(draft[p]) /\ dir[p] \in Digests \union {Tag, Cwd}
      BY <1>0, <1>10 DEF Evaluate
    <2>2. /\ Evaluated(cmd[p], draft[p]) \in Report /\ Agrees(Evaluated(cmd[p], draft[p]))
          /\ Evaluated(cmd[p], draft[p]).digest = draft[p].digest
      BY <2>1, EvaluatedAgrees
    <2>3. new \in Report /\ Agrees(new) /\ new.digest = draft[p].digest
      BY <2>1, <2>2 DEF CachedAnswer
    <2>4. /\ pc'[p] = "open" /\ draft'[p] = new
          /\ dir'[p] = dir[p] /\ cmd'[p] = cmd[p] /\ hit'[p] = hit[p]
      BY <1>10 DEF Evaluate, IInv
    <2> HIDE DEF new
    <2> QED
      BY <2>1, <2>3, <2>4
  <1>11. CASE Open(p) \/ Write(p) \/ WriteSarif(p)
    <2>1. /\ pc[p] \in Settled /\ pc'[p] \in Settled /\ draft'[p] = draft[p]
          /\ dir'[p] = dir[p] /\ cmd'[p] = cmd[p] /\ hit'[p] = hit[p]
          /\ pc'[p] = "write" => pc[p] = "open"
          /\ pc'[p] \notin {"evaluate", "open"}
      BY <1>11 DEF Open, Write, WriteSarif, IInv
    <2> QED
      BY <1>0, <2>1
  <1>12. CASE Verdict(p) \/ Abort(p) \/ Fails(p) \/ Kill(p)
    <2>1. pc'[p] = "idle"
      BY <1>12 DEF Verdict, Abort, Fails, Kill, Ends, IInv
    <2> QED
      BY <2>1
  <1>13. CASE Denied(p)
    <2>1. Cwd \in Keys /\ Cwd \notin Digests \union {Tag}
      BY NamesAssumption DEF Keys
    <2>2. /\ pc[p] = "open" /\ pc'[p] = "open" /\ dir'[p] = Cwd
          /\ draft'[p] = draft[p] /\ cmd'[p] = cmd[p] /\ hit'[p] = hit[p]
      BY <1>13 DEF Denied, IInv
    <2> QED
      BY <1>0, <2>1, <2>2
  <1> QED
    BY <1>1, <1>2, <1>3, <1>4, <1>5, <1>6, <1>7, <1>8, <1>9, <1>10, <1>11, <1>12, <1>13
       DEF Work

\* The files keep their promises.
LEMMA FilesStep ==
    ASSUME IInv, [Next]_vars PROVE FilesInv'
  <1> USE DEF processVars, fileVars, bounds
  <1>0. FilesInv
    BY DEF IInv
  <1>1. CASE store' = store
    BY <1>0, <1>1 DEF FilesInv, Readable, Agrees, EvaluationOf
  <1>2. ASSUME NEW p \in Procs, NEW k \in Keys,
               \/ store'[k] \in {Empty, Torn}
               \/ pc[p] = "write" /\ k = dir[p] /\ store'[k] = draft[p],
               \A l \in Keys \ {k} : store'[l] = store[l]
        PROVE  FilesInv'
    <2>1. pc[p] = "write" => /\ dir[p] \in Digests \union {Tag} => draft[p].digest = dir[p]
                             /\ Agrees(draft[p])
      BY DEF IInv, Local, Filed, Agreeing, Drafting, Settled
    <2> SUFFICES ASSUME NEW l \in Keys, Readable(l)'
                 PROVE  (Agrees(store[l]) /\ (l \in Digests \union {Tag} => store[l].digest = l))'
      BY DEF FilesInv
    <2>2. store'[l] \notin {None, Empty, Torn}
      BY DEF Readable
    <2>3. CASE l = k
      BY <1>2, <2>1, <2>2, <2>3
    <2>4. CASE l # k
      <3>1. store'[l] = store[l] /\ Readable(l)
        BY <1>2, <2>2, <2>4 DEF Readable
      <3> QED
        BY <1>0, <3>1 DEF FilesInv
    <2> QED
      BY <2>3, <2>4
  <1>3. ASSUME NEW p \in Procs, Open(p) PROVE FilesInv'
    <2>1. dir[p] \in Keys
      BY <1>3 DEF Open, IInv, Local, Holds
    <2>2. store' = [store EXCEPT ![dir[p]] = Empty] /\ DOMAIN store = Keys
      BY <1>3 DEF Open, IInv, TypeOK
    <2> QED
      BY <1>2, <2>1, <2>2
  <1>4. ASSUME NEW p \in Procs, Write(p) PROVE FilesInv'
    <2>1. dir[p] \in Keys /\ pc[p] = "write"
      BY <1>4 DEF Write, IInv, Local, Holds
    <2>2. PICK text \in {draft[p], Torn} : store' = [store EXCEPT ![dir[p]] = text]
      BY <1>4 DEF Write, Contents
    <2>3. DOMAIN store = Keys
      BY DEF IInv, TypeOK
    <2> QED
      BY <1>2, <2>1, <2>2, <2>3
  <1>5. ASSUME NEW p \in Procs, Kill(p) \/ Fails(p) PROVE FilesInv'
    <2>0. pc[p] # "idle" /\ Leaves(p)
      BY <1>5 DEF Kill, Fails
    <2>1. CASE pc[p] # "write"
      BY <1>1, <2>0, <2>1 DEF Leaves
    <2>2. CASE pc[p] = "write"
      <3>1. dir[p] \in Keys /\ DOMAIN store = Keys
        BY <2>2 DEF IInv, TypeOK, Local, Holds
      <3>2. PICK left \in {store[dir[p]], Torn} : store' = [store EXCEPT ![dir[p]] = left]
        BY <2>0, <2>2 DEF Leaves
      <3>3. CASE left = Torn
        BY <1>2, <3>1, <3>2, <3>3
      <3>4. CASE left = store[dir[p]]
        <4>1. store' = store
          BY <3>1, <3>2, <3>4 DEF IInv, TypeOK
        <4> QED
          BY <1>1, <4>1
      <3> QED
        BY <3>2, <3>3, <3>4
    <2> QED
      BY <2>1, <2>2
  <1>6. ASSUME NEW p \in Procs,
               \/ Read(p) \/ Redo(p) \/ DryRunPlaybooks(p) \/ LookUp(p) \/ CacheLook(p)
               \/ Select(p) \/ (\E a \in Analyzers : Analyse(p, a)) \/ AllAnalysed(p)
               \/ Evaluate(p) \/ WriteSarif(p) \/ Verdict(p) \/ Abort(p) \/ Denied(p)
               \/ (\E c \in Commands : Start(p, c))
        PROVE  FilesInv'
    <2>1. store' = store
      BY <1>6 DEF Read, Redo, DryRunPlaybooks, LookUp, CacheLook, Select, Analyse,
                  AllAnalysed, Evaluate, WriteSarif, Verdict, Abort, Denied, Start
    <2> QED
      BY <1>1, <2>1
  <1>7. CASE Push \/ UNCHANGED vars
    BY <1>1, <1>7 DEF Push, vars
  <1> QED
    BY <1>3, <1>4, <1>5, <1>6, <1>7 DEF Next, Work

-----------------------------------------------------------------------------

\* The invariant holds at first: there are no files, and nobody is running.
LEMMA InitIInv ==
    Init => IInv
  <1> SUFFICES ASSUME Init PROVE IInv
    OBVIOUS
  <1>1. TypeOK
    BY BoundsAssumption DEF Init, TypeOK
  <1>2. FilesInv
    BY DEF Init, FilesInv, Readable
  <1>3. \A p \in Procs : Local(p)
    BY DEF Init, Local, Holds, Filed, Agreeing, Drafting, Settled
  <1> QED
    BY <1>1, <1>2, <1>3 DEF IInv

\* Every step preserves it.
LEMMA NextIInv ==
    IInv /\ [Next]_vars => IInv'
  <1> SUFFICES ASSUME IInv, [Next]_vars PROVE IInv'
    OBVIOUS
  <1>1. TypeOK'
    BY TypeStep DEF IInv
  <1>2. FilesInv'
    BY FilesStep
  <1>3. ASSUME NEW q \in Procs PROVE Local(q)'
    <2>1. Local(q)
      BY DEF IInv
    <2>2. CASE UNCHANGED processVars
      <3>1. /\ pc'[q] = pc[q] /\ cmd'[q] = cmd[q] /\ dir'[q] = dir[q]
            /\ draft'[q] = draft[q] /\ hit'[q] = hit[q]
        BY <2>2 DEF processVars
      <3> QED
        BY <2>1, <3>1, LocalKept
    <2>3. CASE Push \/ UNCHANGED vars
      BY <2>2, <2>3 DEF Push, vars
    <2>4. ASSUME NEW p \in Procs,
                 \/ Work(p) \/ Abort(p) \/ Denied(p) \/ Fails(p) \/ Kill(p)
                 \/ \E c \in Commands : Start(p, c)
          PROVE  Local(q)'
      <3>1. CASE q = p
        BY <2>4, <3>1, LocalStep
      <3>2. CASE q # p
        <4>1. /\ pc'[q] = pc[q] /\ cmd'[q] = cmd[q] /\ dir'[q] = dir[q]
              /\ draft'[q] = draft[q] /\ hit'[q] = hit[q]
          BY <2>4, <3>2, OthersStay DEF IInv
        <4> QED
          BY <2>1, <4>1, LocalKept
      <3> QED
        BY <3>1, <3>2
    <2> QED
      BY <2>3, <2>4 DEF Next
  <1> QED
    BY <1>1, <1>2, <1>3 DEF IInv

LEMMA Invariance == Spec => []IInv
  BY InitIInv, NextIInv, PTL DEF Spec

\* Every state of the commands and the directory they share is typed.
THEOREM TypeCorrect == Spec => []TypeOK
  <1>1. IInv => TypeOK
    BY DEF IInv
  <1> QED
    BY <1>1, Invariance, PTL

\* Whatever commands share the directory, however the tag moves and whoever is
\* killed while it writes: a report that can be read records the digest of the
\* directory it is in, and a cache hit the digest its command has looked up.
THEOREM FiledUnderItsDigestHolds == Spec => []FiledUnderItsDigest
  <1>1. IInv => FiledUnderItsDigest
    <2> SUFFICES ASSUME IInv PROVE FiledUnderItsDigest
      OBVIOUS
    <2>1. \A k \in Digests \union {Tag} : Readable(k) => store[k].digest = k
      BY DEF IInv, FilesInv, Keys
    <2>2. ASSUME NEW p \in Procs, pc[p] \in {"evaluate", "open", "write"}, hit[p], dir[p] # Cwd
          PROVE  draft[p].digest = dir[p]
      BY <2>2 DEF IInv, Local, Holds, Filed, Drafting
    <2> QED
      BY <2>1, <2>2 DEF FiledUnderItsDigest
  <1> QED
    BY <1>1, Invariance, PTL

\* And its verdicts are those of its own results, for any playbooks and rules.
THEOREM ReportsAgreeHolds == Spec => []ReportsAgree
  <1>1. IInv => ReportsAgree
    BY DEF IInv, FilesInv, ReportsAgree, Agrees
  <1> QED
    BY <1>1, Invariance, PTL

-----------------------------------------------------------------------------
(* What the verdict of a command says about its own report.                *)

\* Two reports with the same findings, whatever was made of them.
SameFindings(r, s) ==
    /\ s.digest = r.digest /\ s.listed = r.listed /\ s.results = r.results
    /\ s.checked = r.checked /\ s.metadata = r.metadata

\* No evaluation touches the findings.
LEMMA FindingsKept ==
    ASSUME NEW c, NEW r \in Report
    PROVE  SameFindings(r, RunPlaybooks(c, r)) /\ SameFindings(r, Evaluated(c, r))
  <1> DEFINE e == [i \in DOMAIN Resolved(c) |-> EvaluationOf(Resolved(c)[i], r)]
             s == RunPlaybooks(c, r)
  <1>1. s = [r EXCEPT !.playbooks = e, !.rules = e[Len(e)]]
    BY DEF RunPlaybooks
  <1> HIDE DEF e
  <1>2. SameFindings(r, s) /\ SameFindings(r, Hoisted(s))
    BY <1>1 DEF SameFindings, Hoisted, Report
  <1> QED
    BY <1>2 DEF Evaluated

\* The rules of a report that is gated: those of the first playbook.
Judged(c, r) == r.rules = EvaluationOf(Resolved(c)[1], r)

LEMMA FirstJudges ==
    ASSUME NEW c \in Commands, NEW r \in Report, c.evaluate
    PROVE  Judged(c, Evaluated(c, r))
  <1> DEFINE e == [i \in DOMAIN Resolved(c) |-> EvaluationOf(Resolved(c)[i], r)]
             s == RunPlaybooks(c, r)
  <1>1. 1 \in DOMAIN Resolved(c)
    BY ResolvedTyped
  <1>2. s.playbooks = e
    BY DEF RunPlaybooks, Report
  <1>3. Evaluated(c, r).rules = s.playbooks[1]
    <2>1. DOMAIN s = DOMAIN r
      BY DEF RunPlaybooks
    <2>2. Evaluated(c, r) = [s EXCEPT !.rules = s.playbooks[1], !.tier = s.playbooks[1]]
      BY DEF Evaluated, Hoisted
    <2> HIDE DEF s
    <2> QED
      BY <2>1, <2>2 DEF Report
  <1>4. Evaluated(c, r).rules = EvaluationOf(Resolved(c)[1], r)
    BY <1>1, <1>2, <1>3
  <1>5. EvaluationOf(Resolved(c)[1], r) = EvaluationOf(Resolved(c)[1], Evaluated(c, r))
    BY FindingsKept, EvaluationLocal DEF SameFindings
  <1> QED
    BY <1>4, <1>5 DEF Judged

\* The metadata check of a report: that of the command line.
OwnCheck(c) == IF Metadata \in c.select THEN CheckOf(c) ELSE None

Analysing == {"lookup", "cache", "select", "analyse", "evaluate"}

\* A command has passed the gate.
LetThrough(p) ==
    /\ draft[p] \in Report /\ cmd[p] \in Commands
    /\ Judged(cmd[p], draft[p]) /\ draft[p].rules.refused = {}

\* Which kind of command is where.
Routed(p) ==
    /\ pc[p] \in Analysing => cmd[p].kind = "analyze"
    /\ pc[p] \in {"read", "redo", "dry run"} => cmd[p].kind # "analyze" /\ ~hit[p]
    /\ (pc[p] = "redo" => cmd[p].kind = "rerun") /\ (pc[p] = "dry run" => cmd[p].kind # "rerun")

\* What a command has in hand for its verdict.
VerdictInv(p) ==
    /\ Routed(p)
    /\ pc[p] \in Settled /\ cmd[p].kind # "analyze" => ~hit[p]
    /\ pc[p] \in Settled /\ cmd[p].kind = "analyze" /\ cmd[p].evaluate => Judged(cmd[p], draft[p])
    /\ pc[p] \in Settled \union {"analyse", "evaluate"} /\ cmd[p].kind = "analyze" /\ ~hit[p] =>
          draft[p].checked = OwnCheck(cmd[p])
    /\ pc[p] = "idle" /\ exit[p] = 0 /\ cmd[p].kind = "analyze" /\ cmd[p].evaluate /\ cmd[p].fail =>
          LetThrough(p)

\* An analysis that does not pass the gate ends with 1, or with 3.
LEMMA GateCode ==
    ASSUME NEW p, cmd[p].kind = "analyze", Gate(cmd[p], draft[p])
    PROVE  ExitCode(p) = 1 \/ ExitCode(p) = 3
  BY DEF ExitCode

\* A step of a process preserves it.
LEMMA VerdictStep ==
    ASSUME IInv, NEW p \in Procs, VerdictInv(p),
           \/ Work(p) \/ Abort(p) \/ Denied(p) \/ Fails(p) \/ Kill(p)
           \/ \E c \in Commands : Start(p, c)
    PROVE  VerdictInv(p)'
  <1> USE DEF TypeOK, processVars, bounds, Analysing, Settled
  <1>0. Local(p) /\ TypeOK
    BY DEF IInv
  <1>1. ASSUME NEW c \in Commands, Start(p, c) PROVE VerdictInv(p)'
    <2>1. /\ pc'[p] = IF c.kind = "analyze" THEN "lookup" ELSE "read"
          /\ cmd'[p] = c /\ hit'[p] = FALSE
      BY <1>0, <1>1 DEF Start
    <2> QED
      BY <2>1 DEF VerdictInv, Routed
  <1>2. CASE Read(p)
    <2>1. /\ pc[p] = "read" /\ cmd'[p] = cmd[p] /\ hit'[p] = hit[p]
          /\ \/ pc'[p] = IF cmd[p].kind = "rerun" THEN "redo" ELSE "dry run"
             \/ pc'[p] = "idle" /\ exit'[p] = 1
      BY <1>0, <1>2 DEF Read, Ends
    <2> QED
      BY <2>1 DEF VerdictInv, Routed
  <1>3. CASE Redo(p) \/ DryRunPlaybooks(p)
    <2>1. /\ pc[p] \in {"redo", "dry run"} /\ pc'[p] = "open"
          /\ cmd'[p] = cmd[p] /\ hit'[p] = hit[p]
      BY <1>0, <1>3 DEF Redo, DryRunPlaybooks
    <2> QED
      BY <2>1 DEF VerdictInv, Routed
  <1>4. CASE LookUp(p) \/ CacheLook(p)
    <2>1. /\ pc[p] \in {"lookup", "cache"} /\ pc'[p] \in {"cache", "select", "evaluate"}
          /\ cmd'[p] = cmd[p] /\ (pc'[p] = "evaluate" => hit'[p])
      BY <1>0, <1>4 DEF LookUp, CacheLook
    <2> QED
      BY <2>1 DEF VerdictInv, Routed
  <1>5. CASE Select(p)
    <2>1. /\ pc[p] = "select" /\ pc'[p] = "analyse" /\ cmd'[p] = cmd[p]
          /\ draft'[p] = NewReport(cmd[p], dir[p])
      BY <1>0, <1>5 DEF Select
    <2>2. draft'[p].checked = OwnCheck(cmd[p])
      BY <2>1 DEF NewReport, OwnCheck
    <2> QED
      BY <2>1, <2>2 DEF VerdictInv, Routed
  <1>6. ASSUME NEW a \in Analyzers, Analyse(p, a) PROVE VerdictInv(p)'
    <2>1. /\ pc[p] = "analyse" /\ pc'[p] = pc[p] /\ cmd'[p] = cmd[p] /\ hit'[p] = hit[p]
          /\ draft[p] \in Report
      BY <1>0, <1>6 DEF Analyse, Local, Holds, Drafting
    <2>2. PICK d \in {remote, Stub} : draft' = [draft EXCEPT ![p].results[a] = d]
      BY <1>6 DEF Analyse
    <2>3. draft'[p].checked = draft[p].checked
      BY <1>0, <2>1, <2>2 DEF Report
    <2> QED
      BY <2>1, <2>3 DEF VerdictInv, Routed
  <1>7. CASE AllAnalysed(p)
    <2>1. /\ pc[p] = "analyse" /\ pc'[p] = "evaluate" /\ cmd'[p] = cmd[p] /\ hit'[p] = hit[p]
          /\ draft'[p] = draft[p]
      BY <1>0, <1>7 DEF AllAnalysed
    <2> QED
      BY <2>1 DEF VerdictInv, Routed
  <1>8. CASE Evaluate(p)
    <2>1. /\ pc[p] = "evaluate" /\ pc'[p] = "open" /\ cmd'[p] = cmd[p] /\ hit'[p] = hit[p]
          /\ draft'[p] = IF hit[p] THEN CachedAnswer(cmd[p], draft[p])
                                   ELSE Evaluated(cmd[p], draft[p])
          /\ draft[p] \in Report /\ cmd[p] \in Commands
      BY <1>0, <1>8 DEF Evaluate, Local, Holds, Drafting
    <2>2. cmd[p].evaluate => Judged(cmd[p], draft'[p])
      BY <2>1, FirstJudges DEF CachedAnswer
    <2>3. ~hit[p] => draft'[p].checked = draft[p].checked
      BY <2>1, FindingsKept DEF SameFindings
    <2> QED
      BY <2>1, <2>2, <2>3 DEF VerdictInv, Routed
  <1>9. CASE Open(p) \/ Write(p) \/ WriteSarif(p)
    <2>1. /\ pc[p] \in Settled /\ pc'[p] \in Settled /\ cmd'[p] = cmd[p] /\ hit'[p] = hit[p]
          /\ draft'[p] = draft[p]
      BY <1>0, <1>9 DEF Open, Write, WriteSarif
    <2> QED
      BY <2>1 DEF VerdictInv, Routed
  <1>10. CASE Denied(p)
    <2>1. /\ pc[p] = "open" /\ cmd'[p] = cmd[p] /\ hit'[p] = hit[p] /\ draft'[p] = draft[p]
          /\ pc'[p] = "open"
      BY <1>0, <1>10 DEF Denied
    <2> QED
      BY <2>1 DEF VerdictInv, Routed
  <1>11. CASE Abort(p) \/ Fails(p) \/ Kill(p)
    <2>1. pc'[p] = "idle" /\ exit'[p] \in {1, 137}
      BY <1>0, <1>11 DEF Abort, Fails, Kill, Ends
    <2>2. exit'[p] # 0
      BY <2>1
    <2>3. /\ pc'[p] \notin Settled /\ pc'[p] \notin Settled \union {"analyse", "evaluate"}
          /\ pc'[p] \notin Analysing /\ pc'[p] \notin {"read", "redo", "dry run"}
          /\ pc'[p] # "redo"
      BY <2>1
    <2> HIDE DEF Settled, Analysing
    <2> QED
      BY <2>2, <2>3, Zenon DEF VerdictInv, Routed
  <1>12. CASE Verdict(p)
    <2>1. /\ pc[p] = "verdict" /\ pc'[p] = "idle" /\ exit'[p] = ExitCode(p)
          /\ cmd'[p] = cmd[p] /\ hit'[p] = hit[p] /\ draft'[p] = draft[p]
          /\ draft[p] \in Report /\ cmd[p] \in Commands
      BY <1>0, <1>12 DEF Verdict, Ends, Local, Holds, Drafting
    <2>2. ASSUME ExitCode(p) = 0, cmd[p].kind = "analyze", cmd[p].evaluate, cmd[p].fail
          PROVE  LetThrough(p)
      <3>1. Judged(cmd[p], draft[p])
        BY <2>1, <2>2 DEF VerdictInv, Routed
      <3>2. ~Breached(draft[p])
        <4>1. Breached(draft[p]) => Gate(cmd[p], draft[p])
          BY <2>2, Zenon DEF Gate
        <4>2. Gate(cmd[p], draft[p]) => ExitCode(p) = 1 \/ ExitCode(p) = 3
          BY <2>2, GateCode, Zenon
        <4>3. ~(ExitCode(p) = 1 \/ ExitCode(p) = 3)
          BY <2>2
        <4> QED
          BY <4>1, <4>2, <4>3, Zenon
      <3>3. draft[p].rules # None
        <4>1. Resolved(cmd[p])[1] \in Playbooks
          BY <2>1, ResolvedTyped
        <4>2. draft[p].rules \in Evaluations
          BY <3>1, <4>1, EvaluationTyped DEF Judged
        <4> QED
          BY <4>2, NoneAssumption
      <3> QED
        BY <2>1, <3>1, <3>2, <3>3 DEF LetThrough, Breached
    <2>3. LetThrough(p) => LetThrough(p)'
      BY <2>1 DEF LetThrough, Judged, EvaluationOf
    <2> QED
      BY <2>1, <2>2, <2>3 DEF VerdictInv, Routed
  <1> QED
    BY <1>1, <1>2, <1>3, <1>4, <1>5, <1>6, <1>7, <1>8, <1>9, <1>10, <1>11, <1>12 DEF Work

LEMMA InitVerdict == Init => \A p \in Procs : VerdictInv(p)
  BY NoneAssumption DEF Init, VerdictInv, Routed, Analysing, Settled

LEMMA NextVerdict ==
    IInv /\ (\A p \in Procs : VerdictInv(p)) /\ [Next]_vars => (\A p \in Procs : VerdictInv(p))'
  <1> SUFFICES ASSUME IInv, \A p \in Procs : VerdictInv(p), [Next]_vars, NEW q \in Procs
               PROVE  VerdictInv(q)'
    OBVIOUS
  <1>0. VerdictInv(q)
    OBVIOUS
  <1>1. CASE Push \/ UNCHANGED vars
    <2>1. UNCHANGED <<pc, cmd, draft, hit, exit>>
      BY <1>1 DEF Push, vars, processVars
    <2> QED
      BY <1>0, <2>1, Zenon DEF VerdictInv, Routed, LetThrough, Judged, EvaluationOf
  <1>2. ASSUME NEW p \in Procs,
               \/ Work(p) \/ Abort(p) \/ Denied(p) \/ Fails(p) \/ Kill(p)
               \/ \E c \in Commands : Start(p, c)
        PROVE  VerdictInv(q)'
    <2>1. CASE q = p
      BY <1>2, <2>1, VerdictStep
    <2>2. CASE q # p
      <3>1. /\ pc'[q] = pc[q] /\ cmd'[q] = cmd[q] /\ draft'[q] = draft[q] /\ hit'[q] = hit[q]
            /\ exit'[q] = exit[q]
        BY <1>2, <2>2, OthersStay DEF IInv
      <3>2. LetThrough(q)' <=> LetThrough(q)
        BY <3>1, Zenon DEF LetThrough, Judged, EvaluationOf
      <3>3. Routed(q)'
        <4>1. pc'[q] \in Analysing => cmd'[q].kind = "analyze"
          BY <1>0, <3>1 DEF VerdictInv, Routed
        <4>2. pc'[q] \in {"read", "redo", "dry run"} => cmd'[q].kind # "analyze" /\ ~hit'[q]
          BY <1>0, <3>1 DEF VerdictInv, Routed
        <4>3. /\ pc'[q] = "redo" => cmd'[q].kind = "rerun"
              /\ pc'[q] = "dry run" => cmd'[q].kind # "rerun"
          BY <1>0, <3>1 DEF VerdictInv, Routed
        <4> QED
          BY <4>1, <4>2, <4>3 DEF Routed, Analysing
      <3> QED
        BY <1>0, <3>1, <3>2, <3>3, ZenonT(60) DEF VerdictInv
    <2> QED
      BY <2>1, <2>2
  <1> QED
    BY <1>1, <1>2 DEF Next

LEMMA VerdictInvariance == Spec => []\A p \in Procs : VerdictInv(p)
  BY InitVerdict, NextVerdict, Invariance, PTL DEF Spec

\* Whatever commands share the directory, the gate lets no image through whose
\* report lacks a healthy result or a field that the rules read.
THEOREM GateHoldsAlways == Spec => []GateHolds
  <1>1. (\A p \in Procs : VerdictInv(p)) => GateHolds
    <2> SUFFICES ASSUME NEW p \in Procs, VerdictInv(p), Ended(p, {"analyze"}, {0}),
                        cmd[p].evaluate, cmd[p].fail,
                        NEW w \in Watches[Resolved(cmd[p])[1]] \ FailOpen
                 PROVE  IF w \in Analyzers THEN draft[p].results[w] \in Digests \ Vulnerable
                                           ELSE w \in draft[p].metadata
      BY DEF GateHolds
    <2>1. LetThrough(p)
      BY DEF VerdictInv, Routed, Ended
    <2>2. Resolved(cmd[p])[1] \in Playbooks
      BY <2>1, ResolvedTyped DEF LetThrough
    <2>3. w \in Analyzers \union Fields
      BY <2>2, NamesAssumption
    <2>4. draft[p].results \in [Analyzers -> Digests \union {None, Stub}]
      BY <2>1 DEF LetThrough, Report
    <2>5. EvaluationOf(Resolved(cmd[p])[1], draft[p]).refused = {}
      BY <2>1 DEF LetThrough, Judged
    <2> QED
      BY <2>3, <2>4, <2>5 DEF EvaluationOf
  <1> QED
    BY <1>1, VerdictInvariance, PTL

\* A verdict of an analysis is 3 exactly if its own command line is malformed.
THEOREM MalformedCallOutranksHolds == Spec => MalformedCallOutranks
  <1> DEFINE Outranks == \A p \in Procs :
          /\ pc[p] = "verdict" /\ pc'[p] = "idle" /\ exit'[p] # 137
          /\ cmd[p].kind = "analyze" /\ ~hit[p]
          => ((exit'[p] = 3) <=> Malformed(cmd[p]))
  <1>1. IInv /\ (\A p \in Procs : VerdictInv(p)) /\ [Next]_vars => [Outranks]_vars
    <2> SUFFICES ASSUME IInv, \A q \in Procs : VerdictInv(q), Next, NEW p \in Procs,
                        pc[p] = "verdict", pc'[p] = "idle", exit'[p] # 137,
                        cmd[p].kind = "analyze", ~hit[p]
                 PROVE  (exit'[p] = 3) <=> Malformed(cmd[p])
      OBVIOUS
    <2>1. exit'[p] = ExitCode(p)
      <3>1. PICK q \in Procs : \/ Work(q) \/ Abort(q) \/ Denied(q) \/ Fails(q) \/ Kill(q)
                               \/ \E c \in Commands : Start(q, c)
        BY DEF Next, Push, processVars
      <3>2. q = p
        BY <3>1, OthersStay DEF IInv
      <3>3. Verdict(p) \/ Kill(p)
        BY <3>1, <3>2 DEF Work, Read, Redo, DryRunPlaybooks, LookUp, CacheLook, Select, Analyse,
           AllAnalysed, Evaluate, Open, Write, WriteSarif, Abort, Denied, Fails, Start
      <3> QED
        BY <3>3 DEF Verdict, Kill, Ends, IInv, TypeOK
    <2>2. draft[p].checked = OwnCheck(cmd[p]) /\ cmd[p] \in Commands
      BY DEF VerdictInv, Routed, Settled, IInv, Local, Holds
    <2>3. CheckOf(cmd[p]) # None
      <3>1. CheckOf(cmd[p]) \in Checks
        BY <2>2, CommandsAssumption DEF CommandType, CheckOf, Checks
      <3> QED
        BY <3>1, NoneAssumption
    <2>4. MetadataRefused(draft[p]) <=> Malformed(cmd[p])
      BY <2>2, <2>3 DEF MetadataRefused, OwnCheck, Malformed, Valid, CheckOf
    <2> QED
      BY <2>1, <2>4 DEF ExitCode
  <1> QED
    BY <1>1, Invariance, VerdictInvariance, PTL DEF Spec, MalformedCallOutranks

-----------------------------------------------------------------------------
(* Commands that run one at a time: one process, which starts any number.  *)

Kept(c, old, new) ==
    /\ new.digest = old.digest /\ new.listed = old.listed
    /\ \A a \in Analyzers : new.results[a] # old.results[a] => c.kind = "rerun" /\ a = c.rerun
    /\ new.checked # old.checked => c.kind = "rerun" /\ c.rerun = Metadata
    /\ old.metadata \subseteq new.metadata \/ (c.kind = "rerun" /\ ~c.merge)

\* A report is written back over the one it comes from.
WritesBack(p) == cmd[p].kind = "rerun" \/ (hit[p] /\ dir[p] # Cwd)

\* Exit codes that promise a report on disk.
Promised(p) == pc[p] = "idle" /\ exit[p] \in {0, 3}

\* The receipt is on disk, in one of the two places it may go to.
Receipted(p) == \E k \in {Home(p), Cwd} : receipts[k] = ReceiptOf(draft[p])

\* What a process has in hand agrees with the disk.
SoloInv(p) ==
    /\ pc[p] = "redo" \/ (pc[p] = "evaluate" /\ hit[p]) => draft[p] = store[dir[p]]
    /\ pc[p] = "open" /\ WritesBack(p) /\ store[dir[p]] \in Report =>
          Kept(cmd[p], store[dir[p]], draft[p])
    /\ pc[p] = "write" => store[dir[p]] = Empty
    /\ pc[p] = "write" /\ WritesBack(p) /\ before[p] \in Report =>
          Kept(cmd[p], before[p], draft[p])
    /\ pc[p] \in {"sarif", "verdict"} \/ Promised(p) => store[dir[p]] = draft[p]
    /\ pc[p] = "verdict" \/ Promised(p) =>
          (cmd[p].sarif /\ cmd[p].kind # "rerun" => Receipted(p))

\* A rerun patches what it has read: one result, the metadata and their check.
LEMMA PatchKeeps ==
    ASSUME NEW c \in Commands, NEW r \in Report, NEW d \in Digests, c.kind = "rerun"
    PROVE  Kept(c, r, RunPlaybooks(c, Patched(c, r, d)))
  <1> DEFINE s == Patched(c, r, d)
             results == [a \in Analyzers |-> IF a = c.rerun THEN d ELSE r.results[a]]
             check == IF c.rerun = Metadata THEN CheckOf(c) ELSE r.checked
             meta == Merged(c, r)
  <1>1. s \in Report
    BY PatchedTyped
  <1>2. s = [r EXCEPT !.metadata = meta, !.checked = check, !.results = results]
    BY DEF Patched, Report
  <1>3. results = [a \in Analyzers |-> IF a = c.rerun THEN d ELSE r.results[a]]
    OBVIOUS
  <1>4. check # r.checked => c.rerun = Metadata
    OBVIOUS
  <1>5. r.metadata \subseteq meta \/ ~c.merge
    BY DEF Merged
  <1> HIDE DEF results, check, meta, s
  <1>6. /\ s.digest = r.digest /\ s.listed = r.listed /\ s.metadata = meta
        /\ s.checked = check /\ s.results = results
    BY <1>2 DEF Report
  <1>7. SameFindings(s, RunPlaybooks(c, s))
    BY <1>1, FindingsKept
  <1> QED
    BY <1>3, <1>4, <1>5, <1>6, <1>7 DEF Kept, SameFindings, s

\* A cache hit is at most evaluated again.
LEMMA HitKeeps ==
    ASSUME NEW c, NEW r \in Report
    PROVE  Kept(c, r, CachedAnswer(c, r))
  BY FindingsKept DEF CachedAnswer, Kept, SameFindings

LEMMA SoloStep ==
    ASSUME IInv, NEW p \in Procs, VerdictInv(p), SoloInv(p),
           \/ Work(p) \/ Abort(p) \/ Denied(p) \/ Fails(p) \/ Kill(p)
           \/ \E c \in Commands : Start(p, c)
    PROVE  SoloInv(p)'
  <1> USE DEF TypeOK, processVars, fileVars, bounds
  <1>0. Local(p) /\ TypeOK
    BY DEF IInv
  <1>1. ASSUME pc'[p] \in {"read", "dry run", "lookup", "cache", "select", "analyse"}
        PROVE  SoloInv(p)'
    BY <1>1 DEF SoloInv, Promised
  <1>2. ASSUME pc'[p] = "idle", exit'[p] \in {1, 137}
        PROVE  SoloInv(p)'
    <2>1. ~Promised(p)'
      BY <1>2 DEF Promised
    <2> QED
      BY <1>2, <2>1 DEF SoloInv
  <1>3. CASE \E c \in Commands : Start(p, c)
    <2>1. pc'[p] \in {"lookup", "read"}
      BY <1>0, <1>3 DEF Start
    <2> QED
      BY <1>1, <2>1
  <1>4. CASE Abort(p) \/ Fails(p) \/ Kill(p)
    <2>1. pc'[p] = "idle" /\ exit'[p] \in {1, 137}
      BY <1>0, <1>4 DEF Abort, Fails, Kill, Ends
    <2> QED
      BY <1>2, <2>1
  <1>5. CASE Read(p)
    <2>1. CASE pc'[p] # "redo"
      <3>1. pc'[p] = "dry run" \/ (pc'[p] = "idle" /\ exit'[p] = 1)
        BY <1>0, <1>5, <2>1 DEF Read, Ends
      <3> QED
        BY <1>1, <1>2, <3>1
    <2>2. CASE pc'[p] = "redo"
      <3>1. draft'[p] = store[dir[p]] /\ dir' = dir /\ store' = store
        BY <1>0, <1>5, <2>2 DEF Read, Ends
      <3> QED
        BY <2>2, <3>1 DEF SoloInv, Promised
    <2> QED
      BY <2>1, <2>2
  <1>6. CASE Redo(p)
    <2> DEFINE new == RunPlaybooks(cmd[p], Patched(cmd[p], draft[p], remote))
    <2>1. /\ pc[p] = "redo" /\ pc'[p] = "open" /\ draft'[p] = new
          /\ UNCHANGED <<dir, store, cmd, hit>>
          /\ cmd[p] \in Commands /\ draft[p] \in Report /\ remote \in Digests
      BY <1>0, <1>6 DEF Redo, Local, Holds, Drafting
    <2>2. draft[p] = store[dir[p]] /\ cmd[p].kind = "rerun"
      BY <2>1 DEF SoloInv, VerdictInv, Routed
    <2>3. Kept(cmd[p], draft[p], new)
      BY <2>1, <2>2, PatchKeeps
    <2> HIDE DEF new
    <2>4. Kept(cmd'[p], store'[dir'[p]], draft'[p])
      BY <2>1, <2>2, <2>3
    <2> QED
      BY <2>1, <2>4 DEF SoloInv, Promised
  <1>7. CASE DryRunPlaybooks(p)
    <2>1. /\ pc[p] = "dry run" /\ pc'[p] = "open" /\ UNCHANGED <<cmd, hit>>
      BY <1>0, <1>7 DEF DryRunPlaybooks
    <2>2. cmd[p].kind # "rerun" /\ ~hit[p]
      BY <1>0, <1>7, <2>1 DEF VerdictInv, Routed
    <2>3. ~WritesBack(p)'
      BY <2>1, <2>2 DEF WritesBack
    <2> QED
      BY <2>1, <2>3 DEF SoloInv, Promised
  <1>8. CASE LookUp(p) \/ CacheLook(p)
    <2>1. CASE pc'[p] # "evaluate"
      <3>1. pc'[p] \in {"cache", "select"}
        BY <1>0, <1>8, <2>1 DEF LookUp, CacheLook
      <3> QED
        BY <1>1, <3>1
    <2>2. CASE pc'[p] = "evaluate"
      <3>1. draft'[p] = store[dir[p]] /\ dir' = dir /\ store' = store
        BY <1>0, <1>8, <2>2 DEF LookUp, CacheLook
      <3> QED
        BY <2>2, <3>1 DEF SoloInv, Promised
    <2> QED
      BY <2>1, <2>2
  <1>9. CASE Select(p) \/ \E a \in Analyzers : Analyse(p, a)
    <2>1. pc'[p] = "analyse"
      BY <1>0, <1>9 DEF Select, Analyse
    <2> QED
      BY <1>1, <2>1
  <1>10. CASE AllAnalysed(p)
    <2>1. pc'[p] = "evaluate" /\ ~hit'[p]
      BY <1>0, <1>10 DEF AllAnalysed, Local, Holds
    <2> QED
      BY <2>1 DEF SoloInv, Promised
  <1>11. CASE Evaluate(p)
    <2>1. /\ pc[p] = "evaluate" /\ pc'[p] = "open" /\ UNCHANGED <<cmd, hit, dir, store>>
          /\ hit[p] => draft'[p] = CachedAnswer(cmd[p], draft[p])
          /\ draft[p] \in Report
      BY <1>0, <1>11 DEF Evaluate, Local, Holds, Drafting
    <2>2. hit[p] => draft[p] = store[dir[p]]
      BY <2>1 DEF SoloInv
    <2>3. hit[p] => Kept(cmd[p], draft[p], CachedAnswer(cmd[p], draft[p]))
      BY <2>1, HitKeeps
    <2>4. hit[p] => Kept(cmd'[p], store'[dir'[p]], draft'[p])
      BY <2>1, <2>2, <2>3
    <2>5. cmd[p].kind = "analyze"
      BY <2>1 DEF VerdictInv, Routed, Analysing
    <2>6. WritesBack(p)' => hit[p]
      BY <2>1, <2>5 DEF WritesBack
    <2> QED
      BY <2>1, <2>4, <2>6 DEF SoloInv, Promised
  <1>12. CASE Open(p)
    <2>1. /\ pc[p] = "open" /\ pc'[p] = "write" /\ before'[p] = store[dir[p]]
          /\ UNCHANGED <<cmd, hit, dir, draft>> /\ store'[dir[p]] = Empty
      BY <1>0, <1>12 DEF Open, Local, Holds
    <2>2. WritesBack(p)' <=> WritesBack(p)
      BY <2>1 DEF WritesBack
    <2>3. WritesBack(p) /\ store[dir[p]] \in Report => Kept(cmd[p], store[dir[p]], draft[p])
      BY <2>1 DEF SoloInv
    <2>4. WritesBack(p)' /\ before'[p] \in Report => Kept(cmd'[p], before'[p], draft'[p])
      BY <2>1, <2>2, <2>3
    <2> QED
      BY <2>1, <2>4 DEF SoloInv, Promised
  <1>13. CASE Denied(p)
    <2>1. pc'[p] = "open" /\ dir'[p] = Cwd /\ cmd[p].kind # "rerun" /\ cmd' = cmd
      BY <1>0, <1>13 DEF Denied, Local, Holds
    <2>2. ~WritesBack(p)'
      BY <2>1 DEF WritesBack
    <2> QED
      BY <2>1, <2>2 DEF SoloInv, Promised
  <1>14. CASE Write(p)
    <2>1. /\ pc[p] = "write" /\ UNCHANGED <<cmd, dir, draft, receipts>>
          /\ pc'[p] = IF cmd[p].sarif /\ cmd[p].kind # "rerun" THEN "sarif" ELSE "verdict"
          /\ dir[p] \in Keys
      BY <1>0, <1>14 DEF Write, Local, Holds
    <2>2. Contents(p) = {draft[p]}
      BY <2>1 DEF SoloInv, Contents
    <2>3. store'[dir'[p]] = draft'[p]
      BY <1>0, <1>14, <2>1, <2>2 DEF Write
    <2>4. pc'[p] = "verdict" => ~(cmd'[p].sarif /\ cmd'[p].kind # "rerun")
      BY <2>1
    <2>5. pc'[p] \in {"sarif", "verdict"}
      BY <2>1
    <2> QED
      BY <2>3, <2>4, <2>5 DEF SoloInv, Promised
  <1>15. CASE WriteSarif(p)
    <2>1. /\ pc[p] = "sarif" /\ pc'[p] = "verdict" /\ UNCHANGED <<store, cmd, dir, draft>>
          /\ draft[p] \in Report
      BY <1>0, <1>15 DEF WriteSarif, Local, Holds, Drafting
    <2>2. store[dir[p]] = draft[p]
      BY <2>1 DEF SoloInv
    <2>3. {Home(p), Cwd} \subseteq Keys
      BY <2>1 DEF Home, Keys, Report
    <2>4. PICK k \in {Home(p), Cwd} : receipts' = [receipts EXCEPT ![k] = ReceiptOf(draft[p])]
      BY <1>15 DEF WriteSarif
    <2>5. receipts'[k] = ReceiptOf(draft[p])
      BY <1>0, <2>3, <2>4
    <2>6. Home(p)' = Home(p) /\ ReceiptOf(draft[p])' = ReceiptOf(draft[p])
      BY <2>1 DEF Home, ReceiptOf
    <2>7. Receipted(p)'
      BY <2>4, <2>5, <2>6 DEF Receipted
    <2>8. store'[dir'[p]] = draft'[p]
      BY <2>1, <2>2
    <2> QED
      BY <2>1, <2>7, <2>8 DEF SoloInv, Promised
  <1>16. CASE Verdict(p)
    <2>1. pc[p] = "verdict" /\ pc'[p] = "idle" /\ UNCHANGED <<store, receipts, cmd, dir, draft>>
      BY <1>0, <1>16 DEF Verdict, Ends
    <2>2. /\ store[dir[p]] = draft[p]
          /\ cmd[p].sarif /\ cmd[p].kind # "rerun" => Receipted(p)
      BY <2>1 DEF SoloInv
    <2>3. Receipted(p)' <=> Receipted(p)
      BY <2>1 DEF Receipted, Home, ReceiptOf
    <2>4. /\ store'[dir'[p]] = draft'[p]
          /\ cmd'[p].sarif /\ cmd'[p].kind # "rerun" => Receipted(p)'
      BY <2>1, <2>2, <2>3
    <2> QED
      BY <2>1, <2>4 DEF SoloInv
  <1> QED
    BY <1>3, <1>4, <1>5, <1>6, <1>7, <1>8, <1>9, <1>10, <1>11, <1>12, <1>13, <1>14, <1>15, <1>16
       DEF Work

LEMMA SoloNext ==
    ASSUME NEW p \in Procs, Procs = {p}, IInv, VerdictInv(p), SoloInv(p), [Next]_vars
    PROVE  SoloInv(p)'
  <1>1. CASE Push \/ UNCHANGED vars
    <2>1. UNCHANGED <<fileVars, processVars>>
      BY <1>1 DEF Push, vars
    <2>2. SoloInv(p)' <=> SoloInv(p)
      BY <2>1, Zenon DEF fileVars, processVars, SoloInv, WritesBack, Promised, Kept, Receipted, Home, ReceiptOf
    <2> QED
      BY <2>2
  <1>2. CASE Next /\ ~Push
    <2>1. \/ Work(p) \/ Abort(p) \/ Denied(p) \/ Fails(p) \/ Kill(p)
          \/ \E c \in Commands : Start(p, c)
      BY <1>2 DEF Next
    <2> QED
      BY <2>1, SoloStep
  <1> QED
    BY <1>1, <1>2

\* The hypothesis: one process.
Alone == \E p : Procs = {p}

LEMMA SoloInvariance == ASSUME Alone PROVE Spec => []\A p \in Procs : SoloInv(p)
  <1>1. Init => \A p \in Procs : SoloInv(p)
    BY NoneAssumption DEF Init, SoloInv, Promised
  <1>2. Alone /\ IInv /\ (\A p \in Procs : VerdictInv(p)) /\ (\A p \in Procs : SoloInv(p))
           /\ [Next]_vars => (\A p \in Procs : SoloInv(p))'
    BY SoloNext DEF Alone
  <1> QED
    BY <1>1, <1>2, Alone, Invariance, VerdictInvariance, PTL DEF Spec

\* Of commands that run one at a time: exit codes 0 and 3 leave the report, and
\* the receipt asked for, on disk, however many commands and whoever is killed.
THEOREM ReportBeforeExitHolds ==
    ASSUME Alone PROVE Spec => []ReportBeforeExit
  <1>1. (\A p \in Procs : SoloInv(p)) => ReportBeforeExit
    BY DEF SoloInv, Promised, Receipted, ReportBeforeExit, Ended
  <1> QED
    BY <1>1, SoloInvariance, PTL

\* And a rerun or a cache hit keeps the results of all the other analyzers.
THEOREM OthersKeptHolds ==
    ASSUME Alone PROVE Spec => OthersKept
  <1> DEFINE Keeps == \A p \in Procs :
          LET old == before[p] new == store'[dir[p]] c == cmd[p]
          IN pc[p] = "write" /\ pc'[p] \in {"sarif", "verdict"}
                /\ old \in Report /\ new \in Report
                /\ (c.kind = "rerun" \/ (hit[p] /\ dir[p] # Cwd))
             => /\ new.digest = old.digest /\ new.listed = old.listed
                /\ \A a \in Analyzers : new.results[a] # old.results[a] =>
                       c.kind = "rerun" /\ a = c.rerun
                /\ new.checked # old.checked => c.kind = "rerun" /\ c.rerun = Metadata
                /\ old.metadata \subseteq new.metadata \/ (c.kind = "rerun" /\ ~c.merge)
  <1>1. Alone /\ IInv /\ (\A p \in Procs : SoloInv(p)) /\ [Next]_vars => [Keeps]_vars
    <2> SUFFICES ASSUME NEW p \in Procs, Procs = {p}, IInv, SoloInv(p), Next,
                        pc[p] = "write", pc'[p] \in {"sarif", "verdict"},
                        before[p] \in Report, WritesBack(p)
                 PROVE  Kept(cmd[p], before[p], store'[dir[p]])
      BY DEF Kept, WritesBack, Alone
    <2>1. Write(p)
      <3>1. \/ Work(p) \/ Abort(p) \/ Denied(p) \/ Fails(p) \/ Kill(p)
            \/ \E c \in Commands : Start(p, c)
        BY DEF Next, Push, processVars
      <3>2. ~(Abort(p) \/ Denied(p) \/ Fails(p) \/ Kill(p) \/ \E c \in Commands : Start(p, c))
        BY DEF Abort, Denied, Fails, Kill, Start, Ends, IInv, TypeOK
      <3> QED
        BY <3>1, <3>2 DEF Work, Read, Redo, DryRunPlaybooks, LookUp, CacheLook, Select, Analyse,
           AllAnalysed, Evaluate, Open, WriteSarif, Verdict
    <2>2. Contents(p) = {draft[p]}
      BY DEF SoloInv, Contents
    <2>3. store'[dir[p]] = draft[p]
      BY <2>1, <2>2 DEF Write, IInv, TypeOK, Local, Holds
    <2> QED
      BY <2>3 DEF SoloInv
  <1> QED
    <2>1. Spec => [][Keeps]_vars
      <3> HIDE DEF Keeps
      <3> QED
        BY <1>1, Alone, Invariance, SoloInvariance, PTL DEF Spec
    <2> QED
      BY <2>1 DEF OthersKept

=============================================================================
