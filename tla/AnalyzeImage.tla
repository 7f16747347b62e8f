---------------------------- MODULE AnalyzeImage ----------------------------
(***************************************************************************)
(* AnalyzeImage.run (regis/core/application/analyze_image.py): the main    *)
(* thread submits the selected analyzers to a thread pool, drains their    *)
(* results in the order of completion, reports progress for each, joins    *)
(* the pool and closes the shared tool runner.  The cve and sbom analyzers *)
(* go through CachingToolRunner, whose state this module extends.          *)
(*                                                                         *)
(* The order in which the pool starts the submitted analyzers is that of   *)
(* the selection, which is arbitrary: any submitted one may start next.    *)
(***************************************************************************)
EXTENDS CachingToolRunner

CONSTANTS
    Cve, Sbom,        \* the two analyzers that share a layout
    Failures,         \* the kinds of _classify that occur
    MaxWorkers,       \* max_workers
    CallbackRaises,   \* on_progress may raise (a closed stdout, say)
    MaxInterrupts     \* bound: KeyboardInterrupts delivered to the main thread

\* A worker thread runs one analyzer at a time: the analyzer names it.
Analyzers == Callers

ASSUME AnalyzersAssumption == {Cve, Sbom} \subseteq Analyzers
ASSUME FailuresAssumption ==
    Failures \subseteq {"registry", "analysis", "tool", "unexpected"}
ASSUME LimitsAssumption ==
    MaxWorkers \in Nat /\ MaxInterrupts \in Nat /\ CallbackRaises \in BOOLEAN

VARIABLES
    selected,     \* the selection
    main,         \* where the main thread is in run
    future,       \* future[a]: the state, then the outcome, of a's future
    reports,      \* reports[a]: "none", "report" or the kind of the error stub
    notified,     \* how often on_progress was called for a
    current,      \* the analyzer whose future is being drained
    raising,      \* an exception is leaving run
    interrupts    \* KeyboardInterrupts so far

loopVars == <<selected, main, future, reports, notified, current, raising, interrupts>>
vars == <<runnerVars, loopVars>>

Pending == {"queued", "running"}
Outcomes == {"ok"} \union Failures

LoopTypeOK ==
    /\ selected \subseteq Analyzers
    /\ main \in {"called", "submit", "drain", "callback", "error callback",
                 "join", "close", "returned", "raised"}
    /\ future \in [Analyzers -> {"none"} \union Pending \union Outcomes]
    /\ reports \in [Analyzers -> {"none", "report", "unexpected"} \union Failures]
    /\ notified \in [Analyzers -> 0 .. 2]
    /\ current \in Analyzers \union {NoCaller}
    /\ raising \in BOOLEAN
    /\ interrupts \in 0 .. MaxInterrupts

TypeOK == RunnerTypeOK /\ LoopTypeOK

Init ==
    /\ RunnerInit
    /\ selected \in SUBSET Analyzers
    /\ main = "called"
    /\ future = [a \in Analyzers |-> "none"]
    /\ reports = [a \in Analyzers |-> "none"]
    /\ notified = [a \in Analyzers |-> 0]
    /\ current = NoCaller
    /\ raising = FALSE
    /\ interrupts = 0

-----------------------------------------------------------------------------

\* min(max_workers, len(selected)) or 1
Workers ==
    LET least == IF MaxWorkers < Cardinality(selected) THEN MaxWorkers
                                                       ELSE Cardinality(selected)
    IN IF least = 0 THEN 1 ELSE least

Running == {a \in Analyzers : future[a] = "running"}

\* Mutant: shutdown(wait=False).
NoJoin == TRUE

PoolIdle == \A a \in Analyzers : future[a] \notin Pending

\* Mutant: the loop stops when the futures are done, not when they are drained.
AllDone == \A a \in selected : future[a] \in Outcomes

AllDrained == \A a \in selected : reports[a] # "none"

\* Mutant: the kind of the failure is not looked at.
KindLost(a) == [reports EXCEPT ![a] = "unexpected"]

\* Mutant: _classify falls through without a kind.
UnclassifiedStub(a) == [reports EXCEPT ![a] = "unclassified"]

\* reports[name] = {"analyzer": name, "error": ...}
WithStub(a) == [reports EXCEPT ![a] = future[a]]

\* An empty selection returns at once; otherwise the runner is told whether
\* both users of the layout are there.
BeginRun ==
    /\ main = "called"
    /\ main' = IF selected = {} THEN "returned" ELSE "submit"
    /\ share' = ({Cve, Sbom} \subseteq selected)
    /\ UNCHANGED <<lock, memo, dirs, complete, tracked, closed, at, using, selected, future,
                   reports, notified, current, raising, interrupts>>

\* executor.submit for one analyzer; after the last one the draining begins.
Submit(a) ==
    /\ main = "submit"
    /\ a \in selected
    /\ future[a] = "none"
    /\ future' = [future EXCEPT ![a] = "queued"]
    /\ main' = IF \A b \in selected \ {a} : future[b] # "none" THEN "drain" ELSE "submit"
    /\ UNCHANGED <<runnerVars, selected, reports, notified, current, raising, interrupts>>

\* A pool thread picks up an analyzer.
StartAnalyzer(a) ==
    /\ future[a] = "queued"
    /\ Cardinality(Running) < Workers
    /\ future' = [future EXCEPT ![a] = "running"]
    /\ UNCHANGED <<runnerVars, selected, main, reports, notified, current, raising, interrupts>>

\* The cve and sbom analyzers call the tool runner.
UseRunner(a) ==
    /\ future[a] = "running"
    /\ a \in {Cve, Sbom}
    /\ CallRunner(a) \/ RunnerStep(a)
    /\ UNCHANGED loopVars

\* _dispatch ends: with a report that validates, or with an exception of any
\* kind.  An analyzer may fail before its tool call or after it, and fails if
\* the tool call did.
EndAnalyzer(a) ==
    /\ future[a] = "running"
    /\ at[a] \notin Inside
    /\ \E outcome \in Outcomes :
          /\ outcome = "ok" => at[a] = IF a \in {Cve, Sbom} THEN "answered" ELSE "outside"
          /\ future' = [future EXCEPT ![a] = outcome]
    /\ UNCHANGED <<runnerVars, selected, main, reports, notified, current, raising, interrupts>>

\* as_completed hands out a future: its report is stored, or its stub, and the
\* callback is called.
Drain(a) ==
    /\ main = "drain"
    /\ future[a] \in Outcomes
    /\ reports[a] = "none"
    /\ current' = a
    /\ notified' = [notified EXCEPT ![a] = @ + 1]
    /\ \/ /\ future[a] = "ok"
          /\ reports' = [reports EXCEPT ![a] = "report"]
          /\ main' = "callback"
       \/ /\ future[a] # "ok"
          /\ reports' = WithStub(a)
          /\ main' = "error callback"
    /\ UNCHANGED <<runnerVars, selected, future, raising, interrupts>>

CallbackReturns ==
    /\ main \in {"callback", "error callback"}
    /\ main' = "drain"
    /\ current' = NoCaller
    /\ UNCHANGED <<runnerVars, selected, future, reports, notified, raising, interrupts>>

\* The callback of a success raises inside the try: the handler takes it for a
\* failure of the analyzer, replaces the report and calls the callback again.
\* Raised from the handler itself, the exception leaves run.
CallbackFails ==
    /\ CallbackRaises
    /\ \/ /\ main = "callback"
          /\ reports' = [reports EXCEPT ![current] = "unexpected"]
          /\ notified' = [notified EXCEPT ![current] = @ + 1]
          /\ main' = "error callback"
          /\ UNCHANGED <<current, raising>>
       \/ /\ main = "error callback"
          /\ main' = "join"
          /\ raising' = TRUE
          /\ current' = NoCaller
          /\ UNCHANGED <<reports, notified>>
    /\ UNCHANGED <<runnerVars, selected, future, interrupts>>

\* The loop is exhausted: the "with" block of the executor begins to exit.
EndDrain ==
    /\ main = "drain"
    /\ AllDrained
    /\ main' = "join"
    /\ UNCHANGED <<runnerVars, selected, future, reports, notified, current, raising, interrupts>>

\* executor.shutdown(wait=True): what was submitted still runs to its end.
Join ==
    /\ main = "join"
    /\ PoolIdle
    /\ main' = "close"
    /\ UNCHANGED <<runnerVars, selected, future, reports, notified, current, raising, interrupts>>

\* The finally block.
Close ==
    /\ main = "close"
    /\ CloseRunner
    /\ main' = IF raising THEN "raised" ELSE "returned"
    /\ UNCHANGED <<selected, future, reports, notified, current, raising, interrupts>>

\* KeyboardInterrupt is no Exception: it leaves the loop through the executor's
\* exit, which joins; one that arrives during the join leaves the join too, and one
\* before the loop leaves nothing behind.
Interrupt ==
    /\ interrupts < MaxInterrupts
    /\ interrupts' = interrupts + 1
    /\ raising' = TRUE
    /\ current' = NoCaller
    /\ \/ /\ main \in {"submit", "drain", "callback", "error callback"}
          /\ main' = "join"
       \/ /\ main = "join"
          /\ main' = "close"
       \/ /\ main = "called"
          /\ main' = "raised"
    /\ UNCHANGED <<runnerVars, selected, future, reports, notified>>

\* One that arrives during close ends the run: the directories that close has not
\* come to are removed by their finalizers (TemporaryDirectory).
InterruptClose ==
    /\ main = "close" /\ interrupts < MaxInterrupts
    /\ interrupts' = interrupts + 1
    /\ raising' = TRUE
    /\ CloseRunner
    /\ main' = "raised"
    /\ UNCHANGED <<selected, future, reports, notified, current>>

MainStep ==
    \/ BeginRun \/ CallbackReturns \/ EndDrain \/ Join \/ Close
    \/ \E a \in Analyzers : Submit(a) \/ Drain(a)

WorkerStep(a) == StartAnalyzer(a) \/ UseRunner(a) \/ EndAnalyzer(a)

Next ==
    \/ MainStep \/ CallbackFails \/ Interrupt \/ InterruptClose
    \/ \E a \in Analyzers : WorkerStep(a)

\* Every thread goes on: the scanners and the export are subprocesses that end.
Fairness == WF_vars(MainStep) /\ \A a \in Analyzers : WF_vars(WorkerStep(a))

Spec == Init /\ [][Next]_vars /\ Fairness

-----------------------------------------------------------------------------

Over == main \in {"returned", "raised"}

\* No temporary layout outlives the run, however it ends: not after a failed
\* export, not after an analyzer, the callback or the user ended the run early.
NoLayoutLeft == Over => dirs = {}

\* When the run returns, every selected analyzer has an entry: its report, the
\* stub of its own failure and of no other's, or, where the callback raised on
\* its success, the stub of that exception.
AllAccountedFor ==
    main = "returned" =>
        \A a \in selected :
            reports[a] = IF future[a] # "ok" THEN future[a]
                         ELSE IF notified[a] = 1 THEN "report" ELSE "unexpected"

\* on_progress "is called once per analyzer" (analyze_image.py:162).
NotifiedOnce == \A a \in Analyzers : notified[a] <= 1

\* The run ends, interrupted or not: no worker waits for a lock, and the main
\* thread for no worker, for ever.
RunEnds == <>Over

-----------------------------------------------------------------------------

\* The promise: the pool, the runner and the callbacks forgotten.
Run == INSTANCE ScatterGather WITH
    verdict <- reports,
    phase <- IF main = "returned" THEN "returned"
             ELSE IF raising THEN "aborted" ELSE "running"

\* Every run whose callback does not raise is one of the abstract runs.
ImplementsRun == Run!Spec

=============================================================================
