--------------------------- MODULE ScatterGather ---------------------------
(***************************************************************************)
(* What a run of analyzers promises, without threads, pools or scanners:   *)
(* each selected analyzer is settled once, by its report or by an error    *)
(* stub, whatever becomes of the others; the run returns when all of them  *)
(* are settled and only then.  AnalyzeImage implements this specification. *)
(***************************************************************************)
CONSTANTS Analyzers, Failures

VARIABLES selected,   \* the analyzers of this run
          verdict,    \* verdict[a]: "none", "report" or the kind of its failure
          phase       \* "running", "returned" or "aborted"

vars == <<selected, verdict, phase>>

Init ==
    /\ selected \subseteq Analyzers
    /\ verdict = [a \in Analyzers |-> "none"]
    /\ phase = "running"

Settle(a) ==
    /\ phase = "running"
    /\ a \in selected
    /\ verdict[a] = "none"
    /\ \E v \in Failures \union {"report"} : verdict' = [verdict EXCEPT ![a] = v]
    /\ UNCHANGED <<selected, phase>>

Return ==
    /\ phase = "running"
    /\ \A a \in selected : verdict[a] # "none"
    /\ phase' = "returned"
    /\ UNCHANGED <<selected, verdict>>

\* The user interrupts the run.
Abort ==
    /\ phase = "running"
    /\ phase' = "aborted"
    /\ UNCHANGED <<selected, verdict>>

Next == Return \/ Abort \/ \E a \in Analyzers : Settle(a)

Spec == Init /\ [][Next]_vars /\ WF_vars(Next)

=============================================================================
