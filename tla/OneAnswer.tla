----------------------------- MODULE OneAnswer -----------------------------
(***************************************************************************)
(* What the analyzers of one run may rely on when they ask the registry    *)
(* questions: the registry is frozen question by question.  The first      *)
(* answer to a question is the answer for the rest of the run, for         *)
(* everybody, and a question that has an answer does not fail any more.    *)
(* ImageInspection implements this specification.                          *)
(***************************************************************************)
CONSTANTS Threads, Questions, Failures, NoAnswer

VARIABLES answer,   \* answer[q]: what the run knows, or NoAnswer
          heard     \* heard[t]: the last question of t and what it was told

vars == <<answer, heard>>

Init ==
    /\ answer = [q \in Questions |-> NoAnswer]
    /\ heard = [t \in Threads |-> <<>>]

Tell(t, q, a) == heard' = [heard EXCEPT ![t] = <<q, a>>]

Known(t, q) ==
    /\ answer[q] # NoAnswer
    /\ Tell(t, q, answer[q])
    /\ UNCHANGED answer

\* Whatever the registry says to t becomes the answer.
Learn(t, q) ==
    /\ answer[q] = NoAnswer
    /\ answer'[q] # NoAnswer
    /\ answer' = [answer EXCEPT ![q] = answer'[q]]
    /\ Tell(t, q, answer'[q])

Fail(t, q) ==
    /\ answer[q] = NoAnswer
    /\ \E f \in Failures : Tell(t, q, f)
    /\ UNCHANGED answer

Next == \E t \in Threads, q \in Questions : Known(t, q) \/ Learn(t, q) \/ Fail(t, q)

Spec == Init /\ [][Next]_vars

=============================================================================
