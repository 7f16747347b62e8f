--------------------------- MODULE VerifiedCache ---------------------------
(***************************************************************************)
(* What the on-disk tool cache promises its callers, without files, locks  *)
(* or downloads: a tool is installed at most once, is never uninstalled,   *)
(* and whoever is served was served a verified tool.  A caller that asked  *)
(* is answered, unless its process dies.                                   *)
(* ToolFetcher implements this specification.                              *)
(***************************************************************************)
CONSTANT Procs          \* the callers: threads and processes

VARIABLES cached,       \* whether a verified tool is in the cache
          answer        \* answer[p]: what caller p has been told

vars == <<cached, answer>>

Answers == {"none", "pending", "served", "refused", "died"}

TypeOK ==
    /\ cached \in BOOLEAN
    /\ answer \in [Procs -> Answers]

Init ==
    /\ cached \in BOOLEAN
    /\ answer = [p \in Procs |-> "none"]

\* A new request, answered on the spot or left pending.
Ask(p) ==
    /\ answer[p] # "pending"
    /\ \/ answer' = [answer EXCEPT ![p] = "pending"]
       \/ cached /\ answer' = [answer EXCEPT ![p] = "served"]
       \/ ~cached /\ answer' = [answer EXCEPT ![p] = "refused"]
    /\ UNCHANGED cached

\* Somebody who asked puts a verified tool where there was none.
Install(p) ==
    /\ answer[p] = "pending"
    /\ ~cached
    /\ cached' = TRUE
    /\ UNCHANGED answer

Serve(p) ==
    /\ answer[p] = "pending"
    /\ cached
    /\ answer' = [answer EXCEPT ![p] = "served"]
    /\ UNCHANGED cached

Refuse(p) ==
    /\ answer[p] = "pending"
    /\ answer' = [answer EXCEPT ![p] = "refused"]
    /\ UNCHANGED cached

Die(p) ==
    /\ answer[p] = "pending"
    /\ answer' = [answer EXCEPT ![p] = "died"]
    /\ UNCHANGED cached

Next == \E p \in Procs : Ask(p) \/ Install(p) \/ Serve(p) \/ Refuse(p) \/ Die(p)

Spec ==
    /\ Init
    /\ [][Next]_vars
    /\ \A p \in Procs : WF_vars(Serve(p) \/ Refuse(p) \/ Die(p))

=============================================================================
