------------------------- MODULE CachingToolRunner -------------------------
(***************************************************************************)
(* The per-run decorator of the tool runner                                *)
(* (regis/adapters/driven/tools/caching_tool_runner.py): syft and grype    *)
(* share one local OCI layout of the image, exported once under a lock.    *)
(* A run has one image, so the memo has one key, and a caller asks once: a *)
(* temporary directory is named after the caller that made it.             *)
(* AnalyzeImage composes these actions with the worker threads.            *)
(***************************************************************************)
EXTENDS Naturals, FiniteSets

CONSTANTS
    Callers,    \* the worker threads
    NoCaller    \* the lock's holder when it is free; no directory

ASSUME CallersAssumption == NoCaller \notin Callers /\ IsFiniteSet(Callers)

VARIABLES
    share,      \* _share: layouts are exported at all
    lock,       \* _lock
    memo,       \* _layouts[key]: whether it is set, and to which directory
                \* (NoCaller for None)
    dirs,       \* the temporary directories on disk
    complete,   \* the directories the export was completed into
    tracked,    \* _tmpdirs: the ones close() will remove
    closed,     \* _closed
    at,         \* where each caller is in the runner
    using       \* the directory each caller was given

runnerVars == <<share, lock, memo, dirs, complete, tracked, closed, at, using>>

Inside == {"entering", "exporting", "scanning layout", "scanning remote"}

RunnerTypeOK ==
    /\ share \in BOOLEAN
    /\ lock \in Callers \union {NoCaller}
    /\ memo \in [known : BOOLEAN, dir : Callers \union {NoCaller}]
    /\ dirs \subseteq Callers
    /\ complete \subseteq Callers
    /\ tracked \subseteq Callers
    /\ closed \in BOOLEAN
    /\ at \in [Callers -> Inside \union {"outside", "answered", "raised"}]
    /\ using \in [Callers -> Callers \union {NoCaller}]

RunnerInit ==
    /\ share = FALSE
    /\ lock = NoCaller
    /\ memo = [known |-> FALSE, dir |-> NoCaller]
    /\ dirs = {}
    /\ complete = {}
    /\ tracked = {}
    /\ closed = FALSE
    /\ at = [c \in Callers |-> "outside"]
    /\ using = [c \in Callers |-> NoCaller]

-----------------------------------------------------------------------------

\* Mutant: the lock guards the memo only, not the export.
Unlocked == TRUE

LockFree == lock = NoCaller

\* Mutant: the temporary directory is not remembered for close().
Untracked(c) == tracked

\* The directory is tracked before the export, "even if the export fails".
TrackedWithNew(c) == tracked \union {c}

\* Mutant: an exception of the export leaves the lock held.
LockKeptOnError == lock

\* "with self._lock" releases on every way out.
LockAfterError == NoCaller

MoveTo(c, place) == at' = [at EXCEPT ![c] = place]

\* generate_sbom / scan_vulnerabilities: only a shared run asks for a layout.
CallRunner(c) ==
    /\ at[c] = "outside"
    /\ MoveTo(c, IF share THEN "entering" ELSE "scanning remote")
    /\ UNCHANGED <<share, lock, memo, dirs, complete, tracked, closed, using>>

\* _layout, the memo holds an answer: a path, or None for the remote scan.
ReuseLayout(c) ==
    /\ at[c] = "entering"
    /\ LockFree
    /\ memo.known
    /\ using' = [using EXCEPT ![c] = memo.dir]
    /\ MoveTo(c, IF memo.dir = NoCaller THEN "scanning remote" ELSE "scanning layout")
    /\ UNCHANGED <<share, lock, memo, dirs, complete, tracked, closed>>

\* _layout, nothing memoised: a temporary directory, then the export, with the
\* lock held.
BeginExport(c) ==
    /\ at[c] = "entering"
    /\ LockFree
    /\ ~memo.known
    /\ lock' = c
    /\ dirs' = dirs \union {c}
    /\ tracked' = TrackedWithNew(c)
    /\ using' = [using EXCEPT ![c] = c]
    /\ MoveTo(c, "exporting")
    /\ UNCHANGED <<share, memo, complete, closed>>

\* No temporary directory can be created: an exception, and nothing to track.
NoTempDir(c) ==
    /\ at[c] = "entering"
    /\ LockFree
    /\ ~memo.known
    /\ MoveTo(c, "raised")
    /\ UNCHANGED <<share, lock, memo, dirs, complete, tracked, closed, using>>

\* An export into a directory that is gone does not succeed.
ExportSucceeds(c) ==
    /\ at[c] = "exporting"
    /\ using[c] \in dirs
    /\ complete' = complete \union {using[c]}
    /\ memo' = [known |-> TRUE, dir |-> using[c]]
    /\ lock' = NoCaller
    /\ MoveTo(c, "scanning layout")
    /\ UNCHANGED <<share, dirs, tracked, closed, using>>

\* export_layout returned False (RegistryError, ToolError): memoised as None.
ExportFails(c) ==
    /\ at[c] = "exporting"
    /\ memo' = [known |-> TRUE, dir |-> NoCaller]
    /\ lock' = NoCaller
    /\ MoveTo(c, "scanning remote")
    /\ UNCHANGED <<share, dirs, complete, tracked, closed, using>>

\* Any other exception leaves the memo unset: the next caller tries again.
ExportRaises(c) ==
    /\ at[c] = "exporting"
    /\ lock' = LockAfterError
    /\ MoveTo(c, "raised")
    /\ UNCHANGED <<share, memo, dirs, complete, tracked, closed, using>>

\* The scanner answers or fails.
EndScan(c) ==
    /\ at[c] \in {"scanning layout", "scanning remote"}
    /\ \E result \in {"answered", "raised"} : MoveTo(c, result)
    /\ UNCHANGED <<share, lock, memo, dirs, complete, tracked, closed, using>>

\* What the code of caller c does next by itself, once it is in the runner.
RunnerStep(c) ==
    \/ ReuseLayout(c) \/ BeginExport(c) \/ NoTempDir(c) \/ ExportSucceeds(c)
    \/ ExportFails(c) \/ ExportRaises(c) \/ EndScan(c)

\* close(), idempotent: every tracked directory is removed.
CloseRunner ==
    /\ closed' = TRUE
    /\ dirs' = IF closed THEN dirs ELSE dirs \ tracked
    /\ UNCHANGED <<share, lock, memo, complete, tracked, at, using>>

-----------------------------------------------------------------------------

\* A scanner that was pointed at a layout finds the whole layout there for as
\* long as it reads ("no worker is reading a layout when it is removed").
ReaderHasLayout ==
    \A c \in Callers : at[c] = "scanning layout" => using[c] \in dirs \intersect complete

\* The image is exported once per run: an answer that is memoised, success or
\* failure, is final, and no directory is created after it.
ExportedOnce ==
    [][memo.known => memo' = memo /\ dirs' \subseteq dirs]_runnerVars

=============================================================================
