---------------------------- MODULE ToolFetcher ----------------------------
(***************************************************************************)
(* ToolFetcher.ensure (regis/adapters/driven/tools/fetcher.py): several    *)
(* threads and processes make one pinned tool binary available in a shared *)
(* cache directory.  A lock-free look at the cache comes first; on a miss  *)
(* the file lock is taken, the cache is looked at again, and the tool is   *)
(* downloaded, extracted, verified, moved into place and made executable.  *)
(*                                                                         *)
(* One tool is modelled: every tool has a directory and a lock of its own. *)
(* File contents are "good" (the pinned sha256) or not; a temporary file   *)
(* has the random name of its attempt <<p, n>>, the n-th call of p.        *)
(***************************************************************************)
EXTENDS Naturals, Sequences, FiniteSets

CONSTANTS
    Procs,          \* the threads and processes that call ensure
    Nobody,         \* the lock's holder when it is free
    MaxCalls,       \* bound: calls of ensure per process
    OfflineProcs,   \* the processes started with REGIS_OFFLINE=1
    Archived,       \* Tool.archive # "none": the download is an archive
    HasCosign,      \* Tool.cosign is not None
    RequireCosign   \* REGIS_REQUIRE_COSIGN=1

ASSUME ProcsAssumption == Nobody \notin Procs /\ OfflineProcs \subseteq Procs
ASSUME BoundAssumption == MaxCalls \in Nat
ASSUME PolicyAssumption == /\ Archived \in BOOLEAN
                           /\ HasCosign \in BOOLEAN
                           /\ RequireCosign \in BOOLEAN

VARIABLES
    target,       \* the file at the cache path: its content and its x bit
    lock,         \* who holds the flock on <target>.lock
    partials,     \* attempts whose "<tool>.<rand>.partial" exists
    extracteds,   \* attempts whose "<tool>.<rand>.extracted" exists
    pc,           \* where each process is in ensure
    calls,        \* how many calls each process has made
    blob,         \* what the current attempt of each process downloaded
    failure,      \* the exception in flight in each process
    events        \* the ToolEvents the current call emitted

files == <<target, partials, extracteds>>
vars == <<target, lock, partials, extracteds, pc, calls, blob, failure, events>>

-----------------------------------------------------------------------------

Contents == {"absent", "stale", "good"}
AtRest == {"idle", "ok", "error", "dead"}
\* The steps between the creation of the temporary file and its move.
Fetching == {"download", "extract", "checksum", "cosign", "replace"}
\* The body of "with _file_lock".
Locked == {"recheck", "chmod", "cleanup", "unlock"} \union Fetching
Attempts == Procs \X (0 .. MaxCalls)

TypeOK ==
    /\ target \in [content : Contents, exec : BOOLEAN]
    /\ lock \in Procs \union {Nobody}
    /\ partials \subseteq Attempts
    /\ extracteds \subseteq Attempts
    /\ pc \in [Procs -> AtRest \union Locked \union {"waiting"}]
    /\ calls \in [Procs -> 0 .. MaxCalls]
    /\ blob \in [Procs -> {"none", "good", "bad"}]
    /\ failure \in [Procs -> {"none", "ToolFetchError", "other"}]
    /\ events \in [Procs -> Seq({"fetch_start", "fetch_done", "fetch_error"})]

\* A fresh cache, a truncated or outdated file, or a tool installed before.
Init ==
    /\ target \in {[content |-> "absent", exec |-> FALSE],
                   [content |-> "stale", exec |-> TRUE],
                   [content |-> "good", exec |-> TRUE]}
    /\ lock = Nobody
    /\ partials = {}
    /\ extracteds = {}
    /\ pc = [p \in Procs |-> "idle"]
    /\ calls = [p \in Procs |-> 0]
    /\ blob = [p \in Procs |-> "none"]
    /\ failure = [p \in Procs |-> "none"]
    /\ events = [p \in Procs |-> <<>>]

-----------------------------------------------------------------------------

Attempt(p) == <<p, calls[p]>>

\* Mutant: the look at the cache forgets the hash.
HitByPresence == target.content # "absent"

\* target.exists() and _sha256_file(target) == expected_sha
Hit == target.content = "good"

\* Mutant: no second look once the lock is held.
AlwaysMissing == TRUE

\* The second look, "another caller may have downloaded".
StillMissing == ~Hit

\* Mutant: no lock.
NeverLocked == TRUE

LockFree == lock = Nobody

\* Mutant: a lock file instead of a flock, which outlives its owner.
LockFileAfterDeath(p) == lock

\* The kernel drops the flock of a dead process.
LockAfterDeath(p) == IF lock = p THEN Nobody ELSE lock

\* Mutant: the hash is computed and not compared.
ShaIgnored(p) == TRUE

\* _sha256_file(extracted) == expected_sha
ShaMatches(p) == blob[p] = "good"

\* Mutant: the OSError of urlopen is not converted.
RawDownloadErrors == {"OSError", "other"}

\* An OSError becomes a ToolFetchError; a truncated response
\* (http.client.IncompleteRead) is not an OSError.
DownloadErrors == {"ToolFetchError", "other"}

GoTo(p, l) == pc' = [pc EXCEPT ![p] = l]

Emit(p, kind) == events' = [events EXCEPT ![p] = Append(@, kind)]

\* An exception leaves the inner try: only a ToolFetchError is announced.
Raise(p, kind) ==
    /\ failure' = [failure EXCEPT ![p] = kind]
    /\ IF kind = "ToolFetchError" THEN Emit(p, "fetch_error") ELSE UNCHANGED events
    /\ GoTo(p, "cleanup")

\* The call and its look at the cache without the lock.
Ensure(p) ==
    /\ pc[p] \in AtRest
    /\ calls[p] < MaxCalls
    /\ calls' = [calls EXCEPT ![p] = @ + 1]
    /\ blob' = [blob EXCEPT ![p] = "none"]
    /\ failure' = [failure EXCEPT ![p] = "none"]
    /\ events' = [events EXCEPT ![p] = <<>>]
    /\ \/ Hit /\ GoTo(p, "ok")
       \/ ~Hit /\ p \in OfflineProcs /\ GoTo(p, "error")
       \/ ~Hit /\ p \notin OfflineProcs /\ GoTo(p, "waiting")
    /\ UNCHANGED <<files, lock>>

Acquire(p) ==
    /\ pc[p] = "waiting"
    /\ LockFree
    /\ lock' = p
    /\ GoTo(p, "recheck")
    /\ UNCHANGED <<files, calls, blob, failure, events>>

\* The second look, under the lock; on a miss the fetch is announced and its
\* temporary file created.  A full disk ends the call before any clean-up.
Recheck(p) ==
    /\ pc[p] = "recheck"
    /\ \/ /\ Hit
          /\ GoTo(p, "unlock")
          /\ UNCHANGED <<partials, failure, events>>
       \/ /\ StillMissing
          /\ Emit(p, "fetch_start")
          /\ partials' = partials \union {Attempt(p)}
          /\ GoTo(p, "download")
          /\ UNCHANGED failure
       \/ /\ StillMissing
          /\ Emit(p, "fetch_start")
          /\ failure' = [failure EXCEPT ![p] = "other"]
          /\ GoTo(p, "unlock")
          /\ UNCHANGED partials
    /\ UNCHANGED <<target, lock, extracteds, calls, blob>>

\* Any content can arrive, or none.
Download(p) ==
    /\ pc[p] = "download"
    /\ \/ /\ \E b \in {"good", "bad"} : blob' = [blob EXCEPT ![p] = b]
          /\ GoTo(p, "extract")
          /\ UNCHANGED <<failure, events>>
       \/ /\ \E kind \in DownloadErrors : Raise(p, kind)
          /\ UNCHANGED blob
    /\ UNCHANGED <<files, lock, calls>>

\* A plain binary is used as it is.  The member of an archive goes to a file
\* of its own and the archive is removed; a failure may leave both files.
MaybeExtract(p) ==
    /\ pc[p] = "extract"
    /\ \/ /\ ~Archived
          /\ GoTo(p, "checksum")
          /\ UNCHANGED <<partials, extracteds, failure, events>>
       \/ /\ Archived
          /\ extracteds' = extracteds \union {Attempt(p)}
          /\ partials' = partials \ {Attempt(p)}
          /\ GoTo(p, "checksum")
          /\ UNCHANGED <<failure, events>>
       \/ /\ Archived
          /\ \E kind \in {"ToolFetchError", "other"} : Raise(p, kind)
          /\ extracteds' \in {extracteds, extracteds \union {Attempt(p)}}
          /\ UNCHANGED partials
    /\ UNCHANGED <<target, lock, calls, blob>>

CheckSha(p) ==
    /\ pc[p] = "checksum"
    /\ \/ /\ ShaMatches(p)
          /\ GoTo(p, "cosign")
          /\ UNCHANGED <<failure, events>>
       \/ /\ ~ShaMatches(p)
          /\ Raise(p, "ToolFetchError")
    /\ UNCHANGED <<files, lock, calls, blob>>

\* The answers of verify_blob that let the tool through: no cosign binary is
\* an answer too, unless cosign is required.
CosignAccepts == {"verified"} \union IF RequireCosign THEN {} ELSE {"unavailable"}

\* verify_blob verifies, is unavailable, rejects the blob, or runs into the
\* timeout of its subprocess, which is not a ToolFetchError.
VerifyCosign(p) ==
    /\ pc[p] = "cosign"
    /\ \/ /\ ~HasCosign
          /\ GoTo(p, "replace")
          /\ UNCHANGED <<failure, events>>
       \/ /\ HasCosign
          /\ \E answer \in {"verified", "unavailable", "rejected", "timeout"} :
                \/ /\ answer \in CosignAccepts
                   /\ GoTo(p, "replace")
                   /\ UNCHANGED <<failure, events>>
                \/ /\ answer \notin CosignAccepts
                   /\ Raise(p, IF answer = "timeout" THEN "other"
                                                     ELSE "ToolFetchError")
    /\ UNCHANGED <<files, lock, calls, blob>>

\* extracted.replace(target): the new file has the mode of a temporary file.
Replace(p) ==
    /\ pc[p] = "replace"
    /\ \/ /\ target' = [content |-> IF blob[p] = "good" THEN "good" ELSE "stale",
                        exec |-> FALSE]
          /\ partials' = partials \ {Attempt(p)}
          /\ extracteds' = extracteds \ {Attempt(p)}
          /\ GoTo(p, "chmod")
          /\ UNCHANGED <<failure, events>>
       \/ /\ Raise(p, "other")
          /\ UNCHANGED files
    /\ UNCHANGED <<lock, calls, blob>>

Chmod(p) ==
    /\ pc[p] = "chmod"
    /\ \/ /\ target' = [target EXCEPT !.exec = TRUE]
          /\ GoTo(p, "cleanup")
          /\ UNCHANGED <<failure, events>>
       \/ /\ Raise(p, "other")
          /\ UNCHANGED target
    /\ UNCHANGED <<lock, partials, extracteds, calls, blob>>

\* Mutant: only the fetch's own partial file is removed.
OwnPartialRemoved(p) == partials \ {Attempt(p)}

\* partial.unlink() and the globs over "<tool>.*.partial*".
PartialsAfterSweep(p) == {}

\* Mutant: the announcement is moved into the finally block.
AnnounceAlways(p) == Emit(p, "fetch_done")

AnnounceSuccess(p) ==
    IF failure[p] = "none" THEN Emit(p, "fetch_done") ELSE UNCHANGED events

\* The finally block.  Its globs match every "<tool>.*.partial", the files of
\* dead processes included, and no "<tool>.*.extracted".
Cleanup(p) ==
    /\ pc[p] = "cleanup"
    /\ partials' = PartialsAfterSweep(p)
    /\ AnnounceSuccess(p)
    /\ GoTo(p, "unlock")
    /\ UNCHANGED <<target, lock, extracteds, calls, blob, failure>>

Unlock(p) ==
    /\ pc[p] = "unlock"
    /\ lock' = Nobody
    /\ GoTo(p, IF failure[p] = "none" THEN "ok" ELSE "error")
    /\ UNCHANGED <<files, calls, blob, failure, events>>

\* The process dies; the kernel drops its flock, its files stay behind.
Crash(p) ==
    /\ pc[p] \notin AtRest
    /\ lock' = LockAfterDeath(p)
    /\ GoTo(p, "dead")
    /\ UNCHANGED <<files, calls, blob, failure, events>>

\* What the code of process p does next by itself.
Step(p) ==
    \/ Acquire(p) \/ Recheck(p) \/ Download(p) \/ MaybeExtract(p)
    \/ CheckSha(p) \/ VerifyCosign(p) \/ Replace(p) \/ Chmod(p)
    \/ Cleanup(p) \/ Unlock(p)

Next == \E p \in Procs : Ensure(p) \/ Step(p) \/ Crash(p)

\* A call that has begun goes on (the download and cosign have timeouts), and
\* the kernel serves the waiters of a flock in turn.
Fairness == \A p \in Procs : WF_vars(Step(p)) /\ SF_vars(Acquire(p))

Spec == Init /\ [][Next]_vars /\ Fairness

-----------------------------------------------------------------------------

\* The file lock serialises the fetch, across crashes of its holder: two
\* processes are never between the acquisition and the release of the lock.
MutualExclusion ==
    \A p, q \in Procs : pc[p] \in Locked /\ pc[q] \in Locked => p = q

\* The clean-up of one fetch sweeps the directory with a glob: it never takes
\* the temporary file another process is still working on.
NoLiveFileSwept ==
    \A p \in Procs : pc[p] \in Fetching =>
        Attempt(p) \in partials \union extracteds

\* Only content with the pinned hash reaches the cache path, and at most once:
\* a valid tool is never replaced, by a slower process or from a bad mirror,
\* and never loses its execute bit.
InstalledOnce ==
    [][target' # target =>
          \/ target.content # "good" /\ target'.content = "good"
          \/ target' = [target EXCEPT !.exec = TRUE]]_vars

\* A caller that got a path has a verified tool behind it, as long as it
\* lives, whatever the other processes do.
ServedIsVerified == \A p \in Procs : pc[p] = "ok" => target.content = "good"

\* A fetch that ran its finally block leaves no partial download in the
\* directory, not even one a dead process had left there.
PartialsSwept ==
    \A p \in Procs : pc[p] = "unlock" /\ events[p] # <<>>
                        /\ events[p] # <<"fetch_start">> => partials = {}

\* What the events of a call say is what the call did: a served call either
\* hit the cache silently or announced one complete fetch, and a call that
\* announced an error is not served.
EventsMatchOutcome ==
    \A p \in Procs :
        /\ pc[p] = "ok" => events[p] \in {<<>>, <<"fetch_start", "fetch_done">>}
        /\ pc[p] = "error" => events[p] \in
              {<<>>, <<"fetch_start">>, <<"fetch_start", "fetch_error">>}

\* Every call that waits for the lock is answered, unless its process dies.
CallsAnswered ==
    \A p \in Procs : pc[p] = "waiting" ~> pc[p] \in AtRest


-----------------------------------------------------------------------------

\* What a caller has been told, read off its program counter.
Answer(p) ==
    CASE pc[p] = "idle" -> "none"
      [] pc[p] = "ok" -> "served"
      [] pc[p] = "error" -> "refused"
      [] pc[p] = "dead" -> "died"
      [] OTHER -> "pending"

\* The promise: files, locks and temporary names forgotten.
Cache == INSTANCE VerifiedCache WITH
    cached <- Hit,
    answer <- [p \in Procs |-> Answer(p)]

\* Every behaviour of the fetcher is one of the abstract cache.
ImplementsCache == Cache!Spec

=============================================================================
