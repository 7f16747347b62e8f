------------------------- MODULE ToolFetcher_proofs -------------------------
(***************************************************************************)
(* Proofs about ToolFetcher, for any number of processes, any bound on     *)
(* their calls and any policy.  IInv is the inductive invariant: who is    *)
(* under the lock is its holder, and what each step under the lock knows.  *)
(***************************************************************************)
EXTENDS ToolFetcher, SequenceTheorems, TLAPS

\* The lock and the program counters agree.
HolderIsLocked == \A p \in Procs : pc[p] \in Locked <=> lock = p

\* What a process has established when it reaches each step.
Knows(p) ==
    /\ pc[p] \in Fetching => /\ target.content # "good"
                            /\ Attempt(p) \in partials \union extracteds
    /\ pc[p] \in {"cosign", "replace"} => blob[p] = "good"
    /\ pc[p] \in {"waiting", "recheck", "chmod"} \union Fetching => failure[p] = "none"
    /\ pc[p] \in {"chmod", "ok"} => target.content = "good"
    /\ pc[p] \in {"cleanup", "unlock"} /\ failure[p] = "none" => target.content = "good"

\* What it has announced by then.
Announced(p) ==
    /\ pc[p] \in {"waiting", "recheck"} => events[p] = <<>>
    /\ pc[p] \in Fetching \union {"chmod"} => events[p] = <<"fetch_start">>
    /\ pc[p] = "cleanup" => events[p] =
          IF failure[p] = "ToolFetchError" THEN <<"fetch_start", "fetch_error">>
                                           ELSE <<"fetch_start">>
    /\ pc[p] = "unlock" => events[p] \in
          IF failure[p] = "none" THEN {<<>>, <<"fetch_start", "fetch_done">>}
          ELSE {<<"fetch_start">>, <<"fetch_start", "fetch_error">>}
    /\ pc[p] = "ok" => events[p] \in {<<>>, <<"fetch_start", "fetch_done">>}
    /\ pc[p] = "error" => events[p] \in
          {<<>>, <<"fetch_start">>, <<"fetch_start", "fetch_error">>}

IInv ==
    /\ TypeOK
    /\ HolderIsLocked
    /\ \A p \in Procs : Knows(p) /\ Announced(p)

-----------------------------------------------------------------------------

Kinds == {"fetch_start", "fetch_done", "fetch_error"}

\* The type invariant, conjunct by conjunct.
FilesOK == /\ target \in [content : Contents, exec : BOOLEAN]
           /\ partials \subseteq Attempts
           /\ extracteds \subseteq Attempts
LockOK == lock \in Procs \union {Nobody}
PcOK == pc \in [Procs -> AtRest \union Locked \union {"waiting"}]
CallsOK == calls \in [Procs -> 0 .. MaxCalls]
BlobOK == blob \in [Procs -> {"none", "good", "bad"}]
FailureOK == failure \in [Procs -> {"none", "ToolFetchError", "other"}]
EventsOK == events \in [Procs -> Seq(Kinds)]

\* TypeOK is the conjunction of its parts.
LEMMA TypeParts ==
    TypeOK <=> FilesOK /\ LockOK /\ PcOK /\ CallsOK /\ BlobOK /\ FailureOK /\ EventsOK
  BY DEF TypeOK, FilesOK, LockOK, PcOK, CallsOK, BlobOK, FailureOK, EventsOK, Kinds

\* An emitted event is an event.
LEMMA EmitType ==
    ASSUME EventsOK, NEW p \in Procs, NEW k \in Kinds, Emit(p, k)
    PROVE  EventsOK'
  BY DEF Emit, EventsOK

\* A step to a known place keeps the program counters.
LEMMA GoToType ==
    ASSUME PcOK, NEW p \in Procs,
           NEW l \in AtRest \union Locked \union {"waiting"}, GoTo(p, l)
    PROVE  PcOK'
  BY DEF GoTo, PcOK

\* An exception keeps the types.
LEMMA RaiseType ==
    ASSUME PcOK, FailureOK, EventsOK, NEW p \in Procs,
           NEW kind \in {"ToolFetchError", "other"}, Raise(p, kind)
    PROVE  PcOK' /\ FailureOK' /\ EventsOK'
  <1>1. PcOK'
    BY GoToType DEF Raise, Locked
  <1>2. FailureOK'
    BY DEF Raise, FailureOK
  <1>3. EventsOK'
    <2>1. CASE kind = "ToolFetchError"
      BY <2>1, EmitType DEF Raise, Kinds
    <2>2. CASE kind # "ToolFetchError"
      BY <2>2 DEF Raise, EventsOK
    <2> QED
      BY <2>1, <2>2
  <1> QED
    BY <1>1, <1>2, <1>3

\* A call of a process is one of its attempts.
LEMMA AttemptType == ASSUME CallsOK, NEW p \in Procs PROVE Attempt(p) \in Attempts
  BY DEF CallsOK, Attempt, Attempts

\* Every step keeps the types.
LEMMA TypeStep == ASSUME TypeOK, [Next]_vars PROVE TypeOK'
  <1> SUFFICES ASSUME FilesOK, LockOK, PcOK, CallsOK, BlobOK, FailureOK, EventsOK
               PROVE  FilesOK' /\ LockOK' /\ PcOK' /\ CallsOK' /\ BlobOK'
                        /\ FailureOK' /\ EventsOK'
    <2>1. TypeOK' <=> FilesOK' /\ LockOK' /\ PcOK' /\ CallsOK' /\ BlobOK'
                        /\ FailureOK' /\ EventsOK'
      BY TypeParts, PTL
    <2> QED
      BY <2>1, TypeParts
  <1> DEFINE Goal == FilesOK' /\ LockOK' /\ PcOK' /\ CallsOK' /\ BlobOK'
                        /\ FailureOK' /\ EventsOK'
  <1>1. ASSUME NEW p \in Procs, Ensure(p) PROVE Goal
    <2>1. FilesOK' /\ LockOK'
      BY <1>1 DEF Ensure, files, FilesOK, LockOK, Attempts
    <2>2. PcOK'
      BY <1>1, GoToType DEF Ensure, AtRest
    <2>3. CallsOK'
      BY <1>1, BoundAssumption DEF Ensure, CallsOK
    <2>4. BlobOK' /\ FailureOK'
      BY <1>1 DEF Ensure, BlobOK, FailureOK
    <2>5. EventsOK'
      BY <1>1 DEF Ensure, EventsOK
    <2> QED
      BY <2>1, <2>2, <2>3, <2>4, <2>5
  <1>2. ASSUME NEW p \in Procs, Acquire(p) PROVE Goal
    <2>1. PcOK'
      BY <1>2, GoToType DEF Acquire, Locked
    <2> QED
      BY <1>2, <2>1 DEF Acquire, files, FilesOK, LockOK, CallsOK, BlobOK, FailureOK,
                        EventsOK, Attempts
  <1>3. ASSUME NEW p \in Procs, Recheck(p) PROVE Goal
    <2>1. FilesOK' /\ LockOK' /\ CallsOK' /\ BlobOK'
      BY <1>3, AttemptType DEF Recheck, FilesOK, LockOK, CallsOK, BlobOK, Attempts
    <2>2. PcOK'
      BY <1>3, GoToType DEF Recheck, Locked, Fetching
    <2>3. FailureOK'
      BY <1>3 DEF Recheck, FailureOK
    <2>4. EventsOK'
      BY <1>3, EmitType DEF Recheck, Kinds, EventsOK
    <2> QED
      BY <2>1, <2>2, <2>3, <2>4
  <1>4. ASSUME NEW p \in Procs, Download(p) PROVE Goal
    <2>1. FilesOK' /\ LockOK' /\ CallsOK'
      BY <1>4 DEF Download, files, FilesOK, LockOK, CallsOK, Attempts
    <2>2. CASE /\ \E b \in {"good", "bad"} : blob' = [blob EXCEPT ![p] = b]
               /\ GoTo(p, "extract")
               /\ UNCHANGED <<failure, events>>
      <3>1. PcOK'
        BY <2>2, GoToType DEF Locked, Fetching
      <3> QED
        BY <2>1, <2>2, <3>1 DEF BlobOK, FailureOK, EventsOK
    <2>3. CASE /\ \E kind \in DownloadErrors : Raise(p, kind)
               /\ UNCHANGED blob
      BY <2>1, <2>3, RaiseType DEF DownloadErrors, BlobOK
    <2> QED
      BY <1>4, <2>2, <2>3 DEF Download
  <1>5. ASSUME NEW p \in Procs, MaybeExtract(p) PROVE Goal
    <2>1. FilesOK' /\ LockOK' /\ CallsOK' /\ BlobOK'
      BY <1>5, AttemptType DEF MaybeExtract, FilesOK, LockOK, CallsOK, BlobOK, Attempts
    <2>2. CASE GoTo(p, "checksum") /\ UNCHANGED <<failure, events>>
      <3>1. PcOK'
        BY <2>2, GoToType DEF Locked, Fetching
      <3> QED
        BY <2>1, <2>2, <3>1 DEF FailureOK, EventsOK
    <2>3. CASE \E kind \in {"ToolFetchError", "other"} : Raise(p, kind)
      BY <2>1, <2>3, RaiseType
    <2> QED
      BY <1>5, <2>2, <2>3 DEF MaybeExtract
  <1>6. ASSUME NEW p \in Procs, CheckSha(p) PROVE Goal
    <2>1. FilesOK' /\ LockOK' /\ CallsOK' /\ BlobOK'
      BY <1>6 DEF CheckSha, files, FilesOK, LockOK, CallsOK, BlobOK, Attempts
    <2>2. CASE GoTo(p, "cosign") /\ UNCHANGED <<failure, events>>
      <3>1. PcOK'
        BY <2>2, GoToType DEF Locked, Fetching
      <3> QED
        BY <2>1, <2>2, <3>1 DEF FailureOK, EventsOK
    <2>3. CASE Raise(p, "ToolFetchError")
      BY <2>1, <2>3, RaiseType
    <2> QED
      BY <1>6, <2>2, <2>3 DEF CheckSha
  <1>7. ASSUME NEW p \in Procs, VerifyCosign(p) PROVE Goal
    <2>1. FilesOK' /\ LockOK' /\ CallsOK' /\ BlobOK'
      BY <1>7 DEF VerifyCosign, files, FilesOK, LockOK, CallsOK, BlobOK, Attempts
    <2>2. CASE GoTo(p, "replace") /\ UNCHANGED <<failure, events>>
      <3>1. PcOK'
        BY <2>2, GoToType DEF Locked, Fetching
      <3> QED
        BY <2>1, <2>2, <3>1 DEF FailureOK, EventsOK
    <2>3. CASE \E kind \in {"ToolFetchError", "other"} : Raise(p, kind)
      BY <2>1, <2>3, RaiseType
    <2> QED
      BY <1>7, <2>2, <2>3 DEF VerifyCosign
  <1>8. ASSUME NEW p \in Procs, Replace(p) PROVE Goal
    <2>0. target' \in [content : Contents, exec : BOOLEAN]
      <3> DEFINE c == IF blob[p] = "good" THEN "good" ELSE "stale"
      <3>1. c \in Contents
        BY DEF Contents
      <3>2. [content |-> c, exec |-> FALSE] \in [content : Contents, exec : BOOLEAN]
        BY <3>1
      <3>3. target' = [content |-> c, exec |-> FALSE] \/ target' = target
        BY <1>8 DEF Replace, files
      <3> QED
        BY <3>2, <3>3 DEF FilesOK
    <2>1. FilesOK' /\ LockOK' /\ CallsOK' /\ BlobOK'
      BY <1>8, <2>0 DEF Replace, files, FilesOK, LockOK, CallsOK, BlobOK, Attempts
    <2>2. CASE GoTo(p, "chmod") /\ UNCHANGED <<failure, events>>
      <3>1. PcOK'
        BY <2>2, GoToType DEF Locked
      <3> QED
        BY <2>1, <2>2, <3>1 DEF FailureOK, EventsOK
    <2>3. CASE Raise(p, "other")
      BY <2>1, <2>3, RaiseType
    <2> QED
      BY <1>8, <2>2, <2>3 DEF Replace
  <1>9. ASSUME NEW p \in Procs, Chmod(p) PROVE Goal
    <2>1. FilesOK' /\ LockOK' /\ CallsOK' /\ BlobOK'
      BY <1>9 DEF Chmod, files, FilesOK, LockOK, CallsOK, BlobOK, Attempts
    <2>2. CASE GoTo(p, "cleanup") /\ UNCHANGED <<failure, events>>
      <3>1. PcOK'
        BY <2>2, GoToType DEF Locked
      <3> QED
        BY <2>1, <2>2, <3>1 DEF FailureOK, EventsOK
    <2>3. CASE Raise(p, "other")
      BY <2>1, <2>3, RaiseType
    <2> QED
      BY <1>9, <2>2, <2>3 DEF Chmod
  <1>10. ASSUME NEW p \in Procs, Cleanup(p) PROVE Goal
    <2>1. PcOK'
      BY <1>10, GoToType DEF Cleanup, Locked
    <2>2. EventsOK'
      BY <1>10, EmitType DEF Cleanup, AnnounceSuccess, Kinds, EventsOK
    <2> QED
      BY <1>10, <2>1, <2>2 DEF Cleanup, PartialsAfterSweep, FilesOK, LockOK, CallsOK,
                               BlobOK, FailureOK, Attempts
  <1>11. ASSUME NEW p \in Procs, Unlock(p) PROVE Goal
    <2>1. PcOK'
      BY <1>11, GoToType DEF Unlock, AtRest
    <2> QED
      BY <1>11, <2>1 DEF Unlock, files, FilesOK, LockOK, CallsOK, BlobOK, FailureOK,
                         EventsOK, Attempts
  <1>12. ASSUME NEW p \in Procs, Crash(p) PROVE Goal
    <2>1. PcOK'
      BY <1>12, GoToType DEF Crash, AtRest
    <2> QED
      BY <1>12, <2>1 DEF Crash, LockAfterDeath, files, FilesOK, LockOK, CallsOK, BlobOK,
                         FailureOK, EventsOK, Attempts
  <1>13. CASE UNCHANGED vars
    BY <1>13 DEF vars, FilesOK, LockOK, PcOK, CallsOK, BlobOK, FailureOK, EventsOK, Attempts
  <1> QED
    BY <1>1, <1>2, <1>3, <1>4, <1>5, <1>6, <1>7, <1>8, <1>9, <1>10, <1>11, <1>12,
       <1>13 DEF Next, Step

-----------------------------------------------------------------------------

\* A second event after the first.
LEMMA AppendToOne == ASSUME NEW a, NEW b PROVE Append(<<a>>, b) = <<a, b>>
  <1> DEFINE s == Append(<<a>>, b)
             t == <<a, b>>
  <1>1. s \in Seq({a, b}) /\ t \in Seq({a, b})
    OBVIOUS
  <1>2. Len(s) = 2 /\ Len(t) = 2
    OBVIOUS
  <1>3. \A i \in 1 .. Len(s) : s[i] = t[i]
    <2>1. s[1] = t[1] /\ s[2] = t[2]
      OBVIOUS
    <2>2. \A i \in 1 .. 2 : i = 1 \/ i = 2
      OBVIOUS
    <2> QED
      BY <1>2, <2>1, <2>2
  <1> HIDE DEF s, t
  <1>4. s = t
    BY <1>1, <1>2, <1>3, SeqEqual
  <1> QED
    BY <1>4 DEF s, t

\* The lock is taken on entry, and given back on exit or by the kernel.
LEMMA LockStep == ASSUME TypeOK, HolderIsLocked, Next PROVE HolderIsLocked'
  <1> PICK p \in Procs : Ensure(p) \/ Step(p) \/ Crash(p)
    BY DEF Next
  <1> SUFFICES ASSUME NEW q \in Procs PROVE (pc'[q] \in Locked <=> lock' = q)
    BY DEF HolderIsLocked
  <1> USE ProcsAssumption DEF TypeOK, HolderIsLocked, GoTo, Locked, Fetching, AtRest
  <1>1. CASE Ensure(p)
    BY <1>1 DEF Ensure
  <1>2. CASE Acquire(p)
    BY <1>2 DEF Acquire, LockFree
  <1>3. CASE Recheck(p)
    BY <1>3 DEF Recheck
  <1>4. CASE Download(p)
    BY <1>4 DEF Download, Raise
  <1>5. CASE MaybeExtract(p)
    BY <1>5 DEF MaybeExtract, Raise
  <1>6. CASE CheckSha(p)
    BY <1>6 DEF CheckSha, Raise
  <1>7. CASE VerifyCosign(p)
    BY <1>7 DEF VerifyCosign, Raise
  <1>8. CASE Replace(p)
    BY <1>8 DEF Replace, Raise
  <1>9. CASE Chmod(p)
    BY <1>9 DEF Chmod, Raise
  <1>10. CASE Cleanup(p)
    BY <1>10 DEF Cleanup
  <1>11. CASE Unlock(p)
    BY <1>11 DEF Unlock
  <1>12. CASE Crash(p)
    BY <1>12 DEF Crash, LockAfterDeath
  <1> QED
    BY <1>1, <1>2, <1>3, <1>4, <1>5, <1>6, <1>7, <1>8, <1>9, <1>10, <1>11, <1>12 DEF Step

\* A step of one process changes nothing that is private to another.
LEMMA Frame ==
    ASSUME TypeOK, NEW p \in Procs, Ensure(p) \/ Step(p) \/ Crash(p),
           NEW q \in Procs, q # p
    PROVE  /\ pc'[q] = pc[q]
           /\ blob'[q] = blob[q]
           /\ failure'[q] = failure[q]
           /\ events'[q] = events[q]
           /\ calls'[q] = calls[q]
  <1> USE DEF TypeOK, GoTo, Raise, Emit
  <1>1. CASE Ensure(p)
    BY <1>1 DEF Ensure
  <1>2. CASE Acquire(p)
    BY <1>2 DEF Acquire
  <1>3. CASE Recheck(p)
    BY <1>3 DEF Recheck
  <1>4. CASE Download(p)
    BY <1>4 DEF Download
  <1>5. CASE MaybeExtract(p)
    BY <1>5 DEF MaybeExtract
  <1>6. CASE CheckSha(p)
    BY <1>6 DEF CheckSha
  <1>7. CASE VerifyCosign(p)
    BY <1>7 DEF VerifyCosign
  <1>8. CASE Replace(p)
    BY <1>8 DEF Replace
  <1>9. CASE Chmod(p)
    BY <1>9 DEF Chmod
  <1>10. CASE Cleanup(p)
    BY <1>10 DEF Cleanup, AnnounceSuccess
  <1>11. CASE Unlock(p)
    BY <1>11 DEF Unlock
  <1>12. CASE Crash(p)
    BY <1>12 DEF Crash
  <1> QED
    BY <1>1, <1>2, <1>3, <1>4, <1>5, <1>6, <1>7, <1>8, <1>9, <1>10, <1>11, <1>12 DEF Step

\* The process that moves learns what its step establishes.
LEMMA OwnStep ==
    ASSUME TypeOK, HolderIsLocked, NEW p \in Procs, Knows(p),
           Ensure(p) \/ Step(p) \/ Crash(p)
    PROVE  Knows(p)'
  <1> USE DEF TypeOK, Knows, GoTo, Fetching, AtRest, files
  <1>1. CASE Ensure(p)
    BY <1>1 DEF Ensure, Hit
  <1>2. CASE Acquire(p)
    BY <1>2 DEF Acquire
  <1>3. CASE Recheck(p)
    BY <1>3 DEF Recheck, Hit, StillMissing, Attempt
  <1>4. CASE Download(p)
    BY <1>4 DEF Download, Raise, DownloadErrors, Attempt
  <1>5. CASE MaybeExtract(p)
    BY <1>5 DEF MaybeExtract, Raise, Attempt
  <1>6. CASE CheckSha(p)
    BY <1>6 DEF CheckSha, Raise, ShaMatches, Attempt
  <1>7. CASE VerifyCosign(p)
    BY <1>7 DEF VerifyCosign, Raise, Attempt
  <1>8. CASE Replace(p)
    BY <1>8 DEF Replace, Raise
  <1>9. CASE Chmod(p)
    BY <1>9 DEF Chmod, Raise
  <1>10. CASE Cleanup(p)
    BY <1>10 DEF Cleanup
  <1>11. CASE Unlock(p)
    BY <1>11 DEF Unlock
  <1>12. CASE Crash(p)
    BY <1>12 DEF Crash
  <1> QED
    BY <1>1, <1>2, <1>3, <1>4, <1>5, <1>6, <1>7, <1>8, <1>9, <1>10, <1>11, <1>12 DEF Step

\* A valid tool stays: the only content ever moved into place was verified.
LEMMA GoodStays ==
    ASSUME TypeOK, NEW p \in Procs, Knows(p), Ensure(p) \/ Step(p) \/ Crash(p),
           target.content = "good"
    PROVE  target'.content = "good" /\ (target' = target \/ target' = [target EXCEPT !.exec = TRUE])
  <1> USE DEF TypeOK, files
  <1>1. CASE Replace(p)
    BY <1>1 DEF Replace, Knows, Fetching
  <1>2. CASE Chmod(p)
    BY <1>2 DEF Chmod
  <1>3. CASE ~Replace(p) /\ ~Chmod(p)
    BY <1>3 DEF Step, Ensure, Acquire, Recheck, Download, MaybeExtract, CheckSha,
                VerifyCosign, Cleanup, Unlock, Crash
  <1> QED
    BY <1>1, <1>2, <1>3

\* Under the lock, the cache changes only by the hand of the holder.
LEMMA OutsiderStep ==
    ASSUME TypeOK, HolderIsLocked, NEW p \in Procs, pc[p] \notin Locked, lock # Nobody,
           Ensure(p) \/ Step(p) \/ Crash(p)
    PROVE  UNCHANGED files
  BY DEF Locked, Fetching, AtRest, Step, Ensure, Acquire, LockFree, Recheck, Download,
         MaybeExtract, CheckSha, VerifyCosign, Replace, Chmod, Cleanup, Unlock, Crash

\* A step of one process leaves what it and the others know.
LEMMA KnowStep ==
    ASSUME TypeOK, HolderIsLocked, \A p \in Procs : Knows(p), Next
    PROVE  \A p \in Procs : Knows(p)'
  <1> PICK p \in Procs : Ensure(p) \/ Step(p) \/ Crash(p)
    BY DEF Next
  <1> SUFFICES ASSUME NEW q \in Procs PROVE Knows(q)'
    OBVIOUS
  <1>1. CASE q = p
    BY <1>1, OwnStep
  <1>2. CASE q # p
    <2>1. /\ pc'[q] = pc[q]
          /\ blob'[q] = blob[q]
          /\ failure'[q] = failure[q]
          /\ calls'[q] = calls[q]
      BY <1>2, Frame
    <2>2. pc[q] \in Fetching => UNCHANGED files
      <3> HAVE pc[q] \in Fetching
      <3>1. lock = q /\ pc[p] \notin Locked
        BY <1>2 DEF HolderIsLocked, Locked
      <3> QED
        BY <3>1, OutsiderStep, ProcsAssumption
    <2>3. target.content = "good" => target'.content = "good"
      BY GoodStays
    <2> QED
      BY <2>1, <2>2, <2>3 DEF Knows, Attempt, files
  <1> QED
    BY <1>1, <1>2

\* An exception leaves the announcement clean-up expects.
LEMMA RaiseAnnounces ==
    ASSUME TypeOK, NEW p \in Procs, events[p] = <<"fetch_start">>,
           NEW kind \in {"ToolFetchError", "other"}, Raise(p, kind)
    PROVE  Announced(p)'
  <1>1. pc'[p] = "cleanup" /\ failure'[p] = kind
    BY DEF TypeOK, Raise, GoTo
  <1>2. CASE kind = "ToolFetchError"
    <2>1. events'[p] = Append(events[p], "fetch_error")
      BY <1>2 DEF TypeOK, Raise, Emit
    <2>2. events'[p] = <<"fetch_start", "fetch_error">>
      BY <2>1, AppendToOne
    <2> QED
      BY <1>1, <1>2, <2>2 DEF Announced, Fetching
  <1>3. CASE kind = "other"
    <2>1. events'[p] = <<"fetch_start">>
      BY <1>3 DEF Raise
    <2> QED
      BY <1>1, <1>3, <2>1 DEF Announced, Fetching
  <1> QED
    BY <1>2, <1>3

\* Every step announces what the next place expects.
LEMMA AnnounceStep ==
    ASSUME TypeOK, NEW p \in Procs, Knows(p), Announced(p),
           Ensure(p) \/ Step(p) \/ Crash(p)
    PROVE  Announced(p)'
  <1> USE DEF TypeOK, GoTo, Fetching, AtRest, files
  <1>1. CASE Ensure(p)
    BY <1>1 DEF Ensure, Announced
  <1>2. CASE Acquire(p)
    BY <1>2 DEF Acquire, Announced
  <1>3. CASE Recheck(p)
    <2>1. events[p] = <<>> /\ failure[p] = "none"
      BY <1>3 DEF Recheck, Announced, Knows
    <2>2. CASE GoTo(p, "unlock") /\ UNCHANGED <<failure, events>>
      BY <2>1, <2>2 DEF Announced
    <2>3. CASE Emit(p, "fetch_start")
      <3>1. events'[p] = <<"fetch_start">>
        BY <2>1, <2>3 DEF Emit
      <3>2. \/ pc'[p] = "download"
            \/ pc'[p] = "unlock" /\ failure'[p] = "other"
            \/ pc'[p] = "unlock" /\ events' = events
        BY <1>3 DEF Recheck
      <3>3. events'[p] # events[p]
        BY <2>1, <3>1
      <3> QED
        BY <3>1, <3>2, <3>3 DEF Announced
    <2> QED
      BY <1>3, <2>2, <2>3 DEF Recheck
  <1>4. CASE Download(p)
    BY <1>4, RaiseAnnounces DEF Download, DownloadErrors, Announced
  <1>5. CASE MaybeExtract(p)
    BY <1>5, RaiseAnnounces DEF MaybeExtract, Announced
  <1>6. CASE CheckSha(p)
    BY <1>6, RaiseAnnounces DEF CheckSha, Announced
  <1>7. CASE VerifyCosign(p)
    BY <1>7, RaiseAnnounces DEF VerifyCosign, Announced
  <1>8. CASE Replace(p)
    BY <1>8, RaiseAnnounces DEF Replace, Announced
  <1>9. CASE Chmod(p)
    BY <1>9, RaiseAnnounces DEF Chmod, Announced, Knows
  <1>10. CASE Cleanup(p)
    <2>1. pc'[p] = "unlock" /\ failure' = failure
      BY <1>10 DEF Cleanup
    <2>2. CASE failure[p] = "none"
      <3>1. events[p] = <<"fetch_start">>
        <4>1. pc[p] = "cleanup" /\ failure[p] # "ToolFetchError"
          BY <1>10, <2>2 DEF Cleanup
        <4> QED
          BY <4>1 DEF Announced
      <3>2. events'[p] = Append(events[p], "fetch_done")
        BY <1>10, <2>2 DEF Cleanup, AnnounceSuccess, Emit
      <3>3. events'[p] = <<"fetch_start", "fetch_done">>
        BY <3>1, <3>2, AppendToOne
      <3> QED
        BY <2>1, <2>2, <3>3 DEF Announced
    <2>3. CASE failure[p] # "none"
      <3>1. events' = events
        BY <1>10, <2>3 DEF Cleanup, AnnounceSuccess
      <3>2. events[p] \in {<<"fetch_start">>, <<"fetch_start", "fetch_error">>}
        <4>1. pc[p] = "cleanup"
          BY <1>10 DEF Cleanup
        <4> QED
          BY <4>1 DEF Announced
      <3> QED
        BY <2>1, <2>3, <3>1, <3>2 DEF Announced
    <2> QED
      BY <2>2, <2>3
  <1>11. CASE Unlock(p)
    BY <1>11 DEF Unlock, Announced
  <1>12. CASE Crash(p)
    BY <1>12 DEF Crash, Announced
  <1> QED
    BY <1>1, <1>2, <1>3, <1>4, <1>5, <1>6, <1>7, <1>8, <1>9, <1>10, <1>11, <1>12 DEF Step

\* The invariant holds before the first call ...
LEMMA InitIInv == Init => IInv
  <1> SUFFICES ASSUME Init PROVE IInv
    OBVIOUS
  <1>1. TypeOK
    <2>1. target \in [content : Contents, exec : BOOLEAN]
      <3>1. \A c \in Contents, x \in BOOLEAN :
                [content |-> c, exec |-> x] \in [content : Contents, exec : BOOLEAN]
        OBVIOUS
      <3>2. \E c \in Contents, x \in BOOLEAN : target = [content |-> c, exec |-> x]
        BY DEF Init, Contents
      <3> QED
        BY <3>1, <3>2
    <2>2. FilesOK /\ LockOK
      BY <2>1 DEF Init, FilesOK, LockOK
    <2>3. PcOK /\ CallsOK
      BY BoundAssumption DEF Init, PcOK, CallsOK, AtRest
    <2>4. BlobOK /\ FailureOK /\ EventsOK
      BY DEF Init, BlobOK, FailureOK, EventsOK
    <2> QED
      BY <2>2, <2>3, <2>4, TypeParts
  <1>2. HolderIsLocked
    BY ProcsAssumption DEF Init, HolderIsLocked, Locked, Fetching
  <1>3. \A p \in Procs : Knows(p) /\ Announced(p)
    BY DEF Init, Knows, Announced, Fetching
  <1> QED
    BY <1>1, <1>2, <1>3 DEF IInv

\* ... and every step keeps it.
LEMMA NextIInv == IInv /\ [Next]_vars => IInv'
  <1> SUFFICES ASSUME IInv, [Next]_vars PROVE IInv'
    OBVIOUS
  <1>1. TypeOK'
    BY TypeStep DEF IInv
  <1>2. CASE Next
    <2>1. HolderIsLocked'
      BY <1>2, LockStep DEF IInv
    <2>2. \A p \in Procs : Knows(p)'
      BY <1>2, KnowStep DEF IInv
    <2>3. \A p \in Procs : Announced(p)'
      <3> PICK p \in Procs : Ensure(p) \/ Step(p) \/ Crash(p)
        BY <1>2 DEF Next
      <3>1. Announced(p)'
        BY AnnounceStep DEF IInv
      <3>2. ASSUME NEW q \in Procs, q # p PROVE Announced(q)'
        BY <3>2, Frame DEF IInv, Announced
      <3> QED
        BY <3>1, <3>2
    <2> QED
      BY <1>1, <2>1, <2>2, <2>3 DEF IInv
  <1>3. CASE UNCHANGED vars
    BY <1>1, <1>3 DEF IInv, vars, HolderIsLocked, Knows, Announced, Attempt
  <1> QED
    BY <1>2, <1>3

\* The invariant holds of every behaviour.
THEOREM Invariance == Spec => []IInv
  BY InitIInv, NextIInv, PTL DEF Spec

\* TypeOK is an invariant.
THEOREM TypeCorrect == Spec => []TypeOK
  BY Invariance, PTL DEF IInv

\* Two processes are never under the file lock at once, whoever crashes.
THEOREM MutualExclusionHolds == Spec => []MutualExclusion
  <1>1. IInv => MutualExclusion
    BY DEF IInv, HolderIsLocked, MutualExclusion
  <1> QED
    BY <1>1, Invariance, PTL

\* The sweep of one fetch never takes the file of another.
THEOREM NoLiveFileSweptHolds == Spec => []NoLiveFileSwept
  <1>1. IInv => NoLiveFileSwept
    BY DEF IInv, Knows, NoLiveFileSwept
  <1> QED
    BY <1>1, Invariance, PTL

\* Whoever got a path has a verified tool behind it.
THEOREM ServedIsVerifiedHolds == Spec => []ServedIsVerified
  <1>1. IInv => ServedIsVerified
    BY DEF IInv, Knows, ServedIsVerified
  <1> QED
    BY <1>1, Invariance, PTL

\* The events of a call agree with its outcome.
THEOREM EventsMatchOutcomeHolds == Spec => []EventsMatchOutcome
  <1>1. IInv => EventsMatchOutcome
    BY DEF IInv, Announced, EventsMatchOutcome
  <1> QED
    BY <1>1, Invariance, PTL

\* No step brings a partial download back once the holder of the lock has swept.
LEMMA SweptStep ==
    ASSUME IInv, PartialsSwept, Next
    PROVE  PartialsSwept'
  <1> PICK p \in Procs : Ensure(p) \/ Step(p) \/ Crash(p)
    BY DEF Next
  <1> SUFFICES ASSUME NEW q \in Procs, pc'[q] = "unlock", events'[q] # <<>>,
                      events'[q] # <<"fetch_start">>
               PROVE  partials' = {}
    BY DEF PartialsSwept
  <1> USE DEF IInv
  <1>1. CASE q # p
    <2>1. pc[q] = "unlock" /\ events'[q] = events[q]
      BY <1>1, Frame
    <2>2. lock = q /\ pc[p] \notin Locked
      BY <1>1, <2>1 DEF HolderIsLocked, Locked
    <2>3. UNCHANGED files
      BY <2>2, OutsiderStep, ProcsAssumption
    <2> QED
      BY <2>1, <2>3 DEF PartialsSwept, files
  <1>2. CASE q = p
    <2>1. CASE Cleanup(p)
      BY <2>1 DEF Cleanup, PartialsAfterSweep
    <2>2. CASE Recheck(p)
      <3>1. events[p] = <<>>
        BY <2>2 DEF Recheck, Announced
      <3>2. \/ events' = events
            \/ events' = [events EXCEPT ![p] = Append(@, "fetch_start")]
        BY <2>2, Zenon DEF Recheck, Emit
      <3>3. events'[p] = <<>> \/ events'[p] = <<"fetch_start">>
        BY <3>1, <3>2 DEF TypeOK
      <3> QED
        BY <1>2, <3>3
    <2>3. CASE ~Cleanup(p) /\ ~Recheck(p)
      <3>1. pc'[p] # "unlock"
        BY <2>3 DEF TypeOK, Ensure, Step, Acquire, Download, MaybeExtract, CheckSha, VerifyCosign,
                    Replace, Chmod, Unlock, Crash, Raise, GoTo
      <3> QED
        BY <1>2, <3>1
    <2> QED
      BY <2>1, <2>2, <2>3
  <1> QED
    BY <1>1, <1>2

\* Once a fetch has run its finally block, no partial download is in the directory
\* for as long as it holds the lock.
THEOREM PartialsSweptHolds == Spec => []PartialsSwept
  <1>1. Init => PartialsSwept
    BY DEF Init, PartialsSwept
  <1>2. IInv /\ PartialsSwept /\ [Next]_vars => PartialsSwept'
    <2>1. CASE UNCHANGED vars
      BY <2>1 DEF vars, PartialsSwept
    <2> QED
      BY <2>1, SweptStep
  <1> QED
    BY <1>1, <1>2, Invariance, PTL DEF Spec

\* A verified tool is put in place once and never taken back.
THEOREM InstalledOnceHolds == Spec => InstalledOnce
  <1> DEFINE Once == target' # target =>
                        \/ target.content # "good" /\ target'.content = "good"
                        \/ target' = [target EXCEPT !.exec = TRUE]
  <1>1. IInv /\ [Next]_vars => [Once]_vars
    <2> SUFFICES ASSUME IInv, Next PROVE Once
      BY DEF vars
    <2> PICK p \in Procs : Ensure(p) \/ Step(p) \/ Crash(p)
      BY DEF Next
    <2> USE DEF IInv, TypeOK, files
    <2>1. CASE Replace(p)
      BY <2>1 DEF Replace, Knows, Fetching
    <2>2. CASE Chmod(p)
      BY <2>2 DEF Chmod
    <2>3. CASE ~Replace(p) /\ ~Chmod(p)
      BY <2>3 DEF Step, Ensure, Acquire, Recheck, Download, MaybeExtract, CheckSha,
                  VerifyCosign, Cleanup, Unlock, Crash
    <2> QED
      BY <2>1, <2>2, <2>3
  <1> QED
    BY <1>1, Invariance, PTL DEF Spec, InstalledOnce

-----------------------------------------------------------------------------

\* The answer of a caller, by the kind of step it is at.
LEMMA AnswerByStep ==
    ASSUME TypeOK, NEW p \in Procs
    PROVE  /\ pc[p] \in Locked \union {"waiting"} <=> Answer(p) = "pending"
           /\ pc[p] = "ok" <=> Answer(p) = "served"
           /\ pc[p] = "error" <=> Answer(p) = "refused"
           /\ pc[p] = "dead" <=> Answer(p) = "died"
  BY DEF TypeOK, Answer, AtRest, Locked, Fetching

\* An empty or filled cache directory is an abstract cache.
LEMMA CacheInit == Init => Cache!Init
  BY DEF Init, Hit, Answer, Cache!Init

\* Every step of a process is a step of its caller in the abstract cache.
LEMMA CacheStep == ASSUME IInv, IInv', [Next]_vars PROVE [Cache!Next]_(Cache!vars)
  <1> DEFINE ans == [q \in Procs |-> Answer(q)]
  <1>1. CASE UNCHANGED vars
    BY <1>1 DEF vars, Cache!vars, Hit, Answer
  <1>2. ASSUME NEW p \in Procs, Ensure(p) \/ Step(p) \/ Crash(p)
        PROVE  [Cache!Next]_(Cache!vars)
    <2>1. \A q \in Procs : q # p => Answer(q)' = Answer(q)
      BY <1>2, Frame DEF IInv, Answer
    <2>2. ans' = [ans EXCEPT ![p] = Answer(p)']
      BY <2>1
    <2>3. Hit => Hit'
      BY <1>2, GoodStays DEF IInv, Hit
    <2> USE DEF IInv, TypeOK
    <2>4. CASE Ensure(p)
      <3>1. Hit' = Hit /\ ans[p] # "pending"
        BY <2>4 DEF Ensure, Hit, files, Answer, AtRest
      <3>2. \/ Answer(p)' = "pending"
            \/ Hit /\ Answer(p)' = "served"
            \/ ~Hit /\ Answer(p)' = "refused"
        BY <2>4 DEF Ensure, GoTo, Answer
      <3>3. Cache!Ask(p)
        BY <2>2, <3>1, <3>2 DEF Cache!Ask
      <3> QED
        BY <3>3 DEF Cache!Next
    <2>5. CASE Crash(p)
      <3>1. Hit' = Hit /\ ans[p] = "pending" /\ Answer(p)' = "died"
        BY <2>5 DEF Crash, GoTo, Hit, files, Answer, AtRest
      <3>2. Cache!Die(p)
        BY <2>2, <3>1 DEF Cache!Die
      <3> QED
        BY <3>2 DEF Cache!Next
    <2>6. CASE Unlock(p)
      <3>1. Hit' = Hit /\ ans[p] = "pending"
        BY <2>6 DEF Unlock, Hit, files, Answer
      <3>2. CASE failure[p] = "none"
        <4>1. Hit /\ Answer(p)' = "served"
          BY <2>6, <3>2 DEF Unlock, GoTo, Hit, Answer, Knows
        <4>2. Cache!Serve(p)
          BY <2>2, <3>1, <4>1 DEF Cache!Serve
        <4> QED
          BY <4>2 DEF Cache!Next
      <3>3. CASE failure[p] # "none"
        <4>1. Answer(p)' = "refused"
          BY <2>6, <3>3 DEF Unlock, GoTo, Answer
        <4>2. Cache!Refuse(p)
          BY <2>2, <3>1, <4>1 DEF Cache!Refuse
        <4> QED
          BY <4>2 DEF Cache!Next
      <3> QED
        BY <3>2, <3>3
    <2>7. CASE Step(p) /\ ~Unlock(p)
      <3>1. pc[p] \in Locked \union {"waiting"} /\ pc'[p] \in Locked
        BY <2>7 DEF Step, Acquire, Recheck, Download, MaybeExtract, CheckSha, VerifyCosign,
                    Replace, Chmod, Cleanup, Raise, GoTo, Locked, Fetching
      <3>2. Answer(p) = "pending" /\ Answer(p)' = "pending"
        BY <3>1 DEF Answer, Locked, Fetching
      <3>3. ans' = ans
        BY <2>2, <3>2
      <3>4. CASE Hit' = Hit
        BY <3>3, <3>4 DEF Cache!vars
      <3>5. CASE Hit' # Hit
        <4>1. ~Hit /\ Hit'
          BY <2>3, <3>5 DEF Hit
        <4>2. Cache!Install(p)
          BY <3>2, <3>3, <4>1 DEF Cache!Install
        <4> QED
          BY <4>2 DEF Cache!Next
      <3> QED
        BY <3>4, <3>5
    <2> QED
      BY <1>2, <2>4, <2>5, <2>6, <2>7
  <1> QED
    BY <1>1, <1>2 DEF Next

\* The fetcher implements the abstract cache (its safety part).
THEOREM CacheImplemented == Spec => Cache!Init /\ [][Cache!Next]_(Cache!vars)
  BY Invariance, CacheInit, CacheStep, PTL DEF Spec

=============================================================================
