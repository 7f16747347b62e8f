------------------------ MODULE AnalyzeImage_proofs ------------------------
(***************************************************************************)
(* Proofs about AnalyzeImage, for any set of analyzers, any pool and any   *)
(* failures.  What concerns the life of the layouts assumes that the join  *)
(* of the pool is not interrupted (Tame): with two interrupts it fails.    *)
(***************************************************************************)
EXTENDS AnalyzeImage, TLAPS

\* At most one exception ends a run: one interrupt, or a raising callback.
Tame == MaxInterrupts = 0 \/ (MaxInterrupts = 1 /\ ~CallbackRaises)

\* The lock is held exactly over an export.
LockInv == \A c \in Callers : at[c] = "exporting" <=> lock = c

\* While an export runs the memo is unset, and its directory is there.
ExportInv ==
    \A c \in Callers : at[c] = "exporting" => /\ ~memo.known
                                              /\ using[c] = c
                                              /\ c \in tracked

\* A memoised layout is complete until it is removed by close(), and every
\* reader reads the memoised layout.
MemoInv ==
    /\ memo.dir # NoCaller => memo.known /\ memo.dir \in complete
    /\ \A c \in Callers : at[c] = "scanning layout" =>
                             using[c] = memo.dir /\ memo.dir # NoCaller

\* close() knows every directory; none is gone before, all are after.
DirsInv ==
    /\ dirs \subseteq tracked
    /\ complete \subseteq tracked
    /\ ~closed => dirs = tracked

\* A worker inside the runner belongs to a running future.
WorkerInv == \A a \in Analyzers : at[a] \in Inside => future[a] = "running"

\* Only what was selected is submitted, and only what is done is reported.
FutureInv ==
    \A a \in Analyzers :
        /\ future[a] # "none" => a \in selected /\ main # "called"
        /\ reports[a] # "none" => future[a] \in Outcomes

\* A future is reported when the callback is called for it, and not before.
NotifiedInv == \A a \in Analyzers : reports[a] = "none" <=> notified[a] = 0

\* What the report of a drained future says.
ReportInv ==
    \A a \in Analyzers : reports[a] # "none" =>
        reports[a] = IF future[a] # "ok" THEN future[a]
                     ELSE IF notified[a] = 1 THEN "report" ELSE "unexpected"

\* The callback of a success is the first one for that analyzer.
CallbackInv ==
    main = "callback" => /\ current \in Analyzers
                         /\ future[current] = "ok"
                         /\ notified[current] = 1

\* The loop is left normally only when every future is drained.
DrainedInv ==
    (main = "join" /\ ~raising) \/ (main = "close" /\ ~raising) \/ main = "returned" => AllDrained

\* The loop was never entered.
Unbegun == main = "called" \/ (main \in {"raised", "returned"} /\ ~closed)

\* Before the run begins nothing happened yet.
StartInv ==
    /\ main = "called" => ~raising /\ interrupts = 0
    /\ closed => main \in {"raised", "returned"}
    /\ Unbegun => tracked = {} /\ \A a \in Analyzers : future[a] = "none"
    /\ main \notin {"called", "returned", "raised"} => selected # {}
    /\ main \in {"submit", "drain", "callback", "error callback"} => interrupts = 0 /\ ~raising

IInv ==
    /\ TypeOK
    /\ LockInv /\ ExportInv /\ MemoInv /\ DirsInv
    /\ WorkerInv /\ FutureInv /\ NotifiedInv /\ ReportInv /\ CallbackInv /\ DrainedInv
    /\ StartInv

\* The pool is idle once the join is behind.
QuietInv ==
    /\ main \in {"close", "returned", "raised"} => PoolIdle
    /\ raising => interrupts >= 1 \/ CallbackRaises
    /\ closed => dirs = {}

-----------------------------------------------------------------------------

\* The steps of a run, one by one.
LEMMA Steps ==
    ASSUME Next
    PROVE  \/ \E a \in Analyzers :
                 \/ UseRunner(a) /\ CallRunner(a)
                 \/ UseRunner(a) /\ ReuseLayout(a)
                 \/ UseRunner(a) /\ BeginExport(a)
                 \/ UseRunner(a) /\ NoTempDir(a)
                 \/ UseRunner(a) /\ ExportSucceeds(a)
                 \/ UseRunner(a) /\ ExportFails(a)
                 \/ UseRunner(a) /\ ExportRaises(a)
                 \/ UseRunner(a) /\ EndScan(a)
                 \/ Submit(a) \/ StartAnalyzer(a) \/ EndAnalyzer(a) \/ Drain(a)
           \/ BeginRun \/ CallbackReturns \/ CallbackFails \/ EndDrain \/ Join
           \/ Interrupt \/ InterruptClose \/ Close
  BY DEF Next, MainStep, WorkerStep, UseRunner, RunnerStep

\* The types of the runner are preserved.
LEMMA RunnerTypeStep == ASSUME RunnerTypeOK, ExportInv, [Next]_vars PROVE RunnerTypeOK'
  <1> USE CallersAssumption DEF RunnerTypeOK, MoveTo, Inside, runnerVars, Analyzers
  <1>1. ASSUME NEW a \in Analyzers, UseRunner(a), CallRunner(a) PROVE RunnerTypeOK'
    BY <1>1 DEF UseRunner, CallRunner
  <1>2. ASSUME NEW a \in Analyzers, UseRunner(a), ReuseLayout(a) PROVE RunnerTypeOK'
    BY <1>2 DEF UseRunner, ReuseLayout, LockFree
  <1>3. ASSUME NEW a \in Analyzers, UseRunner(a), BeginExport(a) PROVE RunnerTypeOK'
    BY <1>3 DEF UseRunner, BeginExport, LockFree, TrackedWithNew
  <1>4. ASSUME NEW a \in Analyzers, UseRunner(a), NoTempDir(a) PROVE RunnerTypeOK'
    BY <1>4 DEF UseRunner, NoTempDir, LockFree
  <1>5. ASSUME NEW a \in Analyzers, UseRunner(a), ExportSucceeds(a) PROVE RunnerTypeOK'
    BY <1>5 DEF UseRunner, ExportSucceeds
  <1>6. ASSUME NEW a \in Analyzers, UseRunner(a), ExportFails(a) PROVE RunnerTypeOK'
    BY <1>6 DEF UseRunner, ExportFails
  <1>7. ASSUME NEW a \in Analyzers, UseRunner(a), ExportRaises(a) PROVE RunnerTypeOK'
    BY <1>7 DEF UseRunner, ExportRaises, LockAfterError
  <1>8. ASSUME NEW a \in Analyzers, UseRunner(a), EndScan(a) PROVE RunnerTypeOK'
    <2>1. PICK result \in {"answered", "raised"} : at' = [at EXCEPT ![a] = result]
      BY <1>8 DEF EndScan
    <2>2. at' \in [Callers -> Inside \union {"outside", "answered", "raised"}]
      BY <2>1
    <2> QED
      BY <1>8, <2>2 DEF EndScan
  <1>9. ASSUME NEW a \in Analyzers, Submit(a) PROVE RunnerTypeOK'
    BY <1>9 DEF Submit
  <1>10. ASSUME NEW a \in Analyzers, StartAnalyzer(a) PROVE RunnerTypeOK'
    BY <1>10 DEF StartAnalyzer
  <1>11. ASSUME NEW a \in Analyzers, EndAnalyzer(a) PROVE RunnerTypeOK'
    BY <1>11 DEF EndAnalyzer
  <1>12. ASSUME NEW a \in Analyzers, Drain(a) PROVE RunnerTypeOK'
    BY <1>12 DEF Drain, WithStub
  <1>13. CASE BeginRun
    BY <1>13 DEF BeginRun
  <1>14. CASE CallbackReturns
    BY <1>14 DEF CallbackReturns
  <1>15. CASE CallbackFails
    BY <1>15 DEF CallbackFails
  <1>16. CASE EndDrain
    BY <1>16 DEF EndDrain
  <1>17. CASE Join
    BY <1>17 DEF Join, PoolIdle
  <1>18. CASE Interrupt
    BY <1>18 DEF Interrupt
  <1>19. CASE Close
    BY <1>19 DEF Close, CloseRunner
  <1>21. CASE InterruptClose
    BY <1>21 DEF InterruptClose, CloseRunner
  <1>20. CASE UNCHANGED vars
    BY <1>20 DEF vars, runnerVars, loopVars
  <1> QED
    BY Steps, <1>1, <1>2, <1>3, <1>4, <1>5, <1>6, <1>7, <1>8, <1>9,
       <1>10, <1>11, <1>12, <1>13, <1>14, <1>15, <1>16, <1>17, <1>18,
       <1>19, <1>20, <1>21

\* Counting up to a bound.
LEMMA UpToBound ==
    ASSUME NEW m \in Nat, NEW n \in 0 .. m, n < m PROVE n + 1 \in 0 .. m
  OBVIOUS

\* How often the callback can have been called.
LEMMA Counts ==
    0 + 1 = 1 /\ 1 + 1 = 2 /\ 1 # 0 /\ 2 # 0 /\ 2 # 1 /\ {0, 1, 2} \subseteq 0 .. 2
  OBVIOUS

\* One more is at least one.
LEMMA OneMore == \A m \in Nat : \A n \in 0 .. m : n + 1 >= 1
  OBVIOUS

\* The types of the loop are preserved.
LEMMA LoopTypeStep == ASSUME LoopTypeOK, NotifiedInv, CallbackInv, [Next]_vars PROVE LoopTypeOK'
  <1> USE CallersAssumption, AnalyzersAssumption, FailuresAssumption, LimitsAssumption DEF LoopTypeOK, Pending, Outcomes, loopVars, Analyzers
  <1>1. ASSUME NEW a \in Analyzers, UseRunner(a) PROVE LoopTypeOK'
    BY <1>1 DEF UseRunner
  <1>2. ASSUME NEW a \in Analyzers, Submit(a) PROVE LoopTypeOK'
    BY <1>2 DEF Submit
  <1>3. ASSUME NEW a \in Analyzers, StartAnalyzer(a) PROVE LoopTypeOK'
    BY <1>3 DEF StartAnalyzer
  <1>4. ASSUME NEW a \in Analyzers, EndAnalyzer(a) PROVE LoopTypeOK'
    <2>1. PICK outcome \in {"ok"} \union Failures : future' = [future EXCEPT ![a] = outcome]
      BY <1>4 DEF EndAnalyzer
    <2>2. future' \in [Analyzers -> {"none", "queued", "running", "ok"} \union Failures]
      BY <2>1
    <2> QED
      BY <1>4, <2>2 DEF EndAnalyzer
  <1>5. ASSUME NEW a \in Analyzers, Drain(a) PROVE LoopTypeOK'
    <2>1. notified[a] = 0
      BY <1>5 DEF Drain, NotifiedInv
    <2>2. notified' = [notified EXCEPT ![a] = 1]
      BY <1>5, <2>1, Counts DEF Drain
    <2>3. 1 \in 0 .. 2
      BY Counts
    <2>4. notified' \in [Analyzers -> 0 .. 2]
      BY <2>2, <2>3
    <2>5. reports' \in [Analyzers -> {"none", "report", "unexpected"} \union Failures]
      BY <1>5 DEF Drain, WithStub
    <2> QED
      BY <1>5, <2>4, <2>5 DEF Drain
  <1>6. CASE BeginRun
    BY <1>6 DEF BeginRun
  <1>7. CASE CallbackReturns
    BY <1>7 DEF CallbackReturns
  <1>8. CASE CallbackFails
    <2>1. CASE main = "callback"
      <3>1. current \in Analyzers /\ notified[current] = 1
        BY <2>1 DEF CallbackInv
      <3>2. notified' = [notified EXCEPT ![current] = 2]
        BY <1>8, <2>1, <3>1, Counts DEF CallbackFails
      <3>3. 2 \in 0 .. 2
        BY Counts
      <3>4. notified' \in [Analyzers -> 0 .. 2]
        BY <3>2, <3>3
      <3> QED
        BY <1>8, <2>1, <3>4 DEF CallbackFails
    <2>2. CASE main = "error callback"
      BY <1>8, <2>2 DEF CallbackFails
    <2> QED
      BY <1>8, <2>1, <2>2 DEF CallbackFails
  <1>9. CASE EndDrain
    BY <1>9 DEF EndDrain
  <1>10. CASE Join
    BY <1>10 DEF Join, PoolIdle
  <1>11. CASE Interrupt
    <2>1. /\ interrupts < MaxInterrupts
          /\ interrupts' = interrupts + 1
      BY <1>11 DEF Interrupt
    <2>2. MaxInterrupts \in Nat /\ interrupts \in 0 .. MaxInterrupts
      BY LimitsAssumption
    <2>3. interrupts' \in 0 .. MaxInterrupts
      BY <2>1, <2>2, UpToBound
    <2> QED
      BY <1>11, <2>3 DEF Interrupt
  <1>12. CASE Close
    BY <1>12 DEF Close, CloseRunner
  <1>14. CASE InterruptClose
    <2>1. interrupts < MaxInterrupts /\ interrupts' = interrupts + 1
      BY <1>14 DEF InterruptClose
    <2>2. MaxInterrupts \in Nat /\ interrupts \in 0 .. MaxInterrupts
      BY LimitsAssumption
    <2>3. interrupts' \in 0 .. MaxInterrupts
      BY <2>1, <2>2, UpToBound
    <2> QED
      BY <1>14, <2>3 DEF InterruptClose
  <1>13. CASE UNCHANGED vars
    BY <1>13 DEF vars, runnerVars, loopVars
  <1> QED
    BY Steps, <1>1, <1>2,
       <1>3, <1>4, <1>5, <1>6, <1>7, <1>8, <1>9, <1>10, <1>11,
       <1>12, <1>13, <1>14

\* The lock goes with the export.
LEMMA LockStep == ASSUME TypeOK, LockInv, [Next]_vars PROVE LockInv'
  <1> USE CallersAssumption, FailuresAssumption DEF TypeOK, RunnerTypeOK, LockInv, MoveTo, runnerVars, loopVars, Analyzers, Pending, Outcomes
  <1>1. ASSUME NEW a \in Analyzers, UseRunner(a), CallRunner(a) PROVE LockInv'
    BY <1>1 DEF UseRunner, CallRunner
  <1>2. ASSUME NEW a \in Analyzers, UseRunner(a), ReuseLayout(a) PROVE LockInv'
    BY <1>2 DEF UseRunner, ReuseLayout, LockFree
  <1>3. ASSUME NEW a \in Analyzers, UseRunner(a), BeginExport(a) PROVE LockInv'
    BY <1>3 DEF UseRunner, BeginExport, LockFree, TrackedWithNew
  <1>4. ASSUME NEW a \in Analyzers, UseRunner(a), NoTempDir(a) PROVE LockInv'
    BY <1>4 DEF UseRunner, NoTempDir, LockFree
  <1>5. ASSUME NEW a \in Analyzers, UseRunner(a), ExportSucceeds(a) PROVE LockInv'
    BY <1>5 DEF UseRunner, ExportSucceeds
  <1>6. ASSUME NEW a \in Analyzers, UseRunner(a), ExportFails(a) PROVE LockInv'
    BY <1>6 DEF UseRunner, ExportFails
  <1>7. ASSUME NEW a \in Analyzers, UseRunner(a), ExportRaises(a) PROVE LockInv'
    BY <1>7 DEF UseRunner, ExportRaises, LockAfterError
  <1>8. ASSUME NEW a \in Analyzers, UseRunner(a), EndScan(a) PROVE LockInv'
    <2>1. /\ lock' = lock /\ at[a] # "exporting"
          /\ \E result \in {"answered", "raised"} : at' = [at EXCEPT ![a] = result]
      BY <1>8 DEF EndScan
    <2> QED
      BY <2>1
  <1>9. ASSUME NEW a \in Analyzers, Submit(a) PROVE LockInv'
    BY <1>9 DEF Submit
  <1>10. ASSUME NEW a \in Analyzers, StartAnalyzer(a) PROVE LockInv'
    BY <1>10 DEF StartAnalyzer
  <1>11. ASSUME NEW a \in Analyzers, EndAnalyzer(a) PROVE LockInv'
    BY <1>11 DEF EndAnalyzer
  <1>12. ASSUME NEW a \in Analyzers, Drain(a) PROVE LockInv'
    BY <1>12 DEF Drain, WithStub
  <1>13. CASE BeginRun
    BY <1>13 DEF BeginRun
  <1>14. CASE CallbackReturns
    BY <1>14 DEF CallbackReturns
  <1>15. CASE CallbackFails
    BY <1>15 DEF CallbackFails
  <1>16. CASE EndDrain
    BY <1>16 DEF EndDrain
  <1>17. CASE Join
    BY <1>17 DEF Join, PoolIdle
  <1>18. CASE Interrupt
    BY <1>18 DEF Interrupt
  <1>19. CASE Close
    BY <1>19 DEF Close, CloseRunner
  <1>21. CASE InterruptClose
    BY <1>21 DEF InterruptClose, CloseRunner
  <1>20. CASE UNCHANGED vars
    BY <1>20 DEF vars, runnerVars, loopVars
  <1> QED
    BY Steps, <1>1, <1>2, <1>3, <1>4, <1>5, <1>6, <1>7, <1>8, <1>9,
       <1>10, <1>11, <1>12, <1>13, <1>14, <1>15, <1>16, <1>17, <1>18,
       <1>19, <1>20, <1>21

\* The memo stays unset and the directory known while an export runs.
LEMMA ExportStep == ASSUME TypeOK, LockInv, ExportInv, [Next]_vars PROVE ExportInv'
  <1> USE CallersAssumption, FailuresAssumption DEF TypeOK, RunnerTypeOK, LockInv, ExportInv, MoveTo, runnerVars, loopVars, Analyzers, Pending, Outcomes
  <1>1. ASSUME NEW a \in Analyzers, UseRunner(a), CallRunner(a) PROVE ExportInv'
    BY <1>1 DEF UseRunner, CallRunner
  <1>2. ASSUME NEW a \in Analyzers, UseRunner(a), ReuseLayout(a) PROVE ExportInv'
    BY <1>2 DEF UseRunner, ReuseLayout, LockFree
  <1>3. ASSUME NEW a \in Analyzers, UseRunner(a), BeginExport(a) PROVE ExportInv'
    BY <1>3 DEF UseRunner, BeginExport, LockFree, TrackedWithNew
  <1>4. ASSUME NEW a \in Analyzers, UseRunner(a), NoTempDir(a) PROVE ExportInv'
    BY <1>4 DEF UseRunner, NoTempDir, LockFree
  <1>5. ASSUME NEW a \in Analyzers, UseRunner(a), ExportSucceeds(a) PROVE ExportInv'
    <2>1. \A c \in Callers : at'[c] # "exporting"
      BY <1>5 DEF ExportSucceeds
    <2> QED
      BY <2>1
  <1>6. ASSUME NEW a \in Analyzers, UseRunner(a), ExportFails(a) PROVE ExportInv'
    <2>1. \A c \in Callers : at'[c] # "exporting"
      BY <1>6 DEF ExportFails
    <2> QED
      BY <2>1
  <1>7. ASSUME NEW a \in Analyzers, UseRunner(a), ExportRaises(a) PROVE ExportInv'
    BY <1>7 DEF UseRunner, ExportRaises, LockAfterError
  <1>8. ASSUME NEW a \in Analyzers, UseRunner(a), EndScan(a) PROVE ExportInv'
    <2>1. \A c \in Callers : at'[c] = "exporting" => at[c] = "exporting"
      <3>1. PICK result \in {"answered", "raised"} : at' = [at EXCEPT ![a] = result]
        BY <1>8 DEF EndScan
      <3>2. \A c \in Callers : at'[c] = at[c] \/ at'[c] = result
        BY <3>1
      <3> QED
        BY <3>2
    <2>2. UNCHANGED <<memo, tracked, using>>
      BY <1>8 DEF EndScan
    <2> QED
      BY <2>1, <2>2
  <1>9. ASSUME NEW a \in Analyzers, Submit(a) PROVE ExportInv'
    BY <1>9 DEF Submit
  <1>10. ASSUME NEW a \in Analyzers, StartAnalyzer(a) PROVE ExportInv'
    BY <1>10 DEF StartAnalyzer
  <1>11. ASSUME NEW a \in Analyzers, EndAnalyzer(a) PROVE ExportInv'
    BY <1>11 DEF EndAnalyzer
  <1>12. ASSUME NEW a \in Analyzers, Drain(a) PROVE ExportInv'
    BY <1>12 DEF Drain, WithStub
  <1>13. CASE BeginRun
    BY <1>13 DEF BeginRun
  <1>14. CASE CallbackReturns
    BY <1>14 DEF CallbackReturns
  <1>15. CASE CallbackFails
    BY <1>15 DEF CallbackFails
  <1>16. CASE EndDrain
    BY <1>16 DEF EndDrain
  <1>17. CASE Join
    BY <1>17 DEF Join, PoolIdle
  <1>18. CASE Interrupt
    BY <1>18 DEF Interrupt
  <1>19. CASE Close
    BY <1>19 DEF Close, CloseRunner
  <1>21. CASE InterruptClose
    BY <1>21 DEF InterruptClose, CloseRunner
  <1>20. CASE UNCHANGED vars
    BY <1>20 DEF vars, runnerVars, loopVars
  <1> QED
    BY Steps, <1>1, <1>2, <1>3, <1>4, <1>5, <1>6, <1>7, <1>8, <1>9,
       <1>10, <1>11, <1>12, <1>13, <1>14, <1>15, <1>16, <1>17, <1>18,
       <1>19, <1>20, <1>21

\* A memoised layout stays, and its readers with it.
LEMMA MemoStep == ASSUME TypeOK, LockInv, ExportInv, MemoInv, [Next]_vars PROVE MemoInv'
  <1> USE CallersAssumption, FailuresAssumption DEF TypeOK, RunnerTypeOK, LockInv, ExportInv, MemoInv, MoveTo, runnerVars, loopVars, Analyzers, Pending, Outcomes
  <1>1. ASSUME NEW a \in Analyzers, UseRunner(a), CallRunner(a) PROVE MemoInv'
    BY <1>1 DEF UseRunner, CallRunner
  <1>2. ASSUME NEW a \in Analyzers, UseRunner(a), ReuseLayout(a) PROVE MemoInv'
    BY <1>2 DEF UseRunner, ReuseLayout, LockFree
  <1>3. ASSUME NEW a \in Analyzers, UseRunner(a), BeginExport(a) PROVE MemoInv'
    <2>1. \A c \in Callers : at'[c] = "scanning layout" =>
             at[c] = "scanning layout" /\ using'[c] = using[c]
      BY <1>3 DEF BeginExport
    <2>2. UNCHANGED <<memo, complete>>
      BY <1>3 DEF BeginExport
    <2> QED
      BY <2>1, <2>2
  <1>4. ASSUME NEW a \in Analyzers, UseRunner(a), NoTempDir(a) PROVE MemoInv'
    <2>1. \A c \in Callers : at'[c] = "scanning layout" => at[c] = "scanning layout"
      BY <1>4 DEF NoTempDir
    <2>2. UNCHANGED <<memo, complete, using>>
      BY <1>4 DEF NoTempDir
    <2> QED
      BY <2>1, <2>2
  <1>5. ASSUME NEW a \in Analyzers, UseRunner(a), ExportSucceeds(a) PROVE MemoInv'
    <2>1. using[a] = a /\ ~memo.known /\ memo.dir = NoCaller
      BY <1>5 DEF ExportSucceeds
    <2>2. memo'.known /\ memo'.dir = a /\ a \in complete'
      BY <1>5, <2>1 DEF ExportSucceeds
    <2>3. \A c \in Callers : at'[c] = "scanning layout" => c = a
      BY <1>5, <2>1 DEF ExportSucceeds
    <2>4. using' = using
      BY <1>5 DEF ExportSucceeds
    <2> QED
      BY <2>1, <2>2, <2>3, <2>4
  <1>6. ASSUME NEW a \in Analyzers, UseRunner(a), ExportFails(a) PROVE MemoInv'
    BY <1>6 DEF UseRunner, ExportFails
  <1>7. ASSUME NEW a \in Analyzers, UseRunner(a), ExportRaises(a) PROVE MemoInv'
    BY <1>7 DEF UseRunner, ExportRaises, LockAfterError
  <1>8. ASSUME NEW a \in Analyzers, UseRunner(a), EndScan(a) PROVE MemoInv'
    <2>1. \A c \in Callers : at'[c] = "scanning layout" => at[c] = "scanning layout"
      BY <1>8 DEF EndScan
    <2>2. UNCHANGED <<memo, complete, using>>
      BY <1>8 DEF EndScan
    <2> QED
      BY <2>1, <2>2
  <1>9. ASSUME NEW a \in Analyzers, Submit(a) PROVE MemoInv'
    BY <1>9 DEF Submit
  <1>10. ASSUME NEW a \in Analyzers, StartAnalyzer(a) PROVE MemoInv'
    BY <1>10 DEF StartAnalyzer
  <1>11. ASSUME NEW a \in Analyzers, EndAnalyzer(a) PROVE MemoInv'
    BY <1>11 DEF EndAnalyzer
  <1>12. ASSUME NEW a \in Analyzers, Drain(a) PROVE MemoInv'
    BY <1>12 DEF Drain, WithStub
  <1>13. CASE BeginRun
    BY <1>13 DEF BeginRun
  <1>14. CASE CallbackReturns
    BY <1>14 DEF CallbackReturns
  <1>15. CASE CallbackFails
    BY <1>15 DEF CallbackFails
  <1>16. CASE EndDrain
    BY <1>16 DEF EndDrain
  <1>17. CASE Join
    BY <1>17 DEF Join, PoolIdle
  <1>18. CASE Interrupt
    BY <1>18 DEF Interrupt
  <1>19. CASE Close
    BY <1>19 DEF Close, CloseRunner
  <1>21. CASE InterruptClose
    BY <1>21 DEF InterruptClose, CloseRunner
  <1>20. CASE UNCHANGED vars
    BY <1>20 DEF vars, runnerVars, loopVars
  <1> QED
    BY Steps, <1>1, <1>2, <1>3, <1>4, <1>5, <1>6, <1>7, <1>8, <1>9,
       <1>10, <1>11, <1>12, <1>13, <1>14, <1>15, <1>16, <1>17, <1>18,
       <1>19, <1>20, <1>21

\* close() knows the directories.
LEMMA DirsStep == ASSUME TypeOK, ExportInv, DirsInv, [Next]_vars PROVE DirsInv'
  <1> USE CallersAssumption, FailuresAssumption DEF TypeOK, RunnerTypeOK, ExportInv, DirsInv, MoveTo, runnerVars, loopVars, Analyzers, Pending, Outcomes
  <1>1. ASSUME NEW a \in Analyzers, UseRunner(a), CallRunner(a) PROVE DirsInv'
    BY <1>1 DEF UseRunner, CallRunner
  <1>2. ASSUME NEW a \in Analyzers, UseRunner(a), ReuseLayout(a) PROVE DirsInv'
    BY <1>2 DEF UseRunner, ReuseLayout, LockFree
  <1>3. ASSUME NEW a \in Analyzers, UseRunner(a), BeginExport(a) PROVE DirsInv'
    BY <1>3 DEF UseRunner, BeginExport, LockFree, TrackedWithNew
  <1>4. ASSUME NEW a \in Analyzers, UseRunner(a), NoTempDir(a) PROVE DirsInv'
    BY <1>4 DEF UseRunner, NoTempDir, LockFree
  <1>5. ASSUME NEW a \in Analyzers, UseRunner(a), ExportSucceeds(a) PROVE DirsInv'
    BY <1>5 DEF UseRunner, ExportSucceeds
  <1>6. ASSUME NEW a \in Analyzers, UseRunner(a), ExportFails(a) PROVE DirsInv'
    BY <1>6 DEF UseRunner, ExportFails
  <1>7. ASSUME NEW a \in Analyzers, UseRunner(a), ExportRaises(a) PROVE DirsInv'
    BY <1>7 DEF UseRunner, ExportRaises, LockAfterError
  <1>8. ASSUME NEW a \in Analyzers, UseRunner(a), EndScan(a) PROVE DirsInv'
    BY <1>8 DEF UseRunner, EndScan
  <1>9. ASSUME NEW a \in Analyzers, Submit(a) PROVE DirsInv'
    BY <1>9 DEF Submit
  <1>10. ASSUME NEW a \in Analyzers, StartAnalyzer(a) PROVE DirsInv'
    BY <1>10 DEF StartAnalyzer
  <1>11. ASSUME NEW a \in Analyzers, EndAnalyzer(a) PROVE DirsInv'
    BY <1>11 DEF EndAnalyzer
  <1>12. ASSUME NEW a \in Analyzers, Drain(a) PROVE DirsInv'
    BY <1>12 DEF Drain, WithStub
  <1>13. CASE BeginRun
    BY <1>13 DEF BeginRun
  <1>14. CASE CallbackReturns
    BY <1>14 DEF CallbackReturns
  <1>15. CASE CallbackFails
    BY <1>15 DEF CallbackFails
  <1>16. CASE EndDrain
    BY <1>16 DEF EndDrain
  <1>17. CASE Join
    BY <1>17 DEF Join, PoolIdle
  <1>18. CASE Interrupt
    BY <1>18 DEF Interrupt
  <1>19. CASE Close
    BY <1>19 DEF Close, CloseRunner
  <1>21. CASE InterruptClose
    BY <1>21 DEF InterruptClose, CloseRunner
  <1>20. CASE UNCHANGED vars
    BY <1>20 DEF vars, runnerVars, loopVars
  <1> QED
    BY Steps, <1>1, <1>2, <1>3, <1>4, <1>5, <1>6, <1>7, <1>8, <1>9,
       <1>10, <1>11, <1>12, <1>13, <1>14, <1>15, <1>16, <1>17, <1>18,
       <1>19, <1>20, <1>21

\* Who is in the runner runs.
LEMMA WorkerStepInv == ASSUME TypeOK, WorkerInv, [Next]_vars PROVE WorkerInv'
  <1> USE CallersAssumption, FailuresAssumption DEF TypeOK, RunnerTypeOK, LoopTypeOK, WorkerInv, Inside, MoveTo, runnerVars, loopVars, Analyzers, Pending, Outcomes
  <1>1. ASSUME NEW a \in Analyzers, UseRunner(a), CallRunner(a) PROVE WorkerInv'
    BY <1>1 DEF UseRunner, CallRunner
  <1>2. ASSUME NEW a \in Analyzers, UseRunner(a), ReuseLayout(a) PROVE WorkerInv'
    BY <1>2 DEF UseRunner, ReuseLayout, LockFree
  <1>3. ASSUME NEW a \in Analyzers, UseRunner(a), BeginExport(a) PROVE WorkerInv'
    BY <1>3 DEF UseRunner, BeginExport, LockFree, TrackedWithNew
  <1>4. ASSUME NEW a \in Analyzers, UseRunner(a), NoTempDir(a) PROVE WorkerInv'
    BY <1>4 DEF UseRunner, NoTempDir, LockFree
  <1>5. ASSUME NEW a \in Analyzers, UseRunner(a), ExportSucceeds(a) PROVE WorkerInv'
    BY <1>5 DEF UseRunner, ExportSucceeds
  <1>6. ASSUME NEW a \in Analyzers, UseRunner(a), ExportFails(a) PROVE WorkerInv'
    BY <1>6 DEF UseRunner, ExportFails
  <1>7. ASSUME NEW a \in Analyzers, UseRunner(a), ExportRaises(a) PROVE WorkerInv'
    BY <1>7 DEF UseRunner, ExportRaises, LockAfterError
  <1>8. ASSUME NEW a \in Analyzers, UseRunner(a), EndScan(a) PROVE WorkerInv'
    BY <1>8 DEF UseRunner, EndScan
  <1>9. ASSUME NEW a \in Analyzers, Submit(a) PROVE WorkerInv'
    BY <1>9 DEF Submit
  <1>10. ASSUME NEW a \in Analyzers, StartAnalyzer(a) PROVE WorkerInv'
    BY <1>10 DEF StartAnalyzer
  <1>11. ASSUME NEW a \in Analyzers, EndAnalyzer(a) PROVE WorkerInv'
    BY <1>11 DEF EndAnalyzer
  <1>12. ASSUME NEW a \in Analyzers, Drain(a) PROVE WorkerInv'
    BY <1>12 DEF Drain, WithStub
  <1>13. CASE BeginRun
    BY <1>13 DEF BeginRun
  <1>14. CASE CallbackReturns
    BY <1>14 DEF CallbackReturns
  <1>15. CASE CallbackFails
    BY <1>15 DEF CallbackFails
  <1>16. CASE EndDrain
    BY <1>16 DEF EndDrain
  <1>17. CASE Join
    BY <1>17 DEF Join, PoolIdle
  <1>18. CASE Interrupt
    BY <1>18 DEF Interrupt
  <1>19. CASE Close
    BY <1>19 DEF Close, CloseRunner
  <1>21. CASE InterruptClose
    BY <1>21 DEF InterruptClose, CloseRunner
  <1>20. CASE UNCHANGED vars
    BY <1>20 DEF vars, runnerVars, loopVars
  <1> QED
    BY Steps, <1>1, <1>2, <1>3, <1>4, <1>5, <1>6, <1>7, <1>8, <1>9,
       <1>10, <1>11, <1>12, <1>13, <1>14, <1>15, <1>16, <1>17, <1>18,
       <1>19, <1>20, <1>21

\* What is submitted and reported.
LEMMA FutureStep == ASSUME LoopTypeOK, CallbackInv, FutureInv, [Next]_vars PROVE FutureInv'
  <1> USE CallersAssumption, FailuresAssumption DEF LoopTypeOK, FutureInv, MoveTo, runnerVars, loopVars, Analyzers, Pending, Outcomes
  <1>1. ASSUME NEW a \in Analyzers, UseRunner(a), CallRunner(a) PROVE FutureInv'
    BY <1>1 DEF UseRunner, CallRunner
  <1>2. ASSUME NEW a \in Analyzers, UseRunner(a), ReuseLayout(a) PROVE FutureInv'
    BY <1>2 DEF UseRunner, ReuseLayout, LockFree
  <1>3. ASSUME NEW a \in Analyzers, UseRunner(a), BeginExport(a) PROVE FutureInv'
    BY <1>3 DEF UseRunner, BeginExport, LockFree, TrackedWithNew
  <1>4. ASSUME NEW a \in Analyzers, UseRunner(a), NoTempDir(a) PROVE FutureInv'
    BY <1>4 DEF UseRunner, NoTempDir, LockFree
  <1>5. ASSUME NEW a \in Analyzers, UseRunner(a), ExportSucceeds(a) PROVE FutureInv'
    BY <1>5 DEF UseRunner, ExportSucceeds
  <1>6. ASSUME NEW a \in Analyzers, UseRunner(a), ExportFails(a) PROVE FutureInv'
    BY <1>6 DEF UseRunner, ExportFails
  <1>7. ASSUME NEW a \in Analyzers, UseRunner(a), ExportRaises(a) PROVE FutureInv'
    BY <1>7 DEF UseRunner, ExportRaises, LockAfterError
  <1>8. ASSUME NEW a \in Analyzers, UseRunner(a), EndScan(a) PROVE FutureInv'
    BY <1>8 DEF UseRunner, EndScan
  <1>9. ASSUME NEW a \in Analyzers, Submit(a) PROVE FutureInv'
    <2> SUFFICES ASSUME NEW b \in Analyzers
                 PROVE  /\ future'[b] # "none" => b \in selected' /\ main' # "called"
                        /\ reports'[b] # "none" => future'[b] \in Outcomes
      OBVIOUS
    <2>1. /\ main' \in {"drain", "submit"} /\ selected' = selected /\ reports' = reports
          /\ a \in selected /\ future[a] = "none" /\ main = "submit"
          /\ future' = [future EXCEPT ![a] = "queued"]
      BY <1>9 DEF Submit
    <2>2. reports[a] = "none"
      BY <2>1
    <2> QED
      BY <2>1, <2>2
  <1>10. ASSUME NEW a \in Analyzers, StartAnalyzer(a) PROVE FutureInv'
    BY <1>10 DEF StartAnalyzer
  <1>11. ASSUME NEW a \in Analyzers, EndAnalyzer(a) PROVE FutureInv'
    BY <1>11 DEF EndAnalyzer
  <1>12. ASSUME NEW a \in Analyzers, Drain(a) PROVE FutureInv'
    BY <1>12 DEF Drain, WithStub
  <1>13. CASE BeginRun
    BY <1>13 DEF BeginRun
  <1>14. CASE CallbackReturns
    BY <1>14 DEF CallbackReturns
  <1>15. CASE CallbackFails
    <2> SUFFICES ASSUME NEW b \in Analyzers
                 PROVE  /\ future'[b] # "none" => b \in selected' /\ main' # "called"
                        /\ reports'[b] # "none" => future'[b] \in Outcomes
      OBVIOUS
    <2>1. UNCHANGED <<future, selected>> /\ main' \in {"error callback", "join"}
      BY <1>15 DEF CallbackFails
    <2>2. CASE main = "callback"
      <3>1. /\ current \in Analyzers /\ future[current] = "ok"
            /\ reports' = [reports EXCEPT ![current] = "unexpected"]
        BY <1>15, <2>2 DEF CallbackFails, CallbackInv
      <3> QED
        BY <2>1, <3>1
    <2>3. CASE main = "error callback"
      <3>1. reports' = reports
        BY <1>15, <2>3 DEF CallbackFails
      <3> QED
        BY <2>1, <3>1
    <2> QED
      BY <1>15, <2>2, <2>3 DEF CallbackFails
  <1>16. CASE EndDrain
    BY <1>16 DEF EndDrain
  <1>17. CASE Join
    BY <1>17 DEF Join, PoolIdle
  <1>18. CASE Interrupt
    BY <1>18 DEF Interrupt
  <1>19. CASE Close
    BY <1>19 DEF Close, CloseRunner
  <1>21. CASE InterruptClose
    BY <1>21 DEF InterruptClose, CloseRunner
  <1>20. CASE UNCHANGED vars
    BY <1>20 DEF vars, runnerVars, loopVars
  <1> QED
    BY Steps, <1>1, <1>2, <1>3, <1>4, <1>5, <1>6, <1>7, <1>8, <1>9,
       <1>10, <1>11, <1>12, <1>13, <1>14, <1>15, <1>16, <1>17, <1>18,
       <1>19, <1>20, <1>21

\* Reports and callbacks go together.
LEMMA NotifiedStep == ASSUME LoopTypeOK, CallbackInv, NotifiedInv, [Next]_vars PROVE NotifiedInv'
  <1> USE CallersAssumption, FailuresAssumption DEF LoopTypeOK, CallbackInv, NotifiedInv, MoveTo, runnerVars, loopVars, Analyzers, Pending, Outcomes
  <1>1. ASSUME NEW a \in Analyzers, UseRunner(a), CallRunner(a) PROVE NotifiedInv'
    BY <1>1 DEF UseRunner, CallRunner
  <1>2. ASSUME NEW a \in Analyzers, UseRunner(a), ReuseLayout(a) PROVE NotifiedInv'
    BY <1>2 DEF UseRunner, ReuseLayout, LockFree
  <1>3. ASSUME NEW a \in Analyzers, UseRunner(a), BeginExport(a) PROVE NotifiedInv'
    BY <1>3 DEF UseRunner, BeginExport, LockFree, TrackedWithNew
  <1>4. ASSUME NEW a \in Analyzers, UseRunner(a), NoTempDir(a) PROVE NotifiedInv'
    BY <1>4 DEF UseRunner, NoTempDir, LockFree
  <1>5. ASSUME NEW a \in Analyzers, UseRunner(a), ExportSucceeds(a) PROVE NotifiedInv'
    BY <1>5 DEF UseRunner, ExportSucceeds
  <1>6. ASSUME NEW a \in Analyzers, UseRunner(a), ExportFails(a) PROVE NotifiedInv'
    BY <1>6 DEF UseRunner, ExportFails
  <1>7. ASSUME NEW a \in Analyzers, UseRunner(a), ExportRaises(a) PROVE NotifiedInv'
    BY <1>7 DEF UseRunner, ExportRaises, LockAfterError
  <1>8. ASSUME NEW a \in Analyzers, UseRunner(a), EndScan(a) PROVE NotifiedInv'
    BY <1>8 DEF UseRunner, EndScan
  <1>9. ASSUME NEW a \in Analyzers, Submit(a) PROVE NotifiedInv'
    BY <1>9 DEF Submit
  <1>10. ASSUME NEW a \in Analyzers, StartAnalyzer(a) PROVE NotifiedInv'
    BY <1>10 DEF StartAnalyzer
  <1>11. ASSUME NEW a \in Analyzers, EndAnalyzer(a) PROVE NotifiedInv'
    BY <1>11 DEF EndAnalyzer
  <1>12. ASSUME NEW a \in Analyzers, Drain(a) PROVE NotifiedInv'
    <2>1. notified[a] = 0
      BY <1>12 DEF Drain
    <2>2. notified' = [notified EXCEPT ![a] = 1]
      BY <1>12, <2>1, Counts DEF Drain
    <2>3. \A b \in Analyzers \ {a} : reports'[b] = reports[b]
      BY <1>12 DEF Drain, WithStub
    <2>4. reports'[a] # "none"
      <3>1. "none" \notin Outcomes
        OBVIOUS
      <3> QED
        BY <1>12, <3>1 DEF Drain, WithStub
    <2>5. \A b \in Analyzers : notified'[b] = IF b = a THEN 1 ELSE notified[b]
      BY <2>2
    <2> QED
      BY <2>3, <2>4, <2>5, Counts
  <1>13. CASE BeginRun
    BY <1>13 DEF BeginRun
  <1>14. CASE CallbackReturns
    BY <1>14 DEF CallbackReturns
  <1>15. CASE CallbackFails
    <2>1. CASE main = "callback"
      <3>1. current \in Analyzers /\ notified[current] = 1
        BY <2>1 DEF CallbackInv
      <3>2. notified' = [notified EXCEPT ![current] = 2]
        BY <1>15, <2>1, <3>1, Counts DEF CallbackFails
      <3>3. reports' = [reports EXCEPT ![current] = "unexpected"]
        BY <1>15, <2>1 DEF CallbackFails
      <3>4. \A b \in Analyzers :
               /\ notified'[b] = IF b = current THEN 2 ELSE notified[b]
               /\ reports'[b] = IF b = current THEN "unexpected" ELSE reports[b]
        BY <3>2, <3>3
      <3> QED
        BY <3>1, <3>2, <3>4, Counts
    <2>2. CASE main = "error callback"
      BY <1>15, <2>2 DEF CallbackFails
    <2> QED
      BY <1>15, <2>1, <2>2 DEF CallbackFails
  <1>16. CASE EndDrain
    BY <1>16 DEF EndDrain
  <1>17. CASE Join
    BY <1>17 DEF Join, PoolIdle
  <1>18. CASE Interrupt
    BY <1>18 DEF Interrupt
  <1>19. CASE Close
    BY <1>19 DEF Close, CloseRunner
  <1>21. CASE InterruptClose
    BY <1>21 DEF InterruptClose, CloseRunner
  <1>20. CASE UNCHANGED vars
    BY <1>20 DEF vars, runnerVars, loopVars
  <1> QED
    BY Steps, <1>1, <1>2, <1>3, <1>4, <1>5, <1>6, <1>7, <1>8, <1>9,
       <1>10, <1>11, <1>12, <1>13, <1>14, <1>15, <1>16, <1>17, <1>18,
       <1>19, <1>20, <1>21

\* Reports say what happened.
LEMMA ReportStep == ASSUME LoopTypeOK, FutureInv, NotifiedInv, CallbackInv, ReportInv, [Next]_vars PROVE ReportInv'
  <1> USE CallersAssumption, FailuresAssumption DEF LoopTypeOK, FutureInv, NotifiedInv, CallbackInv, ReportInv, MoveTo, runnerVars, loopVars, Analyzers, Pending, Outcomes
  <1>1. ASSUME NEW a \in Analyzers, UseRunner(a), CallRunner(a) PROVE ReportInv'
    BY <1>1 DEF UseRunner, CallRunner
  <1>2. ASSUME NEW a \in Analyzers, UseRunner(a), ReuseLayout(a) PROVE ReportInv'
    BY <1>2 DEF UseRunner, ReuseLayout, LockFree
  <1>3. ASSUME NEW a \in Analyzers, UseRunner(a), BeginExport(a) PROVE ReportInv'
    BY <1>3 DEF UseRunner, BeginExport, LockFree, TrackedWithNew
  <1>4. ASSUME NEW a \in Analyzers, UseRunner(a), NoTempDir(a) PROVE ReportInv'
    BY <1>4 DEF UseRunner, NoTempDir, LockFree
  <1>5. ASSUME NEW a \in Analyzers, UseRunner(a), ExportSucceeds(a) PROVE ReportInv'
    BY <1>5 DEF UseRunner, ExportSucceeds
  <1>6. ASSUME NEW a \in Analyzers, UseRunner(a), ExportFails(a) PROVE ReportInv'
    BY <1>6 DEF UseRunner, ExportFails
  <1>7. ASSUME NEW a \in Analyzers, UseRunner(a), ExportRaises(a) PROVE ReportInv'
    BY <1>7 DEF UseRunner, ExportRaises, LockAfterError
  <1>8. ASSUME NEW a \in Analyzers, UseRunner(a), EndScan(a) PROVE ReportInv'
    BY <1>8 DEF UseRunner, EndScan
  <1>9. ASSUME NEW a \in Analyzers, Submit(a) PROVE ReportInv'
    BY <1>9 DEF Submit
  <1>10. ASSUME NEW a \in Analyzers, StartAnalyzer(a) PROVE ReportInv'
    BY <1>10 DEF StartAnalyzer
  <1>11. ASSUME NEW a \in Analyzers, EndAnalyzer(a) PROVE ReportInv'
    <2>1. \A b \in Analyzers : reports[b] # "none" => future'[b] = future[b]
      BY <1>11 DEF EndAnalyzer
    <2>2. UNCHANGED <<reports, notified>>
      BY <1>11 DEF EndAnalyzer
    <2> QED
      BY <2>1, <2>2
  <1>12. ASSUME NEW a \in Analyzers, Drain(a) PROVE ReportInv'
    <2> SUFFICES ASSUME NEW b \in Analyzers, reports'[b] # "none"
                 PROVE  reports'[b] = IF future'[b] # "ok" THEN future'[b]
                                      ELSE IF notified'[b] = 1 THEN "report" ELSE "unexpected"
      OBVIOUS
    <2>1. notified[a] = 0
      BY <1>12 DEF Drain
    <2>2. notified' = [notified EXCEPT ![a] = 1] /\ future' = future
      BY <1>12, <2>1, Counts DEF Drain
    <2>3. reports' = [reports EXCEPT ![a] = IF future[a] = "ok" THEN "report" ELSE future[a]]
      BY <1>12 DEF Drain, WithStub
    <2> QED
      BY <2>2, <2>3
  <1>13. CASE BeginRun
    BY <1>13 DEF BeginRun
  <1>14. CASE CallbackReturns
    BY <1>14 DEF CallbackReturns
  <1>15. CASE CallbackFails
    <2> SUFFICES ASSUME NEW b \in Analyzers, reports'[b] # "none"
                 PROVE  reports'[b] = IF future'[b] # "ok" THEN future'[b]
                                      ELSE IF notified'[b] = 1 THEN "report" ELSE "unexpected"
      OBVIOUS
    <2>1. CASE main = "callback"
      <3>1. current \in Analyzers /\ notified[current] = 1 /\ future[current] = "ok"
        BY <2>1 DEF CallbackInv
      <3>2. notified' = [notified EXCEPT ![current] = 2] /\ future' = future
        BY <1>15, <2>1, <3>1, Counts DEF CallbackFails
      <3>3. reports' = [reports EXCEPT ![current] = "unexpected"]
        BY <1>15, <2>1 DEF CallbackFails
      <3>4. \A c \in Analyzers :
               /\ notified'[c] = IF c = current THEN 2 ELSE notified[c]
               /\ reports'[c] = IF c = current THEN "unexpected" ELSE reports[c]
        BY <3>2, <3>3
      <3>5. CASE b = current
        <4>1. future'[b] = "ok" /\ notified'[b] = 2 /\ reports'[b] = "unexpected"
          BY <3>1, <3>2, <3>4, <3>5
        <4> QED
          BY <4>1, Counts
      <3>6. CASE b # current
        <4>1. future'[b] = future[b] /\ notified'[b] = notified[b] /\ reports'[b] = reports[b]
          BY <3>2, <3>4, <3>6
        <4> QED
          BY <4>1
      <3> QED
        BY <3>5, <3>6
    <2>2. CASE main = "error callback"
      BY <1>15, <2>2 DEF CallbackFails
    <2> QED
      BY <1>15, <2>1, <2>2 DEF CallbackFails
  <1>16. CASE EndDrain
    BY <1>16 DEF EndDrain
  <1>17. CASE Join
    BY <1>17 DEF Join, PoolIdle
  <1>18. CASE Interrupt
    BY <1>18 DEF Interrupt
  <1>19. CASE Close
    BY <1>19 DEF Close, CloseRunner
  <1>21. CASE InterruptClose
    BY <1>21 DEF InterruptClose, CloseRunner
  <1>20. CASE UNCHANGED vars
    BY <1>20 DEF vars, runnerVars, loopVars
  <1> QED
    BY Steps, <1>1, <1>2, <1>3, <1>4, <1>5, <1>6, <1>7, <1>8, <1>9,
       <1>10, <1>11, <1>12, <1>13, <1>14, <1>15, <1>16, <1>17, <1>18,
       <1>19, <1>20, <1>21

\* The first callback.
LEMMA CallbackStep == ASSUME LoopTypeOK, FutureInv, NotifiedInv, CallbackInv, [Next]_vars PROVE CallbackInv'
  <1> USE CallersAssumption, FailuresAssumption DEF LoopTypeOK, FutureInv, NotifiedInv, CallbackInv, MoveTo, runnerVars, loopVars, Analyzers, Pending, Outcomes
  <1>1. ASSUME NEW a \in Analyzers, UseRunner(a), CallRunner(a) PROVE CallbackInv'
    BY <1>1 DEF UseRunner, CallRunner
  <1>2. ASSUME NEW a \in Analyzers, UseRunner(a), ReuseLayout(a) PROVE CallbackInv'
    BY <1>2 DEF UseRunner, ReuseLayout, LockFree
  <1>3. ASSUME NEW a \in Analyzers, UseRunner(a), BeginExport(a) PROVE CallbackInv'
    BY <1>3 DEF UseRunner, BeginExport, LockFree, TrackedWithNew
  <1>4. ASSUME NEW a \in Analyzers, UseRunner(a), NoTempDir(a) PROVE CallbackInv'
    BY <1>4 DEF UseRunner, NoTempDir, LockFree
  <1>5. ASSUME NEW a \in Analyzers, UseRunner(a), ExportSucceeds(a) PROVE CallbackInv'
    BY <1>5 DEF UseRunner, ExportSucceeds
  <1>6. ASSUME NEW a \in Analyzers, UseRunner(a), ExportFails(a) PROVE CallbackInv'
    BY <1>6 DEF UseRunner, ExportFails
  <1>7. ASSUME NEW a \in Analyzers, UseRunner(a), ExportRaises(a) PROVE CallbackInv'
    BY <1>7 DEF UseRunner, ExportRaises, LockAfterError
  <1>8. ASSUME NEW a \in Analyzers, UseRunner(a), EndScan(a) PROVE CallbackInv'
    BY <1>8 DEF UseRunner, EndScan
  <1>9. ASSUME NEW a \in Analyzers, Submit(a) PROVE CallbackInv'
    BY <1>9 DEF Submit
  <1>10. ASSUME NEW a \in Analyzers, StartAnalyzer(a) PROVE CallbackInv'
    BY <1>10 DEF StartAnalyzer
  <1>11. ASSUME NEW a \in Analyzers, EndAnalyzer(a) PROVE CallbackInv'
    BY <1>11 DEF EndAnalyzer
  <1>12. ASSUME NEW a \in Analyzers, Drain(a) PROVE CallbackInv'
    BY <1>12 DEF Drain, WithStub
  <1>13. CASE BeginRun
    BY <1>13 DEF BeginRun
  <1>14. CASE CallbackReturns
    BY <1>14 DEF CallbackReturns
  <1>15. CASE CallbackFails
    BY <1>15 DEF CallbackFails
  <1>16. CASE EndDrain
    BY <1>16 DEF EndDrain
  <1>17. CASE Join
    BY <1>17 DEF Join, PoolIdle
  <1>18. CASE Interrupt
    BY <1>18 DEF Interrupt
  <1>19. CASE Close
    BY <1>19 DEF Close, CloseRunner
  <1>21. CASE InterruptClose
    BY <1>21 DEF InterruptClose, CloseRunner
  <1>20. CASE UNCHANGED vars
    BY <1>20 DEF vars, runnerVars, loopVars
  <1> QED
    BY Steps, <1>1, <1>2, <1>3, <1>4, <1>5, <1>6, <1>7, <1>8, <1>9,
       <1>10, <1>11, <1>12, <1>13, <1>14, <1>15, <1>16, <1>17, <1>18,
       <1>19, <1>20, <1>21

\* The normal end of the loop.
LEMMA DrainedStep == ASSUME LoopTypeOK, StartInv, DrainedInv, [Next]_vars PROVE DrainedInv'
  <1> USE CallersAssumption, FailuresAssumption DEF LoopTypeOK, StartInv, DrainedInv, AllDrained, MoveTo, runnerVars, loopVars, Analyzers, Pending, Outcomes
  <1>1. ASSUME NEW a \in Analyzers, UseRunner(a), CallRunner(a) PROVE DrainedInv'
    BY <1>1 DEF UseRunner, CallRunner
  <1>2. ASSUME NEW a \in Analyzers, UseRunner(a), ReuseLayout(a) PROVE DrainedInv'
    BY <1>2 DEF UseRunner, ReuseLayout, LockFree
  <1>3. ASSUME NEW a \in Analyzers, UseRunner(a), BeginExport(a) PROVE DrainedInv'
    BY <1>3 DEF UseRunner, BeginExport, LockFree, TrackedWithNew
  <1>4. ASSUME NEW a \in Analyzers, UseRunner(a), NoTempDir(a) PROVE DrainedInv'
    BY <1>4 DEF UseRunner, NoTempDir, LockFree
  <1>5. ASSUME NEW a \in Analyzers, UseRunner(a), ExportSucceeds(a) PROVE DrainedInv'
    BY <1>5 DEF UseRunner, ExportSucceeds
  <1>6. ASSUME NEW a \in Analyzers, UseRunner(a), ExportFails(a) PROVE DrainedInv'
    BY <1>6 DEF UseRunner, ExportFails
  <1>7. ASSUME NEW a \in Analyzers, UseRunner(a), ExportRaises(a) PROVE DrainedInv'
    BY <1>7 DEF UseRunner, ExportRaises, LockAfterError
  <1>8. ASSUME NEW a \in Analyzers, UseRunner(a), EndScan(a) PROVE DrainedInv'
    BY <1>8 DEF UseRunner, EndScan
  <1>9. ASSUME NEW a \in Analyzers, Submit(a) PROVE DrainedInv'
    BY <1>9 DEF Submit
  <1>10. ASSUME NEW a \in Analyzers, StartAnalyzer(a) PROVE DrainedInv'
    BY <1>10 DEF StartAnalyzer
  <1>11. ASSUME NEW a \in Analyzers, EndAnalyzer(a) PROVE DrainedInv'
    BY <1>11 DEF EndAnalyzer
  <1>12. ASSUME NEW a \in Analyzers, Drain(a) PROVE DrainedInv'
    BY <1>12 DEF Drain, WithStub
  <1>13. CASE BeginRun
    BY <1>13 DEF BeginRun
  <1>14. CASE CallbackReturns
    BY <1>14 DEF CallbackReturns
  <1>15. CASE CallbackFails
    BY <1>15 DEF CallbackFails
  <1>16. CASE EndDrain
    BY <1>16 DEF EndDrain
  <1>17. CASE Join
    BY <1>17 DEF Join, PoolIdle
  <1>18. CASE Interrupt
    BY <1>18 DEF Interrupt
  <1>19. CASE Close
    BY <1>19 DEF Close, CloseRunner
  <1>21. CASE InterruptClose
    BY <1>21 DEF InterruptClose, CloseRunner
  <1>20. CASE UNCHANGED vars
    BY <1>20 DEF vars, runnerVars, loopVars
  <1> QED
    BY Steps, <1>1, <1>2, <1>3, <1>4, <1>5, <1>6, <1>7, <1>8, <1>9,
       <1>10, <1>11, <1>12, <1>13, <1>14, <1>15, <1>16, <1>17, <1>18,
       <1>19, <1>20, <1>21

\* The beginning and the end of a run.
LEMMA StartStep == ASSUME TypeOK, FutureInv, StartInv, [Next]_vars PROVE StartInv'
  <1> USE CallersAssumption, FailuresAssumption DEF TypeOK, RunnerTypeOK, LoopTypeOK, FutureInv, StartInv, Unbegun, MoveTo, runnerVars, loopVars, Analyzers, Pending, Outcomes
  <1>1. ASSUME NEW a \in Analyzers, UseRunner(a), CallRunner(a) PROVE StartInv'
    BY <1>1 DEF UseRunner, CallRunner
  <1>2. ASSUME NEW a \in Analyzers, UseRunner(a), ReuseLayout(a) PROVE StartInv'
    BY <1>2 DEF UseRunner, ReuseLayout, LockFree
  <1>3. ASSUME NEW a \in Analyzers, UseRunner(a), BeginExport(a) PROVE StartInv'
    BY <1>3 DEF UseRunner, BeginExport, LockFree, TrackedWithNew
  <1>4. ASSUME NEW a \in Analyzers, UseRunner(a), NoTempDir(a) PROVE StartInv'
    BY <1>4 DEF UseRunner, NoTempDir, LockFree
  <1>5. ASSUME NEW a \in Analyzers, UseRunner(a), ExportSucceeds(a) PROVE StartInv'
    BY <1>5 DEF UseRunner, ExportSucceeds
  <1>6. ASSUME NEW a \in Analyzers, UseRunner(a), ExportFails(a) PROVE StartInv'
    BY <1>6 DEF UseRunner, ExportFails
  <1>7. ASSUME NEW a \in Analyzers, UseRunner(a), ExportRaises(a) PROVE StartInv'
    BY <1>7 DEF UseRunner, ExportRaises, LockAfterError
  <1>8. ASSUME NEW a \in Analyzers, UseRunner(a), EndScan(a) PROVE StartInv'
    BY <1>8 DEF UseRunner, EndScan
  <1>9. ASSUME NEW a \in Analyzers, Submit(a) PROVE StartInv'
    BY <1>9 DEF Submit
  <1>10. ASSUME NEW a \in Analyzers, StartAnalyzer(a) PROVE StartInv'
    BY <1>10 DEF StartAnalyzer
  <1>11. ASSUME NEW a \in Analyzers, EndAnalyzer(a) PROVE StartInv'
    BY <1>11 DEF EndAnalyzer
  <1>12. ASSUME NEW a \in Analyzers, Drain(a) PROVE StartInv'
    BY <1>12 DEF Drain, WithStub
  <1>13. CASE BeginRun
    BY <1>13 DEF BeginRun
  <1>14. CASE CallbackReturns
    BY <1>14 DEF CallbackReturns
  <1>15. CASE CallbackFails
    <2>1. /\ main \in {"callback", "error callback"} /\ main' \in {"error callback", "join"}
          /\ UNCHANGED <<runnerVars, selected, interrupts>>
      BY <1>15 DEF CallbackFails
    <2>2. main' = "error callback" => UNCHANGED raising
      BY <1>15 DEF CallbackFails
    <2>3. main' = "error callback" => interrupts' = 0 /\ ~raising'
      BY <2>1, <2>2
    <2>4. closed' = FALSE /\ selected' # {}
      BY <2>1
    <2> QED
      BY <2>1, <2>3, <2>4
  <1>16. CASE EndDrain
    BY <1>16 DEF EndDrain
  <1>17. CASE Join
    BY <1>17 DEF Join, PoolIdle
  <1>18. CASE Interrupt
    BY <1>18 DEF Interrupt
  <1>19. CASE Close
    <2>1. /\ main = "close" /\ main' \in {"raised", "returned"} /\ closed' = TRUE
          /\ UNCHANGED <<tracked, selected, future>>
      BY <1>19 DEF Close, CloseRunner
    <2>2. selected # {}
      BY <1>19 DEF Close
    <2> QED
      BY <2>1, <2>2
  <1>21. CASE InterruptClose
    BY <1>21 DEF InterruptClose, CloseRunner
  <1>20. CASE UNCHANGED vars
    BY <1>20 DEF vars, runnerVars, loopVars
  <1> QED
    BY Steps, <1>1, <1>2, <1>3, <1>4, <1>5, <1>6, <1>7, <1>8, <1>9,
       <1>10, <1>11, <1>12, <1>13, <1>14, <1>15, <1>16, <1>17, <1>18,
       <1>19, <1>20, <1>21

\* The join.
LEMMA QuietStep == ASSUME Tame, IInv, QuietInv, [Next]_vars PROVE QuietInv'
  <1> USE CallersAssumption, FailuresAssumption DEF Tame, IInv, TypeOK, RunnerTypeOK, LoopTypeOK, FutureInv, DirsInv, StartInv, Unbegun, QuietInv, PoolIdle, DrainedInv, MoveTo, runnerVars, loopVars, Analyzers, Pending, Outcomes
  <1>1. ASSUME NEW a \in Analyzers, UseRunner(a), CallRunner(a) PROVE QuietInv'
    BY <1>1 DEF UseRunner, CallRunner
  <1>2. ASSUME NEW a \in Analyzers, UseRunner(a), ReuseLayout(a) PROVE QuietInv'
    BY <1>2 DEF UseRunner, ReuseLayout, LockFree
  <1>3. ASSUME NEW a \in Analyzers, UseRunner(a), BeginExport(a) PROVE QuietInv'
    BY <1>3 DEF UseRunner, BeginExport, LockFree, TrackedWithNew
  <1>4. ASSUME NEW a \in Analyzers, UseRunner(a), NoTempDir(a) PROVE QuietInv'
    BY <1>4 DEF UseRunner, NoTempDir, LockFree
  <1>5. ASSUME NEW a \in Analyzers, UseRunner(a), ExportSucceeds(a) PROVE QuietInv'
    BY <1>5 DEF UseRunner, ExportSucceeds
  <1>6. ASSUME NEW a \in Analyzers, UseRunner(a), ExportFails(a) PROVE QuietInv'
    BY <1>6 DEF UseRunner, ExportFails
  <1>7. ASSUME NEW a \in Analyzers, UseRunner(a), ExportRaises(a) PROVE QuietInv'
    BY <1>7 DEF UseRunner, ExportRaises, LockAfterError
  <1>8. ASSUME NEW a \in Analyzers, UseRunner(a), EndScan(a) PROVE QuietInv'
    BY <1>8 DEF UseRunner, EndScan
  <1>9. ASSUME NEW a \in Analyzers, Submit(a) PROVE QuietInv'
    BY <1>9 DEF Submit
  <1>10. ASSUME NEW a \in Analyzers, StartAnalyzer(a) PROVE QuietInv'
    BY <1>10 DEF StartAnalyzer
  <1>11. ASSUME NEW a \in Analyzers, EndAnalyzer(a) PROVE QuietInv'
    BY <1>11 DEF EndAnalyzer
  <1>12. ASSUME NEW a \in Analyzers, Drain(a) PROVE QuietInv'
    BY <1>12 DEF Drain, WithStub
  <1>13. CASE BeginRun
    BY <1>13 DEF BeginRun
  <1>14. CASE CallbackReturns
    BY <1>14 DEF CallbackReturns
  <1>15. CASE CallbackFails
    BY <1>15 DEF CallbackFails
  <1>16. CASE EndDrain
    BY <1>16 DEF EndDrain
  <1>17. CASE Join
    BY <1>17 DEF Join, PoolIdle
  <1>18. CASE Interrupt
    <2>1. /\ interrupts < MaxInterrupts /\ interrupts' = interrupts + 1 /\ raising' = TRUE
          /\ \/ main \in {"submit", "drain", "callback", "error callback"} /\ main' = "join"
             \/ main = "join" /\ main' = "close"
             \/ main = "called" /\ main' = "raised"
          /\ UNCHANGED <<runnerVars, selected, future, reports>>
      BY <1>18 DEF Interrupt
    <2>2. MaxInterrupts \in Nat /\ interrupts \in 0 .. MaxInterrupts
      BY LimitsAssumption
    <2>3. interrupts' >= 1
      BY <2>1, <2>2, OneMore
    <2>4. main = "join" => PoolIdle
      <3> SUFFICES ASSUME main = "join" PROVE PoolIdle
        OBVIOUS
      <3>1. ~raising
        BY <2>1, <2>2
      <3>2. AllDrained
        BY <3>1
      <3> QED
        BY <3>2 DEF AllDrained
    <2> QED
      BY <2>1, <2>3, <2>4
  <1>19. CASE Close
    BY <1>19 DEF Close, CloseRunner
  <1>21. CASE InterruptClose
    BY <1>21 DEF InterruptClose, CloseRunner
  <1>20. CASE UNCHANGED vars
    BY <1>20 DEF vars, runnerVars, loopVars
  <1> QED
    BY Steps, <1>1, <1>2, <1>3, <1>4, <1>5, <1>6, <1>7, <1>8, <1>9,
       <1>10, <1>11, <1>12, <1>13, <1>14, <1>15, <1>16, <1>17, <1>18,
       <1>19, <1>20, <1>21

\* The invariant holds when the run is called ...
LEMMA InitIInv == Init => IInv
  <1> SUFFICES ASSUME Init PROVE IInv
    OBVIOUS
  <1> USE DEF Init, RunnerInit, Analyzers
  <1>1. RunnerTypeOK
    <2> DEFINE M(k, d) == [known |-> k, dir |-> d]
    <2>1. \A k \in BOOLEAN, d \in Callers \union {NoCaller} :
             M(k, d) \in [known : BOOLEAN, dir : Callers \union {NoCaller}]
      OBVIOUS
    <2>2. memo = M(FALSE, NoCaller)
      OBVIOUS
    <2> HIDE DEF M
    <2>3. memo \in [known : BOOLEAN, dir : Callers \union {NoCaller}]
      BY <2>1, <2>2
    <2> QED
      BY <2>3 DEF RunnerTypeOK
  <1>2. LoopTypeOK
    <2>1. 0 \in 0 .. 2 /\ 0 \in 0 .. MaxInterrupts
      BY LimitsAssumption, Counts DEF LimitsAssumption
    <2> QED
      BY <2>1 DEF LoopTypeOK
  <1>3. LockInv /\ ExportInv /\ MemoInv /\ DirsInv
    BY CallersAssumption DEF LockInv, ExportInv, MemoInv, DirsInv
  <1>4. WorkerInv /\ FutureInv /\ NotifiedInv /\ ReportInv /\ CallbackInv /\ DrainedInv /\ StartInv
    BY DEF WorkerInv, Inside, FutureInv, NotifiedInv, ReportInv, CallbackInv, DrainedInv, StartInv
  <1> QED
    BY <1>1, <1>2, <1>3, <1>4 DEF IInv, TypeOK

\* ... and every step keeps it.
LEMMA NextIInv == IInv /\ [Next]_vars => IInv'
  <1> SUFFICES ASSUME IInv, [Next]_vars PROVE IInv'
    OBVIOUS
  <1>1. TypeOK'
    BY RunnerTypeStep, LoopTypeStep DEF IInv, TypeOK
  <1>2. LockInv' /\ ExportInv' /\ MemoInv' /\ DirsInv'
    BY LockStep, ExportStep, MemoStep, DirsStep DEF IInv
  <1>3. WorkerInv' /\ FutureInv' /\ NotifiedInv'
    BY WorkerStepInv, FutureStep, NotifiedStep DEF IInv, TypeOK
  <1>4. ReportInv' /\ CallbackInv' /\ DrainedInv' /\ StartInv'
    BY ReportStep, CallbackStep, DrainedStep, StartStep DEF IInv, TypeOK
  <1> QED
    BY <1>1, <1>2, <1>3, <1>4 DEF IInv

\* The strengthening is invariant.
THEOREM Invariance == Spec => []IInv
  BY InitIInv, NextIInv, PTL DEF Spec

\* The runner and the loop keep their types.
THEOREM TypeCorrect == Spec => []TypeOK
  BY Invariance, PTL DEF IInv

\* Every selected analyzer has its own entry when the run returns, for any
\* number of interrupts and with a callback that raises.
THEOREM AllAccountedForHolds == Spec => []AllAccountedFor
  <1>1. IInv => AllAccountedFor
    BY DEF IInv, DrainedInv, AllDrained, ReportInv, AllAccountedFor,
           TypeOK, LoopTypeOK
  <1> QED
    BY <1>1, Invariance, PTL

\* The layout is exported at most once per run, whatever is interrupted.
THEOREM ExportedOnceHolds == Spec => ExportedOnce
  <1> DEFINE Final == memo.known => memo' = memo /\ dirs' \subseteq dirs
  <1>1. IInv /\ [Next]_vars => [Final]_runnerVars
    <2> SUFFICES ASSUME IInv, Next PROVE Final \/ UNCHANGED runnerVars
      BY DEF vars
    <2>1. CASE \E a \in Analyzers : UseRunner(a)
      BY <2>1 DEF IInv, ExportInv, Analyzers, UseRunner, RunnerStep, CallRunner, ReuseLayout,
                  BeginExport, NoTempDir, ExportSucceeds, ExportFails, ExportRaises, EndScan
    <2>2. CASE BeginRun \/ Close \/ InterruptClose
      BY <2>2 DEF BeginRun, Close, InterruptClose, CloseRunner
    <2>3. CASE \/ CallbackReturns \/ CallbackFails \/ EndDrain \/ Join \/ Interrupt
               \/ \E a \in Analyzers : Submit(a) \/ Drain(a) \/ StartAnalyzer(a) \/ EndAnalyzer(a)
      BY <2>3 DEF CallbackReturns, CallbackFails, EndDrain, Join, Interrupt,
                  Submit, Drain, StartAnalyzer, EndAnalyzer
    <2> QED
      BY <2>1, <2>2, <2>3 DEF Next, MainStep, WorkerStep
  <1> QED
    BY <1>1, Invariance, PTL DEF Spec, ExportedOnce

\* Nobody is in the runner before the run begins.
LEMMA InitQuiet == Init => QuietInv
  BY DEF Init, RunnerInit, QuietInv

\* No worker runs when the runner is closed.
THEOREM QuietInvariance == ASSUME Tame PROVE Spec => []QuietInv
  <1>1. Tame /\ IInv /\ QuietInv /\ [Next]_vars => QuietInv'
    BY QuietStep
  <1> QED
    BY <1>1, Tame, InitQuiet, Invariance, PTL DEF Spec

\* A scanner that reads the layout has it, whole, under its feet: provided
\* that nothing interrupts the join of the pool.
THEOREM ReaderHasLayoutHolds == ASSUME Tame PROVE Spec => []ReaderHasLayout
  <1>1. IInv /\ QuietInv => ReaderHasLayout
    <2> SUFFICES ASSUME IInv, QuietInv, NEW c \in Callers, at[c] = "scanning layout"
                 PROVE  using[c] \in dirs \intersect complete
      BY DEF ReaderHasLayout
    <2>1. using[c] = memo.dir /\ memo.dir \in complete
      BY DEF IInv, MemoInv
    <2>2. future[c] = "running"
      BY DEF IInv, WorkerInv, Inside, Analyzers
    <2>3. ~closed
      BY <2>2 DEF QuietInv, PoolIdle, Pending, IInv, StartInv, Analyzers
    <2> QED
      BY <2>1, <2>3 DEF IInv, DirsInv
  <1> QED
    BY <1>1, Invariance, QuietInvariance, PTL

\* No temporary layout is left behind, under the same proviso.
THEOREM NoLayoutLeftHolds == ASSUME Tame PROVE Spec => []NoLayoutLeft
  <1>1. IInv /\ QuietInv => NoLayoutLeft
    BY DEF IInv, QuietInv, StartInv, Unbegun, DirsInv, NoLayoutLeft, Over
  <1> QED
    BY <1>1, Invariance, QuietInvariance, PTL

-----------------------------------------------------------------------------

\* A run begins as an abstract run does ...
LEMMA RunInit == Init => Run!Init
  BY DEF Init, Run!Init

\* ... and each of its steps is an abstract one or a stutter.
LEMMA RunStep == ASSUME ~CallbackRaises, IInv, [Next]_vars PROVE [Run!Next]_(Run!vars)
  <1> USE DEF Run!vars, Analyzers
  <1>1. ASSUME NEW a \in Analyzers, Drain(a) PROVE Run!Next
    <2>1. main' \notin {"returned"} /\ main = "drain" /\ raising' = raising /\ ~raising
      BY <1>1 DEF Drain, IInv, StartInv
    <2>2. /\ a \in selected /\ reports[a] = "none" /\ selected' = selected
      <3>1. future[a] # "none"
        BY <1>1, FailuresAssumption DEF Drain, Outcomes
      <3> QED
        BY <1>1, <3>1 DEF Drain, IInv, FutureInv
    <2>3. \E v \in Failures \union {"report"} : reports' = [reports EXCEPT ![a] = v]
      BY <1>1 DEF Drain, WithStub, Outcomes
    <2>4. Run!Settle(a)
      BY <2>1, <2>2, <2>3 DEF Run!Settle
    <2> QED
      BY <2>4 DEF Run!Next
  <1>2. CASE BeginRun \/ Close
    <2>1. UNCHANGED <<selected, reports, raising>>
      BY <1>2 DEF BeginRun, Close
    <2>2. CASE main' = "returned"
      <3>1. main # "returned" /\ ~raising /\ AllDrained
        BY <1>2, <2>2 DEF BeginRun, Close, IInv, StartInv, DrainedInv, AllDrained
      <3>2. Run!Return
        BY <2>1, <2>2, <3>1 DEF Run!Return, AllDrained
      <3> QED
        BY <3>2 DEF Run!Next
    <2>3. CASE main' # "returned"
      BY <1>2, <2>1, <2>3 DEF BeginRun, Close
    <2> QED
      BY <2>2, <2>3
  <1>3. CASE Interrupt \/ InterruptClose
    <2>1. /\ main \notin {"returned"} /\ main' \notin {"returned"} /\ raising' = TRUE
          /\ UNCHANGED <<selected, reports>>
      BY <1>3 DEF Interrupt, InterruptClose
    <2>2. CASE raising
      BY <2>1, <2>2
    <2>3. CASE ~raising
      <3>1. Run!Abort
        BY <2>1, <2>3 DEF Run!Abort
      <3> QED
        BY <3>1 DEF Run!Next
    <2> QED
      BY <2>2, <2>3
  <1>4. CASE \/ CallbackReturns \/ EndDrain \/ Join
             \/ \E a \in Analyzers : Submit(a) \/ UseRunner(a) \/ StartAnalyzer(a) \/ EndAnalyzer(a)
    <2>1. /\ UNCHANGED <<selected, reports, raising>>
          /\ main = "returned" <=> main' = "returned"
      BY <1>4 DEF CallbackReturns, EndDrain, Join, Submit, UseRunner, StartAnalyzer, EndAnalyzer,
                  loopVars
    <2> QED
      BY <2>1
  <1>5. CASE UNCHANGED vars
    BY <1>5 DEF vars, loopVars
  <1>6. ~CallbackFails
    BY DEF CallbackFails
  <1> QED
    BY <1>1, <1>2, <1>3, <1>4, <1>5, <1>6 DEF Next, MainStep, WorkerStep

\* A run is an abstract run, but for the liveness, which TLC checks.
THEOREM RunImplemented ==
    ASSUME ~CallbackRaises PROVE Spec => Run!Init /\ [][Run!Next]_(Run!vars)
  <1>1. ~CallbackRaises /\ IInv /\ [Next]_vars => [Run!Next]_(Run!vars)
    BY RunStep
  <1> QED
    BY <1>1, RunInit, Invariance, PTL DEF Spec

=============================================================================
