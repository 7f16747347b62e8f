------------------------ MODULE ImageInspection_proofs ------------------------
(***************************************************************************)
(* Proofs about ImageInspection, for any index, any attachments, and any   *)
(* number of tasks, pushes and failures.  IInv is the inductive invariant: *)
(* what the memo may hold, who may be inside the lock, and what oci and    *)
(* provenance have established when they reach each place.                 *)
(***************************************************************************)
EXTENDS ImageInspection, FiniteSetTheorems, SequenceTheorems, TLAPS

InspectPlaces == {"manifest", "child", "config", "layers", "digest"}
LabelPlaces == {"labels", "label child", "label config", "subject"}
LookupPlaces == {"referrers", "referrer", "bundle", "tags", "legacy"}

\* The signatures that were there when the run began.
BundlesBefore(i) == {a \in before : Layout[a] = "bundle" /\ Subject[a] = i}
LegacyBefore(i) == {a \in before : Layout[a] = "legacy" /\ Subject[a] = i}
Elements(s) == {s[n] : n \in DOMAIN s}

\* What an answer to question q is like: right, and no older than the run.
Fits(q, v) ==
    /\ v # NoAnswer /\ v \notin Failures
    /\ q[1] = "manifest" => v \in Manifests /\ (IF q[2] = Tag THEN v \in Images ELSE v = q[2])
    /\ q[1] = "blob" => v = q[2]
    /\ q[1] = "digest" => v \in Images \union {NoDigest}
    /\ q[1] = "tags" => \A i \in Images : LegacyBefore(i) # {} => i \in v
    /\ q[1] = "legacy" => v \subseteq Attachments /\ LegacyBefore(q[2]) \subseteq v
    /\ q[1] = "referrers" => v \in Seq(Attachments) /\ BundlesBefore(q[2]) \subseteq Elements(v)

RegistryInv ==
    /\ tagged \in Images /\ attached \subseteq Attachments /\ before \subseteq attached
    /\ changes \in 0 .. MaxChanges /\ failures \in 0 .. MaxFailures
    /\ reference \in Images \union {Tag} /\ reference \in References
    /\ requested \in Platforms \union {Unknown}

MemoInv ==
    /\ DOMAIN memo = Questions
    /\ \A q \in Questions : memo[q] = NoAnswer \/ Fits(q, memo[q])

\* Who is inside the lock asks a question that has no answer.
InsideInv ==
    /\ \A t \in inside : t \in Threads /\ Asks(t) /\ memo[Question(t)] = NoAnswer
    /\ \A t, u \in inside : t = u

-----------------------------------------------------------------------------

\* The index is inspected by tasks.
Multi == requested = Unknown /\ seen[Oci] \in Index

ManifestOf(t) == memo[<<"manifest", ref[t]>>]

\* Every inspector describes the manifest its reference was resolved to.
InspectorInv(t) ==
    /\ at[t] = "config" => seen[t] \in Manifests /\ ManifestOf(t) = seen[t]
    /\ at[t] = "child" => ref[t] # Tag
    /\ at[t] \in {"idle", "top", "manifest", "child", "config"} => entry[t] = Nothing
    /\ entry[t].config \in {NoAnswer, ManifestOf(t)}
    /\ entry[t].layers \in {NoAnswer, ManifestOf(t)}

\* A task inspects its entry of the index oci has read.
TaskInv(t) ==
    /\ at[t] \in (InspectPlaces \ {"digest"}) \union {"idle", "inspected"}
    /\ at[t] # "idle" =>
          /\ at[Oci] \in {"join", "tags", "done"} /\ Multi
          /\ t \in RealPlatforms(seen[Oci])
          /\ ref[t] # Tag
          /\ Entries[seen[Oci]][t].digest \notin Index =>
                ref[t] = Entries[seen[Oci]][t].digest /\ at[t] # "child"
    /\ at[t] = "inspected" => entry[t].digest = ref[t]

OciInv ==
    /\ at[Oci] \in InspectPlaces \union {"top", "join", "tags", "done", "failed"}
    /\ at[Oci] = "join" => Multi
    /\ at[Oci] \in InspectPlaces =>
          /\ ~Multi
          /\ requested = Unknown =>
                /\ at[Oci] # "child"
                /\ at[Oci] = "manifest" =>
                      /\ ref[Oci] = reference /\ seen[Oci] \in Manifests
                      /\ ManifestOf(Oci) = seen[Oci]
    /\ at[Oci] \in {"tags", "done"} =>
          \/ ~Multi /\ platforms = <<entry[Oci]>>
          \/ /\ Multi /\ platforms = [t \in RealPlatforms(seen[Oci]) |-> entry[t]]
             /\ \A t \in RealPlatforms(seen[Oci]) : at[t] = "inspected"
    /\ at[Oci] \notin {"tags", "done"} => platforms = <<>>

EntryType == [config : Manifests \union {NoAnswer}, layers : Manifests \union {NoAnswer},
              digest : Manifests \union {NoDigest}]

InspectionInv ==
    /\ DOMAIN at = Threads /\ DOMAIN seen = Threads
    /\ ref \in [Inspectors -> Manifests \union {Tag}]
    /\ entry \in [Inspectors -> EntryType]
    /\ OciInv
    /\ \A t \in Inspectors : InspectorInv(t)
    /\ \A t \in Tasks : TaskInv(t)

-----------------------------------------------------------------------------

\* Genuine signatures of the subject that were there when the run began.
GenuineBefore == {a \in (BundlesBefore(subject) \union LegacyBefore(subject)) \intersect Genuine :
                     Claims[a] # NoSigner}

\* Unless something failed, nothing that was there when the run began is missed.
Complete ==
    /\ at[Provenance] \in {"referrer", "bundle"} =>
          BundlesBefore(subject) \subseteq found \union Elements(todo)
    /\ at[Provenance] \in {"tags", "legacy"} => BundlesBefore(subject) \subseteq found
    /\ at[Provenance] = "verify" =>
          \A a \in GenuineBefore : Claims[a] \in unconfirmed \union signers
    /\ at[Provenance] = "done" => \A a \in GenuineBefore : Claims[a] \in signers

ProvenanceInv ==
    /\ DOMAIN at = Threads /\ DOMAIN seen = Threads
    /\ at[Provenance] \in LabelPlaces \union LookupPlaces \union {"verify", "done", "failed"}
    /\ at[Provenance] = "label child" =>
          seen[Provenance] \in Index /\ 1 \in DOMAIN Entries[seen[Provenance]]
    /\ at[Provenance] = "label config" => seen[Provenance] \in Manifests
    /\ at[Provenance] \in LabelPlaces => subject = IF reference = Tag THEN NoDigest ELSE reference
    /\ at[Provenance] = "subject" => reference = Tag
    /\ at[Provenance] \in LookupPlaces \union {"verify"} => subject \in Images
    /\ subject \in Images \union {NoDigest}
    /\ todo \in Seq(Attachments)
    /\ at[Provenance] \in {"referrer", "bundle"} => todo # <<>>
    /\ at[Provenance] = "bundle" => Layout[Head(todo)] = "bundle"
    /\ found \subseteq Attachments /\ gap \in BOOLEAN
    /\ unconfirmed \subseteq Signers /\ signers \subseteq Signers
    /\ at[Provenance] \in LabelPlaces \union LookupPlaces => signers = {}
    /\ \A s \in signers : Confirms(s)
    /\ gap \/ Complete

IInv == RegistryInv /\ MemoInv /\ InsideInv /\ InspectionInv /\ ProvenanceInv

-----------------------------------------------------------------------------
(* Facts about the constants.                                              *)

\* The less-than relation of the naturals, as a set, is well founded.
LEMMA NatOrder == \E R : IsWellFoundedOn(R, Nat) /\ \A x, y \in Nat : <<x, y>> \in R <=> x < y
  <1> DEFINE R == OpToRel(<, Nat)
  <1>1. \A x, y \in Nat : <<x, y>> \in R <=> x < y
    BY Zenon DEF OpToRel
  <1>2. IsWellFoundedOn(R, Nat)
    BY NatLessThanWellFounded
  <1> HIDE DEF R
  <1> QED
    BY <1>1, <1>2

\* Min of a set of naturals is one of its elements.
LEMMA MinIsIn ==
    ASSUME NEW S \in SUBSET Nat, S # {}
    PROVE  Min(S) \in S
  <1>1. PICK R : IsWellFoundedOn(R, Nat) /\ \A x, y \in Nat : <<x, y>> \in R <=> x < y
    BY NatOrder
  <1>2. \E x \in S : \A y \in S : ~(<<y, x>> \in R)
    <2>1. S \subseteq Nat /\ S # {}
      OBVIOUS
    <2>2. IsWellFoundedOn(R, Nat)
      BY <1>1
    <2> HIDE <1>1
    <2> QED
      BY <2>1, <2>2, WFMin
  <1>3. \E x \in S : \A y \in S : ~(y < x)
    BY <1>1, <1>2, Zenon
  <1>4. \E x \in S : \A y \in S : x <= y
    BY <1>3
  <1> QED
    BY <1>4 DEF Min

\* SetToSeq lists a finite set.
LEMMA SetToSeqLists ==
    ASSUME NEW S, IsFiniteSet(S)
    PROVE  SetToSeq(S) \in Seq(S) /\ S = Elements(SetToSeq(S))
  <1> DEFINE N == Cardinality(S)
  <1>1. PICK f : f \in Bijection(1 .. N, S)
    BY FS_CardinalityType DEF ExistsBijection
  <1>2. f \in [1 .. N -> S] /\ IsInjective(f)
    BY <1>1 DEF Bijection, Injection
  <1>3. SetToSeq(S) \in [1 .. N -> S] /\ IsInjective(SetToSeq(S))
    BY <1>2 DEF SetToSeq
  <1>4. N \in Nat /\ IsFiniteSet(1 .. N) /\ Cardinality(1 .. N) = N
    BY FS_CardinalityType, FS_Interval
  <1>5. SetToSeq(S) \in Surjection(1 .. N, S)
    BY <1>3, <1>4, FS_Injection DEF Injection
  <1>6. S = Elements(SetToSeq(S))
    BY <1>3, <1>5 DEF Surjection, Elements
  <1> QED
    BY <1>3, <1>4, <1>6

\* Inspectors, tasks and provenance are different threads.
LEMMA ThreadsApart ==
    /\ Oci \in Inspectors /\ Oci \notin Tasks /\ Provenance \notin Inspectors
    /\ Oci # Provenance /\ Tasks \subseteq Inspectors /\ Inspectors \subseteq Threads
    /\ Threads = Inspectors \union {Provenance} /\ Inspectors = Tasks \union {Oci}
  BY ThreadsAssumption DEF Inspectors, Threads

\* The entries of an index have digests, which are no tags; the real ones tasks.
LEMMA EntriesTyped ==
    ASSUME NEW i \in Index, NEW n \in DOMAIN Entries[i]
    PROVE  /\ Entries[i][n].digest \in Manifests /\ Entries[i][n].digest # Tag
           /\ n \in RealPlatforms(i) => n \in Tasks
           /\ n \in Nat
  BY ImagesAssumption DEF Manifests, Children, Tasks, RealPlatforms

\* The first match is an entry of the index.
LEMMA MatchTyped ==
    ASSUME NEW i \in Index, NEW t, Matches(t, i) # {}
    PROVE  Min(Matches(t, i)) \in DOMAIN Entries[i]
  <1>1. Matches(t, i) \in SUBSET Nat
    BY EntriesTyped DEF Matches
  <1> QED
    BY <1>1, MinIsIn DEF Matches

\* A digest is no tag, an image is a digest, and the marks are neither.
LEMMA DigestsTyped ==
    /\ Index \subseteq Images /\ Images \subseteq Manifests /\ Attachments \subseteq Manifests
    /\ Tag \notin Manifests /\ NoDigest \notin Manifests /\ NoAnswer \notin Manifests
    /\ NoAnswer # NoDigest /\ NoAnswer \notin Failures
    /\ \A m \in Failures : m \notin Manifests /\ m # NoDigest
  BY ImagesAssumption, MarksAssumption DEF Manifests, Failures

-----------------------------------------------------------------------------
(* The memo and its lock.                                                  *)

\* Every thread that asks, asks one of the questions.
LEMMA QuestionTyped ==
    ASSUME RegistryInv, InspectionInv, ProvenanceInv, NEW t \in Threads, Asks(t)
    PROVE  Question(t) \in Questions
  <1> USE ThreadsApart, DigestsTyped
  <1>1. CASE t \in Inspectors
    <2>1. at[t] \in InspectPlaces \union {"top", "tags"}
      BY <1>1 DEF InspectionInv, OciInv, TaskInv, Asks
    <2>2. ref[t] \in Manifests \union {Tag}
      BY <1>1 DEF InspectionInv
    <2>3. at[t] = "config" => seen[t] \in Manifests
      BY <1>1 DEF InspectionInv, InspectorInv
    <2> QED
      BY <2>1, <2>2, <2>3 DEF InspectPlaces, Question, Questions, RegistryInv
  <1>2. CASE t = Provenance
    <2>1. CASE at[t] \in LabelPlaces
      <3>1. at[t] = "label child" => Entries[seen[t]][1].digest \in Manifests
        BY <1>2, EntriesTyped DEF ProvenanceInv
      <3>2. at[t] = "label config" => seen[t] \in Manifests
        BY <1>2 DEF ProvenanceInv
      <3> QED
        BY <2>1, <3>1, <3>2 DEF LabelPlaces, Question, Questions, RegistryInv
    <2>2. CASE at[t] \in LookupPlaces
      <3>1. subject \in Images
        BY <1>2, <2>2 DEF ProvenanceInv
      <3>2. at[t] \in {"referrer", "bundle"} => Head(todo) \in Manifests
        BY <1>2, HeadTailProperties DEF ProvenanceInv
      <3> QED
        BY <2>2, <3>1, <3>2 DEF LookupPlaces, Question, Questions
    <2> QED
      BY <1>2, <2>1, <2>2 DEF ProvenanceInv, Asks
  <1> QED
    BY <1>1, <1>2

\* What the registry answers is right, and no mark.
LEMMA ServedFits ==
    ASSUME RegistryInv, NEW q \in Questions, NEW a \in Served(q)
    PROVE  Fits(q, a)
  <1> USE DigestsTyped
  <1> DEFINE r == q[2]
  <1>1. q[1] \in {"manifest", "blob", "digest", "tags", "referrers", "legacy"}
    BY DEF Questions
  <1>2. CASE q[1] = "manifest"
    <2>1. r \in Manifests \union {Tag} /\ a = IF r = Tag THEN tagged ELSE r
      BY <1>2 DEF Questions, Served
    <2> QED
      BY <1>2, <2>1 DEF Fits, RegistryInv
  <1>3. CASE q[1] = "blob"
    <2>1. r \in Manifests /\ a = r
      BY <1>3 DEF Questions, Served
    <2> QED
      BY <1>3, <2>1 DEF Fits
  <1>4. CASE q[1] = "digest"
    <2>1. a \in {tagged, NoDigest}
      BY <1>4 DEF Served
    <2> QED
      BY <1>4, <2>1 DEF Fits, RegistryInv
  <1>5. CASE q[1] = "tags"
    <2>1. a = {i \in Images : LegacyOf(i) # {}}
      BY <1>5 DEF Served
    <2>2. a # NoAnswer /\ a \notin Failures
      BY <2>1, MarksAssumption
    <2>3. \A i \in Images : LegacyBefore(i) \subseteq LegacyOf(i)
      BY DEF LegacyBefore, LegacyOf, RegistryInv
    <2>4. \A i \in Images : LegacyBefore(i) # {} => i \in a
      BY <2>1, <2>3
    <2> QED
      BY <1>5, <2>2, <2>4 DEF Fits
  <1>6. CASE q[1] = "referrers"
    <2> DEFINE S == {x \in attached : Layout[x] # "legacy" /\ Subject[x] = r}
    <2>1. a = SetToSeq(S)
      BY <1>6 DEF Served
    <2>2. S \in SUBSET Attachments /\ IsFiniteSet(S)
      BY AttachmentsAssumption, FS_Subset DEF RegistryInv
    <2>3. a # NoAnswer /\ a \notin Failures
      BY <2>1, <2>2, MarksAssumption
    <2>4. a \in Seq(S) /\ S = Elements(a)
      BY <2>1, <2>2, SetToSeqLists
    <2>5. a \in Seq(Attachments)
      BY <2>2, <2>4, SeqMonotonic
    <2>6. BundlesBefore(r) \subseteq S
      BY DEF BundlesBefore, RegistryInv
    <2> QED
      BY <1>6, <2>3, <2>4, <2>5, <2>6 DEF Fits
  <1>7. CASE q[1] = "legacy"
    <2>1. a = LegacyOf(r)
      BY <1>7 DEF Served
    <2>2. a \in SUBSET Attachments
      BY <2>1 DEF LegacyOf, RegistryInv
    <2>3. a # NoAnswer /\ a \notin Failures
      BY <2>2, MarksAssumption
    <2>4. LegacyBefore(r) \subseteq a
      BY <2>1 DEF LegacyBefore, LegacyOf, RegistryInv
    <2> QED
      BY <1>7, <2>2, <2>3, <2>4 DEF Fits
  <1> QED
    BY <1>1, <1>2, <1>3, <1>4, <1>5, <1>6, <1>7

\* A question that has an answer keeps it.
Frozenly == \A q \in Questions : memo[q] # NoAnswer => memo'[q] = memo[q]

\* What the call of t brings: the answer of the memo from now on, or a failure
\* of a question without one; the lock is free afterwards.
LEMMA ReplyEffect ==
    ASSUME RegistryInv, MemoInv, InsideInv, NEW t, NEW a,
           Question(t) \in Questions, Reply(t, Question(t), a), before' = before
    PROVE  /\ inside' = {} /\ Frozenly /\ MemoInv' /\ failures' \in 0 .. MaxFailures
           /\ \/ /\ a \in Failures /\ memo[Question(t)] = NoAnswer
                 /\ UNCHANGED memo
              \/ a \notin Failures /\ Fits(Question(t), a) /\ memo'[Question(t)] = a
  <1> DEFINE q == Question(t)
  <1>1. MemoInv' <=> /\ DOMAIN memo' = Questions
                     /\ \A p \in Questions : memo'[p] = NoAnswer \/ Fits(p, memo'[p])
    BY DEF MemoInv, Fits, LegacyBefore, BundlesBefore
  <1>2. failures \in 0 .. MaxFailures /\ MaxFailures \in Nat
    BY ImagesAssumption DEF RegistryInv
  <1>3. CASE LockFree /\ memo[q] # NoAnswer /\ a = memo[q] /\ UNCHANGED cacheVars
    <2>1. Fits(q, a) /\ a \notin Failures
      BY <1>3 DEF MemoInv, Fits
    <2>2. MemoInv'
      BY <1>1, <1>3 DEF MemoInv, cacheVars
    <2> QED
      BY <1>2, <1>3, <2>1, <2>2 DEF LockFree, cacheVars, Frozenly
  <1>4. CASE /\ t \in inside /\ a \in Served(q) /\ memo' = Stored(q, a)
             /\ inside' = inside \ {t} /\ UNCHANGED failures
    <2>1. Fits(q, a) /\ a \notin Failures /\ memo[q] = NoAnswer
      BY <1>4, ServedFits DEF Fits, InsideInv
    <2>2. memo' = [memo EXCEPT ![q] = a] /\ DOMAIN memo = Questions
      BY <1>4 DEF Stored, MemoInv
    <2>3. MemoInv'
      BY <1>1, <2>1, <2>2 DEF MemoInv
    <2>4. inside' = {}
      BY <1>4 DEF InsideInv
    <2> QED
      BY <1>2, <1>4, <2>1, <2>2, <2>3, <2>4 DEF Frozenly
  <1>5. CASE /\ t \in inside /\ a \in Failures /\ failures < MaxFailures
             /\ failures' = failures + 1 /\ inside' = Released(t) /\ UNCHANGED memo
    <2>1. memo[q] = NoAnswer /\ inside' = {}
      BY <1>5 DEF InsideInv, Released
    <2>2. MemoInv'
      BY <1>1, <1>5 DEF MemoInv
    <2> QED
      BY <1>2, <1>5, <2>1, <2>2 DEF Frozenly
  <1> QED
    BY <1>3, <1>4, <1>5 DEF Reply

-----------------------------------------------------------------------------
(* oci and its tasks.                                                      *)

\* A step of t that leaves the other threads alone.
Local(t) ==
    /\ DOMAIN at' = Threads /\ DOMAIN seen' = Threads
    /\ ref' \in [Inspectors -> Manifests \union {Tag}] /\ entry' \in [Inspectors -> EntryType]
    /\ \A u \in Threads \ {t} : at'[u] = at[u] /\ seen'[u] = seen[u]
    /\ \A u \in Inspectors \ {t} : ref'[u] = ref[u] /\ entry'[u] = entry[u]
    /\ UNCHANGED <<reference, requested>>

\* An inspector that does not move keeps what it has established.
LEMMA InspectorStays ==
    ASSUME MemoInv, Frozenly, NEW t \in Inspectors, InspectorInv(t),
           ref[t] \in Manifests \union {Tag},
           at'[t] = at[t], seen'[t] = seen[t], ref'[t] = ref[t], entry'[t] = entry[t]
    PROVE  InspectorInv(t)'
  <1>1. <<"manifest", ref[t]>> \in Questions
    BY DEF Questions
  <1>2. ManifestOf(t) # NoAnswer => ManifestOf(t)' = ManifestOf(t)
    BY <1>1 DEF Frozenly, ManifestOf
  <1>3. seen[t] \in Manifests => seen[t] # NoAnswer
    BY DigestsTyped
  <1> QED
    BY <1>2, <1>3 DEF InspectorInv

\* Steps elsewhere keep the invariant of oci and its tasks.
LEMMA InspectionStays ==
    ASSUME MemoInv, Frozenly, InspectionInv, DOMAIN at' = Threads, DOMAIN seen' = Threads,
           \A t \in Inspectors : at'[t] = at[t] /\ seen'[t] = seen[t],
           UNCHANGED <<ociVars, reference, requested>>
    PROVE  InspectionInv'
  <1> USE ThreadsApart DEF ociVars
  <1>1. \A t \in Inspectors : InspectorInv(t)'
    BY InspectorStays DEF InspectionInv
  <1>2. \A t \in Tasks : TaskInv(t)'
    BY DEF InspectionInv, TaskInv, Multi
  <1>3. OciInv'
    <2>1. at[Oci] = "manifest" /\ requested = Unknown =>
             ManifestOf(Oci)' = ManifestOf(Oci)
      BY DigestsTyped DEF InspectionInv, OciInv, InspectPlaces, Frozenly, ManifestOf, Questions
    <2>2. Multi' <=> Multi
      BY DEF Multi
    <2>3. \A t \in Tasks : (at'[t] = "inspected") <=> (at[t] = "inspected")
      OBVIOUS
    <2>4. Multi => RealPlatforms(seen[Oci]) \subseteq Tasks
      BY EntriesTyped DEF RealPlatforms, Multi
    <2> QED
      BY <2>1, <2>2, <2>3, <2>4 DEF InspectionInv, OciInv
  <1> QED
    BY <1>1, <1>2, <1>3 DEF InspectionInv

\* A task that works is one of an index that oci waits for.
LEMMA TaskAtWork ==
    ASSUME InspectionInv, NEW t \in Tasks, at[t] \in InspectPlaces
    PROVE  at[Oci] = "join" /\ Multi /\ platforms = <<>> /\ ref[t] # Tag
  <1>1. at[Oci] \in {"join", "tags", "done"} /\ Multi /\ t \in RealPlatforms(seen[Oci])
          /\ ref[t] # Tag
    BY DEF InspectionInv, TaskInv, InspectPlaces
  <1>2. at[Oci] = "join"
    BY <1>1 DEF InspectionInv, OciInv, InspectPlaces
  <1> QED
    BY <1>1, <1>2 DEF InspectionInv, OciInv

\* A local step of a task keeps the invariant if it keeps the task's own.
LEMMA TaskMoves ==
    ASSUME MemoInv, Frozenly, InspectionInv, NEW t \in Tasks, at[t] \in InspectPlaces,
           Local(t), platforms' = platforms, InspectorInv(t)', TaskInv(t)'
    PROVE  InspectionInv'
  <1> USE ThreadsApart
  <1>1. at[Oci] = "join" /\ Multi /\ platforms = <<>> /\ at'[Oci] = "join" /\ seen'[Oci] = seen[Oci]
    BY TaskAtWork DEF Local
  <1>2. \A u \in Inspectors : InspectorInv(u)'
    <2>1. \A u \in Inspectors \ {t} : InspectorInv(u)'
      BY InspectorStays DEF InspectionInv, Local
    <2> QED
      BY <2>1
  <1>3. \A u \in Tasks : TaskInv(u)'
    <2>1. \A u \in Tasks \ {t} : TaskInv(u)'
      BY <1>1 DEF InspectionInv, TaskInv, Multi, Local
    <2> QED
      BY <2>1
  <1>4. OciInv'
    BY <1>1 DEF OciInv, Multi, Local, InspectPlaces
  <1> QED
    BY <1>2, <1>3, <1>4 DEF InspectionInv, Local

\* A local step of oci, before there are tasks, keeps it if it keeps oci's own.
LEMMA OciMoves ==
    ASSUME MemoInv, Frozenly, InspectionInv, at[Oci] \in InspectPlaces \union {"top"},
           Local(Oci), InspectorInv(Oci)', OciInv'
    PROVE  InspectionInv'
  <1> USE ThreadsApart
  <1>1. \A u \in Tasks : at[u] = "idle" /\ at'[u] = "idle"
    BY DEF InspectionInv, TaskInv, InspectPlaces, Local
  <1>2. \A u \in Inspectors : InspectorInv(u)'
    <2>1. \A u \in Inspectors \ {Oci} : InspectorInv(u)'
      BY InspectorStays DEF InspectionInv, Local
    <2> QED
      BY <2>1
  <1>3. \A u \in Tasks : TaskInv(u)'
    BY <1>1 DEF TaskInv
  <1> QED
    BY <1>2, <1>3 DEF InspectionInv, Local

\* Whoever inspects: a task or oci.
LEMMA InspectorMoves ==
    ASSUME MemoInv, Frozenly, InspectionInv, NEW t \in Inspectors, at[t] \in InspectPlaces,
           Local(t), InspectorInv(t)',
           t \in Tasks => platforms' = platforms /\ TaskInv(t)',
           t = Oci => OciInv'
    PROVE  InspectionInv'
  BY ThreadsApart, TaskMoves, OciMoves

-----------------------------------------------------------------------------
(* What a reply is to the thread that gets it, and to the rest.            *)

\* t fails and the memo keeps quiet, or t has the answer of the memo.
Answered(t, a) ==
    \/ a \in Failures /\ memo[Question(t)] = NoAnswer /\ UNCHANGED memo
    \/ a \notin Failures /\ Fits(Question(t), a) /\ memo'[Question(t)] = a

\* A reply keeps the registry and the memo in order and frees the lock.
LEMMA TakesReply ==
    ASSUME IInv, NEW t \in Threads, Asks(t), NEW a, Reply(t, Question(t), a),
           UNCHANGED <<registryVars, constVars>>
    PROVE  RegistryInv' /\ MemoInv' /\ InsideInv' /\ Frozenly /\ Answered(t, a)
  <1>1. Question(t) \in Questions
    BY QuestionTyped DEF IInv
  <1>2. before' = before
    BY DEF constVars
  <1>3. inside' = {} /\ Frozenly /\ MemoInv' /\ failures' \in 0 .. MaxFailures /\ Answered(t, a)
    BY <1>1, <1>2, ReplyEffect DEF IInv, Answered
  <1>4. RegistryInv'
    BY <1>3 DEF IInv, RegistryInv, registryVars, constVars
  <1>5. InsideInv'
    BY <1>3 DEF InsideInv
  <1> QED
    BY <1>3, <1>4, <1>5

LEMMA ToldEffect ==
    ASSUME IInv, NEW t \in Threads, Asks(t), NEW p, NEW a, NEW q, Told(t, p, a, q)
    PROVE  /\ RegistryInv' /\ MemoInv' /\ InsideInv' /\ Frozenly /\ Answered(t, a)
           /\ at[t] = p /\ at'[t] = q /\ DOMAIN at' = Threads
           /\ \A u \in Threads \ {t} : at'[u] = at[u]
           /\ UNCHANGED <<reference, requested, before, attached>>
  <1>1. DOMAIN at = Threads
    BY DEF IInv, InspectionInv
  <1> QED
    BY <1>1, TakesReply DEF Told, constVars, registryVars

LEMMA ManifestRead ==
    ASSUME IInv, NEW t \in Inspectors, Asks(t), NEW a, ReadManifest(t, a)
    PROVE  InspectionInv'
  <1> USE ThreadsApart, DigestsTyped
  <1> DEFINE q == <<"manifest", ref[t]>>
  <1>1. InspectionInv /\ MemoInv /\ RegistryInv
    BY DEF IInv
  <1>2. /\ at[t] = "manifest" /\ Question(t) = q /\ q \in Questions
        /\ Frozenly /\ Answered(t, a) /\ DOMAIN at' = Threads
        /\ \A u \in Threads \ {t} : at'[u] = at[u]
        /\ UNCHANGED <<reference, requested>>
    <2>1. at[t] = "manifest"
      BY DEF ReadManifest, Told
    <2>2. ref[t] \in Manifests \union {Tag}
      BY <1>1 DEF InspectionInv
    <2> QED
      BY <2>1, <2>2, ToldEffect DEF ReadManifest, Question, Questions
  <1>3. entry[t] = Nothing /\ InspectorInv(t)
    BY <1>1, <1>2 DEF InspectionInv, InspectorInv
  <1>4. a \notin Failures => a \in Manifests /\ (ref[t] # Tag => a = ref[t])
    BY <1>2 DEF Answered, Fits
  <1>5. t = Oci /\ requested = Unknown => a = seen[Oci] /\ a \notin Index
    <2>1. t = Oci /\ requested = Unknown => ManifestOf(Oci) = seen[Oci] /\ seen[Oci] \in Manifests /\ ~Multi
      BY <1>1, <1>2 DEF InspectionInv, OciInv, InspectPlaces
    <2> QED
      BY <1>2, <2>1 DEF Answered, Frozenly, ManifestOf, Multi
  <1>6. CASE /\ Told(t, "manifest", a, "layers")
             /\ Failed(a) \/ (a \in Index /\ Matches(t, a) = {})
             /\ UNCHANGED <<seen, ociVars, signatureVars>>
    <2>1. at'[t] = "layers" /\ Local(t) /\ platforms' = platforms
      BY <1>1, <1>2, <1>6 DEF Local, InspectionInv, Told, ociVars
    <2>2. InspectorInv(t)'
      BY <1>3, <1>6, <2>1 DEF InspectorInv, Nothing, ociVars
    <2>3. t \in Tasks => TaskInv(t)'
      BY <1>1, <1>2, <1>6, <2>1 DEF InspectionInv, TaskInv, Multi, Local, ociVars, InspectPlaces
    <2>4. t = Oci => OciInv'
      BY <1>1, <1>2, <1>6, <2>1 DEF InspectionInv, OciInv, Multi, Local, ociVars, InspectPlaces
    <2> QED
      BY <1>1, <1>2, <2>1, <2>2, <2>3, <2>4, InspectorMoves DEF InspectPlaces
  <1>7. CASE /\ Told(t, "manifest", a, "child")
             /\ a \in Index /\ Matches(t, a) # {}
             /\ ref' = [ref EXCEPT ![t] = Entries[a][Min(Matches(t, a))].digest]
             /\ UNCHANGED <<seen, entry, platforms, signatureVars>>
    <2>1. at'[t] = "child" /\ ref'[t] \in Manifests /\ Local(t) /\ a \in Manifests /\ a \notin Failures
      BY <1>1, <1>2, <1>7, MatchTyped, EntriesTyped DEF Local, InspectionInv, Told
    <2>2. InspectorInv(t)'
      BY <1>3, <1>7, <2>1 DEF InspectorInv, Nothing
    <2>3. t \in Tasks => TaskInv(t)'
      BY <1>1, <1>2, <1>4, <1>7, <2>1 DEF InspectionInv, TaskInv, Multi, Local, InspectPlaces
    <2>4. t = Oci => OciInv'
      BY <1>1, <1>2, <1>5, <1>7, <2>1 DEF InspectionInv, OciInv, Multi, Local, InspectPlaces
    <2> QED
      BY <1>1, <1>2, <1>7, <2>1, <2>2, <2>3, <2>4, InspectorMoves DEF InspectPlaces
  <1>8. CASE /\ Told(t, "manifest", a, "config")
             /\ ~Failed(a) /\ a \notin Index
             /\ Keep(t, a)
             /\ UNCHANGED <<ociVars, signatureVars>>
    <2>1. at'[t] = "config" /\ seen'[t] = a /\ Local(t) /\ platforms' = platforms
      BY <1>1, <1>2, <1>8 DEF Local, InspectionInv, Told, ociVars, Keep
    <2>2. a \in Manifests /\ ManifestOf(t)' = a
      BY <1>2, <1>4, <1>8 DEF Failed, Answered, ManifestOf, ociVars
    <2>3. InspectorInv(t)'
      BY <1>3, <1>8, <2>1, <2>2 DEF InspectorInv, Nothing, ociVars
    <2>4. t \in Tasks => TaskInv(t)'
      BY <1>1, <1>2, <1>8, <2>1 DEF InspectionInv, TaskInv, Multi, Local, ociVars, InspectPlaces
    <2>5. t = Oci => OciInv'
      BY <1>1, <1>2, <1>8, <2>1 DEF InspectionInv, OciInv, Multi, Local, ociVars, InspectPlaces
    <2> QED
      BY <1>1, <1>2, <2>1, <2>3, <2>4, <2>5, InspectorMoves DEF InspectPlaces
  <1> QED
    BY <1>6, <1>7, <1>8 DEF ReadManifest

\* What an inspector has when it is told something, in one place of these.
LEMMA InspectorTold ==
    ASSUME IInv, NEW t \in Inspectors, Asks(t), NEW p \in InspectPlaces, NEW a, NEW q,
           Told(t, p, a, q)
    PROVE  /\ InspectionInv /\ MemoInv /\ InspectorInv(t) /\ (t \in Tasks => TaskInv(t))
           /\ OciInv /\ at[t] = p /\ at'[t] = q
           /\ Frozenly /\ Answered(t, a) /\ DOMAIN at' = Threads /\ DOMAIN seen = Threads
           /\ \A u \in Threads \ {t} : at'[u] = at[u]
           /\ UNCHANGED <<reference, requested>>
           /\ ref[t] \in Manifests \union {Tag} /\ entry[t] \in EntryType
           /\ ref \in [Inspectors -> Manifests \union {Tag}]
           /\ entry \in [Inspectors -> EntryType]
           /\ ManifestOf(t) # NoAnswer => ManifestOf(t)' = ManifestOf(t) \/ ref'[t] # ref[t]
  <1>1. <<"manifest", ref[t]>> \in Questions
    BY DEF IInv, InspectionInv, Questions
  <1> QED
    BY <1>1, ToldEffect, ThreadsApart, SMTT(30) DEF IInv, InspectionInv, Frozenly, ManifestOf

LEMMA ChildRead ==
    ASSUME IInv, NEW t \in Inspectors, Asks(t), NEW a, ReadChild(t, a)
    PROVE  InspectionInv'
  <1> USE ThreadsApart, DigestsTyped
  <1>1. Told(t, "child", a, IF Failed(a) THEN "layers" ELSE "config")
        /\ "child" \in InspectPlaces
    BY DEF ReadChild, InspectPlaces
  <1>2. /\ InspectionInv /\ MemoInv /\ InspectorInv(t) /\ (t \in Tasks => TaskInv(t))
        /\ OciInv /\ at[t] = "child"
        /\ at'[t] = IF Failed(a) THEN "layers" ELSE "config"
        /\ Frozenly /\ Answered(t, a) /\ DOMAIN at' = Threads /\ DOMAIN seen = Threads
        /\ \A u \in Threads \ {t} : at'[u] = at[u]
        /\ UNCHANGED <<reference, requested>>
        /\ ref \in [Inspectors -> Manifests \union {Tag}] /\ entry \in [Inspectors -> EntryType]
    BY <1>1, InspectorTold, SMTT(30)
  <1>3. Local(t) /\ UNCHANGED ociVars
    BY <1>2 DEF Local, ReadChild, ociVars, Keep
  <1>4. ~Failed(a) => seen'[t] = a /\ a \in Manifests /\ ManifestOf(t)' = a
    BY <1>2, <1>3 DEF ReadChild, Keep, Failed, Answered, Question, Fits, ManifestOf, ociVars
  <1>5. InspectorInv(t)'
    BY <1>2, <1>3, <1>4 DEF InspectorInv, Nothing, ociVars
  <1>6. t \in Tasks => TaskInv(t)'
    BY <1>2, <1>3 DEF TaskInv, Multi, Local, ociVars, InspectPlaces
  <1>7. t = Oci => OciInv'
    BY <1>2, <1>3 DEF OciInv, Multi, Local, ociVars, InspectPlaces
  <1> QED
    BY <1>1, <1>2, <1>3, <1>5, <1>6, <1>7, InspectorMoves DEF ociVars

LEMMA ConfigRead ==
    ASSUME IInv, NEW t \in Inspectors, Asks(t), NEW a, ReadConfig(t, a)
    PROVE  InspectionInv'
  <1> USE ThreadsApart, DigestsTyped
  <1>1. Told(t, "config", a, "layers") /\ "config" \in InspectPlaces
    BY DEF ReadConfig, InspectPlaces
  <1>2. /\ InspectionInv /\ MemoInv /\ InspectorInv(t) /\ (t \in Tasks => TaskInv(t))
        /\ OciInv /\ at[t] = "config" /\ at'[t] = "layers"
        /\ Frozenly /\ Answered(t, a) /\ DOMAIN at' = Threads /\ DOMAIN seen = Threads
        /\ \A u \in Threads \ {t} : at'[u] = at[u]
        /\ UNCHANGED <<reference, requested>>
        /\ ref \in [Inspectors -> Manifests \union {Tag}] /\ entry \in [Inspectors -> EntryType]
        /\ ManifestOf(t) # NoAnswer => ManifestOf(t)' = ManifestOf(t) \/ ref'[t] # ref[t]
    BY <1>1, InspectorTold, SMTT(30)
  <1>3. seen[t] \in Manifests /\ ManifestOf(t) = seen[t] /\ ManifestOf(t)' = seen[t]
    BY <1>2 DEF InspectorInv, ReadConfig
  <1>4. ~Failed(a) => a = seen[t]
    BY <1>2 DEF Failed, Answered, Question, Fits
  <1>5. entry'[t] \in EntryType /\ entry'[t].config \in {NoAnswer, seen[t]}
        /\ entry'[t].layers = NoAnswer
    <2>1. entry[t] = Nothing
      BY <1>2 DEF InspectorInv
    <2>2. entry'[t] = entry[t] \/ entry'[t] = [Nothing EXCEPT !.config = seen[t]]
      BY <1>2, <1>4, <2>1 DEF ReadConfig
    <2> QED
      BY <1>3, <2>1, <2>2 DEF Nothing, EntryType
  <1>6. Local(t) /\ UNCHANGED <<platforms, ref, seen>>
    BY <1>2, <1>5 DEF Local, ReadConfig
  <1>7. InspectorInv(t)'
    BY <1>2, <1>3, <1>5, <1>6 DEF InspectorInv
  <1>8. t \in Tasks => TaskInv(t)'
    BY <1>2, <1>6 DEF TaskInv, Multi, Local, InspectPlaces
  <1>9. t = Oci => OciInv'
    BY <1>2, <1>6 DEF OciInv, Multi, Local, InspectPlaces
  <1> QED
    BY <1>1, <1>2, <1>6, <1>7, <1>8, <1>9, InspectorMoves

LEMMA LayersRead ==
    ASSUME IInv, NEW t \in Inspectors, Asks(t), NEW a, ReadLayers(t, a)
    PROVE  InspectionInv'
  <1> USE ThreadsApart, DigestsTyped
  <1> DEFINE e == IF Failed(a) THEN entry[t] ELSE [entry[t] EXCEPT !.layers = a]
             d == [e EXCEPT !.digest = ref[t]]
  <1>1. PICK q : /\ Told(t, "layers", a, q) /\ "layers" \in InspectPlaces
                 /\ q = IF ref[t] = Tag THEN "digest" ELSE Inspected(t)
    BY DEF ReadLayers, InspectPlaces
  <1>2. /\ InspectionInv /\ MemoInv /\ InspectorInv(t) /\ (t \in Tasks => TaskInv(t))
        /\ OciInv /\ at[t] = "layers" /\ at'[t] = q
        /\ Frozenly /\ Answered(t, a) /\ DOMAIN at' = Threads /\ DOMAIN seen = Threads
        /\ \A u \in Threads \ {t} : at'[u] = at[u]
        /\ UNCHANGED <<reference, requested>>
        /\ ref \in [Inspectors -> Manifests \union {Tag}] /\ entry \in [Inspectors -> EntryType]
        /\ entry[t] \in EntryType
        /\ ManifestOf(t) # NoAnswer => ManifestOf(t)' = ManifestOf(t) \/ ref'[t] # ref[t]
    BY <1>1, InspectorTold, SMTT(30)
  <1>3. UNCHANGED <<ref, seen>>
    BY DEF ReadLayers
  <1>4. ~Failed(a) => a \in Manifests /\ ManifestOf(t)' = a
    BY <1>2, <1>3 DEF Failed, Answered, Question, Fits, ManifestOf
  <1>5. /\ e \in EntryType
        /\ e.config \in {NoAnswer, ManifestOf(t)'}
        /\ e.layers \in {NoAnswer, ManifestOf(t)'}
    <2>1. entry[t].config \in {NoAnswer, ManifestOf(t)'}
          /\ entry[t].layers \in {NoAnswer, ManifestOf(t)'}
      BY <1>2, <1>3 DEF InspectorInv
    <2> QED
      BY <1>2, <1>4, <2>1 DEF EntryType
  <1>6. CASE ref[t] = Tag
    <2>1. t = Oci
      BY <1>2, <1>6 DEF TaskInv
    <2>2. /\ entry' = [entry EXCEPT ![t] = e] /\ platforms' = platforms /\ at'[t] = "digest"
      BY <1>1, <1>2, <1>6 DEF ReadLayers
    <2>3. Local(t)
      BY <1>2, <1>3, <1>5, <2>2 DEF Local
    <2>4. InspectorInv(t)'
      BY <1>2, <1>5, <2>2 DEF InspectorInv
    <2>5. OciInv'
      BY <1>2, <1>3, <2>1, <2>2 DEF OciInv, Multi, InspectPlaces
    <2> QED
      BY <1>1, <1>2, <2>1, <2>3, <2>4, <2>5, InspectorMoves
  <1>7. CASE ref[t] # Tag
    <2>1. /\ entry' = [entry EXCEPT ![t] = d] /\ at'[t] = Inspected(t)
          /\ platforms' = IF t = Oci THEN <<d>> ELSE platforms
      BY <1>1, <1>2, <1>7 DEF ReadLayers, Report
    <2>2. /\ d \in EntryType /\ d.config = e.config /\ d.layers = e.layers /\ d.digest = ref[t]
      BY <1>2, <1>5, <1>7 DEF EntryType
    <2>3. entry'[t] = d
      BY <1>2, <2>1
    <2> HIDE DEF d, e
    <2>4. Local(t)
      BY <1>2, <1>3, <2>1, <2>2 DEF Local
    <2>5. InspectorInv(t)'
      BY <1>2, <1>5, <2>1, <2>2, <2>3 DEF InspectorInv, Inspected
    <2>6. t = Oci => OciInv'
      BY <1>2, <1>3, <2>1, <2>3 DEF OciInv, Multi, InspectPlaces, Inspected
    <2>7. t \in Tasks => TaskInv(t)'
      BY <1>2, <1>3, <2>1, <2>2, <2>3 DEF TaskInv, Multi, InspectPlaces, Inspected
    <2> QED
      BY <1>1, <1>2, <2>1, <2>4, <2>5, <2>6, <2>7, InspectorMoves
  <1> QED
    BY <1>6, <1>7

LEMMA DigestRead ==
    ASSUME IInv, NEW t \in Inspectors, Asks(t), NEW a, ReadDigest(t, a)
    PROVE  InspectionInv'
  <1> USE ThreadsApart, DigestsTyped
  <1> DEFINE d == [entry[t] EXCEPT !.digest = IF Failed(a) THEN NoDigest ELSE a]
  <1>1. PICK q : q = Inspected(t) /\ Told(t, "digest", a, q) /\ "digest" \in InspectPlaces
    BY DEF ReadDigest, InspectPlaces
  <1>2. /\ InspectionInv /\ MemoInv /\ InspectorInv(t) /\ (t \in Tasks => TaskInv(t))
        /\ OciInv /\ at[t] = "digest" /\ at'[t] = Inspected(t)
        /\ Frozenly /\ Answered(t, a) /\ DOMAIN at' = Threads /\ DOMAIN seen = Threads
        /\ \A u \in Threads \ {t} : at'[u] = at[u]
        /\ UNCHANGED <<reference, requested>>
        /\ ref \in [Inspectors -> Manifests \union {Tag}] /\ entry \in [Inspectors -> EntryType]
        /\ entry[t] \in EntryType
        /\ ManifestOf(t) # NoAnswer => ManifestOf(t)' = ManifestOf(t) \/ ref'[t] # ref[t]
    BY <1>1, InspectorTold, SMTT(30)
  <1>3. UNCHANGED <<ref, seen>>
    BY DEF ReadDigest
  <1>4. t = Oci /\ at'[t] = "tags"
    BY <1>2 DEF TaskInv, InspectPlaces, Inspected
  <1>5. ~Failed(a) => a \in Manifests \union {NoDigest}
    BY <1>2 DEF Failed, Answered, Question, Fits
  <1>6. /\ entry' = [entry EXCEPT ![t] = d] /\ platforms' = <<d>>
    BY <1>4 DEF ReadDigest, Report
  <1>7. d \in EntryType /\ d.config = entry[t].config /\ d.layers = entry[t].layers
    BY <1>2, <1>5 DEF EntryType
  <1>8. entry'[t] = d
    BY <1>2, <1>6
  <1> HIDE DEF d
  <1>9. Local(t)
    BY <1>2, <1>3, <1>6, <1>7 DEF Local
  <1>10. InspectorInv(t)'
    BY <1>2, <1>3, <1>4, <1>7, <1>8 DEF InspectorInv
  <1>11. OciInv'
    BY <1>2, <1>3, <1>4, <1>6, <1>8 DEF OciInv, Multi, InspectPlaces
  <1> QED
    BY <1>1, <1>2, <1>4, <1>9, <1>10, <1>11, InspectorMoves

\* The first manifest: one inspection, or a task for each real entry.
LEMMA TopRead ==
    ASSUME IInv, Asks(Oci), NEW a, ReadTop(a)
    PROVE  InspectionInv'
  <1> USE ThreadsApart, DigestsTyped
  <1> DEFINE q == <<"manifest", reference>>
  <1>1. InspectionInv /\ MemoInv /\ RegistryInv
    BY DEF IInv
  <1>2. /\ at[Oci] = "top" /\ Question(Oci) = q /\ Frozenly /\ Answered(Oci, a)
        /\ UNCHANGED <<reference, requested, entry, platforms>>
    <2>1. at[Oci] = "top" /\ UNCHANGED <<registryVars, constVars, entry, platforms>>
          /\ Reply(Oci, Question(Oci), a)
      BY DEF ReadTop
    <2> QED
      BY <2>1, TakesReply DEF Question, constVars
  <1>3. /\ entry[Oci] = Nothing /\ InspectorInv(Oci) /\ OciInv /\ platforms = <<>>
        /\ \A u \in Tasks : at[u] = "idle" /\ TaskInv(u)
        /\ \A u \in Inspectors : InspectorInv(u) /\ ref[u] \in Manifests \union {Tag}
        /\ DOMAIN at = Threads /\ DOMAIN seen = Threads
        /\ entry \in [Inspectors -> EntryType] /\ ref \in [Inspectors -> Manifests \union {Tag}]
    BY <1>1, <1>2 DEF InspectionInv, InspectorInv, OciInv, TaskInv, InspectPlaces
  <1>4. ~Failed(a) => a \in Manifests /\ memo'[q] = a
    BY <1>2 DEF Failed, Answered, Fits
  <1>5. CASE /\ Failed(a) /\ at' = [at EXCEPT ![Oci] = "failed"] /\ UNCHANGED <<seen, ref>>
    <2>1. Local(Oci)
      BY <1>2, <1>3, <1>5 DEF Local
    <2>2. InspectorInv(Oci)'
      BY <1>2, <1>3, <1>5 DEF InspectorInv, Nothing
    <2>3. OciInv'
      BY <1>2, <1>3, <1>5 DEF OciInv, InspectPlaces
    <2> QED
      BY <1>1, <1>2, <2>1, <2>2, <2>3, OciMoves
  <1>6. CASE /\ ~Failed(a) /\ (requested # Unknown \/ a \notin Index)
             /\ at' = [at EXCEPT ![Oci] = "manifest"]
             /\ ref' = [ref EXCEPT ![Oci] = reference]
             /\ Keep(Oci, a)
    <2>1. Local(Oci) /\ at'[Oci] = "manifest" /\ seen'[Oci] = a /\ ref'[Oci] = reference
      BY <1>1, <1>2, <1>3, <1>6 DEF Local, Keep, RegistryInv
    <2>2. InspectorInv(Oci)'
      BY <1>2, <1>3, <2>1 DEF InspectorInv, Nothing
    <2>3. ManifestOf(Oci)' = a
      BY <1>2, <1>4, <1>6, <2>1 DEF ManifestOf
    <2>4. OciInv'
      BY <1>2, <1>3, <1>4, <1>6, <2>1, <2>3 DEF OciInv, InspectPlaces, Multi
    <2> QED
      BY <1>1, <1>2, <2>1, <2>2, <2>4, OciMoves
  <1>7. CASE /\ requested = Unknown /\ a \in Index
             /\ at' = [t \in Threads |-> IF t = Oci THEN "join"
                                         ELSE IF t \in RealPlatforms(a) THEN "manifest"
                                         ELSE at[t]]
             /\ ref' = [t \in Inspectors |-> IF t \in RealPlatforms(a)
                                               THEN Entries[a][t].digest ELSE ref[t]]
             /\ Keep(Oci, a)
    <2>1. /\ DOMAIN at' = Threads /\ DOMAIN seen' = Threads /\ seen'[Oci] = a
          /\ \A u \in Threads \ {Oci} : seen'[u] = seen[u]
          /\ at'[Oci] = "join" /\ Multi'
      BY <1>2, <1>3, <1>7 DEF Keep, Multi
    <2>2. \A u \in RealPlatforms(a) : /\ u \in Tasks /\ Entries[a][u].digest \in Manifests
                                      /\ Entries[a][u].digest # Tag
      BY <1>7, EntriesTyped DEF RealPlatforms
    <2>3. ref' \in [Inspectors -> Manifests \union {Tag}]
      BY <1>3, <1>7, <2>2
    <2>4. Oci \notin RealPlatforms(a)
      BY <2>2
    <2>5. ASSUME NEW u \in Inspectors PROVE InspectorInv(u)'
      <3>1. CASE u = Oci
        BY <1>2, <1>3, <2>1, <3>1 DEF InspectorInv, Nothing
      <3>2. CASE u \in RealPlatforms(a)
        <4>1. at'[u] = "manifest" /\ entry'[u] = Nothing
          BY <1>2, <1>3, <1>7, <2>4, <3>2 DEF InspectorInv
        <4> QED
          BY <4>1 DEF InspectorInv, Nothing
      <3>3. CASE u # Oci /\ u \notin RealPlatforms(a)
        BY <1>1, <1>2, <1>3, <1>7, <2>1, <3>3, InspectorStays
      <3> QED
        BY <3>1, <3>2, <3>3
    <2>6. ASSUME NEW u \in Tasks PROVE TaskInv(u)'
      <3>1. CASE u \in RealPlatforms(a)
        BY <1>7, <2>1, <2>2, <3>1 DEF TaskInv, InspectPlaces
      <3>2. CASE u \notin RealPlatforms(a)
        BY <1>3, <1>7, <3>2 DEF TaskInv
      <3> QED
        BY <3>1, <3>2
    <2>7. OciInv'
      BY <1>2, <1>3, <2>1 DEF OciInv, InspectPlaces
    <2> QED
      BY <1>2, <1>3, <2>1, <2>3, <2>5, <2>6, <2>7 DEF InspectionInv
  <1> QED
    BY <1>5, <1>6, <1>7 DEF ReadTop

\* Oci reads what its tasks have found.
LEMMA JoinKeeps ==
    ASSUME IInv, Join
    PROVE  InspectionInv'
  <1> USE ThreadsApart, DigestsTyped
  <1>1. /\ InspectionInv /\ MemoInv /\ OciInv
        /\ \A t \in Tasks : TaskInv(t)
        /\ \A t \in Inspectors : InspectorInv(t) /\ ref[t] \in Manifests \union {Tag}
        /\ DOMAIN at = Threads
    BY DEF IInv, InspectionInv
  <1>2. /\ at[Oci] = "join" /\ at' = [at EXCEPT ![Oci] = "tags"]
        /\ \A t \in RealPlatforms(seen[Oci]) : at[t] = "inspected"
        /\ platforms' = [t \in RealPlatforms(seen[Oci]) |-> entry[t]]
        /\ UNCHANGED <<memo, requested, seen, ref, entry>> /\ Frozenly
    BY DEF Join, TaskOver, cacheVars, constVars, Frozenly
  <1>3. Multi /\ Multi'
    BY <1>1, <1>2 DEF OciInv, Multi
  <1>4. \A t \in RealPlatforms(seen[Oci]) : t \in Tasks
    BY <1>3, EntriesTyped DEF Multi, RealPlatforms
  <1>5. OciInv'
    <2>1. \A t \in RealPlatforms(seen'[Oci]) : at'[t] = "inspected"
      BY <1>1, <1>2, <1>4
    <2> QED
      BY <1>1, <1>2, <1>3, <2>1 DEF OciInv, InspectPlaces
  <1>6. ASSUME NEW t \in Inspectors PROVE InspectorInv(t)'
    <2>1. CASE t = Oci
      BY <1>1, <1>2, <2>1 DEF InspectorInv, ManifestOf
    <2>2. CASE t # Oci
      BY <1>1, <1>2, <2>2, InspectorStays
    <2> QED
      BY <2>1, <2>2
  <1>7. \A t \in Tasks : TaskInv(t)'
    BY <1>1, <1>2, <1>3 DEF TaskInv
  <1> QED
    BY <1>1, <1>2, <1>5, <1>6, <1>7 DEF InspectionInv

LEMMA TagsRead ==
    ASSUME IInv, Asks(Oci), NEW a, ReadTags(a)
    PROVE  InspectionInv'
  <1> USE ThreadsApart, DigestsTyped
  <1>1. /\ InspectionInv /\ MemoInv /\ OciInv
        /\ \A t \in Tasks : TaskInv(t)
        /\ \A t \in Inspectors : InspectorInv(t) /\ ref[t] \in Manifests \union {Tag}
    BY DEF IInv, InspectionInv
  <1>2. /\ at[Oci] = "tags" /\ at'[Oci] = "done" /\ DOMAIN at' = Threads
        /\ \A u \in Threads \ {Oci} : at'[u] = at[u]
        /\ UNCHANGED <<requested, seen, ref, entry, platforms>> /\ Frozenly
    BY ToldEffect, SMTT(30) DEF ReadTags, ociVars
  <1>3. OciInv'
    <2>1. Multi' <=> Multi
      BY <1>2 DEF Multi
    <2>2. Multi => \A t \in RealPlatforms(seen[Oci]) : t \in Tasks
      BY EntriesTyped DEF Multi, RealPlatforms
    <2>3. Multi => \A t \in RealPlatforms(seen'[Oci]) : at[t] = "inspected" => at'[t] = "inspected"
      BY <1>2, <2>2
    <2> QED
      BY <1>1, <1>2, <2>1, <2>3 DEF OciInv, InspectPlaces
  <1>4. ASSUME NEW t \in Inspectors PROVE InspectorInv(t)'
    <2>1. CASE t = Oci
      <3>1. <<"manifest", ref[t]>> \in Questions
        BY <1>1 DEF Questions
      <3>2. ManifestOf(t) # NoAnswer => ManifestOf(t)' = ManifestOf(t)
        BY <1>2, <3>1 DEF Frozenly, ManifestOf
      <3> QED
        BY <1>1, <1>2, <2>1, <3>2 DEF InspectorInv
    <2>2. CASE t # Oci
      BY <1>1, <1>2, <2>2, InspectorStays
    <2> QED
      BY <2>1, <2>2
  <1>5. \A t \in Tasks : TaskInv(t)'
    BY <1>1, <1>2 DEF TaskInv, Multi
  <1> QED
    BY <1>1, <1>2, <1>3, <1>4, <1>5 DEF InspectionInv

-----------------------------------------------------------------------------
(* provenance.                                                             *)

\* Steps elsewhere, and changes of the registry, keep what provenance knows.
LEMMA ProvenanceStays ==
    ASSUME ProvenanceInv, DOMAIN at' = Threads, DOMAIN seen' = Threads,
           at'[Provenance] = at[Provenance], seen'[Provenance] = seen[Provenance],
           UNCHANGED <<signatureVars, reference, before>>, attached \subseteq attached'
    PROVE  ProvenanceInv'
  <1>1. \A s : Confirms(s) => Confirms(s)'
    BY DEF Confirms, signatureVars
  <1>2. Complete => Complete'
    BY DEF Complete, GenuineBefore, BundlesBefore, LegacyBefore, signatureVars
  <1> QED
    BY <1>1, <1>2 DEF ProvenanceInv, signatureVars

\* A list with its head taken off.
LEMMA ElementsOfTail ==
    ASSUME NEW S, NEW s \in Seq(S), s # <<>>
    PROVE  /\ Head(s) \in S /\ Tail(s) \in Seq(S)
           /\ Elements(s) \subseteq {Head(s)} \union Elements(Tail(s))
  <1>1. Head(s) = s[1] /\ Head(s) \in S /\ Tail(s) \in Seq(S) /\ Len(Tail(s)) = Len(s) - 1
    BY HeadTailProperties
  <1>2. ASSUME NEW n \in DOMAIN s, n # 1
        PROVE  s[n] \in Elements(Tail(s))
    <2>1. n \in 2 .. Len(s) /\ n - 1 \in 1 .. Len(s) - 1
      BY <1>2
    <2>2. n - 1 \in DOMAIN Tail(s)
      BY <1>1, <2>1
    <2>3. Tail(s)[n - 1] = s[n]
      BY <1>1, <2>1, HeadTailProperties
    <2> QED
      BY <2>2, <2>3 DEF Elements
  <1> QED
    BY <1>1, <1>2 DEF Elements

\* What provenance has when it is told something.
LEMMA ProvenanceTold ==
    ASSUME IInv, Asks(Provenance), NEW p, NEW a, NEW q, Told(Provenance, p, a, q)
    PROVE  /\ ProvenanceInv /\ at[Provenance] = p /\ at'[Provenance] = q
           /\ DOMAIN at' = Threads /\ DOMAIN seen = Threads
           /\ Answered(Provenance, a) /\ reference \in Images \union {Tag}
           /\ UNCHANGED <<reference, before, attached>>
  BY ToldEffect, ThreadsApart DEF IInv, ProvenanceInv, RegistryInv

LEMMA LabelsRead ==
    ASSUME IInv, Asks(Provenance), NEW a,
           ReadLabels(a) \/ ReadLabelChild(a) \/ ReadLabelConfig(a)
    PROVE  ProvenanceInv'
  <1> USE ThreadsApart, DigestsTyped
  <1>1. PICK p, q : /\ Told(Provenance, p, a, q)
                    /\ \/ /\ ReadLabels(a) /\ p = "labels"
                          /\ q = IF Failed(a) \/ (a \in Index /\ DOMAIN Entries[a] = {})
                                 THEN AfterLabels
                                 ELSE IF a \in Index THEN "label child" ELSE "label config"
                       \/ /\ ReadLabelChild(a) /\ p = "label child"
                          /\ q = IF Failed(a) THEN AfterLabels ELSE "label config"
                       \/ ReadLabelConfig(a) /\ p = "label config" /\ q = AfterLabels
    BY DEF ReadLabels, ReadLabelChild, ReadLabelConfig
  <1>2. /\ ProvenanceInv /\ at[Provenance] = p /\ at'[Provenance] = q
        /\ DOMAIN at' = Threads /\ DOMAIN seen = Threads
        /\ Answered(Provenance, a) /\ reference \in Images \union {Tag}
        /\ UNCHANGED <<reference, before, attached>>
    BY <1>1, ProvenanceTold
  <1>3. /\ seen' = seen \/ seen' = [seen EXCEPT ![Provenance] = a]
        /\ UNCHANGED <<subject, todo, found, gap, unconfirmed, signers>>
    BY <1>1 DEF ReadLabels, ReadLabelChild, ReadLabelConfig, Keep, signatureVars
  <1>4. q \in {"label child", "label config", AfterLabels}
    BY <1>1
  <1>5. q = "label child" =>
           seen'[Provenance] \in Index /\ 1 \in DOMAIN Entries[seen'[Provenance]]
    <2>1. q = "label child" => a \in Index /\ DOMAIN Entries[a] # {} /\ seen'[Provenance] = a
      BY <1>1, <1>2 DEF AfterLabels, ReadLabels, Keep
    <2>2. a \in Index /\ DOMAIN Entries[a] # {} => 1 \in DOMAIN Entries[a]
      BY ImagesAssumption
    <2> QED
      BY <2>1, <2>2
  <1>6. q = "label config" => seen'[Provenance] \in Manifests
    <2>1. q = "label config" => ~Failed(a) /\ p \in {"labels", "label child"}
             /\ seen'[Provenance] = a
      BY <1>1, <1>2 DEF AfterLabels, ReadLabels, ReadLabelChild, Keep
    <2>2. p \in {"labels", "label child"} => Question(Provenance)[1] = "manifest"
      BY <1>2 DEF Question
    <2> QED
      BY <1>2, <2>1, <2>2 DEF Answered, Fits, Failed
  <1>7. signers' = {} /\ subject' = IF reference = Tag THEN NoDigest ELSE reference
    BY <1>1, <1>2, <1>3 DEF ProvenanceInv, LabelPlaces
  <1>8. Complete'
    BY <1>2, <1>4 DEF Complete, AfterLabels
  <1> QED
    BY <1>2, <1>3, <1>4, <1>5, <1>6, <1>7, <1>8
       DEF ProvenanceInv, LabelPlaces, LookupPlaces, AfterLabels

LEMMA SubjectRead ==
    ASSUME IInv, Asks(Provenance), NEW a, ReadSubject(a)
    PROVE  ProvenanceInv'
  <1> USE ThreadsApart, DigestsTyped
  <1>1. PICK q : /\ Told(Provenance, "subject", a, q)
                 /\ \/ q = "done" /\ gap' = TRUE /\ subject' = subject
                    \/ q = "failed" /\ gap' = gap /\ subject' = subject
                    \/ /\ ~Failed(a) /\ subject' = a
                       /\ q = IF a = NoDigest THEN "done" ELSE "referrers"
                       /\ gap' = (a = NoDigest)
    BY DEF ReadSubject, GapAt
  <1>2. /\ ProvenanceInv /\ at[Provenance] = "subject" /\ at'[Provenance] = q
        /\ DOMAIN at' = Threads /\ DOMAIN seen = Threads
        /\ Answered(Provenance, a)
        /\ UNCHANGED <<reference, before, attached>>
    BY <1>1, ProvenanceTold
  <1>3. UNCHANGED <<seen, todo, found, unconfirmed, signers>>
    BY DEF ReadSubject
  <1>4. ~Failed(a) => a \in Images \union {NoDigest}
    BY <1>2 DEF Answered, Question, Fits, Failed
  <1>5. subject' \in Images \union {NoDigest} /\ (q = "referrers" => subject' \in Images)
    BY <1>1, <1>2, <1>4 DEF ProvenanceInv
  <1>6. signers' = {} /\ q \in {"done", "failed", "referrers"} /\ gap' \in BOOLEAN
    BY <1>1, <1>2, <1>3 DEF ProvenanceInv, LabelPlaces
  <1>7. gap' \/ Complete'
    BY <1>1, <1>2 DEF Complete
  <1> QED
    BY <1>2, <1>3, <1>5, <1>6, <1>7 DEF ProvenanceInv, LabelPlaces, LookupPlaces

\* A failed lookup of provenance is a gap, or ends the analyzer.
LEMMA LookupFails ==
    ASSUME IInv, Asks(Provenance), NEW p \in LookupPlaces, NEW a, NEW q \in {"tags", "verify"},
           GapAt(p, a, q), UNCHANGED <<seen, subject, todo, found, signers>>,
           unconfirmed' = unconfirmed \/ unconfirmed' \subseteq Signers
    PROVE  ProvenanceInv'
  <1> USE ThreadsApart, DigestsTyped
  <1>1. PICK r : /\ Told(Provenance, p, a, r)
                 /\ (r = q /\ gap' = TRUE) \/ (r = "failed" /\ gap' = gap)
    BY DEF GapAt
  <1>2. /\ ProvenanceInv /\ at[Provenance] = p /\ at'[Provenance] = r
        /\ DOMAIN at' = Threads /\ DOMAIN seen = Threads
        /\ UNCHANGED <<reference, before, attached>>
    BY <1>1, ProvenanceTold
  <1>3. gap' \/ Complete'
    BY <1>1, <1>2 DEF Complete
  <1>4. signers' = {}
    BY <1>2 DEF ProvenanceInv
  <1> QED
    BY <1>1, <1>2, <1>3, <1>4 DEF ProvenanceInv, LabelPlaces, LookupPlaces

LEMMA ReferrersRead ==
    ASSUME IInv, Asks(Provenance), NEW a, ReadReferrers(a)
    PROVE  ProvenanceInv'
  <1> USE ThreadsApart, DigestsTyped
  <1>1. CASE /\ GapAt("referrers", a, "tags")
             /\ UNCHANGED <<seen, ociVars, subject, todo, found, unconfirmed, signers>>
    BY <1>1, LookupFails DEF LookupPlaces
  <1>2. CASE /\ Told(Provenance, "referrers", a, NextReferrer(a))
             /\ ~Failed(a)
             /\ todo' = a
             /\ UNCHANGED <<seen, ociVars, subject, found, gap, unconfirmed, signers>>
    <2>1. PICK q : q = NextReferrer(a) /\ Told(Provenance, "referrers", a, q)
      BY <1>2
    <2>2. /\ ProvenanceInv /\ at[Provenance] = "referrers" /\ at'[Provenance] = q
          /\ DOMAIN at' = Threads /\ DOMAIN seen = Threads
          /\ Answered(Provenance, a)
          /\ UNCHANGED <<reference, before, attached>>
      BY <2>1, ProvenanceTold
    <2>3. a \in Seq(Attachments) /\ BundlesBefore(subject) \subseteq Elements(a)
      BY <1>2, <2>2 DEF Answered, Question, Fits, Failed
    <2>4. signers' = {} /\ subject' \in Images
      BY <1>2, <2>2 DEF ProvenanceInv, LookupPlaces
    <2>5. q = IF a = <<>> THEN "tags" ELSE "referrer"
      BY <2>1 DEF NextReferrer
    <2>6. BundlesBefore(subject)' = BundlesBefore(subject)
      BY <1>2, <2>2 DEF BundlesBefore
    <2>7. Complete'
      BY <1>2, <2>2, <2>3, <2>5, <2>6 DEF Complete, Elements
    <2> QED
      BY <1>2, <2>2, <2>3, <2>4, <2>5, <2>7 DEF ProvenanceInv, LabelPlaces, LookupPlaces
  <1> QED
    BY <1>1, <1>2 DEF ReadReferrers

LEMMA ReferrerRead ==
    ASSUME IInv, Asks(Provenance), NEW a, ReadReferrer(a) \/ ReadBundle(a)
    PROVE  ProvenanceInv'
  <1> USE ThreadsApart, DigestsTyped
  <1>1. CASE \/ GapAt("referrer", a, "tags") \/ GapAt("bundle", a, "tags")
    <2>1. UNCHANGED <<seen, subject, todo, found, unconfirmed, signers>>
      BY <1>1, ProvenanceTold DEF ReadReferrer, ReadBundle, GapAt, Failed, Failures
    <2> QED
      BY <1>1, <2>1, LookupFails DEF LookupPlaces
  <1>2. CASE /\ Told(Provenance, "referrer", a, "bundle")
             /\ ~Failed(a) /\ Layout[a] = "bundle"
             /\ UNCHANGED <<seen, ociVars, signatureVars>>
    <2>1. /\ ProvenanceInv /\ at[Provenance] = "referrer" /\ at'[Provenance] = "bundle"
          /\ DOMAIN at' = Threads /\ DOMAIN seen = Threads
          /\ Answered(Provenance, a)
          /\ UNCHANGED <<reference, before, attached, seen, subject, todo, found, gap,
                         unconfirmed, signers>>
      BY <1>2, ProvenanceTold DEF signatureVars
    <2>2. a = Head(todo)
      <3>1. Head(todo) \in Attachments
        BY <2>1, ElementsOfTail DEF ProvenanceInv
      <3> QED
        BY <1>2, <2>1, <3>1 DEF Answered, Question, Fits, Failed
    <2>3. BundlesBefore(subject)' = BundlesBefore(subject)
      BY <2>1 DEF BundlesBefore
    <2>4. Complete => Complete'
      BY <2>1, <2>3 DEF Complete
    <2>5. signers' = {}
      BY <2>1 DEF ProvenanceInv, LookupPlaces
    <2> QED
      BY <1>2, <2>1, <2>2, <2>4, <2>5 DEF ProvenanceInv, LabelPlaces, LookupPlaces
  <1>3. CASE \E p \in {"referrer", "bundle"} :
                /\ Told(Provenance, p, a, NextReferrer(Tail(todo)))
                /\ ~Failed(a) /\ todo' = Tail(todo)
                /\ \/ p = "referrer" /\ Layout[a] = "other" /\ found' = found
                   \/ p = "bundle" /\ found' = found \union {a}
                /\ UNCHANGED <<seen, subject, gap, unconfirmed, signers>>
    <2>1. PICK p, q :
                /\ p \in {"referrer", "bundle"} /\ q = NextReferrer(Tail(todo))
                /\ Told(Provenance, p, a, q)
                /\ \/ p = "referrer" /\ Layout[a] = "other" /\ found' = found
                   \/ p = "bundle" /\ found' = found \union {a}
      BY <1>3
    <2>2. /\ ProvenanceInv /\ at[Provenance] = p /\ at'[Provenance] = q
          /\ DOMAIN at' = Threads /\ DOMAIN seen = Threads
          /\ Answered(Provenance, a) /\ ~Failed(a) /\ todo' = Tail(todo)
          /\ UNCHANGED <<reference, before, attached, seen, subject, gap, unconfirmed, signers>>
      BY <1>3, <2>1, ProvenanceTold
    <2>3. /\ todo # <<>> /\ Head(todo) \in Attachments /\ Tail(todo) \in Seq(Attachments)
          /\ Elements(todo) \subseteq {Head(todo)} \union Elements(Tail(todo))
      BY <2>1, <2>2, ElementsOfTail DEF ProvenanceInv
    <2>4. a = Head(todo)
      BY <2>1, <2>2, <2>3 DEF Answered, Question, Fits, Failed
    <2>5. BundlesBefore(subject)' = BundlesBefore(subject)
      BY <2>2 DEF BundlesBefore
    <2>6. q = IF Tail(todo) = <<>> THEN "tags" ELSE "referrer"
      BY <2>1 DEF NextReferrer
    <2>7. Complete => BundlesBefore(subject) \subseteq found' \union Elements(Tail(todo))
      <3>1. Complete => BundlesBefore(subject) \subseteq found \union Elements(todo)
        BY <2>1, <2>2 DEF Complete
      <3>2. a \in BundlesBefore(subject) => a \in found'
        BY <2>1 DEF BundlesBefore
      <3> QED
        BY <2>1, <2>3, <2>4, <3>1, <3>2
    <2>8. Complete => Complete'
      BY <2>2, <2>5, <2>6, <2>7 DEF Complete, Elements
    <2>9. signers' = {} /\ subject' \in Images /\ found' \subseteq Attachments
      BY <2>1, <2>2, <2>3, <2>4 DEF ProvenanceInv, LookupPlaces
    <2> QED
      BY <2>2, <2>3, <2>6, <2>8, <2>9 DEF ProvenanceInv, LabelPlaces, LookupPlaces
  <1>4. CASE ReadReferrer(a)
    BY <1>1, <1>2, <1>3, <1>4 DEF ReadReferrer
  <1>5. CASE ReadBundle(a)
    BY <1>1, <1>3, <1>5 DEF ReadBundle
  <1> QED
    BY <1>4, <1>5

\* The signatures that are left to confirm, when discovery missed none of those
\* that were there.
LEMMA DiscoveryComplete ==
    ASSUME NEW candidates, candidates \subseteq Attachments,
           BundlesBefore(subject) \union LegacyBefore(subject) \subseteq candidates
    PROVE  \A a \in GenuineBefore : Claims[a] \in Claimed(candidates)
  BY DEF GenuineBefore, Claimed

LEMMA TagListRead ==
    ASSUME IInv, Asks(Provenance), NEW a, ReadTagList(a) \/ ReadLegacy(a)
    PROVE  ProvenanceInv'
  <1> USE ThreadsApart, DigestsTyped
  <1>1. ProvenanceInv
    BY DEF IInv
  <1>2. ASSUME NEW candidates, candidates \subseteq Attachments
        PROVE  Claimed(candidates) \subseteq Signers
    BY <1>2, SignersAssumption DEF Claimed
  <1>3. CASE \E p \in {"tags", "legacy"} : GapAt(p, a, "verify") /\ Discovered(found)
                /\ UNCHANGED <<seen, subject, todo, signers>>
    <2>1. found' = found /\ unconfirmed' \subseteq Signers
      BY <1>1, <1>2, <1>3 DEF Discovered, ProvenanceInv
    <2> QED
      BY <1>3, <2>1, LookupFails DEF LookupPlaces
  <1>4. CASE /\ Told(Provenance, "tags", a, "legacy")
             /\ UNCHANGED <<seen, ociVars, signatureVars>>
    <2>1. /\ at[Provenance] = "tags" /\ at'[Provenance] = "legacy"
          /\ DOMAIN at' = Threads /\ DOMAIN seen = Threads
          /\ UNCHANGED <<reference, before, attached, seen, subject, todo, found, gap,
                         unconfirmed, signers>>
      BY <1>4, ProvenanceTold DEF signatureVars
    <2>2. Complete => Complete'
      BY <2>1 DEF Complete, BundlesBefore
    <2>3. signers' = {}
      BY <1>1, <2>1 DEF ProvenanceInv, LookupPlaces
    <2> QED
      BY <1>1, <2>1, <2>2, <2>3 DEF ProvenanceInv, LabelPlaces, LookupPlaces
  <1>5. CASE \E p \in {"tags", "legacy"} :
                /\ Told(Provenance, p, a, "verify") /\ ~Failed(a)
                /\ Discovered(IF p = "tags" THEN found ELSE found \union a)
                /\ p = "tags" => subject \notin a
                /\ UNCHANGED <<seen, subject, todo, gap, signers>>
    <2>1. PICK p \in {"tags", "legacy"} :
                /\ Told(Provenance, p, a, "verify") /\ ~Failed(a)
                /\ Discovered(IF p = "tags" THEN found ELSE found \union a)
                /\ p = "tags" => subject \notin a
                /\ UNCHANGED <<seen, subject, todo, gap, signers>>
      BY <1>5
    <2>2. /\ at[Provenance] = p /\ at'[Provenance] = "verify"
          /\ DOMAIN at' = Threads /\ DOMAIN seen = Threads
          /\ Answered(Provenance, a)
          /\ UNCHANGED <<reference, before, attached>>
      BY <2>1, ProvenanceTold
    <2>3. subject \in Images /\ signers = {} /\ found \subseteq Attachments
      BY <2>2, <1>1 DEF ProvenanceInv, LookupPlaces
    <2>4. /\ p = "tags" => LegacyBefore(subject) = {}
          /\ p = "legacy" => a \subseteq Attachments /\ LegacyBefore(subject) \subseteq a
      BY <2>1, <2>2, <2>3 DEF Answered, Question, Fits, Failed
    <2>5. /\ found' = (IF p = "tags" THEN found ELSE found \union a)
          /\ unconfirmed' = Claimed(found')
      BY <2>1 DEF Discovered
    <2>6. found' \subseteq Attachments /\ unconfirmed' \subseteq Signers
      BY <1>2, <2>3, <2>4, <2>5
    <2>7. Complete => Complete'
      <3>1. Complete => BundlesBefore(subject) \union LegacyBefore(subject) \subseteq found'
        BY <2>2, <2>4, <2>5 DEF Complete
      <3>2. Complete => \A c \in GenuineBefore : Claims[c] \in unconfirmed'
        BY <2>5, <2>6, <3>1, DiscoveryComplete
      <3>3. GenuineBefore' = GenuineBefore
        BY <2>1, <2>2 DEF GenuineBefore, BundlesBefore, LegacyBefore
      <3> QED
        BY <2>2, <3>2, <3>3 DEF Complete
    <2> QED
      BY <1>1, <2>1, <2>2, <2>3, <2>6, <2>7 DEF ProvenanceInv, LabelPlaces, LookupPlaces
  <1>6. CASE ReadTagList(a)
    BY <1>3, <1>4, <1>5, <1>6 DEF ReadTagList
  <1>7. CASE ReadLegacy(a)
    BY <1>3, <1>5, <1>7 DEF ReadLegacy
  <1> QED
    BY <1>6, <1>7

\* cosign is asked about one signer.
LEMMA ConfirmKeeps ==
    ASSUME IInv, NEW s \in Signers, Confirm(s)
    PROVE  ProvenanceInv'
  <1>1. ProvenanceInv /\ RegistryInv
    BY DEF IInv
  <1>2. /\ at[Provenance] = "verify" /\ unconfirmed' = unconfirmed \ {s}
        /\ \/ gap' = gap /\ signers' = IF Confirms(s) THEN signers \union {s} ELSE signers
           \/ gap' = TRUE /\ signers' = signers
        /\ UNCHANGED <<attached, reference, before, at, seen, subject, todo, found>>
    BY DEF Confirm, registryVars, constVars
  <1>3. \A r : Confirms(r)' <=> Confirms(r)
    BY <1>2 DEF Confirms
  <1>4. \A r \in signers' : Confirms(r)'
    BY <1>1, <1>2, <1>3 DEF ProvenanceInv
  <1>5. gap' \/ Complete'
    <2>1. GenuineBefore' = GenuineBefore
      BY <1>2 DEF GenuineBefore, BundlesBefore, LegacyBefore
    <2>2. \A a \in GenuineBefore : Claims[a] = s => Confirms(s)
      BY <1>1 DEF GenuineBefore, BundlesBefore, LegacyBefore, Confirms, RegistryInv
    <2>3. gap' \/ \A a \in GenuineBefore : Claims[a] \in unconfirmed' \union signers'
      BY <1>1, <1>2, <2>2 DEF ProvenanceInv, Complete
    <2> QED
      BY <1>2, <2>1, <2>3 DEF Complete
  <1>6. unconfirmed' \subseteq Signers /\ signers' \subseteq Signers /\ gap' \in BOOLEAN
    BY <1>1, <1>2 DEF ProvenanceInv
  <1> QED
    BY <1>1, <1>2, <1>4, <1>5, <1>6 DEF ProvenanceInv, LabelPlaces, LookupPlaces

LEMMA EndVerifyKeeps ==
    ASSUME IInv, EndVerify \/ ConfirmRaises
    PROVE  ProvenanceInv'
  <1>1. ProvenanceInv
    BY DEF IInv
  <1>2. /\ at[Provenance] = "verify" /\ DOMAIN at' = Threads
        /\ (at'[Provenance] = "done" /\ unconfirmed = {}) \/ at'[Provenance] = "failed"
        /\ UNCHANGED <<attached, reference, before, seen, subject, todo, found, gap,
                       unconfirmed, signers>>
    BY <1>1, ThreadsApart DEF EndVerify, ConfirmRaises, registryVars, constVars, signatureVars, ProvenanceInv
  <1>3. \A r : Confirms(r)' <=> Confirms(r)
    BY <1>2 DEF Confirms
  <1>4. Complete => Complete'
    BY <1>2 DEF Complete, GenuineBefore, BundlesBefore, LegacyBefore
  <1> QED
    BY <1>1, <1>2, <1>3, <1>4 DEF ProvenanceInv, LabelPlaces, LookupPlaces

-----------------------------------------------------------------------------
(* The invariant is inductive.                                             *)

LEMMA InitIInv == Init => IInv
  <1> SUFFICES ASSUME Init PROVE IInv
    OBVIOUS
  <1> USE ThreadsApart, DigestsTyped
  <1>1. RegistryInv
    BY AttachmentsAssumption, ImagesAssumption, ReferencesAssumption DEF Init, CacheInit, RegistryInv
  <1>2. MemoInv /\ InsideInv
    BY DEF Init, CacheInit, MemoInv, InsideInv
  <1>3. InspectionInv
    <2>1. \A t \in Inspectors : entry[t] = Nothing /\ ref[t] = Tag /\ seen[t] = NoAnswer
      BY DEF Init
    <2>2. \A t \in Tasks : at[t] = "idle"
      BY DEF Init
    <2>3. at[Oci] = "top" /\ platforms = <<>>
      BY DEF Init
    <2>4. entry \in [Inspectors -> EntryType] /\ ref \in [Inspectors -> Manifests \union {Tag}]
          /\ DOMAIN at = Threads /\ DOMAIN seen = Threads
      BY DEF Init, Nothing, EntryType
    <2>5. \A t \in Inspectors : InspectorInv(t)
      BY <2>1, <2>2, <2>3 DEF InspectorInv, Nothing
    <2>6. \A t \in Tasks : TaskInv(t)
      BY <2>2 DEF TaskInv
    <2>7. OciInv
      BY <2>3 DEF OciInv, InspectPlaces
    <2> QED
      BY <2>4, <2>5, <2>6, <2>7 DEF InspectionInv
  <1>4. ProvenanceInv
    <2>1. /\ at[Provenance] = "labels" /\ signers = {} /\ todo = <<>> /\ found = {}
          /\ gap = FALSE /\ unconfirmed = {}
          /\ subject = IF reference = Tag THEN NoDigest ELSE reference
          /\ DOMAIN at = Threads /\ DOMAIN seen = Threads
      BY DEF Init
    <2>2. <<>> \in Seq(Attachments)
      OBVIOUS
    <2>3. Complete
      BY <2>1 DEF Complete
    <2> QED
      BY <1>1, <2>1, <2>2, <2>3 DEF ProvenanceInv, RegistryInv, LabelPlaces, LookupPlaces
  <1> QED
    BY <1>1, <1>2, <1>3, <1>4 DEF IInv

\* The one inside the lock still asks its question when others move.
LEMMA InsideStays ==
    ASSUME IInv, \A t \in inside : at'[t] = at[t],
           UNCHANGED <<inside, memo, reference, ref, seen, subject, todo>>
    PROVE  InsideInv'
  <1>1. \A t \in inside : Asks(t)' = Asks(t) /\ Question(t)' = Question(t)
    BY DEF Asks, Question
  <1> QED
    BY <1>1 DEF IInv, InsideInv

LEMMA CallKeeps ==
    ASSUME IInv, NEW t \in Threads, Call(t)
    PROVE  IInv'
  <1>1. /\ Asks(t) /\ inside = {} /\ inside' = {t} /\ memo[Question(t)] = NoAnswer
        /\ UNCHANGED <<memo, failures, registryVars, constVars, at, seen, ociVars, signatureVars>>
        /\ Frozenly
    BY DEF Call, Enter, LockFree, Frozenly
  <1>2. RegistryInv' /\ MemoInv'
    BY <1>1 DEF IInv, RegistryInv, MemoInv, Fits, LegacyBefore, BundlesBefore, registryVars, constVars
  <1>3. InsideInv'
    <2>1. Asks(t)' = Asks(t) /\ Question(t)' = Question(t)
      BY <1>1 DEF Asks, Question, constVars, ociVars, signatureVars
    <2> QED
      BY <1>1, <2>1 DEF InsideInv
  <1>4. InspectionInv'
    BY <1>1, InspectionStays DEF IInv, InspectionInv, constVars
  <1>5. ProvenanceInv'
    BY <1>1, ProvenanceStays DEF IInv, ProvenanceInv, constVars, registryVars
  <1> QED
    BY <1>2, <1>3, <1>4, <1>5 DEF IInv

\* A step of oci or a task that is told something.
LEMMA InspectionTold ==
    ASSUME IInv, NEW t \in Inspectors, Asks(t), NEW a,
           \/ ReadManifest(t, a) \/ ReadChild(t, a) \/ ReadConfig(t, a)
           \/ ReadLayers(t, a) \/ ReadDigest(t, a)
           \/ t = Oci /\ (ReadTop(a) \/ ReadTags(a))
    PROVE  IInv'
  <1> USE ThreadsApart
  <1>1. InspectionInv'
    BY ManifestRead, ChildRead, ConfigRead, LayersRead, DigestRead, TopRead, TagsRead
  <1>2. /\ Reply(t, Question(t), a) /\ UNCHANGED <<registryVars, constVars, signatureVars>>
    BY DEF ReadManifest, ReadChild, ReadConfig, ReadLayers, ReadDigest, ReadTop, ReadTags, Told
  <1>3. RegistryInv' /\ MemoInv' /\ InsideInv'
    BY <1>2, TakesReply
  <1>4. at'[Provenance] = at[Provenance] /\ seen'[Provenance] = seen[Provenance]
    <2>1. DOMAIN at = Threads /\ DOMAIN seen = Threads /\ Provenance # t
      BY DEF IInv, ProvenanceInv
    <2>2. CASE ReadTop(a)
      <3>1. a \in Index => Provenance \notin RealPlatforms(a)
        BY EntriesTyped DEF RealPlatforms
      <3> QED
        BY <2>1, <2>2, <3>1 DEF ReadTop, Keep
    <2>3. CASE ~ReadTop(a)
      BY <2>1, <2>3 DEF ReadManifest, ReadChild, ReadConfig, ReadLayers, ReadDigest, ReadTags, Told, Keep
    <2> QED
      BY <2>2, <2>3
  <1>5. DOMAIN at' = Threads /\ DOMAIN seen' = Threads
    BY <1>1 DEF InspectionInv
  <1>6. ProvenanceInv'
    BY <1>2, <1>4, <1>5, ProvenanceStays DEF IInv, constVars, registryVars
  <1> QED
    BY <1>1, <1>3, <1>6 DEF IInv

LEMMA OciKeeps ==
    ASSUME IInv, OciStep
    PROVE  IInv'
  <1> USE ThreadsApart
  <1>1. CASE Call(Oci)
    BY <1>1, CallKeeps
  <1>2. CASE Join
    <2>1. InspectionInv'
      BY <1>2, JoinKeeps
    <2>2. /\ at[Oci] = "join" /\ at' = [at EXCEPT ![Oci] = "tags"] /\ Oci \notin inside
          /\ UNCHANGED <<registryVars, cacheVars, constVars, seen, ref, signatureVars>>
      BY <1>2 DEF Join, IInv, InsideInv, Asks
    <2>3. RegistryInv' /\ MemoInv'
      BY <2>2 DEF IInv, RegistryInv, MemoInv, Fits, LegacyBefore, BundlesBefore,
                  registryVars, constVars, cacheVars
    <2>4. InsideInv'
      BY <2>2, InsideStays DEF cacheVars, constVars, signatureVars, IInv, InsideInv, InspectionInv
    <2>5. ProvenanceInv'
      BY <2>1, <2>2, ProvenanceStays DEF IInv, ProvenanceInv, InspectionInv, constVars, registryVars
    <2> QED
      BY <2>1, <2>3, <2>4, <2>5 DEF IInv
  <1>3. CASE Asks(Oci) /\ InspectorStep(Oci)
    BY <1>3, InspectionTold DEF InspectorStep
  <1>4. CASE Asks(Oci) /\ \E a \in Replies(Question(Oci)) : ReadTop(a) \/ ReadTags(a)
    BY <1>4, InspectionTold
  <1> QED
    BY <1>1, <1>2, <1>3, <1>4 DEF OciStep

LEMMA ProvenanceKeeps ==
    ASSUME IInv, ProvenanceStep
    PROVE  IInv'
  <1> USE ThreadsApart
  <1>1. CASE Call(Provenance)
    BY <1>1, CallKeeps
  <1>2. ASSUME Asks(Provenance), NEW a,
               \/ ReadLabels(a) \/ ReadLabelChild(a) \/ ReadLabelConfig(a)
               \/ ReadSubject(a) \/ ReadReferrers(a) \/ ReadReferrer(a) \/ ReadBundle(a)
               \/ ReadTagList(a) \/ ReadLegacy(a)
        PROVE  IInv'
    <2>1. ProvenanceInv'
      BY <1>2, LabelsRead, SubjectRead, ReferrersRead, ReferrerRead, TagListRead
    <2>2. PICK p, q : Told(Provenance, p, a, q)
      BY <1>2 DEF ReadLabels, ReadLabelChild, ReadLabelConfig, ReadSubject, ReadReferrers,
                  ReadReferrer, ReadBundle, ReadTagList, ReadLegacy, GapAt
    <2>3. /\ RegistryInv' /\ MemoInv' /\ InsideInv' /\ Frozenly
          /\ DOMAIN at' = Threads /\ \A u \in Inspectors : at'[u] = at[u]
          /\ UNCHANGED <<reference, requested>>
      BY <1>2, <2>2, ToldEffect, SMTT(30)
    <2>4. UNCHANGED ociVars /\ (seen' = seen \/ seen' = [seen EXCEPT ![Provenance] = a])
      BY <1>2 DEF ReadLabels, ReadLabelChild, ReadLabelConfig, ReadSubject, ReadReferrers,
                  ReadReferrer, ReadBundle, ReadTagList, ReadLegacy, Keep
    <2>5. DOMAIN seen' = Threads /\ \A u \in Inspectors : seen'[u] = seen[u]
      BY <2>4 DEF IInv, InspectionInv
    <2>6. InspectionInv'
      BY <2>3, <2>4, <2>5, InspectionStays DEF IInv
    <2> QED
      BY <2>1, <2>3, <2>6 DEF IInv
  <1>3. CASE (\E s \in Signers : Confirm(s)) \/ EndVerify \/ ConfirmRaises
    <2>1. ProvenanceInv'
      BY <1>3, ConfirmKeeps, EndVerifyKeeps
    <2>2. /\ at[Provenance] = "verify" /\ (at' = at \/ \E q \in {"done", "failed"} : at' = [at EXCEPT ![Provenance] = q])
          /\ UNCHANGED <<registryVars, cacheVars, constVars, seen, ociVars, subject, todo>>
          /\ Frozenly
      BY <1>3 DEF Confirm, EndVerify, ConfirmRaises, signatureVars, Frozenly, cacheVars
    <2>3. RegistryInv' /\ MemoInv'
      BY <2>2 DEF IInv, RegistryInv, MemoInv, Fits, LegacyBefore, BundlesBefore,
                  registryVars, constVars, cacheVars
    <2>4. InsideInv'
      <3>1. Provenance \notin inside
        BY <2>2 DEF IInv, InsideInv, Asks
      <3> QED
        BY <2>2, <3>1, InsideStays DEF cacheVars, constVars, ociVars, IInv, InsideInv, InspectionInv
    <2>5. InspectionInv'
      BY <2>2, InspectionStays DEF IInv, InspectionInv, constVars
    <2> QED
      BY <2>1, <2>3, <2>4, <2>5 DEF IInv
  <1> QED
    BY <1>1, <1>2, <1>3 DEF ProvenanceStep

\* The tag moves, or something is attached.
LEMMA EnvironmentKeeps ==
    ASSUME IInv, Environment
    PROVE  IInv'
  <1>1. /\ UNCHANGED <<cacheVars, constVars, at, seen, ociVars, signatureVars>>
        /\ tagged' \in Images /\ attached' \subseteq Attachments /\ attached \subseteq attached'
        /\ changes' \in 0 .. MaxChanges /\ Frozenly
    BY ImagesAssumption
       DEF Environment, RegistryChange, Push, Attach, IInv, RegistryInv, cacheVars, Frozenly
  <1>2. RegistryInv' /\ MemoInv'
    BY <1>1 DEF IInv, RegistryInv, MemoInv, Fits, LegacyBefore, BundlesBefore, constVars, cacheVars
  <1>3. InsideInv'
    BY <1>1, InsideStays DEF cacheVars, constVars, ociVars, signatureVars
  <1>4. InspectionInv'
    BY <1>1, InspectionStays DEF IInv, InspectionInv, constVars
  <1>5. ProvenanceInv'
    BY <1>1, ProvenanceStays DEF IInv, ProvenanceInv, constVars
  <1> QED
    BY <1>2, <1>3, <1>4, <1>5 DEF IInv

LEMMA NextIInv == IInv /\ [Next]_vars => IInv'
  <1> SUFFICES ASSUME IInv, [Next]_vars PROVE IInv'
    OBVIOUS
  <1> USE ThreadsApart
  <1>1. CASE OciStep
    BY <1>1, OciKeeps
  <1>2. CASE ProvenanceStep
    BY <1>2, ProvenanceKeeps
  <1>3. CASE Environment
    BY <1>3, EnvironmentKeeps
  <1>4. ASSUME NEW t \in Tasks, TaskStep(t) PROVE IInv'
    BY <1>4, CallKeeps, InspectionTold DEF TaskStep, InspectorStep
  <1>5. CASE UNCHANGED vars
    <2>1. /\ UNCHANGED <<registryVars, cacheVars, constVars, at, seen, ociVars, signatureVars>>
          /\ Frozenly
      BY <1>5 DEF vars, Frozenly, cacheVars
    <2>2. RegistryInv' /\ MemoInv'
      BY <2>1 DEF IInv, RegistryInv, MemoInv, Fits, LegacyBefore, BundlesBefore,
                  registryVars, constVars, cacheVars
    <2>3. InsideInv'
      BY <2>1, InsideStays DEF cacheVars, constVars, ociVars, signatureVars
    <2>4. InspectionInv'
      BY <2>1, InspectionStays DEF IInv, InspectionInv, constVars
    <2>5. ProvenanceInv'
      BY <2>1, ProvenanceStays DEF IInv, ProvenanceInv, constVars, registryVars
    <2> QED
      BY <2>2, <2>3, <2>4, <2>5 DEF IInv
  <1> QED
    BY <1>1, <1>2, <1>3, <1>4, <1>5 DEF Next

\* IInv holds for any index, attachments, pushes and failures.
THEOREM Invariance == Spec => []IInv
  BY InitIInv, NextIInv, PTL DEF Spec

\* TypeOK, the lock with one holder at most included, for any number of threads.
THEOREM TypeCorrect == Spec => []TypeOK
  <1>1. IInv => TypeOK
    <2> SUFFICES ASSUME IInv PROVE TypeOK
      OBVIOUS
    <2>1. Cardinality(inside) <= 1
      <3>1. CASE inside = {}
        BY <3>1, FS_EmptySet
      <3>2. CASE inside # {}
        <4>1. PICK t : inside = {t}
          BY <3>2 DEF IInv, InsideInv
        <4>2. Cardinality({t}) = 1
          BY FS_Singleton
        <4> QED
          BY <4>1, <4>2
      <3> QED
        BY <3>1, <3>2
    <2>2. CacheTypeOK
      BY <2>1 DEF IInv, RegistryInv, MemoInv, CacheTypeOK
    <2>3. \A n \in DOMAIN platforms : \E t \in Inspectors : platforms[n] = entry[t]
      <3>1. Multi => \A t \in RealPlatforms(seen[Oci]) : t \in Inspectors
        BY ThreadsApart, EntriesTyped DEF Multi, RealPlatforms
      <3>2. platforms = <<>> \/ platforms = <<entry[Oci]>>
            \/ (Multi /\ platforms = [t \in RealPlatforms(seen[Oci]) |-> entry[t]])
        BY DEF IInv, InspectionInv, OciInv
      <3> QED
        BY <3>1, <3>2, ThreadsApart
    <2> QED
      BY <2>2, <2>3 DEF IInv, RegistryInv, InspectionInv, ProvenanceInv, EntryType, TypeOK
  <1> QED
    BY <1>1, Invariance, PTL

\* No platform of a report mixes two manifests, and an index has one platform
\* for each of its entries, for any index, tag moves and failed lookups.
THEOREM EntryOfOneManifestHolds == Spec => []EntryOfOneManifest
  <1>1. IInv => EntryOfOneManifest
    <2> SUFFICES ASSUME IInv, at[Oci] \in {"tags", "done"}
                 PROVE  /\ \A n \in DOMAIN platforms :
                              \/ NoAnswer \in {platforms[n].config, platforms[n].layers}
                              \/ platforms[n].config = platforms[n].layers
                        /\ requested = Unknown /\ seen[Oci] \in Index =>
                              /\ DOMAIN platforms = RealPlatforms(seen[Oci])
                              /\ \A n \in DOMAIN platforms :
                                    LET d == Entries[seen[Oci]][n].digest
                                    IN d \notin Index =>
                                          /\ platforms[n].digest = d
                                          /\ {platforms[n].config, platforms[n].layers}
                                                \subseteq {d, NoAnswer}
      BY DEF EntryOfOneManifest
    <2> USE ThreadsApart
    <2>1. \/ ~Multi /\ platforms = <<entry[Oci]>>
          \/ /\ Multi /\ platforms = [t \in RealPlatforms(seen[Oci]) |-> entry[t]]
             /\ \A t \in RealPlatforms(seen[Oci]) : at[t] = "inspected"
      BY DEF IInv, InspectionInv, OciInv
    <2>2. Multi => \A t \in RealPlatforms(seen[Oci]) : t \in Tasks
      BY EntriesTyped DEF Multi, RealPlatforms
    <2>3. \A n \in DOMAIN platforms : \E t \in Inspectors : platforms[n] = entry[t]
      BY <2>1, <2>2
    <2>4. \A t \in Inspectors : /\ entry[t].config \in {NoAnswer, ManifestOf(t)}
                                /\ entry[t].layers \in {NoAnswer, ManifestOf(t)}
      BY DEF IInv, InspectionInv, InspectorInv
    <2>5. ASSUME Multi, NEW n \in RealPlatforms(seen[Oci]),
                 Entries[seen[Oci]][n].digest \notin Index
          PROVE  LET d == Entries[seen[Oci]][n].digest
                 IN entry[n].digest = d /\ ManifestOf(n) \in {d, NoAnswer}
      <3> DEFINE d == Entries[seen[Oci]][n].digest
      <3>1. n \in Tasks /\ at[n] = "inspected"
        BY <2>1, <2>2, <2>5
      <3>2. ref[n] = d /\ d # Tag /\ entry[n].digest = d
        BY <2>5, <3>1 DEF IInv, InspectionInv, TaskInv
      <3>3. <<"manifest", d>> \in Questions
        BY <2>5, EntriesTyped DEF Questions, Multi, RealPlatforms
      <3>4. ManifestOf(n) \in {d, NoAnswer}
        BY <3>2, <3>3 DEF IInv, MemoInv, Fits, ManifestOf
      <3> QED
        BY <3>2, <3>4
    <2>6. \A n \in DOMAIN platforms :
             \/ NoAnswer \in {platforms[n].config, platforms[n].layers}
             \/ platforms[n].config = platforms[n].layers
      BY <2>3, <2>4
    <2>7. ASSUME Multi
          PROVE  /\ DOMAIN platforms = RealPlatforms(seen[Oci])
                 /\ \A n \in DOMAIN platforms :
                       LET d == Entries[seen[Oci]][n].digest
                       IN d \notin Index =>
                             /\ platforms[n].digest = d
                             /\ {platforms[n].config, platforms[n].layers}
                                   \subseteq {d, NoAnswer}
      <3>1. platforms = [t \in RealPlatforms(seen[Oci]) |-> entry[t]]
        BY <2>1, <2>7
      <3> QED
        BY <2>2, <2>4, <2>5, <2>7, <3>1
    <2> QED
      BY <2>6, <2>7 DEF Multi
  <1> QED
    BY <1>1, Invariance, PTL

\* signed-by passes only on a genuine signature, and fails only if there was none
\* to find, for any attachments, claims, lists of signers and failures.
THEOREM SignedByIsSoundHolds == Spec => []SignedByIsSound
  <1>1. IInv => SignedByIsSound
    <2> SUFFICES ASSUME IInv, at[Provenance] \in {"done", "failed"}
                 PROVE  /\ SignedBy = "passed" => Signing(subject) \cap attached # {}
                        /\ SignedBy = "failed" => Signing(subject) \cap before = {}
      BY DEF SignedByIsSound
    <2>1. ASSUME SignedBy = "passed" PROVE Signing(subject) \cap attached # {}
      <3>1. PICK s \in signers \cap Accepted : Confirms(s)
        BY <2>1 DEF SignedBy, IInv, ProvenanceInv
      <3>2. PICK a \in attached \cap Genuine : Subject[a] = subject /\ Claims[a] = s
        BY <3>1 DEF Confirms
      <3>3. a \in Attachments /\ Layout[a] # "other"
        BY <3>2, SignersAssumption
      <3> QED
        BY <3>1, <3>2, <3>3 DEF Signing
    <2>2. ASSUME SignedBy = "failed" PROVE Signing(subject) \cap before = {}
      <3>1. at[Provenance] = "done" /\ signers \cap Accepted = {} /\ ~gap
        BY <2>2 DEF SignedBy
      <3>2. \A a \in GenuineBefore : Claims[a] \in signers
        BY <3>1 DEF IInv, ProvenanceInv, Complete
      <3>3. Signing(subject) \cap before \subseteq GenuineBefore
        BY AttachmentsAssumption, SignersAssumption
           DEF Signing, GenuineBefore, BundlesBefore, LegacyBefore
      <3>4. \A a \in Signing(subject) : Claims[a] \in Accepted
        BY DEF Signing
      <3> QED
        BY <3>1, <3>2, <3>3, <3>4
    <2> QED
      BY <2>1, <2>2
  <1> QED
    BY <1>1, Invariance, PTL

-----------------------------------------------------------------------------
(* The inspector implements OneAnswer.                                     *)

\* What a thread is told is what the frozen registry tells it.
LEMMA ReplyIsFrozen ==
    ASSUME IInv, NEW t \in Threads, Asks(t), NEW a, Reply(t, Question(t), a),
           heard' = [heard EXCEPT ![t] = <<Question(t), a>>]
    PROVE  Frozen!Next
  <1> DEFINE q == Question(t)
  <1>1. q \in Questions
    BY QuestionTyped DEF IInv
  <1>2. CASE memo[q] # NoAnswer /\ a = memo[q] /\ UNCHANGED cacheVars
    <2>1. Frozen!Known(t, q)
      BY <1>2 DEF Frozen!Known, Frozen!Tell, cacheVars
    <2> QED
      BY <1>1, <2>1 DEF Frozen!Next
  <1>3. CASE t \in inside /\ a \in Served(q) /\ memo' = Stored(q, a)
    <2>1. memo[q] = NoAnswer /\ a # NoAnswer /\ memo'[q] = a
      BY <1>1, <1>3, ServedFits DEF IInv, InsideInv, MemoInv, Stored, Fits
    <2>2. Frozen!Learn(t, q)
      BY <1>3, <2>1 DEF Frozen!Learn, Frozen!Tell, Stored
    <2> QED
      BY <1>1, <2>2 DEF Frozen!Next
  <1>4. CASE t \in inside /\ a \in Failures /\ UNCHANGED memo
    <2>1. Frozen!Fail(t, q)
      BY <1>4 DEF Frozen!Fail, Frozen!Tell, IInv, InsideInv
    <2> QED
      BY <1>1, <2>1 DEF Frozen!Next
  <1> QED
    BY <1>2, <1>3, <1>4 DEF Reply

LEMMA FrozenStep == IInv /\ [Next]_vars => [Frozen!Next]_(Frozen!vars)
  <1> SUFFICES ASSUME IInv, [Next]_vars
               PROVE  Frozen!Next \/ UNCHANGED <<memo, heard>>
    BY DEF Frozen!vars
  <1> USE ThreadsApart
  <1>1. ASSUME NEW t \in Inspectors, Asks(t), NEW a,
               \/ ReadManifest(t, a) \/ ReadChild(t, a) \/ ReadConfig(t, a)
               \/ ReadLayers(t, a) \/ ReadDigest(t, a)
               \/ t = Oci /\ (ReadTop(a) \/ ReadTags(a))
        PROVE  Frozen!Next
    <2>1. Reply(t, Question(t), a) /\ heard' = [heard EXCEPT ![t] = <<Question(t), a>>]
      BY <1>1 DEF ReadManifest, ReadChild, ReadConfig, ReadLayers, ReadDigest, ReadTop, ReadTags, Told
    <2> QED
      BY <1>1, <2>1, ReplyIsFrozen
  <1>2. ASSUME NEW t, Call(t) PROVE UNCHANGED <<memo, heard>>
    BY <1>2 DEF Call, Enter
  <1>3. CASE OciStep
    BY <1>1, <1>2, <1>3 DEF OciStep, InspectorStep, Join, cacheVars
  <1>4. CASE ProvenanceStep
    <2>1. ASSUME Asks(Provenance), NEW a,
                 \/ ReadLabels(a) \/ ReadLabelChild(a) \/ ReadLabelConfig(a)
                 \/ ReadSubject(a) \/ ReadReferrers(a) \/ ReadReferrer(a) \/ ReadBundle(a)
                 \/ ReadTagList(a) \/ ReadLegacy(a)
          PROVE  Frozen!Next
      <3>1. /\ Reply(Provenance, Question(Provenance), a)
            /\ heard' = [heard EXCEPT ![Provenance] = <<Question(Provenance), a>>]
        BY <2>1 DEF ReadLabels, ReadLabelChild, ReadLabelConfig, ReadSubject, ReadReferrers,
                    ReadReferrer, ReadBundle, ReadTagList, ReadLegacy, GapAt, Told
      <3> QED
        BY <2>1, <3>1, ReplyIsFrozen
    <2>2. ASSUME (\E s \in Signers : Confirm(s)) \/ EndVerify \/ ConfirmRaises
          PROVE  UNCHANGED <<memo, heard>>
      BY <2>2 DEF Confirm, EndVerify, ConfirmRaises, cacheVars
    <2> QED
      BY <1>2, <1>4, <2>1, <2>2 DEF ProvenanceStep
  <1>5. CASE Environment
    BY <1>5 DEF Environment, RegistryChange, cacheVars
  <1>6. ASSUME NEW t \in Tasks, TaskStep(t)
        PROVE  Frozen!Next \/ UNCHANGED <<memo, heard>>
    BY <1>1, <1>2, <1>6 DEF TaskStep, InspectorStep
  <1>7. CASE UNCHANGED vars
    BY <1>7 DEF vars, cacheVars
  <1> QED
    BY <1>3, <1>4, <1>5, <1>6, <1>7 DEF Next

\* The lock, the tasks and the order of the calls forgotten, the registry that
\* changes is one that is frozen question by question.
THEOREM OneAnswerImplemented == Spec => ImplementsOneAnswer
  <1>1. Init => Frozen!Init
    BY DEF Init, CacheInit, Frozen!Init
  <1> QED
    BY <1>1, FrozenStep, Invariance, PTL DEF Spec, ImplementsOneAnswer, Frozen!Spec

=============================================================================
