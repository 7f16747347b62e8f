--------------------------- MODULE InspectorCache ---------------------------
(***************************************************************************)
(* The registry as the analyzers of a run see it: regctl                   *)
(* (RegctlImageInspector) behind the memo of CachingImageInspector, whose  *)
(* one lock is held while regctl runs.  The registry itself changes: the   *)
(* tag is pushed again, signatures are attached.                           *)
(*                                                                         *)
(* A digest stands for the content it names, so the answer to a manifest   *)
(* or a blob is a digest; a config is named after its manifest.            *)
(* ImageInspection composes these actions with the analyzers' threads.     *)
(***************************************************************************)
EXTENDS Naturals, FiniteSets, SequencesExt

CONSTANTS
    Tag,            \* the tag of the image; every other reference is a digest
    Images,         \* the digests the tag may point to
    Index,          \* those among them that are an index
    Entries,        \* Entries[i]: the entries of an index, <<[digest, platform], ...>>
    Attachments,    \* what may be attached to an image
    Layout,         \* of an attachment: "bundle", "legacy" or "other"
    Subject,        \* the image it is attached to
    Registries,     \* what may be attached when the run begins
    NoDigest,       \* regctl printed no digest
    NoAnswer,       \* a key that is not in the memo
    RegistryError,  \* the exception of a lookup that failed
    OSError,        \* one of another kind: no room for the temporary credentials
                    \* of regctl, say
    MaxChanges,     \* bound: pushes and new attachments during the run
    MaxFailures     \* bound: lookups that fail

Children == UNION {{Entries[i][n].digest : n \in DOMAIN Entries[i]} : i \in Index}
Manifests == Images \union Children \union Attachments

ASSUME ImagesAssumption ==
    /\ Index \subseteq Images
    /\ DOMAIN Entries = Index
    /\ \A i \in Index : DOMAIN Entries[i] = 1 .. Len(Entries[i]) /\ Len(Entries[i]) \in Nat
    /\ Tag \notin Manifests
    /\ MaxChanges \in Nat /\ MaxFailures \in Nat
ASSUME AttachmentsAssumption ==
    /\ IsFiniteSet(Attachments)
    /\ Layout \in [Attachments -> {"bundle", "legacy", "other"}]
    /\ Subject \in [Attachments -> Images]
    /\ Registries \subseteq SUBSET Attachments

Failures == {RegistryError, OSError}

\* None of these is taken for an answer, or for another one of them.
ASSUME MarksAssumption ==
    /\ RegistryError # OSError
    /\ \A m \in Failures \union {NoAnswer} :
          /\ m # NoDigest /\ m \notin Manifests
          /\ \A s \in SUBSET Images : m # s
          /\ \A s \in SUBSET Attachments : m # s /\ m # SetToSeq(s)
    /\ NoAnswer \notin Failures /\ NoDigest \notin Manifests

Questions ==
    ({"manifest"} \X (Manifests \union {Tag})) \union ({"blob"} \X Manifests)
        \union ({"digest", "tags"} \X {Tag}) \union ({"referrers", "legacy"} \X Images)

VARIABLES
    tagged,     \* the image the tag points to
    attached,   \* what is attached to images by now
    changes,    \* how often either changed
    memo,       \* _cache
    inside,     \* the threads inside the lock
    failures    \* how many lookups failed

registryVars == <<tagged, attached, changes>>
cacheVars == <<memo, inside, failures>>

CacheInit ==
    /\ tagged \in Images
    /\ attached \in Registries
    /\ changes = 0
    /\ memo = [q \in Questions |-> NoAnswer]
    /\ inside = {}
    /\ failures = 0

CacheTypeOK ==
    /\ tagged \in Images
    /\ attached \subseteq Attachments
    /\ changes \in 0 .. MaxChanges
    /\ DOMAIN memo = Questions
    /\ Cardinality(inside) <= 1
    /\ failures \in 0 .. MaxFailures

-----------------------------------------------------------------------------
(* The registry.                                                           *)

\* Somebody pushes the tag; somebody signs an image.
Push ==
    /\ \E i \in Images \ {tagged} : tagged' = i
    /\ UNCHANGED attached

Attach ==
    /\ \E a \in Attachments \ attached : attached' = attached \union {a}
    /\ UNCHANGED tagged

RegistryChange ==
    /\ changes < MaxChanges
    /\ changes' = changes + 1
    /\ Push \/ Attach
    /\ UNCHANGED cacheVars

LegacyOf(i) == {a \in attached : Layout[a] = "legacy" /\ Subject[a] = i}

\* What regctl may answer to a question now.  The legacy signatures of an image
\* are the layers of one tag, which is in the list of tags if there are any.
Served(q) ==
    LET r == q[2]
    IN CASE q[1] = "manifest"  -> {IF r = Tag THEN tagged ELSE r}
         [] q[1] = "blob"      -> {r}
         [] q[1] = "digest"    -> {tagged, NoDigest}
         [] q[1] = "tags"      -> {{i \in Images : LegacyOf(i) # {}}}
         [] q[1] = "legacy"    -> {LegacyOf(r)}
         [] q[1] = "referrers" ->
               {SetToSeq({a \in attached : Layout[a] # "legacy" /\ Subject[a] = r})}

-----------------------------------------------------------------------------
(* CachingImageInspector._cached, called by thread t with question q.      *)

\* Mutant: the lock is not held across the computation.
Unlocked == TRUE

LockFree == inside = {}

\* Mutant: the value is not stored.
Forgotten(q, a) == memo

Stored(q, a) == [memo EXCEPT ![q] = a]

\* Mutant: an exception leaves the lock taken.
LockKept(t) == inside

Released(t) == inside \ {t}

\* The key is missing: the lock is taken, and regctl starts.
Enter(t, q) ==
    /\ LockFree
    /\ t \notin inside
    /\ memo[q] = NoAnswer
    /\ inside' = inside \union {t}
    /\ UNCHANGED <<memo, failures>>

\* The call ends: with the value of the memo, with a value that is stored, or
\* with an exception, which leaves no trace.
Reply(t, q, a) ==
    \/ /\ LockFree /\ memo[q] # NoAnswer
       /\ a = memo[q]
       /\ UNCHANGED cacheVars
    \/ /\ t \in inside /\ a \in Served(q)
       /\ memo' = Stored(q, a)
       /\ inside' = inside \ {t}
       /\ UNCHANGED failures
    \/ /\ t \in inside /\ a \in Failures
       /\ failures < MaxFailures
       /\ failures' = failures + 1
       /\ inside' = Released(t)
       /\ UNCHANGED memo

\* All that a call with question q may end with.
Replies(q) == Served(q) \union Failures \union ({memo[q]} \ {NoAnswer})

=============================================================================
