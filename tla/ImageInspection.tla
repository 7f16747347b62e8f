-------------------------- MODULE ImageInspection --------------------------
(***************************************************************************)
(* Two analyzers that ask the registry about one image at the same time,   *)
(* through InspectorCache: oci with its nested pool, one task per platform *)
(* of an index, and provenance, which looks for signatures in both layouts *)
(* and has cosign confirm who made them.                                   *)
(*                                                                         *)
(* Threads are Oci, Provenance and the tasks, numbered like the entries of *)
(* the index; a task that waits for one of the ten workers is one that has *)
(* not made its first step.                                                *)
(***************************************************************************)
EXTENDS InspectorCache

CONSTANTS
    Oci, Provenance,
    References,     \* what the user may ask for: the tag, or an image by digest
    Platforms,      \* what --platform may say
    Unknown,        \* the platform of an attestation; no --platform
    Signers,
    Claims,         \* of an attachment: the signer its certificate names
    NoSigner,       \* none: a signature by key, an unreadable certificate
    Genuine,        \* the attachments cosign accepts
    Accepted        \* options.signers of the rule signed-by

\* Drop attestation entries, filter_real_platforms: the numbers of the others.
RealPlatforms(i) == {n \in DOMAIN Entries[i] : Entries[i][n].platform # Unknown}

Tasks == UNION {RealPlatforms(i) : i \in Index}
Inspectors == Tasks \union {Oci}
Threads == Inspectors \union {Provenance}

ASSUME ThreadsAssumption == Oci # Provenance /\ {Oci, Provenance} \cap Tasks = {}
ASSUME ReferencesAssumption == References \subseteq Images \union {Tag}
ASSUME SignersAssumption ==
    /\ NoSigner \notin Signers
    /\ Claims \in [Attachments -> Signers \union {NoSigner}]
    /\ Accepted \subseteq Signers
    /\ Genuine \subseteq {a \in Attachments : Layout[a] # "other"}

VARIABLES
    reference,  \* ctx.image.tag
    requested,  \* ctx.image.platform, Unknown if not given
    at,         \* where each thread is
    ref,        \* ref[t]: the reference t inspects
    seen,       \* seen[t]: the manifest t read last
    entry,      \* entry[t]: what t found: the manifests whose config and layers
                \* it read, and the digest it reports
    platforms,  \* the platforms of oci's report, by the number of their entry
    subject,    \* the digest whose signatures are looked for
    todo,       \* the referrers still to be looked at
    found,      \* the signatures found
    gap,        \* a lookup or a confirmation failed
    unconfirmed,\* the claimed signers cosign was not asked about yet
    signers,    \* verified_signers
    before,     \* what was attached when the run began
    heard       \* each thread's last question and reply

ociVars == <<ref, entry, platforms>>
signatureVars == <<subject, todo, found, gap, unconfirmed, signers>>
constVars == <<reference, requested, before>>
vars == <<registryVars, cacheVars, constVars, at, seen, heard, ociVars, signatureVars>>

Nothing == [config |-> NoAnswer, layers |-> NoAnswer, digest |-> NoDigest]

Init ==
    /\ CacheInit
    /\ reference \in References
    /\ requested \in Platforms \union {Unknown}
    /\ at = [t \in Threads |-> IF t = Oci THEN "top"
                               ELSE IF t = Provenance THEN "labels" ELSE "idle"]
    /\ ref = [t \in Inspectors |-> Tag]
    /\ seen = [t \in Threads |-> NoAnswer]
    /\ entry = [t \in Inspectors |-> Nothing]
    /\ platforms = <<>>
    /\ subject = IF reference = Tag THEN NoDigest ELSE reference
    /\ todo = <<>> /\ found = {} /\ gap = FALSE /\ unconfirmed = {} /\ signers = {}
    /\ before = attached
    /\ heard = [t \in Threads |-> <<>>]

-----------------------------------------------------------------------------
(* Calls of the inspector.                                                 *)

\* The question a thread asks where it is; none of the others asks.
Question(t) ==
    CASE at[t] \in {"top", "labels"}             -> <<"manifest", reference>>
      [] at[t] \in {"manifest", "child", "layers"} -> <<"manifest", ref[t]>>
      [] at[t] \in {"config", "label config"}    -> <<"blob", seen[t]>>
      [] at[t] \in {"digest", "subject"}         -> <<"digest", Tag>>
      [] at[t] = "label child"                   -> <<"manifest", Entries[seen[t]][1].digest>>
      [] at[t] = "referrers"                     -> <<"referrers", subject>>
      [] at[t] = "referrer"                      -> <<"manifest", Head(todo)>>
      [] at[t] = "bundle"                        -> <<"blob", Head(todo)>>
      [] at[t] = "tags"                          -> <<"tags", Tag>>
      [] at[t] = "legacy"                        -> <<"legacy", subject>>

Asks(t) == at[t] \notin {"idle", "join", "inspected", "verify", "done", "failed"}

Call(t) ==
    /\ Asks(t)
    /\ Enter(t, Question(t))
    /\ UNCHANGED <<registryVars, constVars, at, seen, heard, ociVars, signatureVars>>

\* t is told a, at the position p, and goes on at q.
Told(t, p, a, q) ==
    /\ at[t] = p
    /\ Reply(t, Question(t), a)
    /\ heard' = [heard EXCEPT ![t] = <<Question(t), a>>]
    /\ at' = [at EXCEPT ![t] = q]
    /\ UNCHANGED <<registryVars, constVars>>

Failed(a) == a \in Failures

Keep(t, a) == seen' = [seen EXCEPT ![t] = a]

-----------------------------------------------------------------------------
(* OciAnalyzer.analyze and _inspect_platform.                              *)

\* The platform t is to describe: for a task, that of its entry.
Wanted(t) == IF t = Oci THEN requested ELSE Entries[seen[Oci]][t].platform

\* The entries of index i that are of this platform.
Matches(t, i) == {n \in DOMAIN Entries[i] : Entries[i][n].platform = Wanted(t)}

\* The manifest of the reference.  One platform that is asked for, and an image
\* that is no index, are inspected by the caller; an index by one task per
\* platform.
ReadTop(a) ==
    /\ at[Oci] = "top"
    /\ Reply(Oci, Question(Oci), a)
    /\ heard' = [heard EXCEPT ![Oci] = <<Question(Oci), a>>]
    /\ \/ /\ Failed(a)
          /\ at' = [at EXCEPT ![Oci] = "failed"]
          /\ UNCHANGED <<seen, ref>>
       \/ /\ ~Failed(a) /\ (requested # Unknown \/ a \notin Index)
          /\ at' = [at EXCEPT ![Oci] = "manifest"]
          /\ ref' = [ref EXCEPT ![Oci] = reference]
          /\ Keep(Oci, a)
       \/ /\ requested = Unknown /\ a \in Index
          /\ at' = [t \in Threads |-> IF t = Oci THEN "join"
                                      ELSE IF t \in RealPlatforms(a) THEN "manifest"
                                      ELSE at[t]]
          /\ ref' = [t \in Inspectors |-> IF t \in RealPlatforms(a)
                                            THEN Entries[a][t].digest ELSE ref[t]]
          /\ Keep(Oci, a)
    /\ UNCHANGED <<registryVars, constVars, entry, platforms, signatureVars>>

\* 1. The config: its manifest, or the one of the platform wanted.  If the
\* index has none, or a lookup fails, the defaults stay.
ReadManifest(t, a) ==
    \/ /\ Told(t, "manifest", a, "layers")
       /\ Failed(a) \/ (a \in Index /\ Matches(t, a) = {})
       /\ UNCHANGED <<seen, ociVars, signatureVars>>
    \/ /\ Told(t, "manifest", a, "child")
       /\ a \in Index /\ Matches(t, a) # {}
       /\ ref' = [ref EXCEPT ![t] = Entries[a][Min(Matches(t, a))].digest]
       /\ UNCHANGED <<seen, entry, platforms, signatureVars>>
    \/ /\ Told(t, "manifest", a, "config")
       /\ ~Failed(a) /\ a \notin Index
       /\ Keep(t, a)
       /\ UNCHANGED <<ociVars, signatureVars>>

ReadChild(t, a) ==
    /\ Told(t, "child", a, IF Failed(a) THEN "layers" ELSE "config")
    /\ IF Failed(a) THEN UNCHANGED seen ELSE Keep(t, a)
    /\ UNCHANGED <<ociVars, signatureVars>>

ReadConfig(t, a) ==
    /\ Told(t, "config", a, "layers")
    /\ entry' = IF Failed(a) THEN entry ELSE [entry EXCEPT ![t].config = a]
    /\ UNCHANGED <<seen, ref, platforms, signatureVars>>

\* The inspection of t ends with entry e: one of several, or the only one.
Inspected(t) == IF t = Oci THEN "tags" ELSE "inspected"
Report(t, e) ==
    /\ entry' = [entry EXCEPT ![t] = e]
    /\ platforms' = IF t = Oci THEN <<e>> ELSE platforms

\* 2. The layers and the size, from the same reference once more.  3. The
\* digest: the reference, if it is one.
ReadLayers(t, a) ==
    LET e == IF Failed(a) THEN entry[t] ELSE [entry[t] EXCEPT !.layers = a]
    IN /\ \/ /\ ref[t] = Tag
             /\ Told(t, "layers", a, "digest")
             /\ entry' = [entry EXCEPT ![t] = e]
             /\ UNCHANGED platforms
          \/ /\ ref[t] # Tag
             /\ Told(t, "layers", a, Inspected(t))
             /\ Report(t, [e EXCEPT !.digest = ref[t]])
       /\ UNCHANGED <<seen, ref, signatureVars>>

ReadDigest(t, a) ==
    /\ Told(t, "digest", a, Inspected(t))
    /\ Report(t, [entry[t] EXCEPT !.digest = IF Failed(a) THEN NoDigest ELSE a])
    /\ UNCHANGED <<seen, ref, signatureVars>>

TaskOver(t) == at[t] = "inspected"

\* The tasks are over, their results are read in the order of the entries.
Join ==
    /\ at[Oci] = "join"
    /\ \A t \in RealPlatforms(seen[Oci]) : TaskOver(t)
    /\ platforms' = [t \in RealPlatforms(seen[Oci]) |-> entry[t]]
    /\ at' = [at EXCEPT ![Oci] = "tags"]
    /\ UNCHANGED <<registryVars, cacheVars, constVars, seen, heard, ref, entry, signatureVars>>

ReadTags(a) ==
    /\ Told(Oci, "tags", a, "done")
    /\ UNCHANGED <<seen, ociVars, signatureVars>>

InspectorStep(t) ==
    \E a \in Replies(Question(t)) :
        \/ ReadManifest(t, a) \/ ReadChild(t, a) \/ ReadConfig(t, a)
        \/ ReadLayers(t, a) \/ ReadDigest(t, a)

OciStep ==
    \/ Call(Oci)
    \/ Join
    \/ Asks(Oci) /\ \/ InspectorStep(Oci)
                    \/ \E a \in Replies(Question(Oci)) : ReadTop(a) \/ ReadTags(a)

TaskStep(t) == Call(t) \/ (Asks(t) /\ InspectorStep(t))

-----------------------------------------------------------------------------
(* ProvenanceAnalyzer.analyze: the labels, of any platform; nothing of what *)
(* fails here is reported.                                                 *)

AfterLabels == IF reference = Tag THEN "subject" ELSE "referrers"

ReadLabels(a) ==
    /\ Told(Provenance, "labels", a,
            IF Failed(a) \/ (a \in Index /\ DOMAIN Entries[a] = {}) THEN AfterLabels
            ELSE IF a \in Index THEN "label child" ELSE "label config")
    /\ Keep(Provenance, a)
    /\ UNCHANGED <<ociVars, signatureVars>>

ReadLabelChild(a) ==
    /\ Told(Provenance, "label child", a, IF Failed(a) THEN AfterLabels ELSE "label config")
    /\ Keep(Provenance, a)
    /\ UNCHANGED <<ociVars, signatureVars>>

ReadLabelConfig(a) ==
    /\ Told(Provenance, "label config", a, AfterLabels)
    /\ UNCHANGED <<seen, ociVars, signatureVars>>

-----------------------------------------------------------------------------
(* _signatures, signatures.discover and signatures.verify.                 *)

\* Mutant: a failed lookup is logged, and leaves no gap.
GapLost(p, a, q) ==
    /\ Failed(a)
    /\ Told(Provenance, p, a, IF a = RegistryError THEN q ELSE "failed")
    /\ UNCHANGED gap

\* A RegistryError is a gap, and the work goes on at q; any other exception
\* leaves the analyzer, whose report is a stub.
GapAt(p, a, q) ==
    \/ /\ a = RegistryError
       /\ Told(Provenance, p, a, q)
       /\ gap' = TRUE
    \/ /\ a = OSError
       /\ Told(Provenance, p, a, "failed")
       /\ UNCHANGED gap

ReadSubject(a) ==
    \/ /\ GapAt("subject", a, "done")
       /\ UNCHANGED <<seen, ociVars, subject, todo, found, unconfirmed, signers>>
    \/ /\ Told(Provenance, "subject", a, IF a = NoDigest THEN "done" ELSE "referrers")
       /\ ~Failed(a)
       /\ subject' = a
       /\ gap' = (a = NoDigest)
       /\ UNCHANGED <<seen, ociVars, todo, found, unconfirmed, signers>>

\* The loop over the referrers goes on, or ends.
NextReferrer(left) == IF left = <<>> THEN "tags" ELSE "referrer"

ReadReferrers(a) ==
    \/ /\ GapAt("referrers", a, "tags")
       /\ UNCHANGED <<seen, ociVars, subject, todo, found, unconfirmed, signers>>
    \/ /\ Told(Provenance, "referrers", a, NextReferrer(a))
       /\ ~Failed(a)
       /\ todo' = a
       /\ UNCHANGED <<seen, ociVars, subject, found, gap, unconfirmed, signers>>

\* A failure leaves the loop: the candidates found so far count.
ReadReferrer(a) ==
    \/ /\ GapAt("referrer", a, "tags")
       /\ UNCHANGED <<seen, ociVars, subject, todo, found, unconfirmed, signers>>
    \/ /\ Told(Provenance, "referrer", a, "bundle")
       /\ ~Failed(a) /\ Layout[a] = "bundle"
       /\ UNCHANGED <<seen, ociVars, signatureVars>>
    \/ /\ Told(Provenance, "referrer", a, NextReferrer(Tail(todo)))
       /\ ~Failed(a) /\ Layout[a] = "other"
       /\ todo' = Tail(todo)
       /\ UNCHANGED <<seen, ociVars, subject, found, gap, unconfirmed, signers>>

ReadBundle(a) ==
    \/ /\ GapAt("bundle", a, "tags")
       /\ UNCHANGED <<seen, ociVars, subject, todo, found, unconfirmed, signers>>
    \/ /\ Told(Provenance, "bundle", a, NextReferrer(Tail(todo)))
       /\ ~Failed(a)
       /\ todo' = Tail(todo)
       /\ found' = found \union {a}
       /\ UNCHANGED <<seen, ociVars, subject, gap, unconfirmed, signers>>

\* Mutant: a certificate without a signer is asked about as well.
AllClaims(candidates) == {Claims[c] : c \in candidates}

Claimed(candidates) == {Claims[c] : c \in candidates} \ {NoSigner}

\* The discovery ends with these candidates.
Discovered(candidates) ==
    /\ found' = candidates
    /\ unconfirmed' = Claimed(candidates)

ReadTagList(a) ==
    \/ /\ GapAt("tags", a, "verify")
       /\ Discovered(found)
       /\ UNCHANGED <<seen, ociVars, subject, todo, signers>>
    \/ /\ Told(Provenance, "tags", a, "legacy")
       /\ ~Failed(a) /\ subject \in a
       /\ UNCHANGED <<seen, ociVars, signatureVars>>
    \/ /\ Told(Provenance, "tags", a, "verify")
       /\ ~Failed(a) /\ subject \notin a
       /\ Discovered(found)
       /\ UNCHANGED <<seen, ociVars, subject, todo, gap, signers>>

ReadLegacy(a) ==
    \/ /\ GapAt("legacy", a, "verify")
       /\ Discovered(found)
       /\ UNCHANGED <<seen, ociVars, subject, todo, signers>>
    \/ /\ Told(Provenance, "legacy", a, "verify")
       /\ ~Failed(a)
       /\ Discovered(found \union a)
       /\ UNCHANGED <<seen, ociVars, subject, todo, gap, signers>>

\* cosign verify, for the subject and one signer: any of its signatures will do.
Confirms(s) == \E a \in attached \cap Genuine : Subject[a] = subject /\ Claims[a] = s

Confirm(s) ==
    /\ at[Provenance] = "verify"
    /\ s \in unconfirmed
    /\ unconfirmed' = unconfirmed \ {s}
    /\ \/ /\ signers' = IF Confirms(s) THEN signers \union {s} ELSE signers
          /\ UNCHANGED gap
       \/ /\ gap' = TRUE
          /\ UNCHANGED signers
    /\ UNCHANGED <<registryVars, cacheVars, constVars, at, seen, heard, ociVars,
                   subject, todo, found>>

\* cosign cannot be started, or its credentials not be written for it: the exception
\* is no ToolError and ends the analyzer.
ConfirmRaises ==
    /\ at[Provenance] = "verify"
    /\ unconfirmed # {}
    /\ at' = [at EXCEPT ![Provenance] = "failed"]
    /\ UNCHANGED <<registryVars, cacheVars, constVars, seen, heard, ociVars, signatureVars>>

EndVerify ==
    /\ at[Provenance] = "verify"
    /\ unconfirmed = {}
    /\ at' = [at EXCEPT ![Provenance] = "done"]
    /\ UNCHANGED <<registryVars, cacheVars, constVars, seen, heard, ociVars, signatureVars>>

ProvenanceStep ==
    \/ Call(Provenance)
    \/ /\ Asks(Provenance)
       /\ \E a \in Replies(Question(Provenance)) :
             \/ ReadLabels(a) \/ ReadLabelChild(a) \/ ReadLabelConfig(a)
             \/ ReadSubject(a) \/ ReadReferrers(a) \/ ReadReferrer(a) \/ ReadBundle(a)
             \/ ReadTagList(a) \/ ReadLegacy(a)
    \/ \E s \in Signers : Confirm(s)
    \/ ConfirmRaises \/ EndVerify

Environment ==
    /\ RegistryChange
    /\ UNCHANGED <<constVars, at, seen, heard, ociVars, signatureVars>>

Next == OciStep \/ ProvenanceStep \/ Environment \/ \E t \in Tasks : TaskStep(t)

\* regctl runs with a timeout; cosign has none, and is taken to end.
Fairness ==
    /\ WF_vars(OciStep) /\ WF_vars(ProvenanceStep)
    /\ \A t \in Tasks : WF_vars(TaskStep(t))

Spec == Init /\ [][Next]_vars /\ Fairness

-----------------------------------------------------------------------------

TypeOK ==
    /\ CacheTypeOK
    /\ reference \in References /\ requested \in Platforms \union {Unknown}
    /\ DOMAIN at = Threads
    /\ ref \in [Inspectors -> Manifests \union {Tag}]
    /\ entry \in [Inspectors -> [config : Manifests \union {NoAnswer},
                                 layers : Manifests \union {NoAnswer},
                                 digest : Manifests \union {NoDigest}]]
    /\ \A n \in DOMAIN platforms : \E t \in Inspectors : platforms[n] = entry[t]
    /\ subject \in Images \union {NoDigest}
    /\ found \subseteq Attachments /\ gap \in BOOLEAN
    /\ unconfirmed \subseteq Signers /\ signers \subseteq Signers
    /\ before \subseteq attached

\* The status of the rule signed-by on the finished report.
SignedBy ==
    IF at[Provenance] = "failed" THEN "incomplete"
    ELSE IF signers \cap Accepted # {} THEN "passed"
    ELSE IF gap THEN "incomplete" ELSE "failed"

\* signed-by passes only on a genuine signature of the subject by a signer of the
\* list, and fails only if there was none when the run began: no failed lookup,
\* no copied or unreadable signature and no new one turns an answer around.
Signing(i) == {a \in Attachments : /\ Subject[a] = i /\ Layout[a] # "other"
                                   /\ a \in Genuine /\ Claims[a] \in Accepted}
SignedByIsSound ==
    at[Provenance] \in {"done", "failed"} =>
        /\ SignedBy = "passed" => Signing(subject) \cap attached # {}
        /\ SignedBy = "failed" => Signing(subject) \cap before = {}

\* Each platform of oci's report describes one manifest, or says nothing, however
\* often the tag is pushed and whatever fails; without --platform an index has
\* one for each of its real entries, under the digest of the entry if that is not
\* an index in turn.
EntryOfOneManifest ==
    at[Oci] \in {"tags", "done"} =>
        /\ \A n \in DOMAIN platforms :
              \/ NoAnswer \in {platforms[n].config, platforms[n].layers}
              \/ platforms[n].config = platforms[n].layers
        /\ requested = Unknown /\ seen[Oci] \in Index =>
              /\ DOMAIN platforms = RealPlatforms(seen[Oci])
              /\ \A n \in DOMAIN platforms :
                    LET d == Entries[seen[Oci]][n].digest
                    IN d \notin Index =>
                          /\ platforms[n].digest = d
                          /\ {platforms[n].config, platforms[n].layers} \subseteq {d, NoAnswer}

\* Both analyzers end: no thread waits for ever for the lock, or for a task that
\* waits for the lock.
InspectionEnds ==
    <>(at[Oci] \in {"done", "failed"} /\ at[Provenance] \in {"done", "failed"})

\* The promise: the lock, the tasks and the order of the calls forgotten.
Frozen == INSTANCE OneAnswer WITH answer <- memo

ImplementsOneAnswer == Frozen!Spec

-----------------------------------------------------------------------------

\* analyzer/oci.schema.json: "Manifest digest for this variant."
DigestOfThisVariant ==
    at[Oci] = "done" =>
        \A n \in DOMAIN platforms : platforms[n].digest \notin Index

=============================================================================
