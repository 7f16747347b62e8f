------------------------- MODULE MCImageInspection -------------------------
(***************************************************************************)
(* Instances of ImageInspection for TLC: an index of two platforms and an  *)
(* attestation, a single image, and signatures in both layouts.            *)
(***************************************************************************)
EXTENDS ImageInspection, TLC

CONSTANTS multi, single, amd, arm, att, amd64, arm64, s390x, alice, mallory,
          bundle, copied, legacy, bykey, sbom

MCEntries == (multi :> <<[digest |-> att, platform |-> Unknown],
                         [digest |-> amd, platform |-> amd64],
                         [digest |-> arm, platform |-> arm64]>>)

\* The registries: each image with a signature that counts, with those that do
\* not, and with both.
MCRegistries == {{bundle, sbom, copied}, {bykey, legacy, copied}, {bundle, bykey, legacy}}

\* A bundle and a legacy signature by alice, each on one image; a bundle copied
\* from another image that claims her; a signature by key; an SBOM.
MCLayout == [a \in Attachments |-> CASE a \in {bundle, copied} -> "bundle"
                                     [] a \in {legacy, bykey} -> "legacy"
                                     [] OTHER -> "other"]
MCSubject == [a \in Attachments |-> IF a \in {legacy, copied} THEN single ELSE multi]
MCClaims == [a \in Attachments |-> IF a \in {bundle, legacy, copied} THEN alice ELSE NoSigner]

=============================================================================
