SPECIFICATION Spec
CONSTANTS
    Tag = Tag
    multi = multi
    single = single
    amd = amd
    arm = arm
    att = att
    amd64 = amd64
    arm64 = arm64
    s390x = s390x
    alice = alice
    mallory = mallory
    bundle = bundle
    copied = copied
    legacy = legacy
    bykey = bykey
    sbom = sbom
    Oci = Oci
    Provenance = Provenance
    NoDigest = NoDigest
    NoAnswer = NoAnswer
    Unknown = Unknown
    RegistryError = RegistryError
    OSError = OSError
    NoSigner = NoSigner
    Images = {multi, single}
    Index = {multi}
    Entries <- MCEntries
    Attachments = {bundle, legacy, copied, bykey, sbom}
    Registries <- MCRegistries
    Layout <- MCLayout
    Subject <- MCSubject
    Claims <- MCClaims
    Genuine = {bundle, legacy}
    Signers = {alice, mallory}
    Accepted = {alice}
    References = {Tag, single}
    Platforms = {amd64}
    MaxChanges = 1
    MaxFailures = 1
CHECK_DEADLOCK FALSE
INVARIANTS
    TypeOK
    SignedByIsSound
    EntryOfOneManifest

PROPERTIES
    InspectionEnds
    ImplementsOneAnswer
