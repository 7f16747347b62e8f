---------------------------- MODULE RuleSet_proofs ----------------------------
(***************************************************************************)
(* Proofs about RuleSet.  What resolve_rules makes of a playbook is proved *)
(* along the playbook, entry by entry, as its author writes it; what the   *)
(* verdicts and the hash say of the resolved rules follows from that, or   *)
(* holds of any rules.                                                     *)
(***************************************************************************)
EXTENDS RuleSet, SequenceTheorems, FiniteSetTheorems, TLAPS

Processing == INSTANCE InOrder WITH Op <- Process, Base <- <<>>
Assembling == INSTANCE InOrder WITH Op <- Assemble, Base <- <<>>

-----------------------------------------------------------------------------
(* The two loops of resolve_rules, one element at a time.                  *)

LEMMA ProcessedNone == Processed(<<>>) = <<>>
  <1>1. Processing!Fold(<<>>) = Processed(<<>>)
    BY Zenon DEF Processed, Processing!Fold, Processing!FoldLeft, FoldLeft, Processing!MapThenFoldSet,
                 MapThenFoldSet, Processing!Max, Max
  <1> QED
    BY <1>1, Processing!FoldEmpty

LEMMA ProcessedMore ==
    ASSUME NEW S, NEW p \in Seq(S), NEW d
    PROVE  Processed(Append(p, d)) = Process(Processed(p), d)
  <1>1. ASSUME NEW s PROVE Processing!Fold(s) = Processed(s)
    BY Zenon DEF Processed, Processing!Fold, Processing!FoldLeft, FoldLeft, Processing!MapThenFoldSet,
                 MapThenFoldSet, Processing!Max, Max
  <1>2. Processing!Fold(Append(p, d)) = Process(Processing!Fold(p), d)
    BY Processing!FoldAppend
  <1> QED
    BY <1>1, <1>2

Assembled(entries) == FoldLeft(Assemble, <<>>, entries)

LEMMA AssembledNone == Assembled(<<>>) = <<>>
  <1>1. Assembling!Fold(<<>>) = Assembled(<<>>)
    BY Zenon DEF Assembled, Assembling!Fold, Assembling!FoldLeft, FoldLeft, Assembling!MapThenFoldSet,
                 MapThenFoldSet, Assembling!Max, Max
  <1> QED
    BY <1>1, Assembling!FoldEmpty

LEMMA AssembledMore ==
    ASSUME NEW S, NEW entries \in Seq(S), NEW r
    PROVE  Assembled(Append(entries, r)) = Assemble(Assembled(entries), r)
  <1>1. ASSUME NEW s PROVE Assembling!Fold(s) = Assembled(s)
    BY Zenon DEF Assembled, Assembling!Fold, Assembling!FoldLeft, FoldLeft, Assembling!MapThenFoldSet,
                 MapThenFoldSet, Assembling!Max, Max
  <1>2. Assembling!Fold(Append(entries, r)) = Assemble(Assembling!Fold(entries), r)
    BY Assembling!FoldAppend
  <1> QED
    BY <1>1, <1>2

-----------------------------------------------------------------------------
(* Rules.                                                                  *)

Rules ==
    [provider : Providers \union {"custom"}, slug : Seq(STRING), level : Levels \union {None},
     enable : BOOLEAN \union {None}, at : Severities \union {None}, limit : Nat \union {None},
     condition : Conditions \union {None}]
Keys == {"provider", "slug", "level", "enable", "at", "limit", "condition"}

LEMMA RuleKeys == \A r \in Rules : DOMAIN r = Keys
  BY DEF Rules, Keys

LEMMA OneAndTwo == ASSUME NEW S, NEW x \in S, NEW y \in S PROVE <<x>> \in Seq(S) /\ <<x, y>> \in Seq(S)
  OBVIOUS
LEMMA NamesAreSlugs == \A x, y \in STRING : <<x>> \in Seq(STRING) /\ <<x, y>> \in Seq(STRING)
  BY OneAndTwo

\* A binding of a criterion of the catalogue makes a rule.
LEMMA InstanceIsRule ==
    ASSUME NEW d \in Declarations, Binds(d), InCatalogue(d), NEW n \in 0 .. MaxRules
    PROVE  Instance(d, n) \in Rules
  <1> DEFINE t == Catalogue[<<d.provider, d.criterion>>]
  <1>1. /\ t.level \in Levels /\ t.at \in Severities \union {None}
        /\ t.limit \in Nat \union {None} /\ t.condition \in Conditions
    BY CatalogueAssumption DEF InCatalogue
  <1>2. /\ d.provider \in Providers /\ d.criterion \in STRING
        /\ d.slug \in Seq(STRING) \union {None} /\ d.level \in Levels \union {None}
        /\ d.enable \in BOOLEAN \union {None} /\ d.at \in Severities \union {None}
        /\ d.limit \in Nat \union {None} /\ d.condition \in Conditions \union {None}
    BY DeclarationsAssumption DEF Binds
  <1>3. GeneratedSlug(d, n) \in Seq(STRING)
    <2>1. d.at # None => d.at \in STRING
      BY <1>2, StringsAssumption
    <2>2. ToString(n) \in STRING
      BY StringsAssumption
    <2> QED
      BY <1>2, <2>1, <2>2, NamesAreSlugs DEF GeneratedSlug
  <1> HIDE DEF t
  <1>4. /\ Or(d.slug, GeneratedSlug(d, n)) \in Seq(STRING)
        /\ Or(d.level, t.level) \in Levels
        /\ Or(d.at, t.at) \in Severities \union {None}
        /\ Or(d.limit, t.limit) \in Nat \union {None}
        /\ Or(d.condition, t.condition) \in Conditions
    BY <1>1, <1>2, <1>3 DEF Or
  <1>5. Or(d.enable, TRUE) \in BOOLEAN \union {None}
    BY <1>2, Zenon DEF Or
  <1> QED
    BY <1>2, <1>4, <1>5 DEF Instance, Rules, t

LEMMA AsWrittenIsRule ==
    ASSUME NEW d \in Declarations, AsWritten(d).slug # None
    PROVE  AsWritten(d) \in Rules
  <1>1. /\ d.provider \in Providers \union {None} /\ d.criterion \in STRING \union {None}
        /\ d.slug \in Seq(STRING) \union {None} /\ d.level \in Levels \union {None}
        /\ d.enable \in BOOLEAN \union {None} /\ d.condition \in Conditions \union {None}
    BY DeclarationsAssumption
  <1>2. Or(d.provider, "custom") \in Providers \union {"custom"}
    BY <1>1 DEF Or
  <1>3. AsWritten(d).slug \in Seq(STRING)
    <2>1. AsWritten(d).slug = IF Binds(d) \/ d.criterion = None THEN d.slug ELSE <<d.criterion>>
      BY DEF AsWritten
    <2>2. CASE Binds(d) \/ d.criterion = None
      BY <1>1, <2>1, <2>2
    <2>3. CASE ~(Binds(d) \/ d.criterion = None)
      <3>1. d.criterion \in STRING
        BY <1>1, <2>3
      <3>2. <<d.criterion>> \in Seq(STRING)
        BY <3>1, NamesAreSlugs
      <3> QED
        BY <2>1, <2>3, <3>2
    <2> QED
      BY <2>2, <2>3
  <1> QED
    BY <1>1, <1>2, <1>3 DEF AsWritten, Rules

\* What one entry of a playbook adds.
LEMMA ProcessStep ==
    ASSUME NEW entries \in Seq(Rules), Len(entries) <= MaxRules, NEW d \in Declarations
    PROVE  \/ Process(entries, d) = entries
           \/ \E r \in Rules : Process(entries, d) = Append(entries, r)
  <1>1. Len(entries) \in 0 .. MaxRules
    BY BoundsAssumption
  <1>2. CASE Binds(d) /\ InCatalogue(d)
    BY <1>1, <1>2, InstanceIsRule DEF Process
  <1>3. CASE ~(Binds(d) /\ InCatalogue(d)) /\ AsWritten(d).slug # None
    BY <1>3, AsWrittenIsRule DEF Process
  <1>4. CASE ~(Binds(d) /\ InCatalogue(d)) /\ AsWritten(d).slug = None
    BY <1>4 DEF Process
  <1> QED
    BY <1>2, <1>3, <1>4

-----------------------------------------------------------------------------
(* The second loop: the last word of each key.                             *)

LEMMA KeyIsSame ==
    /\ \A r : SameKey(r, r)
    /\ \A r, s : SameKey(r, s) => SameKey(s, r)
    /\ \A r, s, t : SameKey(r, s) /\ SameKey(s, t) => SameKey(r, t)
  BY DEF SameKey

\* What LastWordWins says, in a form that one more entry preserves.
Covers(final, entries) ==
    /\ \A j \in DOMAIN entries : \E i \in DOMAIN final : SameKey(entries[j], final[i])
    /\ \A i \in DOMAIN final : \E j \in DOMAIN entries : SameKey(entries[j], final[i])
Distinct(final) == \A i, k \in DOMAIN final : SameKey(final[i], final[k]) => i = k
InOrderOfFirst(final, entries) ==
    \A i, k \in DOMAIN final : i < k =>
        \A b \in DOMAIN entries : SameKey(entries[b], final[k]) =>
            \E a \in 1 .. b - 1 : SameKey(entries[a], final[i])
NeverSaid(entries, r, f) ==
    r[f] = None /\ \A j \in DOMAIN entries : SameKey(entries[j], r) => entries[j][f] = None
SaidLast(entries, r, f) ==
    \E j \in DOMAIN entries :
        /\ SameKey(entries[j], r) /\ entries[j][f] = r[f] /\ r[f] # None
        /\ \A k \in DOMAIN entries : j < k /\ SameKey(entries[k], r) => entries[k][f] = None
Latest(final, entries) ==
    \A i \in DOMAIN final : \A f \in Keys :
        NeverSaid(entries, final[i], f) \/ SaidLast(entries, final[i], f)
LastWords(final, entries) ==
    Covers(final, entries) /\ Distinct(final) /\ InOrderOfFirst(final, entries) /\ Latest(final, entries)

Merged(r, q) == [f \in DOMAIN r |-> Or(r[f], q[f])]

LEMMA MergedIsRule ==
    ASSUME NEW r \in Rules, NEW q \in Rules, SameKey(q, r)
    PROVE  /\ Merged(r, q) \in Rules
           /\ \A f \in Keys : Merged(r, q)[f] = Or(r[f], q[f])
           /\ SameKey(q, Merged(r, q))
  <1>1. DOMAIN r = Keys
    BY RuleKeys
  <1>2. \A f \in Keys : Merged(r, q)[f] = Or(r[f], q[f])
    BY <1>1 DEF Merged
  <1>3. Merged(r, q) = [f \in Keys |-> Or(r[f], q[f])]
    BY <1>1 DEF Merged
  <1>4. /\ Or(r.provider, q.provider) = q.provider /\ Or(r.slug, q.slug) = q.slug
        /\ Or(r.level, q.level) \in Levels \union {None}
        /\ Or(r.at, q.at) \in Severities \union {None}
        /\ Or(r.limit, q.limit) \in Nat \union {None}
        /\ Or(r.condition, q.condition) \in Conditions \union {None}
    BY DEF Rules, Or, SameKey
  <1>5. Or(r.enable, q.enable) \in BOOLEAN \union {None}
    <2>1. r.enable \in BOOLEAN \union {None} /\ q.enable \in BOOLEAN \union {None}
      BY DEF Rules
    <2> QED
      BY <2>1, Zenon DEF Or
  <1>6. Merged(r, q) = [provider |-> Or(r.provider, q.provider), slug |-> Or(r.slug, q.slug),
                        level |-> Or(r.level, q.level), enable |-> Or(r.enable, q.enable),
                        at |-> Or(r.at, q.at), limit |-> Or(r.limit, q.limit),
                        condition |-> Or(r.condition, q.condition)]
    BY <1>3 DEF Keys
  <1>7. q.provider \in Providers \union {"custom"} /\ q.slug \in Seq(STRING)
    BY DEF Rules
  <1>8. Merged(r, q) \in Rules
    BY <1>4, <1>5, <1>6, <1>7 DEF Rules
  <1>9. Merged(r, q).provider = q.provider /\ Merged(r, q).slug = q.slug
    BY <1>4, <1>6
  <1> QED
    BY <1>2, <1>8, <1>9 DEF SameKey

\* An entry of a key that is there already.
LEMMA OverrideKeeps ==
    ASSUME NEW entries \in Seq(Rules), NEW final \in Seq(Rules), NEW r \in Rules,
           LastWords(final, entries), NEW m \in DOMAIN final, SameKey(final[m], r)
    PROVE  /\ Assemble(final, r) \in Seq(Rules)
           /\ LastWords(Assemble(final, r), Append(entries, r))
  <1> DEFINE new == Assemble(final, r)
             all == Append(entries, r)
             n == Len(entries)
  <1>1. new = [i \in DOMAIN final |-> IF SameKey(final[i], r) THEN Merged(r, final[i]) ELSE final[i]]
    BY DEF Assemble, Merged
  <1>2. DOMAIN new = DOMAIN final
    BY <1>1
  <1>3. \A i \in DOMAIN final : final[i] \in Rules
    OBVIOUS
  <1>4. \A i \in DOMAIN final : new[i] \in Rules /\ SameKey(final[i], new[i])
    BY <1>1, <1>3, MergedIsRule, KeyIsSame
  <1>5. /\ n \in Nat /\ DOMAIN entries = 1 .. n /\ DOMAIN all = 1 .. n + 1
        /\ all[n + 1] = r /\ \A j \in 1 .. n : all[j] = entries[j]
    OBVIOUS
  <1>6. new \in Seq(Rules)
    <2>1. DOMAIN final = 1 .. Len(final) /\ Len(final) \in Nat
      OBVIOUS
    <2>2. new \in [1 .. Len(final) -> Rules]
      BY <1>1, <1>4, <2>1
    <2> HIDE DEF new
    <2> QED
      BY <2>1, <2>2
  <1> HIDE DEF new, all, n
  <1>7. \A i \in DOMAIN final : \A s : SameKey(s, final[i]) <=> SameKey(s, new[i])
    BY <1>4, KeyIsSame
  <1>8. Covers(new, all)
    <2>1. SameKey(r, new[m])
      BY <1>7, KeyIsSame
    <2> QED
      <3>1. ASSUME NEW j \in 1 .. n + 1 PROVE \E i \in DOMAIN final : SameKey(all[j], new[i])
        <4>1. CASE j = n + 1
          BY <1>5, <2>1, <4>1
        <4>2. CASE j # n + 1
          <5>1. j \in 1 .. n
            BY <1>5, <4>2
          <5>2. PICK i \in DOMAIN final : SameKey(entries[j], final[i])
            BY <1>5, <5>1 DEF LastWords, Covers
          <5> QED
            BY <1>5, <1>7, <5>1, <5>2
        <4> QED
          BY <4>1, <4>2
      <3>2. ASSUME NEW i \in DOMAIN final PROVE \E j \in 1 .. n + 1 : SameKey(all[j], new[i])
        <4>1. PICK j \in 1 .. n : SameKey(entries[j], final[i])
          BY <1>5 DEF LastWords, Covers
        <4>2. j \in 1 .. n + 1
          BY <1>5
        <4> QED
          BY <1>5, <1>7, <4>1, <4>2
      <3> QED
        BY <1>2, <1>5, <3>1, <3>2 DEF Covers
  <1>9. Distinct(new)
    BY <1>2, <1>4, <1>7, KeyIsSame DEF LastWords, Distinct
  <1>10. InOrderOfFirst(new, all)
    <2> SUFFICES ASSUME NEW i \in DOMAIN final, NEW k \in DOMAIN final, i < k,
                        NEW b \in 1 .. n + 1, SameKey(all[b], final[k])
                 PROVE  \E a \in 1 .. b - 1 : SameKey(all[a], final[i])
      BY <1>2, <1>5, <1>7 DEF InOrderOfFirst
    <2>1. PICK c \in 1 .. n : c <= b /\ SameKey(entries[c], final[k])
      <3>1. CASE b = n + 1
        <4>1. \E c \in 1 .. n : SameKey(entries[c], final[k])
          BY <1>5 DEF LastWords, Covers
        <4> QED
          BY <1>5, <3>1, <4>1
      <3>2. CASE b # n + 1
        BY <1>5, <3>2
      <3> QED
        BY <3>1, <3>2
    <2>2. PICK a \in 1 .. c - 1 : SameKey(entries[a], final[i])
      BY <1>5, <2>1 DEF LastWords, InOrderOfFirst
    <2>3. a \in 1 .. b - 1 /\ a \in 1 .. n
      BY <1>5, <2>1, <2>2
    <2> QED
      BY <1>5, <2>2, <2>3
  <1>11. Latest(new, all)
    <2> SUFFICES ASSUME NEW i \in DOMAIN final, NEW f \in Keys
                 PROVE  NeverSaid(all, new[i], f) \/ SaidLast(all, new[i], f)
      BY <1>2 DEF Latest
    <2>1. NeverSaid(entries, final[i], f) \/ SaidLast(entries, final[i], f)
      BY DEF LastWords, Latest
    <2>2. CASE SameKey(final[i], r) /\ r[f] # None
      <3>1. new[i][f] = r[f]
        BY <1>1, <1>3, <2>2, MergedIsRule DEF Or
      <3>2. SameKey(r, new[i])
        BY <1>7, <2>2, KeyIsSame
      <3>3. \A k \in DOMAIN all : ~(n + 1 < k)
        BY <1>5
      <3>4. n + 1 \in DOMAIN all /\ all[n + 1] = r
        BY <1>5
      <3> QED
        BY <2>2, <3>1, <3>2, <3>3, <3>4 DEF SaidLast
    <2>3. CASE ~SameKey(final[i], r) \/ r[f] = None
      <3>1. new[i][f] = final[i][f]
        <4>1. CASE SameKey(final[i], r)
          BY <1>1, <1>3, <2>3, <4>1, MergedIsRule DEF Or
        <4>2. CASE ~SameKey(final[i], r)
          BY <1>1, <4>2
        <4> QED
          BY <4>1, <4>2
      <3>2. \A j \in DOMAIN all : SameKey(all[j], new[i]) =>
               \/ j \in DOMAIN entries /\ all[j] = entries[j] /\ SameKey(entries[j], final[i])
               \/ j = n + 1 /\ all[j][f] = None
        BY <1>5, <1>7, <2>3, KeyIsSame
      <3>3. NeverSaid(entries, final[i], f) => NeverSaid(all, new[i], f)
        BY <3>1, <3>2 DEF NeverSaid
      <3>4. SaidLast(entries, final[i], f) => SaidLast(all, new[i], f)
        <4> SUFFICES ASSUME NEW j \in DOMAIN entries, SameKey(entries[j], final[i]),
                            entries[j][f] = final[i][f], final[i][f] # None,
                            \A k \in DOMAIN entries : j < k /\ SameKey(entries[k], final[i]) =>
                                entries[k][f] = None
                     PROVE  SaidLast(all, new[i], f)
          BY DEF SaidLast
        <4>1. j \in DOMAIN all /\ all[j] = entries[j] /\ SameKey(all[j], new[i])
          BY <1>5, <1>7
        <4> QED
          BY <3>1, <3>2, <4>1 DEF SaidLast
      <3> QED
        BY <2>1, <3>3, <3>4
    <2> QED
      BY <2>2, <2>3
  <1> QED
    BY <1>6, <1>8, <1>9, <1>10, <1>11 DEF LastWords, new, all

\* An entry of a new key.
LEMMA NewKeyKeeps ==
    ASSUME NEW entries \in Seq(Rules), NEW final \in Seq(Rules), NEW r \in Rules,
           LastWords(final, entries), \A i \in DOMAIN final : ~SameKey(final[i], r)
    PROVE  /\ Assemble(final, r) = Append(final, r)
           /\ LastWords(Append(final, r), Append(entries, r))
  <1> DEFINE new == Append(final, r)
             all == Append(entries, r)
             n == Len(entries)
             l == Len(final)
  <1>1. Assemble(final, r) = new
    BY DEF Assemble
  <1>2. /\ l \in Nat /\ DOMAIN final = 1 .. l /\ DOMAIN new = 1 .. l + 1
        /\ new[l + 1] = r /\ \A i \in 1 .. l : new[i] = final[i]
    OBVIOUS
  <1>3. /\ n \in Nat /\ DOMAIN entries = 1 .. n /\ DOMAIN all = 1 .. n + 1
        /\ all[n + 1] = r /\ \A j \in 1 .. n : all[j] = entries[j]
    OBVIOUS
  <1> HIDE DEF new, all, n, l
  <1>4. \A j \in 1 .. n : ~SameKey(entries[j], r)
    BY <1>2, <1>3, KeyIsSame DEF LastWords, Covers
  <1>5. \A i \in 1 .. l : ~SameKey(r, final[i])
    BY <1>2, KeyIsSame
  <1>6. Covers(new, all)
    <2>1. ASSUME NEW j \in 1 .. n + 1 PROVE \E i \in 1 .. l + 1 : SameKey(all[j], new[i])
      <3>1. CASE j = n + 1
        BY <1>2, <1>3, <3>1, KeyIsSame
      <3>2. CASE j # n + 1
        <4>1. j \in 1 .. n
          BY <1>3, <3>2
        <4>2. PICK i \in 1 .. l : SameKey(entries[j], final[i])
          BY <1>2, <1>3, <4>1 DEF LastWords, Covers
        <4> QED
          BY <1>2, <1>3, <4>1, <4>2
      <3> QED
        BY <3>1, <3>2
    <2>2. ASSUME NEW i \in 1 .. l + 1 PROVE \E j \in 1 .. n + 1 : SameKey(all[j], new[i])
      <3>1. CASE i = l + 1
        BY <1>2, <1>3, <3>1, KeyIsSame
      <3>2. CASE i # l + 1
        <4>1. i \in 1 .. l
          BY <1>2, <3>2
        <4>2. PICK j \in 1 .. n : SameKey(entries[j], final[i])
          BY <1>2, <1>3, <4>1 DEF LastWords, Covers
        <4> QED
          BY <1>2, <1>3, <4>1, <4>2
      <3> QED
        BY <3>1, <3>2
    <2> QED
      BY <1>2, <1>3, <2>1, <2>2 DEF Covers
  <1>7. Distinct(new)
    <2> SUFFICES ASSUME NEW i \in 1 .. l + 1, NEW k \in 1 .. l + 1, SameKey(new[i], new[k])
                 PROVE  i = k
      BY <1>2 DEF Distinct
    <2>1. i \in 1 .. l \/ i = l + 1
      BY <1>2
    <2>2. k \in 1 .. l \/ k = l + 1
      BY <1>2
    <2> QED
      BY <1>2, <1>5, <2>1, <2>2 DEF LastWords, Distinct
  <1>8. InOrderOfFirst(new, all)
    <2> SUFFICES ASSUME NEW i \in 1 .. l + 1, NEW k \in 1 .. l + 1, i < k,
                        NEW b \in 1 .. n + 1, SameKey(all[b], new[k])
                 PROVE  \E a \in 1 .. b - 1 : SameKey(all[a], new[i])
      BY <1>2, <1>3 DEF InOrderOfFirst
    <2>1. i \in 1 .. l /\ new[i] = final[i]
      BY <1>2
    <2>2. CASE k = l + 1
      <3>1. b = n + 1
        BY <1>2, <1>3, <1>4, <2>2
      <3>2. PICK a \in 1 .. n : SameKey(entries[a], final[i])
        BY <1>2, <1>3, <2>1 DEF LastWords, Covers
      <3>3. a \in 1 .. b - 1
        BY <1>3, <3>1, <3>2
      <3> QED
        BY <1>3, <2>1, <3>2, <3>3
    <2>3. CASE k # l + 1
      <3>1. k \in 1 .. l /\ new[k] = final[k]
        BY <1>2, <2>3
      <3>2. b # n + 1
        BY <1>3, <1>5, <3>1
      <3>3. b \in 1 .. n /\ all[b] = entries[b]
        BY <1>3, <3>2
      <3>4. PICK a \in 1 .. b - 1 : SameKey(entries[a], final[i])
        BY <1>2, <1>3, <2>1, <3>1, <3>3 DEF LastWords, InOrderOfFirst
      <3>5. a \in 1 .. n
        BY <1>3, <3>3, <3>4
      <3> QED
        BY <1>3, <2>1, <3>4, <3>5
    <2> QED
      BY <2>2, <2>3
  <1>9. Latest(new, all)
    <2> SUFFICES ASSUME NEW i \in 1 .. l + 1, NEW f \in Keys
                 PROVE  NeverSaid(all, new[i], f) \/ SaidLast(all, new[i], f)
      BY <1>2 DEF Latest
    <2>1. CASE i = l + 1
      <3>1. new[i] = r
        BY <1>2, <2>1
      <3>2. \A j \in DOMAIN all : SameKey(all[j], r) => j = n + 1
        BY <1>3, <1>4
      <3>3. n + 1 \in DOMAIN all /\ all[n + 1] = r /\ SameKey(r, r)
        BY <1>3, KeyIsSame
      <3>4. CASE r[f] = None
        BY <3>1, <3>2, <3>3, <3>4 DEF NeverSaid
      <3>5. CASE r[f] # None
        <4>1. \A k \in DOMAIN all : ~(n + 1 < k)
          BY <1>3
        <4> QED
          BY <3>1, <3>3, <3>5, <4>1 DEF SaidLast
      <3> QED
        BY <3>4, <3>5
    <2>2. CASE i # l + 1
      <3>1. i \in 1 .. l /\ new[i] = final[i]
        BY <1>2, <2>2
      <3>2. \A j \in DOMAIN all : SameKey(all[j], final[i]) => j \in DOMAIN entries /\ all[j] = entries[j]
        BY <1>3, <1>5, <3>1
      <3>3. \A j \in DOMAIN entries : j \in DOMAIN all /\ all[j] = entries[j]
        BY <1>3
      <3>4. NeverSaid(entries, final[i], f) \/ SaidLast(entries, final[i], f)
        BY <1>2, <3>1 DEF LastWords, Latest
      <3>5. NeverSaid(entries, final[i], f) => NeverSaid(all, new[i], f)
        BY <3>1, <3>2 DEF NeverSaid
      <3>6. SaidLast(entries, final[i], f) => SaidLast(all, new[i], f)
        BY <3>1, <3>2, <3>3 DEF SaidLast
      <3> QED
        BY <3>4, <3>5, <3>6
    <2> QED
      BY <2>1, <2>2
  <1> QED
    BY <1>1, <1>6, <1>7, <1>8, <1>9 DEF LastWords, new, all

-----------------------------------------------------------------------------
(* resolve_rules, entry by entry.                                          *)

\* What an entry with a slug of its own makes, wherever it stands.
EntryOf(d) == IF Binds(d) /\ InCatalogue(d) THEN Instance(d, 0) ELSE AsWritten(d)
HasSlug(d) == d.slug # None /\ (Binds(d) \/ d.criterion = None)

\* A binding of a criterion of the catalogue leaves an entry of its key.
BindingsKept(p) ==
    \A j \in DOMAIN p : Binds(p[j]) /\ InCatalogue(p[j]) /\ p[j].slug # None =>
        \E k \in DOMAIN Processed(p) : Processed(p)[k].provider = p[j].provider
                                       /\ Processed(p)[k].slug = p[j].slug

\* An entry is off only because the author has said so of its key.
SwitchedOff(p) ==
    \A m \in DOMAIN Processed(p) : Processed(p)[m].enable = FALSE =>
        \E k \in DOMAIN p : MaySwitchOff(p[k], Processed(p)[m])

\* Entries with slugs of their own are not merged.
Unmerged(p) ==
    OwnSlugs(p) => /\ Len(Processed(p)) = Len(p)
                   /\ \A i \in DOMAIN p : Processed(p)[i] = EntryOf(p[i])
                   /\ Resolve(p) = Processed(p)

ListTyped(p) ==
    /\ p \in Seq(Declarations) /\ Len(p) <= MaxRules
    /\ Processed(p) \in Seq(Rules) /\ Len(Processed(p)) <= Len(p)
    /\ Resolve(p) \in Seq(Rules)
ListInv(p) ==
    /\ ListTyped(p) /\ LastWords(Resolve(p), Processed(p))
    /\ BindingsKept(p) /\ SwitchedOff(p) /\ Unmerged(p)

LEMMA ResolveIs == \A p : Resolve(p) = Assembled(Processed(p))
  BY DEF Resolve, Assembled

LEMMA ListNone == ListInv(<<>>)
  <1>1. Processed(<<>>) = <<>> /\ Resolve(<<>>) = <<>>
    BY ProcessedNone, AssembledNone, ResolveIs
  <1>2. <<>> \in Seq(Rules) /\ <<>> \in Seq(Declarations) /\ Len(<<>>) = 0 /\ DOMAIN <<>> = {}
    BY EmptySeq
  <1>3. ListTyped(<<>>)
    <2>1. 0 <= MaxRules /\ Len(<<>>) <= MaxRules /\ Len(<<>>) <= Len(<<>>)
      BY <1>2, BoundsAssumption
    <2> QED
      BY <1>1, <1>2, <2>1, Zenon DEF ListTyped
  <1>4. LastWords(<<>>, <<>>)
    BY <1>2 DEF LastWords, Covers, Distinct, InOrderOfFirst, Latest
  <1>5. BindingsKept(<<>>)
    BY <1>1, <1>2 DEF BindingsKept
  <1>6. Unmerged(<<>>)
    BY <1>1, <1>2 DEF Unmerged
  <1>7. SwitchedOff(<<>>)
    BY <1>1, <1>2 DEF SwitchedOff
  <1> QED
    BY <1>1, <1>3, <1>4, <1>5, <1>6, <1>7 DEF ListInv

LEMMA EntryHasSlug ==
    ASSUME NEW d \in Declarations, HasSlug(d), NEW entries
    PROVE  Process(entries, d) = Append(entries, EntryOf(d)) /\ EntryOf(d).slug = d.slug
  <1>1. CASE Binds(d) /\ InCatalogue(d)
    <2>1. \A n : Or(d.slug, GeneratedSlug(d, n)) = d.slug
      BY DEF HasSlug, Or
    <2>2. \A n : Instance(d, n) = Instance(d, 0)
      BY <2>1, Zenon DEF Instance
    <2>3. Instance(d, 0).slug = d.slug
      BY <2>1 DEF Instance
    <2> QED
      BY <1>1, <2>2, <2>3, Zenon DEF Process, EntryOf
  <1>2. CASE ~(Binds(d) /\ InCatalogue(d))
    <2>1. AsWritten(d).slug = d.slug
      BY DEF AsWritten, HasSlug
    <2>2. AsWritten(d).slug # None
      BY <2>1 DEF HasSlug
    <2> QED
      BY <1>2, <2>1, <2>2, Zenon DEF Process, EntryOf
  <1> QED
    BY <1>1, <1>2

\* One more entry: the types and the last words.
LEMMA MoreLastWords ==
    ASSUME NEW p, ListTyped(p), LastWords(Resolve(p), Processed(p)), Len(p) < MaxRules,
           NEW d \in Declarations
    PROVE  /\ ListTyped(Append(p, d))
           /\ LastWords(Resolve(Append(p, d)), Processed(Append(p, d)))
  <1> DEFINE q == Append(p, d)
  <1>1. p \in Seq(Declarations) /\ q \in Seq(Declarations) /\ Len(q) = Len(p) + 1
    BY DEF ListTyped
  <1>2. Processed(q) = Process(Processed(p), d)
    BY <1>1, ProcessedMore
  <1>3. Resolve(q) = Assembled(Processed(q)) /\ Resolve(p) = Assembled(Processed(p))
    BY ResolveIs
  <1>4. /\ Processed(p) \in Seq(Rules) /\ Resolve(p) \in Seq(Rules)
        /\ Len(p) \in Nat /\ Len(Processed(p)) \in Nat /\ Len(Processed(p)) <= Len(p)
        /\ MaxRules \in Nat
    BY BoundsAssumption DEF ListTyped
  <1> HIDE DEF q
  <1>5. CASE Processed(q) = Processed(p)
    BY <1>1, <1>3, <1>4, <1>5 DEF ListTyped, q
  <1>6. ASSUME NEW r \in Rules, Processed(q) = Append(Processed(p), r)
        PROVE  ListTyped(q) /\ LastWords(Resolve(q), Processed(q))
    <2>1. Processed(q) \in Seq(Rules) /\ Len(Processed(q)) = Len(Processed(p)) + 1
      BY <1>4, <1>6
    <2>2. Resolve(q) = Assemble(Resolve(p), r)
      BY <1>3, <1>4, <1>6, AssembledMore
    <2>3. Resolve(q) \in Seq(Rules) /\ LastWords(Resolve(q), Processed(q))
      <3>1. CASE \E m \in DOMAIN Resolve(p) : SameKey(Resolve(p)[m], r)
        BY <1>4, <1>6, <2>2, <3>1, OverrideKeeps
      <3>2. CASE \A m \in DOMAIN Resolve(p) : ~SameKey(Resolve(p)[m], r)
        <4>1. /\ Resolve(q) = Append(Resolve(p), r)
              /\ LastWords(Append(Resolve(p), r), Append(Processed(p), r))
          BY <1>4, <2>2, <3>2, NewKeyKeeps
        <4> QED
          BY <1>4, <1>6, <4>1
      <3> QED
        BY <3>1, <3>2
    <2> QED
      BY <1>1, <1>4, <2>1, <2>3 DEF ListTyped
  <1>7. Len(Processed(p)) <= MaxRules
    BY <1>4
  <1>8. Processed(q) = Processed(p) \/ \E r \in Rules : Processed(q) = Append(Processed(p), r)
    BY <1>2, <1>4, <1>7, ProcessStep
  <1> QED
    BY <1>5, <1>6, <1>8 DEF q

\* What the entries of a list are, before and after one more.
LEMMA MoreOf ==
    ASSUME NEW S, NEW s \in Seq(S), NEW x
    PROVE  /\ Len(s) \in Nat /\ DOMAIN s = 1 .. Len(s)
           /\ DOMAIN Append(s, x) = 1 .. Len(s) + 1 /\ Len(Append(s, x)) = Len(s) + 1
           /\ Append(s, x)[Len(s) + 1] = x /\ \A i \in DOMAIN s : Append(s, x)[i] = s[i]
  OBVIOUS

LEMMA MoreBindings ==
    ASSUME NEW p, ListTyped(p), BindingsKept(p), NEW d \in Declarations
    PROVE  BindingsKept(Append(p, d))
  <1> DEFINE q == Append(p, d)
  <1>1. p \in Seq(Declarations) /\ Processed(p) \in Seq(Rules)
    BY DEF ListTyped
  <1>2. \A j \in DOMAIN q : (j \in DOMAIN p /\ q[j] = p[j]) \/ q[j] = d
    BY <1>1, MoreOf
  <1>3. Processed(q) = Process(Processed(p), d)
    BY <1>1, ProcessedMore
  <1> HIDE DEF q
  <1> SUFFICES ASSUME NEW j \in DOMAIN q, Binds(q[j]), InCatalogue(q[j]), q[j].slug # None
               PROVE  \E k \in DOMAIN Processed(q) : Processed(q)[k].provider = q[j].provider
                                                     /\ Processed(q)[k].slug = q[j].slug
    BY DEF BindingsKept, q
  <1>4. CASE j \in DOMAIN p /\ q[j] = p[j]
    <2>1. PICK k \in DOMAIN Processed(p) : Processed(p)[k].provider = q[j].provider
                                           /\ Processed(p)[k].slug = q[j].slug
      BY <1>4 DEF BindingsKept
    <2>2. \/ \E r : Processed(q) = Append(Processed(p), r)
          \/ Processed(q) = Processed(p)
      BY <1>3, Zenon DEF Process
    <2>3. k \in DOMAIN Processed(q) /\ Processed(q)[k] = Processed(p)[k]
      BY <1>1, <2>2, MoreOf
    <2> QED
      BY <2>1, <2>3
  <1>5. CASE q[j] = d
    <2> DEFINE n == Len(Processed(p))
    <2>1. Processed(q) = Append(Processed(p), Instance(d, n))
      BY <1>3, <1>5 DEF Process
    <2>2. Instance(d, n).provider = d.provider /\ Instance(d, n).slug = d.slug
      BY <1>5 DEF Instance, Or
    <2>3. n + 1 \in DOMAIN Processed(q) /\ Processed(q)[n + 1] = Instance(d, n)
      BY <1>1, <2>1, MoreOf
    <2> HIDE DEF n
    <2> QED
      BY <1>5, <2>2, <2>3
  <1> QED
    BY <1>2, <1>4, <1>5

\* What one entry adds is off only if it says so itself: a binding without a word
\* on it switches its criterion on.
LEMMA OffAsSaid ==
    ASSUME NEW d, NEW n,
           NEW r, (r = Instance(d, n) /\ Binds(d)) \/ r = AsWritten(d), r.enable = FALSE
    PROVE  MaySwitchOff(d, r)
  <1>1. CASE r = Instance(d, n) /\ Binds(d)
    <2>1. r.provider = d.provider /\ r.slug = Or(d.slug, GeneratedSlug(d, n))
          /\ r.enable = Or(d.enable, TRUE)
      BY <1>1 DEF Instance
    <2>2. d.enable = FALSE
      BY <2>1 DEF Or
    <2>3. AsWritten(d).provider = d.provider /\ AsWritten(d).slug = d.slug
      BY <1>1 DEF AsWritten, Binds, Or
    <2>4. d.slug = None \/ d.slug = r.slug
      BY <2>1 DEF Or
    <2> QED
      BY <2>1, <2>2, <2>3, <2>4 DEF MaySwitchOff
  <1>2. CASE r = AsWritten(d)
    BY <1>2 DEF MaySwitchOff, AsWritten
  <1> QED
    BY <1>1, <1>2

LEMMA MoreSwitchedOff ==
    ASSUME NEW p, ListTyped(p), SwitchedOff(p), NEW d \in Declarations
    PROVE  SwitchedOff(Append(p, d))
  <1> DEFINE q == Append(p, d)
             n == Len(Processed(p))
  <1>1. p \in Seq(Declarations) /\ Processed(p) \in Seq(Rules)
    BY DEF ListTyped
  <1>2. /\ \A k \in DOMAIN p : k \in DOMAIN q /\ q[k] = p[k]
        /\ Len(p) + 1 \in DOMAIN q /\ q[Len(p) + 1] = d
    BY <1>1, MoreOf
  <1>3. Processed(q) = Process(Processed(p), d)
    BY <1>1, ProcessedMore
  <1>4. \/ Processed(q) = Processed(p)
        \/ Binds(d) /\ Processed(q) = Append(Processed(p), Instance(d, n))
        \/ Processed(q) = Append(Processed(p), AsWritten(d))
    BY <1>3, Zenon DEF Process
  <1>5. \A m \in DOMAIN Processed(q) :
           \/ m \in DOMAIN Processed(p) /\ Processed(q)[m] = Processed(p)[m]
           \/ Processed(q)[m] = Instance(d, n) /\ Binds(d)
           \/ Processed(q)[m] = AsWritten(d)
    <2>1. ASSUME NEW r, Processed(q) = Append(Processed(p), r), NEW m \in DOMAIN Processed(q)
          PROVE  (m \in DOMAIN Processed(p) /\ Processed(q)[m] = Processed(p)[m])
                 \/ Processed(q)[m] = r
      BY <1>1, <2>1, MoreOf
    <2> QED
      BY <1>4, <2>1
  <1> HIDE DEF q, n
  <1> SUFFICES ASSUME NEW m \in DOMAIN Processed(q), Processed(q)[m].enable = FALSE
               PROVE  \E k \in DOMAIN q : MaySwitchOff(q[k], Processed(q)[m])
    BY DEF SwitchedOff, q
  <1>6. CASE m \in DOMAIN Processed(p) /\ Processed(q)[m] = Processed(p)[m]
    <2>1. PICK k \in DOMAIN p : MaySwitchOff(p[k], Processed(q)[m])
      BY <1>6, Zenon DEF SwitchedOff
    <2> QED
      BY <1>2, <2>1, Zenon
  <1>7. CASE (Processed(q)[m] = Instance(d, n) /\ Binds(d)) \/ Processed(q)[m] = AsWritten(d)
    <2>1. MaySwitchOff(d, Processed(q)[m])
      BY <1>7, OffAsSaid
    <2> QED
      BY <1>2, <2>1, Zenon
  <1> QED
    BY <1>5, <1>6, <1>7

LEMMA MoreUnmerged ==
    ASSUME NEW p, ListTyped(p), Unmerged(p), NEW d \in Declarations
    PROVE  Unmerged(Append(p, d))
  <1> DEFINE q == Append(p, d)
             n == Len(p)
  <1>1. p \in Seq(Declarations) /\ Processed(p) \in Seq(Rules)
    BY DEF ListTyped
  <1>2. /\ n \in Nat /\ DOMAIN p = 1 .. n /\ DOMAIN q = 1 .. n + 1 /\ Len(q) = n + 1
        /\ q[n + 1] = d /\ \A j \in 1 .. n : q[j] = p[j]
    BY <1>1, MoreOf
  <1>3. Processed(q) = Process(Processed(p), d)
    BY <1>1, ProcessedMore
  <1>4. Resolve(q) = Assembled(Processed(q)) /\ Resolve(p) = Assembled(Processed(p))
    BY ResolveIs
  <1> HIDE DEF q, n
  <1> SUFFICES ASSUME OwnSlugs(q)
               PROVE  /\ Len(Processed(q)) = Len(q)
                      /\ \A i \in DOMAIN q : Processed(q)[i] = EntryOf(q[i])
                      /\ Resolve(q) = Processed(q)
    BY DEF Unmerged, q
  <1>5. HasSlug(d) /\ \A i \in 1 .. n : p[i].slug # d.slug /\ HasSlug(p[i])
    <2>1. \A i \in 1 .. n + 1 : HasSlug(q[i])
      BY <1>2 DEF OwnSlugs, HasSlug
    <2>2. \A i \in 1 .. n : q[i].slug # q[n + 1].slug
      BY <1>2 DEF OwnSlugs
    <2> QED
      BY <1>2, <2>1, <2>2
  <1>6. OwnSlugs(p)
    BY <1>2 DEF OwnSlugs
  <1>7. /\ Len(Processed(p)) = n /\ \A i \in 1 .. n : Processed(p)[i] = EntryOf(p[i])
        /\ Resolve(p) = Processed(p)
    BY <1>2, <1>6 DEF Unmerged, n
  <1>8. Processed(q) = Append(Processed(p), EntryOf(d)) /\ EntryOf(d).slug = d.slug
    BY <1>3, <1>5, EntryHasSlug
  <1>9. /\ DOMAIN Processed(p) = 1 .. n /\ Len(Processed(q)) = n + 1
        /\ Processed(q)[n + 1] = EntryOf(d) /\ \A i \in 1 .. n : Processed(q)[i] = Processed(p)[i]
    BY <1>1, <1>7, <1>8, MoreOf
  <1>10. \A i \in 1 .. n : ~SameKey(Processed(p)[i], EntryOf(d))
    <2> SUFFICES ASSUME NEW i \in 1 .. n PROVE Processed(p)[i].slug # EntryOf(d).slug
      BY DEF SameKey
    <2>1. p[i] \in Declarations
      BY <1>1, <1>2
    <2>2. EntryOf(p[i]).slug = p[i].slug
      BY <1>5, <2>1, EntryHasSlug
    <2> QED
      BY <1>5, <1>7, <1>8, <2>2
  <1>11. Resolve(q) = Assemble(Processed(p), EntryOf(d))
    BY <1>1, <1>4, <1>7, <1>8, AssembledMore
  <1>12. Assemble(Processed(p), EntryOf(d)) = Append(Processed(p), EntryOf(d))
    BY <1>9, <1>10 DEF Assemble
  <1>13. \A i \in 1 .. n + 1 : Processed(q)[i] = EntryOf(q[i])
    BY <1>2, <1>7, <1>9
  <1> QED
    BY <1>2, <1>8, <1>9, <1>11, <1>12, <1>13

LEMMA ListMore ==
    ASSUME NEW p, ListInv(p), Len(p) < MaxRules, NEW d \in Declarations
    PROVE  ListInv(Append(p, d))
  BY MoreLastWords, MoreBindings, MoreSwitchedOff, MoreUnmerged DEF ListInv

-----------------------------------------------------------------------------
(* Every playbook that is written is such a list.                          *)

IInv == ListInv(playbook) /\ ListInv(pinned) /\ facts \in Facts

LEMMA InitInv == Init => IInv
  BY ListNone DEF Init, IInv

LEMMA NextInv == IInv /\ [Next]_vars => IInv'
  <1> SUFFICES ASSUME IInv, [Next]_vars PROVE IInv'
    OBVIOUS
  <1>1. ASSUME NEW d \in Declarations, Declare(d) PROVE IInv'
    <2>1. ListInv(Append(playbook, d))
      BY <1>1, ListMore DEF Declare, IInv
    <2>2. playbook' = Append(playbook, d) /\ pinned' = pinned /\ facts' = facts
      BY <1>1 DEF Declare
    <2> QED
      BY <2>1, <2>2, Zenon DEF IInv, ListInv, ListTyped, LastWords, BindingsKept, SwitchedOff, Unmerged
  <1>2. CASE Pin
    BY <1>2, ListNone DEF Pin, IInv, ListInv, ListTyped, BindingsKept, SwitchedOff, Unmerged
  <1>3. ASSUME NEW p \in Sources, NEW s \in Severities, Observe(p, s) PROVE IInv'
    <2>1. UNCHANGED <<playbook, pinned>> /\ facts' \in Facts
      BY <1>3 DEF Observe, IInv, Facts
    <2> QED
      BY <2>1 DEF IInv, ListInv, ListTyped, BindingsKept, SwitchedOff, Unmerged
  <1>4. CASE UNCHANGED vars
    BY <1>4 DEF vars, IInv, ListInv, ListTyped, BindingsKept, SwitchedOff, Unmerged
  <1> QED
    BY <1>1, <1>2, <1>3, <1>4 DEF Next

LEMMA Invariance == Spec => []IInv
  BY InitInv, NextInv, PTL DEF Spec

-----------------------------------------------------------------------------
(* What the author is promised.                                            *)

\* Whatever entries of a key follow each other, each of its keys has the last value
\* said, and the order is that in which the keys are first written.
THEOREM LastWordWinsHolds == Spec => []LastWordWins
  <1>1. ListInv(playbook) => LastWordWins
    <2> SUFFICES ASSUME ListInv(playbook) PROVE LastWordWins
      OBVIOUS
    <2> DEFINE final == Resolve(playbook)
               entries == Processed(playbook)
               Of(i) == {j \in DOMAIN entries : SameKey(entries[j], final[i])}
               IsFirst(i, j) == SameKey(entries[j], final[i])
                                /\ \A k \in 1 .. j - 1 : ~SameKey(entries[k], final[i])
               First(i) == CHOOSE j \in DOMAIN entries : IsFirst(i, j)
               Said(i, f) == {j \in DOMAIN entries :
                                 SameKey(entries[j], final[i]) /\ entries[j][f] # None}
    <2>1. /\ final \in Seq(Rules) /\ DOMAIN entries = 1 .. Len(entries) /\ Len(entries) \in Nat
          /\ LastWords(final, entries)
      BY DEF ListInv, ListTyped
    <2>2. \A i \in DOMAIN final : DOMAIN final[i] = Keys
      BY <2>1, RuleKeys
    <2> HIDE DEF final, entries
    <2>3. ASSUME NEW i \in DOMAIN final
          PROVE  First(i) \in DOMAIN entries /\ IsFirst(i, First(i))
      <3>1. Of(i) \in SUBSET Nat /\ Of(i) # {}
        BY <2>1 DEF LastWords, Covers
      <3>2. PICK j \in Of(i) : \A k \in Of(i) : j <= k
        <4> HIDE DEF Of
        <4> QED
          BY <3>1, Processing!FirstOf
      <3>3. j \in DOMAIN entries /\ IsFirst(i, j)
        BY <2>1, <3>2
      <3> QED
        BY <3>3
    <2>4. ASSUME NEW i \in DOMAIN final, NEW k \in DOMAIN final, i < k
          PROVE  First(i) < First(k)
      <3> DEFINE b == First(k)
      <3>1. b \in DOMAIN entries /\ SameKey(entries[b], final[k])
        BY <2>3
      <3>2. First(i) \in DOMAIN entries /\ IsFirst(i, First(i))
        BY <2>3
      <3> DEFINE c == First(i)
      <3> HIDE DEF b, c, First
      <3>3. PICK a \in 1 .. b - 1 : SameKey(entries[a], final[i])
        BY <2>1, <2>4, <3>1 DEF LastWords, InOrderOfFirst
      <3>4. c \in DOMAIN entries /\ \A m \in 1 .. c - 1 : ~SameKey(entries[m], final[i])
        BY <3>2 DEF c
      <3>5. b \in Nat /\ c \in Nat
        BY <2>1, <3>1, <3>4
      <3>6. a \notin 1 .. c - 1
        BY <3>3, <3>4
      <3>7. c < b
        BY <3>3, <3>5, <3>6
      <3> QED
        BY <3>7 DEF b, c
    <2>5. ASSUME NEW i \in DOMAIN final, NEW f \in Keys
          PROVE  final[i][f] = IF Said(i, f) = {} THEN None ELSE entries[Max(Said(i, f))][f]
      <3>1. CASE NeverSaid(entries, final[i], f)
        BY <3>1 DEF NeverSaid
      <3>2. CASE SaidLast(entries, final[i], f)
        <4>1. PICK j \in DOMAIN entries :
                 /\ SameKey(entries[j], final[i]) /\ entries[j][f] = final[i][f]
                 /\ final[i][f] # None
                 /\ \A k \in DOMAIN entries : j < k /\ SameKey(entries[k], final[i]) =>
                        entries[k][f] = None
          BY <3>2 DEF SaidLast
        <4>2. j \in Said(i, f) /\ Said(i, f) \in SUBSET Nat
          BY <2>1, <4>1
        <4>3. \A k \in Said(i, f) : ~(j < k)
          BY <4>1
        <4> HIDE DEF Said
        <4>4. \A k \in Said(i, f) : j >= k
          BY <4>2, <4>3
        <4>5. Max(Said(i, f)) = j
          <5>1. \A x \in Said(i, f) : (\A k \in Said(i, f) : x >= k) => x = j
            BY <4>2, <4>4
          <5> QED
            BY <4>2, <4>4, <5>1 DEF Max
        <4> QED
          BY <4>1, <4>2, <4>5
      <3> QED
        BY <2>1, <3>1, <3>2 DEF LastWords, Latest
    <2>6. \A j \in DOMAIN entries : \E i \in DOMAIN final : SameKey(entries[j], final[i])
      BY <2>1 DEF LastWords, Covers
    <2>7. LastWordWins <=>
            /\ \A j \in DOMAIN entries : \E i \in DOMAIN final : SameKey(entries[j], final[i])
            /\ \A i, j \in DOMAIN final : i < j => First(i) < First(j)
            /\ \A i \in DOMAIN final : \A f \in DOMAIN final[i] :
                  final[i][f] = IF Said(i, f) = {} THEN None ELSE entries[Max(Said(i, f))][f]
      BY Zenon DEF LastWordWins, final, entries
    <2> HIDE DEF First, Said
    <2> QED
      BY <2>2, <2>4, <2>5, <2>6, <2>7
  <1> QED
    BY <1>1, Invariance, PTL DEF IInv

\* Binding a criterion that is shipped disabled switches it on, whatever else is
\* written in the playbook, short of enable: false for its key or without a slug.
THEOREM BindingActivatesHolds == Spec => []BindingActivates
  <1>1. ListInv(playbook) => BindingActivates
    <2> DEFINE final == Resolve(playbook)
               entries == Processed(playbook)
    <2> SUFFICES ASSUME ListInv(playbook), NEW j \in DOMAIN playbook,
                        Binds(playbook[j]), InCatalogue(playbook[j]), playbook[j].slug # None,
                        \A k \in DOMAIN playbook : ~MaySwitchOff(playbook[k], playbook[j])
                 PROVE  \E e \in Now : e.provider = playbook[j].provider /\ e.slug = playbook[j].slug
      BY Zenon DEF BindingActivates
    <2>1. PICK k \in DOMAIN entries : entries[k].provider = playbook[j].provider
                                      /\ entries[k].slug = playbook[j].slug
      BY DEF ListInv, BindingsKept
    <2>2. PICK i \in DOMAIN final : SameKey(entries[k], final[i])
      BY DEF ListInv, LastWords, Covers
    <2>3. final[i].enable # FALSE
      <3>1. ASSUME NEW m \in DOMAIN entries, SameKey(entries[m], final[i])
            PROVE  entries[m].enable # FALSE
        <4>1. entries[m].provider = playbook[j].provider /\ entries[m].slug = playbook[j].slug
          BY <2>1, <2>2, <3>1 DEF SameKey
        <4>2. \A h \in DOMAIN playbook : ~MaySwitchOff(playbook[h], entries[m])
          BY <4>1 DEF MaySwitchOff
        <4> QED
          BY <4>2, Zenon DEF ListInv, SwitchedOff
      <3>2. NeverSaid(entries, final[i], "enable") \/ SaidLast(entries, final[i], "enable")
        BY DEF ListInv, LastWords, Latest, Keys
      <3>3. CASE NeverSaid(entries, final[i], "enable")
        BY <3>3, NoneAssumption DEF NeverSaid
      <3>4. CASE SaidLast(entries, final[i], "enable")
        BY <3>1, <3>4 DEF SaidLast
      <3> QED
        BY <3>2, <3>3, <3>4
    <2>4. Entry(final[i], facts) \in Now
      BY <2>3 DEF Now, Entries, Enabled, IsEnabled
    <2>5. Entry(final[i], facts).provider = final[i].provider
          /\ Entry(final[i], facts).slug = final[i].slug
      BY DEF Entry
    <2> QED
      BY <2>1, <2>2, <2>4, <2>5 DEF SameKey
  <1> QED
    BY <1>1, Invariance, PTL DEF IInv

\* A rule the gate refuses is listed, switched on, and where its slug has one
\* provider "rules show" prints it, for every catalogue and every playbook.
THEOREM GateExplainedHolds == Spec => []GateExplained
  <1>1. ListInv(playbook) => GateExplained
    <2> DEFINE final == Resolve(playbook)
    <2> SUFFICES ASSUME ListInv(playbook), NEW e \in Breached(Now, "info")
                 PROVE  /\ \E r \in Listed("rules.yaml", playbook,
                                           IF e.level \in FilterLevels THEN e.level ELSE None,
                                           e.provider) : r.slug = e.slug /\ IsEnabled(r)
                        /\ (\A r \in ToSet(final) : r.slug = e.slug => r.provider = e.provider) =>
                              Entry(Shown("rules.yaml", playbook, e.slug), facts) = e
      BY Zenon DEF GateExplained
    <2>1. e \in Now
      BY Zenon DEF Breached
    <2>2. PICK i \in Enabled(final) : e = Entry(final[i], facts)
      BY <2>1 DEF Now, Entries
    <2>3. final[i] \in ToSet(final) /\ IsEnabled(final[i]) /\ i \in DOMAIN final
      BY <2>2 DEF Enabled, ToSet
    <2>4. DeclaredIn("rules.yaml", playbook) = playbook
      BY DEF DeclaredIn
    <2>5. playbook # <<>>
      <3>1. Resolve(<<>>) = <<>>
        BY ProcessedNone, AssembledNone, ResolveIs
      <3>2. DOMAIN <<>> = {}
        BY EmptySeq
      <3> QED
        BY <2>3, <3>1, <3>2
    <2>6. /\ e.level = Or(final[i].level, "info") /\ e.provider = final[i].provider
          /\ e.slug = final[i].slug
      BY <2>2 DEF Entry
    <2>7. \A level : level = None \/ (level \in FilterLevels /\ e.level = level) =>
              final[i] \in Listed("rules.yaml", playbook, level, e.provider)
      BY <2>3, <2>4, <2>5, <2>6, Zenon DEF Listed
    <2>8. final[i] \in Listed("rules.yaml", playbook,
                              IF e.level \in FilterLevels THEN e.level ELSE None, e.provider)
      BY <2>7
    <2>9. ASSUME \A r \in ToSet(final) : r.slug = e.slug => r.provider = e.provider
          PROVE  Shown("rules.yaml", playbook, e.slug) = final[i]
      <3> DEFINE named == {k \in DOMAIN final : final[k].slug = e.slug}
      <3>1. ASSUME NEW k \in named PROVE k = i
        <4>1. k \in DOMAIN final /\ final[k].slug = e.slug
          OBVIOUS
        <4>2. final[k] \in ToSet(final)
          BY <4>1 DEF ToSet
        <4>3. SameKey(final[k], final[i])
          BY <2>6, <2>9, <4>1, <4>2 DEF SameKey
        <4> QED
          BY <2>3, <4>1, <4>3 DEF ListInv, LastWords, Distinct
      <3>2. i \in named
        BY <2>3, <2>6
      <3>3. Shown("rules.yaml", playbook, e.slug) = final[Min(named)]
        BY <2>4, <2>5, <3>2, Zenon DEF Shown
      <3>4. i \in Nat
        BY <2>3 DEF ListInv, ListTyped
      <3> HIDE DEF named
      <3>5. named = {i}
        BY <3>1, <3>2
      <3>6. Min({i}) = i
        BY <3>4 DEF Min
      <3> QED
        BY <3>3, <3>5, <3>6
    <2> QED
      BY <2>2, <2>3, <2>6, <2>8, <2>9, Zenon
  <1> QED
    BY <1>1, Invariance, PTL DEF IInv

\* The two tables order the levels alike: what comes first in the headline is as
\* severe to the gate as what comes after.
LEMMA TablesAgree ==
    ASSUME NEW l, NEW m, SeverityOrder(l) <= SeverityOrder(m)
    PROVE  Rank(l) <= Rank(m)
  BY DEF SeverityOrder, Rank

\* Among levels there is a first one.
LEMMA WorstExists ==
    ASSUME NEW failed, failed # {}
    PROVE  \E l \in failed : \A m \in failed : SeverityOrder(l) <= SeverityOrder(m)
  <1>1. CASE "critical" \in failed
    BY <1>1 DEF SeverityOrder
  <1>2. CASE "critical" \notin failed /\ "warning" \in failed
    BY <1>2 DEF SeverityOrder
  <1>3. CASE failed \intersect {"critical", "warning"} = {} /\ "info" \in failed
    BY <1>3 DEF SeverityOrder
  <1>4. CASE failed \intersect {"critical", "warning", "info"} = {}
    BY <1>4 DEF SeverityOrder
  <1> QED
    BY <1>1, <1>2, <1>3, <1>4

\* The headline tells what the gate does, whatever the levels of the rules.
THEOREM HeadlineTellsGateHolds == Spec => []HeadlineTellsGate
  <1>1. ListInv(playbook) => HeadlineTellsGate
    <2> DEFINE failed == {e.level : e \in Failures(Now)}
               worst == WorstLevel(Now)
               stuck == {e \in Incompletes(Now) : ~e.passed}
               Told(l) == Breached(Now, l) # {} <=>
                              \/ worst # None /\ Rank(worst) <= Rank(l)
                              \/ \E e \in stuck : Rank(e.level) <= Rank(l)
    <2>0. HeadlineTellsGate <=> Breached(Now, "none") = {} /\ \A l \in FilterLevels : Told(l)
      BY Zenon DEF HeadlineTellsGate
    <2>1. Breached(Now, "none") = {}
      BY DEF Breached
    <2> SUFFICES ASSUME ListInv(playbook), NEW l \in FilterLevels PROVE Told(l)
      <3> HIDE DEF Told
      <3> QED
        BY <2>0, <2>1
    <2>2. ASSUME NEW e \in Now PROVE e.level # None
      <3>1. PICK i \in Enabled(Resolve(playbook)) : e = Entry(Resolve(playbook)[i], facts)
        BY DEF Now, Entries
      <3>2. Resolve(playbook)[i] \in Rules
        BY DEF ListInv, ListTyped, Enabled
      <3>3. Or(Resolve(playbook)[i].level, "info") # None
        BY <3>2, NoneAssumption DEF Rules, Or, Levels
      <3> QED
        BY <3>1, <3>3 DEF Entry
    <2>3. failed # {} => worst \in failed /\ \A m \in failed : SeverityOrder(worst) <= SeverityOrder(m)
      <3>1. failed # {} =>
              worst = CHOOSE k \in failed : \A m \in failed : SeverityOrder(k) <= SeverityOrder(m)
        BY Zenon DEF WorstLevel
      <3> HIDE DEF failed, worst
      <3> QED
        BY <3>1, WorstExists
    <2>4. failed = {} => worst = None
      BY Zenon DEF WorstLevel
    <2>5. \A e \in Failures(Now) : e \in Now /\ ~e.passed /\ e.level \in failed
      BY Zenon DEF Failures
    <2>6. \A k \in failed : \E e \in Failures(Now) : e.level = k
      OBVIOUS
    <2>7. \A e \in Now : ~e.passed => e \in Failures(Now) \/ e \in stuck
      BY Zenon DEF Failures, Incompletes
    <2>8. \A e \in stuck : e \in Now /\ ~e.passed
      BY Zenon DEF Incompletes
    <2>9. l # "none"
      BY DEF FilterLevels
    <2>10. \A e : e \in Breached(Now, l) <=> e \in Now /\ ~e.passed /\ Rank(e.level) <= Rank(l)
      BY <2>9, Zenon DEF Breached
    <2>11. \A k : Rank(k) \in Int
      BY DEF Rank
    <2> HIDE DEF failed, worst, stuck
    <2>12. ASSUME NEW e \in Breached(Now, l)
           PROVE  \/ worst # None /\ Rank(worst) <= Rank(l)
                  \/ \E f \in stuck : Rank(f.level) <= Rank(l)
      <3>1. CASE e \in stuck
        BY <2>10, <3>1
      <3>2. CASE e \in Failures(Now)
        <4>1. e.level \in failed
          BY <2>5, <3>2
        <4>2. worst \in failed /\ SeverityOrder(worst) <= SeverityOrder(e.level)
          BY <2>3, <4>1
        <4>3. Rank(worst) <= Rank(e.level) /\ Rank(e.level) <= Rank(l)
          BY <2>10, <4>2, TablesAgree
        <4>4. worst # None
          BY <2>2, <2>5, <2>6, <4>2
        <4> QED
          BY <2>11, <4>3, <4>4
      <3>3. e \in Failures(Now) \/ e \in stuck
        BY <2>7, <2>10, Zenon
      <3> QED
        BY <3>1, <3>2, <3>3
    <2>13. ASSUME worst # None, Rank(worst) <= Rank(l) PROVE Breached(Now, l) # {}
      <3>1. worst \in failed
        BY <2>3, <2>4, <2>13
      <3>2. PICK e \in Failures(Now) : e.level = worst
        BY <2>6, <3>1
      <3>3. e \in Now /\ ~e.passed /\ Rank(e.level) <= Rank(l)
        BY <2>5, <2>13, <3>2
      <3>4. e \in Breached(Now, l)
        BY <2>10, <3>3, Zenon
      <3> QED
        BY <3>4
    <2>14. ASSUME NEW e \in stuck, Rank(e.level) <= Rank(l) PROVE Breached(Now, l) # {}
      <3>1. e \in Breached(Now, l)
        BY <2>8, <2>10, <2>14, Zenon
      <3> QED
        BY <3>1
    <2> QED
      BY <2>12, <2>13, <2>14
  <1> QED
    BY <1>1, Invariance, PTL DEF IInv

-----------------------------------------------------------------------------
(* The hash.                                                               *)

\* A condition that carries its limits has the same outcome in every rule.
LEMMA OutcomeOfCondition ==
    ASSUME NEW r, NEW s, NEW fs, r.condition = s.condition,
           r.condition # None, r.condition.at # None, r.condition.limit # None
    PROVE  Outcome(r, fs) = Outcome(s, fs)
  <1>1. /\ Or(r.condition.at, r.at) = r.condition.at /\ Or(r.condition.limit, r.limit) = r.condition.limit
        /\ Or(s.condition.at, s.at) = r.condition.at /\ Or(s.condition.limit, s.limit) = r.condition.limit
    BY DEF Or
  <1> QED
    BY <1>1, Zenon DEF Outcome

\* What one ruleset refuses, one of the same hash refuses.
LEMMA PinnedRefuses ==
    ASSUME NEW p, NEW q, NEW fs, NEW l, SelfContained(p), Fingerprint(p) = Fingerprint(q),
           NEW e \in Breached(Entries(p, fs), l)
    PROVE  \E f \in Breached(Entries(q, fs), l) : f.slug = e.slug
  <1> DEFINE rules == Resolve(p)
             others == Resolve(q)
             Tie(i) == {j \in Enabled(rules) : j <= i /\ rules[j].slug = rules[i].slug}
             TieOf(i) == {j \in Enabled(others) : j <= i /\ others[j].slug = others[i].slug}
  <1>1. l # "none" /\ e \in Entries(p, fs) /\ ~e.passed /\ Rank(e.level) <= Rank(l)
    BY Zenon DEF Breached
  <1>2. PICK i \in Enabled(rules) : e = Entry(rules[i], fs)
    BY <1>1 DEF Entries
  <1>3. <<rules[i].slug, Cardinality(Tie(i)), Pinned(rules[i])>> \in Fingerprint(p)
    BY Zenon DEF Fingerprint
  <1>4. \A t \in Fingerprint(q) : \E k \in Enabled(others) :
            t = <<others[k].slug, Cardinality(TieOf(k)), Pinned(others[k])>>
    BY Zenon DEF Fingerprint
  <1>5. PICK k \in Enabled(others) :
            <<rules[i].slug, Cardinality(Tie(i)), Pinned(rules[i])>> =
                <<others[k].slug, Cardinality(TieOf(k)), Pinned(others[k])>>
    BY <1>3, <1>4
  <1>6. others[k].slug = rules[i].slug /\ Pinned(others[k]) = Pinned(rules[i])
    BY <1>5
  <1>7. /\ Or(others[k].level, "info") = Or(rules[i].level, "info")
        /\ others[k].condition = rules[i].condition
    BY <1>6 DEF Pinned
  <1>8. /\ rules[i].condition # None /\ rules[i].condition.at # None
        /\ rules[i].condition.limit # None
    BY Zenon DEF SelfContained
  <1>9. Outcome(others[k], fs) = Outcome(rules[i], fs)
    BY <1>7, <1>8, OutcomeOfCondition
  <1> DEFINE f == Entry(others[k], fs)
  <1>10. f \in Entries(q, fs)
    BY Zenon DEF Entries
  <1>11. /\ f.slug = e.slug /\ f.level = e.level
    BY <1>2, <1>6, <1>7 DEF Entry
  <1>12. f.passed = Outcome(others[k], fs).passed /\ e.passed = Outcome(rules[i], fs).passed
    BY <1>2, Zenon DEF Entry
  <1>13. f.passed = e.passed
    BY <1>9, <1>12, Zenon
  <1> HIDE DEF f
  <1>14. f \in Breached(Entries(q, fs), l)
    BY <1>1, <1>10, <1>11, <1>13, Zenon DEF Breached
  <1> QED
    BY <1>11, <1>14

\* Two rulesets of the same hash, all of whose conditions carry their limits, refuse
\* for the same slugs at every level.
THEOREM PinHoldsAlways == Spec => []PinHolds
  <1>1. PinHolds
    <2> SUFFICES ASSUME SelfContained(playbook), SelfContained(pinned),
                        Fingerprint(playbook) = Fingerprint(pinned), NEW l \in Levels
                 PROVE  {e.slug : e \in Breached(Now, l)} =
                            {e.slug : e \in Breached(Entries(pinned, facts), l)}
      BY DEF PinHolds
    <2>1. ASSUME NEW e \in Breached(Now, l)
          PROVE  \E f \in Breached(Entries(pinned, facts), l) : f.slug = e.slug
      BY PinnedRefuses DEF Now
    <2>2. ASSUME NEW e \in Breached(Entries(pinned, facts), l)
          PROVE  \E f \in Breached(Now, l) : f.slug = e.slug
      BY PinnedRefuses DEF Now
    <2> QED
      BY <2>1, <2>2
  <1> QED
    BY <1>1, PTL

\* The entries of a playbook that are switched on, where none merges with another.
OwnOn(p) == {d \in ToSet(p) : IsEnabled(EntryOf(d))}

\* Then what becomes of a playbook depends on the set of its entries only.
LEMMA OwnEntries ==
    ASSUME NEW p, ListInv(p), OwnSlugs(p), NEW fs
    PROVE  /\ Entries(p, fs) = {Entry(EntryOf(d), fs) : d \in OwnOn(p)}
           /\ Fingerprint(p) = {<<d.slug, 1, Pinned(EntryOf(d))>> : d \in OwnOn(p)}
  <1> DEFINE rules == Resolve(p)
             Tie(i) == {j \in Enabled(rules) : j <= i /\ rules[j].slug = rules[i].slug}
  <1>1. p \in Seq(Declarations) /\ rules \in Seq(Rules)
    BY DEF ListInv, ListTyped
  <1>2. Len(rules) = Len(p) /\ \A i \in DOMAIN p : rules[i] = EntryOf(p[i])
    BY DEF ListInv, Unmerged
  <1>3. /\ DOMAIN rules = DOMAIN p /\ DOMAIN p \subseteq Nat
        /\ \A i \in DOMAIN p : p[i] \in Declarations
    BY <1>1, <1>2
  <1>4. \A i \in DOMAIN p : EntryOf(p[i]).slug = p[i].slug
    BY <1>3, EntryHasSlug DEF OwnSlugs, HasSlug
  <1> HIDE DEF rules
  <1>5. Enabled(rules) = {i \in DOMAIN p : IsEnabled(EntryOf(p[i]))}
    BY <1>2, <1>3, Zenon DEF Enabled
  <1>6. ASSUME NEW i \in Enabled(rules) PROVE Cardinality(Tie(i)) = 1
    <2>1. \A j \in Enabled(rules) : rules[j].slug = rules[i].slug => j = i
      BY <1>2, <1>4, <1>5 DEF OwnSlugs
    <2>2. i <= i
      BY <1>3, <1>5
    <2>3. Tie(i) = {i}
      BY <2>1, <2>2
    <2> QED
      BY <2>3, FS_Singleton
  <1>7. \A i \in Enabled(rules) : p[i] \in OwnOn(p)
    BY <1>5 DEF OwnOn, ToSet
  <1>8. \A d \in OwnOn(p) : \E i \in Enabled(rules) : p[i] = d
    BY <1>5 DEF OwnOn, ToSet
  <1>9. \A i \in Enabled(rules) : rules[i] = EntryOf(p[i]) /\ rules[i].slug = p[i].slug
    BY <1>2, <1>4, <1>5
  <1>10. Entries(p, fs) = {Entry(rules[i], fs) : i \in Enabled(rules)}
    BY Zenon DEF Entries, rules
  <1>11. Fingerprint(p) =
           {<<rules[i].slug, Cardinality(Tie(i)), Pinned(rules[i])>> : i \in Enabled(rules)}
    BY Zenon DEF Fingerprint, rules
  <1>12. Fingerprint(p) = {<<p[i].slug, 1, Pinned(EntryOf(p[i]))>> : i \in Enabled(rules)}
    <2> HIDE DEF Tie
    <2> QED
      BY <1>6, <1>9, <1>11
  <1>13. Entries(p, fs) = {Entry(EntryOf(p[i]), fs) : i \in Enabled(rules)}
    BY <1>9, <1>10
  <1> QED
    BY <1>7, <1>8, <1>12, <1>13

\* The order in which the rules of a playbook are written, where none merges with
\* another, is nothing to its hash and to its verdicts.
THEOREM OrderImmaterialHolds == Spec => []OrderImmaterial
  <1>1. ListInv(playbook) /\ ListInv(pinned) => OrderImmaterial
    <2> SUFFICES ASSUME ListInv(playbook), ListInv(pinned), OwnSlugs(playbook),
                        OwnSlugs(pinned), ToSet(playbook) = ToSet(pinned)
                 PROVE  Fingerprint(playbook) = Fingerprint(pinned) /\ Now = Entries(pinned, facts)
      BY DEF OrderImmaterial
    <2>1. OwnOn(playbook) = OwnOn(pinned)
      BY DEF OwnOn
    <2> QED
      BY <2>1, OwnEntries DEF Now
  <1> QED
    BY <1>1, Invariance, PTL DEF IInv

-----------------------------------------------------------------------------
(* Types.                                                                  *)

\* What evaluate_rules says of one rule.
LEMMA OutcomeTyped ==
    ASSUME NEW r \in Rules, NEW fs \in Facts
    PROVE  /\ Outcome(r, fs).passed \in BOOLEAN
           /\ Outcome(r, fs).status \in {"passed", "failed", "incomplete"}
  <1> DEFINE c == r.condition
             at == Or(c.at, r.at)
             limit == Or(c.limit, r.limit)
             fact == IF at = None THEN None ELSE fs[c.reads][at]
             missing == fact = None \/ limit = None
             passed == IF missing THEN c.open ELSE fact <= limit
             optional == at # None /\ limit # None /\ c.reads \in Optional
             answer == [passed |-> passed,
                        status |-> IF missing /\ ~optional THEN "incomplete"
                                   ELSE IF passed THEN "passed" ELSE "failed"]
  <1>1. CASE c = None
    <2> DEFINE no == [passed |-> FALSE, status |-> "failed"]
    <2>1. Outcome(r, fs) = no
      BY <1>1, Zenon DEF Outcome
    <2>2. no.passed = FALSE /\ no.status = "failed"
      BY Zenon
    <2> HIDE DEF no
    <2>3. no.passed \in BOOLEAN
      BY <2>2, Zenon
    <2>4. no.status \in {"passed", "failed", "incomplete"}
      BY <2>2
    <2> QED
      BY <2>1, <2>3, <2>4, Zenon
  <1>2. CASE c # None
    <2>1. Outcome(r, fs) = answer
      BY <1>2, Zenon DEF Outcome
    <2>2. c \in Conditions
      BY <1>2 DEF Rules
    <2>3. c.open \in BOOLEAN
      BY <2>2, Zenon DEF Conditions
    <2>4. ~missing => (fact <= limit) \in BOOLEAN
      OBVIOUS
    <2>5. passed \in BOOLEAN
      <3> HIDE DEF missing, fact, limit, c
      <3> QED
        BY <2>3, <2>4, Zenon
    <2>6. answer.passed = passed
      BY Zenon
    <2>7. answer.status = IF missing /\ ~optional THEN "incomplete" ELSE IF passed THEN "passed" ELSE "failed"
      BY Zenon
    <2> HIDE DEF answer, passed, missing, optional
    <2>8. answer.status \in {"passed", "failed", "incomplete"}
      BY <2>7
    <2> QED
      BY <2>1, <2>5, <2>6, <2>8, Zenon
  <1> QED
    BY <1>1, <1>2

\* A share in per cent, rounded.
LEMMA RoundedShare ==
    ASSUME NEW n \in Nat \ {0}, NEW k \in 0 .. n
    PROVE  Rounded(100 * k, n) \in 0 .. 100
  <1> DEFINE m == 100 * k
             whole == m \div n
             rest == m % n
  <1>1. m \in Nat /\ m <= 100 * n
    OBVIOUS
  <1>2. m \in Int /\ n \in Int /\ n > 0
    BY <1>1
  <1> HIDE DEF m
  <1>3. whole \in Int /\ rest \in 0 .. n - 1 /\ m = n * whole + rest
    BY <1>2
  <1> HIDE DEF whole, rest
  <1>4. whole >= 0
    <2> SUFFICES ASSUME whole <= -1 PROVE FALSE
      BY <1>3
    <2>1. n * whole <= n * (-1)
      BY <1>3
    <2> QED
      BY <1>1, <1>3, <2>1
  <1>5. CASE whole <= 99
    <2>1. whole + 1 \in 0 .. 100 /\ whole \in 0 .. 100
      BY <1>3, <1>4, <1>5
    <2> QED
      BY <2>1 DEF Rounded, whole, m
  <1>6. CASE ~(whole <= 99)
    <2>1. whole >= 100
      BY <1>3, <1>6
    <2>2. n * whole >= n * 100
      BY <1>3, <2>1
    <2>3. rest = 0 /\ n * whole = n * 100
      BY <1>1, <1>3, <2>2
    <2>4. whole = 100
      BY <1>3, <2>3
    <2>5. ~(2 * rest > n) /\ ~(2 * rest = n)
      BY <2>3
    <2>6. Rounded(m, n) = whole
      BY <2>5 DEF Rounded, whole, rest
    <2> QED
      BY <2>4, <2>6 DEF m
  <1> QED
    BY <1>5, <1>6

LEMMA ScoreTyped ==
    ASSUME NEW p, ListTyped(p), NEW fs
    PROVE  Score(p, fs) \in 0 .. 100
  <1> DEFINE rules == Resolve(p)
             all == Enabled(rules)
             passed == {i \in all : Outcome(rules[i], fs).passed}
  <1>1. Len(rules) \in Nat /\ DOMAIN rules = 1 .. Len(rules)
    BY DEF ListTyped
  <1> HIDE DEF rules
  <1>2. IsFiniteSet(DOMAIN rules)
    BY <1>1, FS_Interval
  <1>3. all \subseteq DOMAIN rules
    BY DEF Enabled
  <1>4. IsFiniteSet(all)
    BY <1>2, <1>3, FS_Subset
  <1> HIDE DEF all
  <1>5. passed \subseteq all
    BY Zenon
  <1> HIDE DEF passed
  <1>6. /\ IsFiniteSet(passed) /\ Cardinality(passed) <= Cardinality(all)
        /\ Cardinality(passed) \in Nat /\ Cardinality(all) \in Nat
    BY <1>4, <1>5, FS_Subset, FS_CardinalityType
  <1>7. Score(p, fs) = IF all = {} THEN 0 ELSE Rounded(100 * Cardinality(passed), Cardinality(all))
    BY Zenon DEF Score, rules, all, passed
  <1>8. CASE all = {}
    BY <1>7, <1>8
  <1>9. CASE all # {}
    <2>1. Cardinality(all) # 0
      BY <1>4, <1>9, FS_EmptySet
    <2>2. Cardinality(all) \in Nat \ {0} /\ Cardinality(passed) \in 0 .. Cardinality(all)
      BY <1>6, <2>1
    <2> QED
      BY <1>7, <1>9, <2>2, RoundedShare
  <1> QED
    BY <1>8, <1>9

\* Every verdict is well formed, and the score is a percentage.
THEOREM TypeCorrect == Spec => []TypeOK
  <1>1. IInv => TypeOK
    <2> SUFFICES ASSUME IInv PROVE TypeOK
      OBVIOUS
    <2>1. ListTyped(playbook) /\ ListTyped(pinned) /\ facts \in Facts
      BY DEF IInv, ListInv
    <2>2. ASSUME NEW e \in Now
          PROVE  e \in [provider : Providers \union {"custom"}, slug : Seq(STRING), level : Levels,
                        passed : BOOLEAN, status : {"passed", "failed", "incomplete"}]
      <3> DEFINE final == Resolve(playbook)
      <3>1. PICK i \in Enabled(final) : e = Entry(final[i], facts)
        BY DEF Now, Entries
      <3>2. final[i] \in Rules
        BY <2>1 DEF ListTyped, Enabled
      <3>3. /\ final[i].provider \in Providers \union {"custom"} /\ final[i].slug \in Seq(STRING)
            /\ Or(final[i].level, "info") \in Levels
        BY <3>2 DEF Rules, Or, Levels
      <3>4. /\ Outcome(final[i], facts).passed \in BOOLEAN
            /\ Outcome(final[i], facts).status \in {"passed", "failed", "incomplete"}
        BY <2>1, <3>2, OutcomeTyped
      <3> HIDE DEF final
      <3> QED
        BY <3>1, <3>3, <3>4, Zenon DEF Entry
    <2>3. Score(playbook, facts) \in 0 .. 100
      BY <2>1, ScoreTyped
    <2> QED
      BY <2>1, <2>2, <2>3 DEF TypeOK, ListTyped
  <1> QED
    BY <1>1, Invariance, PTL

=============================================================================
