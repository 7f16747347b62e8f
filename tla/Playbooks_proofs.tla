--------------------------- MODULE Playbooks_proofs ---------------------------
(***************************************************************************)
(* Proofs about Playbooks.  What a document means, and what load_playbook   *)
(* asks of it, is carried from the author's document through every rewrite *)
(* of the file; what evaluate says twice of the same facts is compared     *)
(* part by part.                                                           *)
(***************************************************************************)
EXTENDS Playbooks, TLAPS

Fields ==
    {"envelope", "version", "tiers", "entries", "badges", "gitlab", "other", "presentation",
     "links", "pages"}

LEMMA PlaybookFields ==
    ASSUME NEW doc \in Playbook
    PROVE  /\ DOMAIN doc = Fields
           /\ doc.envelope \in BOOLEAN
           /\ doc.version \in Optional({"semantic", "loose"})
           /\ doc.entries = None \/ doc.entries \in Seq(RuleEntries)
           /\ doc.gitlab = None \/ doc.gitlab \in Integrations
           /\ doc.presentation \in Presentations
           /\ doc.tiers \in Seq(Tiers)
           /\ doc.badges \in Seq(Badges)
           /\ doc.links \in Seq(Links)
           /\ doc.other \in Optional({"other"}) /\ doc.pages \in Optional({"pages"})
  <1>1. DOMAIN doc = Fields
    BY DEF Playbook, Fields
  <1>2. doc.envelope \in BOOLEAN
    BY Zenon DEF Playbook
  <1>3. /\ doc.version \in Optional({"semantic", "loose"})
        /\ doc.entries = None \/ doc.entries \in Seq(RuleEntries)
        /\ doc.gitlab = None \/ doc.gitlab \in Integrations
        /\ doc.presentation \in Presentations
    BY DEF Playbook, Optional
  <1>4. /\ doc.tiers \in Seq(Tiers)
        /\ doc.badges \in Seq(Badges)
        /\ doc.links \in Seq(Links)
        /\ doc.other \in Optional({"other"}) /\ doc.pages \in Optional({"pages"})
    BY DEF Playbook
  <1> QED
    BY <1>1, <1>2, <1>3, <1>4

-----------------------------------------------------------------------------
(* migrate.                                                                *)

\* The presentation of a document, once integrations.gitlab is moved there.
Presented(doc) ==
    [badges |-> Or(doc.presentation.badges, doc.gitlab.badges),
     checklists |-> Or(doc.presentation.checklists, Checklists(doc.gitlab)),
     templates |-> Or(doc.presentation.templates, doc.gitlab.templates)]

LEMMA MovedIs ==
    ASSUME NEW doc \in Playbook
    PROVE  /\ Moved(doc) = [doc EXCEPT !.presentation = Presented(doc), !.gitlab = None]
           /\ Moved(doc).presentation = Presented(doc)
  <1>1. Moved(doc) = [doc EXCEPT !.presentation = Presented(doc), !.gitlab = None]
    BY Zenon DEF Moved, Presented
  <1>2. DOMAIN doc = Fields
    BY PlaybookFields
  <1> QED
    BY <1>1, <1>2 DEF Fields

LEMMA PresentedTyped ==
    ASSUME NEW doc \in Playbook, doc.gitlab # None
    PROVE  Presented(doc) \in Presentations
  <1>1. doc.presentation \in Presentations /\ doc.gitlab \in Integrations
    BY PlaybookFields
  <1>2. Checklists(doc.gitlab) \in Optional(Seq(Seq(ChecklistItems)))
    <2>1. /\ doc.gitlab.checklists \in Optional(Seq(Seq(ChecklistItems)))
          /\ doc.gitlab.checklist \in Optional(Seq(ChecklistItems))
      BY <1>1 DEF Integrations
    <2>2. ASSUME NEW c \in Seq(ChecklistItems) PROVE <<c>> \in Seq(Seq(ChecklistItems))
      <3> DEFINE S == Seq(ChecklistItems)
      <3>1. c \in S
        OBVIOUS
      <3> HIDE DEF S
      <3>2. <<c>> \in Seq(S)
        BY <3>1
      <3> QED
        BY <3>2 DEF S
    <2> QED
      BY <2>1, <2>2, Zenon DEF Checklists, Optional
  <1> QED
    BY <1>1, <1>2 DEF Presented, Presentations, Integrations, Or

\* What an entry means is what it meant under its old key and its old paths.
EntryMeaning(e) == <<Bound(e), e.reads \in {"rule", "criterion"}>>

LEMMA MigratedEntryKeeps ==
    ASSUME NEW e \in RuleEntries
    PROVE  /\ MigratedEntry(e) \in RuleEntries
           /\ EntryMeaning(MigratedEntry(e)) = EntryMeaning(e)
           /\ MigratedEntry(e).own = e.own
  <1> DEFINE new == MigratedEntry(e)
  <1>1. /\ DOMAIN e = {"criterion", "rule", "reads", "own"}
        /\ e.criterion \in Optional(STRING) /\ e.rule \in Optional(STRING) 
        /\ e.reads \in {"rule", "criterion", "results"}
    BY DEF RuleEntries
  <1>2. new = [criterion |-> Or(e.criterion, e.rule),
               rule |-> IF e.criterion = None THEN None ELSE e.rule,
               reads |-> MigratedPath(e.reads), own |-> e.own]
    <2>1. new = [e EXCEPT !.criterion = Or(e.criterion, e.rule),
                          !.rule = IF e.criterion = None THEN None ELSE e.rule,
                          !.reads = MigratedPath(e.reads)]
      BY DEF MigratedEntry, RuleEntries
    <2>2. e = [k \in DOMAIN e |-> e[k]]
      BY DEF RuleEntries
    <2> HIDE DEF new
    <2> QED
      BY <1>1, <2>1, <2>2
  <1> DEFINE fresh == [criterion |-> Or(e.criterion, e.rule),
                       rule |-> IF e.criterion = None THEN None ELSE e.rule,
                       reads |-> MigratedPath(e.reads), own |-> e.own]
  <1>3. /\ Or(e.criterion, e.rule) \in Optional(STRING)
        /\ (IF e.criterion = None THEN None ELSE e.rule) \in Optional(STRING)
        /\ MigratedPath(e.reads) \in {"rule", "criterion", "results"}
    <2>1. Or(e.criterion, e.rule) \in Optional(STRING)
      BY <1>1, Zenon DEF Or
    <2>2. (IF e.criterion = None THEN None ELSE e.rule) \in Optional(STRING)
      BY <1>1, Zenon DEF Optional
    <2>4. MigratedPath(e.reads) \in {"rule", "criterion", "results"}
      BY <1>1 DEF MigratedPath
    <2> QED
      BY <2>1, <2>2, <2>4
  <1>4. e.own \in BOOLEAN
    BY Zenon DEF RuleEntries
  <1>5. fresh \in RuleEntries
    BY <1>3, <1>4, Zenon DEF RuleEntries
  <1>6. fresh.own = e.own
    BY Zenon
  <1>7. Bound(new) = Bound(e)
    BY <1>2 DEF Bound, Or
  <1>8. (new.reads \in {"rule", "criterion"}) <=> (e.reads \in {"rule", "criterion"})
    BY <1>2 DEF MigratedPath
  <1> HIDE DEF new, fresh
  <1>9. EntryMeaning(new) = EntryMeaning(e)
    <2> DEFINE a == new.reads \in {"rule", "criterion"}
               b == e.reads \in {"rule", "criterion"}
    <2>1. a = b
      BY <1>8
    <2>2. EntryMeaning(new) = <<Bound(new), a>> /\ EntryMeaning(e) = <<Bound(e), b>>
      BY Zenon DEF EntryMeaning
    <2> HIDE DEF a, b
    <2> QED
      BY <1>7, <2>1, <2>2, Zenon
  <1>10. new = fresh
    BY <1>2, Zenon DEF fresh
  <1> QED
    BY <1>5, <1>6, <1>9, <1>10, Zenon DEF new

-----------------------------------------------------------------------------
(* upgrade.                                                                *)

\* What upgrade makes of a flat document, key by key.
LEMMA UpgradedIs ==
    ASSUME NEW doc \in Playbook, ~doc.envelope
    PROVE  Upgraded(doc) =
               [envelope |-> TRUE, version |-> Or(doc.version, "semantic"), tiers |-> doc.tiers,
                entries |-> doc.entries, badges |-> doc.badges, gitlab |-> doc.gitlab,
                other |-> doc.other, presentation |-> doc.presentation, links |-> doc.links,
                pages |-> None]
  <1> DEFINE kept == [k \in DOMAIN doc |-> IF k \in KeptKeys THEN doc[k] ELSE Blank[k]]
  <1>1. Upgraded(doc) = [kept EXCEPT !.envelope = TRUE, !.version = Or(@, "semantic")]
    BY Zenon DEF Upgraded
  <1>2. DOMAIN kept = Fields
    BY PlaybookFields
  <1>3. Blank.pages = None
    BY DEF Blank
  <1>4. /\ kept.version = doc.version /\ kept.tiers = doc.tiers /\ kept.entries = doc.entries
        /\ kept.badges = doc.badges /\ kept.gitlab = doc.gitlab /\ kept.other = doc.other
        /\ kept.presentation = doc.presentation /\ kept.links = doc.links /\ kept.pages = None
    BY <1>2, <1>3, PlaybookFields DEF KeptKeys, Fields
  <1>5. kept = [k \in DOMAIN kept |-> kept[k]]
    OBVIOUS
  <1> HIDE DEF kept
  <1> QED
    BY <1>1, <1>2, <1>4, <1>5 DEF Fields

LEMMA UpgradedKeeps ==
    ASSUME NEW doc \in Playbook, ~doc.envelope
    PROVE  /\ Upgraded(doc) \in Playbook
           /\ Meaning(Upgraded(doc)) = Meaning(doc)
  <1>1. Or(doc.version, "semantic") \in Optional({"semantic", "loose"}) /\ None \in Optional({"pages"})
    BY PlaybookFields DEF Or, Optional
  <1>2. Upgraded(doc) \in Playbook
    <2>1. /\ doc.entries \in Optional(Seq(RuleEntries)) /\ doc.gitlab \in Optional(Integrations)
      BY PlaybookFields DEF Optional
    <2>2. /\ doc.tiers \in Seq(Tiers)
          /\ doc.badges \in Seq(Badges)
          /\ doc.links \in Seq(Links)
          /\ doc.other \in Optional({"other"}) /\ doc.presentation \in Presentations
      BY PlaybookFields
    <2>3. TRUE \in BOOLEAN
      OBVIOUS
    <2>4. [envelope |-> TRUE, version |-> Or(doc.version, "semantic"), tiers |-> doc.tiers,
           entries |-> doc.entries, badges |-> doc.badges, gitlab |-> doc.gitlab,
           other |-> doc.other, presentation |-> doc.presentation, links |-> doc.links,
           pages |-> None] \in Playbook
      BY <1>1, <2>1, <2>2, <2>3, Zenon DEF Playbook
    <2> QED
      BY <2>4, UpgradedIs
  <1> DEFINE new == Upgraded(doc)
  <1>3. /\ new.tiers = doc.tiers /\ new.entries = doc.entries /\ new.badges = doc.badges
        /\ new.gitlab = doc.gitlab /\ new.presentation = doc.presentation
        /\ new.links = doc.links
    BY UpgradedIs
  <1> HIDE DEF new
  <1>4. Moved(new).presentation = Moved(doc).presentation
    <2>1. Presented(new) = Presented(doc)
      BY <1>3 DEF Presented
    <2>2. new \in Playbook
      BY <1>2 DEF new
    <2> QED
      BY <2>1, <2>2, MovedIs
  <1>5. Meaning(new) = Meaning(doc)
    BY <1>3, <1>4, Zenon DEF Meaning
  <1> QED
    BY <1>2, <1>5 DEF new

\* The document whose entries alone are migrated.
Renamed(doc) ==
    [doc EXCEPT !.entries = [i \in DOMAIN @ |-> MigratedEntry(@[i])]]

\* What no command changes.
Same(new, doc) ==
    /\ new.tiers = doc.tiers /\ new.badges = doc.badges /\ new.other = doc.other
    /\ (new.entries = None) <=> (doc.entries = None)
    /\ doc.entries # None =>
          /\ DOMAIN new.entries = DOMAIN doc.entries
          /\ \A i \in DOMAIN doc.entries : new.entries[i].own = doc.entries[i].own

LEMMA RenamedKeeps ==
    ASSUME NEW doc \in Playbook, doc.entries # None
    PROVE  /\ Renamed(doc) \in Playbook
           /\ Same(Renamed(doc), doc) /\ Meaning(Renamed(doc)) = Meaning(doc)
           /\ \A k \in Fields \ {"entries"} : Renamed(doc)[k] = doc[k]
  <1> DEFINE new == Renamed(doc)
             old == doc.entries
             entries == [i \in DOMAIN old |-> MigratedEntry(old[i])]
  <1>1. DOMAIN doc = Fields /\ old \in Seq(RuleEntries)
    BY PlaybookFields
  <1>2. entries \in Seq(RuleEntries)
    <2> HIDE DEF old
    <2>1. Len(old) \in Nat /\ DOMAIN old = 1 .. Len(old)
      BY <1>1
    <2>2. \A i \in DOMAIN old : MigratedEntry(old[i]) \in RuleEntries
      BY <1>1, MigratedEntryKeeps
    <2>3. entries \in [1 .. Len(old) -> RuleEntries]
      BY <2>1, <2>2
    <2> HIDE DEF entries
    <2> QED
      BY <2>1, <2>3
  <1>3. new = [doc EXCEPT !.entries = entries]
    BY Zenon DEF Renamed
  <1>4. \A i \in DOMAIN old : entries[i].own = old[i].own
                              /\ EntryMeaning(entries[i]) = EntryMeaning(old[i])
    <2> SUFFICES ASSUME NEW i \in DOMAIN old
                 PROVE  entries[i].own = old[i].own /\ EntryMeaning(entries[i]) = EntryMeaning(old[i])
      OBVIOUS
    <2>1. old[i] \in RuleEntries
      BY <1>1
    <2>2. entries[i] = MigratedEntry(old[i])
      OBVIOUS
    <2> HIDE DEF old, entries
    <2> QED
      BY <2>1, <2>2, MigratedEntryKeeps, Zenon
  <1>5. DOMAIN entries = DOMAIN old
    OBVIOUS
  <1> HIDE DEF entries, new, old
  <1>6. DOMAIN new = Fields /\ new.entries = entries /\ \A k \in Fields \ {"entries"} : new[k] = doc[k]
    BY <1>1, <1>3 DEF Fields
  <1>7. new \in Playbook
    <2>1. doc \in Playbook /\ entries \in Optional(Seq(RuleEntries))
      BY <1>2 DEF Optional
    <2> QED
      BY <1>3, <2>1 DEF Playbook
  <1>8. entries # None
    BY <1>2, NoneAssumption
  <1>9. /\ new.tiers = doc.tiers /\ new.other = doc.other /\ new.badges = doc.badges
        /\ new.links = doc.links /\ new.gitlab = doc.gitlab /\ new.presentation = doc.presentation
    BY <1>6 DEF Fields
  <1>10. Same(new, doc)
    BY <1>4, <1>5, <1>6, <1>8, <1>9, Zenon DEF Same, old
  <1>11. Meaning(new) = Meaning(doc)
    <2>1. Moved(new).presentation = Moved(doc).presentation
      <3>1. Presented(new) = Presented(doc)
        BY <1>9 DEF Presented
      <3> QED
        BY <1>7, <3>1, MovedIs
    <2>2. Or(new.entries, <<>>) = entries /\ Or(doc.entries, <<>>) = old
      BY <1>6, <1>8 DEF Or, old
    <2>3. [i \in DOMAIN entries |-> EntryMeaning(entries[i])] = [i \in DOMAIN old |-> EntryMeaning(old[i])]
      BY <1>4, <1>5, Zenon
    <2>4. ASSUME NEW d
          PROVE  Meaning(d) =
                   [rules |-> [i \in DOMAIN Or(d.entries, <<>>) |-> EntryMeaning(Or(d.entries, <<>>)[i])],
                    tiers |-> d.tiers, badges |-> d.badges, links |-> d.links,
                    presentation |-> IF d.gitlab = None THEN d.presentation
                                     ELSE Moved(d).presentation]
      BY Zenon DEF Meaning, EntryMeaning
    <2> HIDE DEF Moved
    <2> QED
      BY <1>9, <2>1, <2>2, <2>3, <2>4, Zenon
  <1> QED
    BY <1>6, <1>7, <1>10, <1>11, Zenon DEF new

\* What migrate makes of a document with rules.
LEMMA MigratedKeeps ==
    ASSUME NEW doc \in Playbook, doc.entries # None
    PROVE  /\ Migrated(doc) \in Playbook
           /\ Same(Migrated(doc), doc) /\ Meaning(Migrated(doc)) = Meaning(doc)
           /\ Migrated(doc).gitlab = None
           /\ \A k \in {"envelope", "version", "pages"} : Migrated(doc)[k] = doc[k]
  <1> DEFINE mid == Renamed(doc)
             new == Migrated(doc)
  <1>1. new = ToPresentation(mid)
    BY Zenon DEF Migrated, Renamed
  <1>2. /\ mid \in Playbook /\ Same(mid, doc) /\ Meaning(mid) = Meaning(doc)
        /\ \A k \in Fields \ {"entries"} : mid[k] = doc[k]
    BY RenamedKeeps
  <1> HIDE DEF mid, new
  <1>3. CASE mid.gitlab = None
    <2>1. new = mid
      BY <1>1, <1>3, Zenon DEF ToPresentation
    <2> QED
      BY <1>2, <1>3, <2>1 DEF new, Fields
  <1>4. CASE mid.gitlab # None
    <2>1. new = Moved(mid)
      BY <1>1, <1>4, Zenon DEF ToPresentation
    <2>2. new = [mid EXCEPT !.presentation = Presented(mid), !.gitlab = None]
      BY <1>2, <2>1, MovedIs
    <2>3. DOMAIN mid = Fields
      BY <1>2, PlaybookFields
    <2>4. /\ new.presentation = Presented(mid) /\ new.gitlab = None
          /\ \A k \in Fields \ {"presentation", "gitlab"} : new[k] = mid[k]
      BY <2>2, <2>3 DEF Fields
    <2>5. new \in Playbook
      <3>1. Presented(mid) \in Presentations /\ None \in Optional(Integrations)
        BY <1>2, <1>4, PresentedTyped DEF Optional
      <3> QED
        BY <1>2, <2>2, <3>1 DEF Playbook
    <2>6. /\ new.tiers = mid.tiers /\ new.other = mid.other /\ new.entries = mid.entries
          /\ new.badges = mid.badges /\ new.links = mid.links
      BY <2>4 DEF Fields
    <2>7. Same(new, doc)
      BY <1>2, <2>6, Zenon DEF Same
    <2>8. Meaning(new) = Meaning(mid)
      <3>1. Moved(mid).presentation = Presented(mid)
        BY <1>2, MovedIs
      <3> QED
        BY <1>4, <2>4, <2>6, <3>1, Zenon DEF Meaning
    <2>9. \A k \in {"envelope", "version", "pages"} : new[k] = doc[k]
      BY <1>2, <2>4 DEF Fields
    <2> QED
      BY <1>2, <2>4, <2>5, <2>7, <2>8, <2>9, Zenon DEF new
  <1> QED
    BY <1>3, <1>4

-----------------------------------------------------------------------------
(* The file, from rewrite to rewrite.                                      *)

\* doc is what the commands done have made of the author's document old.
Faithful(doc, done, old) ==
    /\ doc \in Playbook /\ Meaning(doc) = Meaning(old) /\ Same(doc, old)
    /\ "upgrade" \in done \/ old.envelope => doc.envelope
    /\ ~doc.envelope \/ old.envelope => doc.version = old.version /\ doc.pages = old.pages
    /\ doc.envelope /\ ~old.envelope =>
          doc.version = Or(old.version, "semantic") /\ doc.pages = None
    /\ "migrate" \in done /\ old.entries # None => doc.gitlab = None

OnDisk ==
    /\ written \in Playbook
    /\ ~torn => IF writing = <<>> THEN Faithful(file, ran, written)
                ELSE Faithful(writing[2], ran \union {writing[1]}, written)

LEMMA SameAgain ==
    /\ \A doc : Same(doc, doc)
    /\ \A a, b, c : Same(a, b) /\ Same(b, c) => Same(a, c)
  <1>1. \A doc : Same(doc, doc)
    BY Zenon DEF Same
  <1>2. ASSUME NEW a, NEW b, NEW c, Same(a, b), Same(b, c) PROVE Same(a, c)
    <2>1. /\ a.tiers = c.tiers /\ a.badges = c.badges /\ a.other = c.other
          /\ (a.entries = None) <=> (c.entries = None)
      BY <1>2, Zenon DEF Same
    <2>2. c.entries # None =>
             /\ DOMAIN a.entries = DOMAIN c.entries
             /\ \A i \in DOMAIN c.entries : a.entries[i].own = c.entries[i].own
      BY <1>2, Zenon DEF Same
    <2> QED
      BY <2>1, <2>2, Zenon DEF Same
  <1> QED
    BY <1>1, <1>2, Zenon

LEMMA FaithfulFirst == \A doc \in Playbook : Faithful(doc, {}, doc)
  BY SameAgain DEF Faithful

LEMMA FaithfulUpgraded ==
    ASSUME NEW doc, NEW done, NEW old \in Playbook, Faithful(doc, done, old), ~doc.envelope
    PROVE  Faithful(Upgraded(doc), done \union {"upgrade"}, old)
  <1> DEFINE new == Upgraded(doc)
  <1>1. doc \in Playbook /\ Meaning(doc) = Meaning(old) /\ Same(doc, old)
    BY DEF Faithful
  <1>2. new \in Playbook /\ Meaning(new) = Meaning(doc)
    BY <1>1, UpgradedKeeps
  <1>3. /\ new.tiers = doc.tiers /\ new.badges = doc.badges /\ new.entries = doc.entries
        /\ new.other = doc.other /\ new.gitlab = doc.gitlab
        /\ new.pages = None /\ new.version = Or(doc.version, "semantic")
    BY <1>1, UpgradedIs
  <1>4. new.envelope
    <2> DEFINE it == [envelope |-> TRUE, version |-> Or(doc.version, "semantic"), tiers |-> doc.tiers,
                      entries |-> doc.entries, badges |-> doc.badges, gitlab |-> doc.gitlab,
                      other |-> doc.other, presentation |-> doc.presentation, links |-> doc.links,
                      pages |-> None]
    <2>1. it.envelope = TRUE
      BY Zenon
    <2>2. new = it
      BY <1>1, UpgradedIs
    <2> QED
      BY <2>1, <2>2, Zenon
  <1> HIDE DEF new
  <1>5. Same(new, doc)
    BY <1>3, Zenon DEF Same
  <1>6. Same(new, old)
    BY <1>1, <1>5, SameAgain
  <1>7. ~old.envelope /\ doc.version = old.version
    BY Zenon DEF Faithful
  <1>8. "migrate" \in done \union {"upgrade"} => "migrate" \in done
    OBVIOUS
  <1>9. "migrate" \in done /\ old.entries # None => doc.gitlab = None
    BY DEF Faithful
  <1>10. Faithful(new, done \union {"upgrade"}, old)
    BY <1>1, <1>2, <1>3, <1>4, <1>6, <1>7, <1>8, <1>9, Zenon DEF Faithful
  <1> QED
    BY <1>10 DEF new

LEMMA FaithfulMigrated ==
    ASSUME NEW doc, NEW done, NEW old \in Playbook, Faithful(doc, done, old)
    PROVE  Faithful(Migrated(doc), done \union {"migrate"}, old)
  <1>1. doc \in Playbook /\ Meaning(doc) = Meaning(old) /\ Same(doc, old)
    BY DEF Faithful
  <1>2. (doc.entries = None) <=> (old.entries = None)
    BY <1>1, Zenon DEF Same
  <1>3. "upgrade" \in done \union {"migrate"} => "upgrade" \in done
    OBVIOUS
  <1>4. CASE doc.entries = None
    <2>1. Migrated(doc) = doc
      BY <1>4, Zenon DEF Migrated
    <2> QED
      BY <1>2, <1>3, <1>4, <2>1, Zenon DEF Faithful
  <1>5. CASE doc.entries # None
    <2> DEFINE new == Migrated(doc)
    <2>1. /\ new \in Playbook /\ Same(new, doc) /\ Meaning(new) = Meaning(doc)
          /\ new.gitlab = None /\ \A k \in {"envelope", "version", "pages"} : new[k] = doc[k]
      BY <1>1, <1>5, MigratedKeeps
    <2> HIDE DEF new
    <2>2. new.envelope = doc.envelope /\ new.version = doc.version /\ new.pages = doc.pages
      BY <2>1, Zenon
    <2>3. Same(new, old)
      BY <1>1, <2>1, SameAgain
    <2>4. Faithful(new, done \union {"migrate"}, old)
      BY <1>1, <1>3, <2>1, <2>2, <2>3, Zenon DEF Faithful
    <2> QED
      BY <2>4 DEF new
  <1> QED
    BY <1>4, <1>5

LEMMA FaithfulAsIs ==
    ASSUME NEW doc, NEW done, NEW old, Faithful(doc, done, old), doc.envelope
    PROVE  Faithful(doc, done \union {"upgrade"}, old)
  <1>1. "migrate" \in done \union {"upgrade"} => "migrate" \in done
    OBVIOUS
  <1> QED
    BY <1>1, Zenon DEF Faithful

LEMMA InitOnDisk == Init => OnDisk
  <1> SUFFICES ASSUME Init PROVE OnDisk
    OBVIOUS
  <1>1. file \in Playbook /\ written = file /\ ran = {} /\ writing = <<>>
    BY DocumentsAssumption DEF Init
  <1> QED
    BY <1>1, FaithfulFirst DEF OnDisk

\* One more document is being written.
LEMMA RewriteOnDisk ==
    ASSUME OnDisk, NEW c, NEW doc, Rewrite(c, doc),
           Faithful(file, ran, written) => Faithful(doc, ran \union {c}, written)
    PROVE  OnDisk'
  <1>1. /\ writing = <<>> /\ writing' = <<c, doc>> /\ written' = written /\ ran' = ran
        /\ torn' = torn
    BY Zenon DEF Rewrite
  <1>2. <<c, doc>> # <<>> /\ <<c, doc>>[1] = c /\ <<c, doc>>[2] = doc
    OBVIOUS
  <1>3. ~torn => Faithful(doc, ran \union {c}, written)
    BY <1>1, Zenon DEF OnDisk
  <1>4. ~torn' => Faithful(writing'[2], ran' \union {writing'[1]}, written')
    BY <1>1, <1>2, <1>3, Zenon
  <1>5. writing' # <<>>
    BY <1>1, <1>2
  <1> QED
    BY <1>1, <1>4, <1>5, Zenon DEF OnDisk

LEMMA NextOnDisk == OnDisk /\ [Next]_vars => OnDisk'
  <1> SUFFICES ASSUME OnDisk, [Next]_vars PROVE OnDisk'
    OBVIOUS
  <1>1. written \in Playbook
    BY DEF OnDisk
  <1>2. CASE Upgrade
    <2>1. ~file.envelope /\ Rewrite("upgrade", Upgraded(file))
      BY <1>2, Zenon DEF Upgrade
    <2>2. Faithful(file, ran, written) => Faithful(Upgraded(file), ran \union {"upgrade"}, written)
      BY <1>1, <2>1, FaithfulUpgraded
    <2> QED
      BY <2>1, <2>2, RewriteOnDisk
  <1>3. CASE Migrate
    <2>1. Faithful(file, ran, written) => Faithful(Migrated(file), ran \union {"migrate"}, written)
      BY <1>1, FaithfulMigrated
    <2>2. Rewrite("migrate", Migrated(file))
      BY <1>3 DEF Migrate
    <2> QED
      BY <2>1, <2>2, RewriteOnDisk
  <1>4. CASE NothingToUpgrade
    <2>1. /\ writing = <<>> /\ file.envelope /\ ran' = ran \union {"upgrade"} /\ file' = file
          /\ written' = written /\ writing' = writing /\ torn' = torn
      BY <1>4, Zenon DEF NothingToUpgrade
    <2>2. ~torn => Faithful(file, ran \union {"upgrade"}, written)
      BY <2>1, FaithfulAsIs DEF OnDisk
    <2> QED
      BY <1>1, <2>1, <2>2, Zenon DEF OnDisk
  <1>5. CASE Dump
    <2>1. /\ writing # <<>> /\ file' = writing[2] /\ ran' = ran \union {writing[1]}
          /\ writing' = <<>> /\ written' = written /\ torn' = torn
      BY <1>5, Zenon DEF Dump
    <2> QED
      BY <1>1, <2>1, Zenon DEF OnDisk
  <1>6. CASE Kill
    <2>1. torn' = TRUE /\ written' = written
      BY <1>6, Zenon DEF Kill
    <2> QED
      BY <1>1, <2>1, Zenon DEF OnDisk
  <1>7. CASE UNCHANGED fileVars
    <2>1. /\ file' = file /\ written' = written /\ ran' = ran /\ writing' = writing
          /\ torn' = torn
      BY <1>7 DEF fileVars
    <2> QED
      BY <1>1, <2>1, Zenon DEF OnDisk
  <1>8. ASSUME NEW facts \in Facts, NEW hoist \in BOOLEAN, Analyze(facts, hoist)
        PROVE  UNCHANGED fileVars
    BY <1>8, Zenon DEF Analyze
  <1>9. EvaluateAgain => UNCHANGED fileVars
    BY Zenon DEF EvaluateAgain
  <1>10. UNCHANGED vars => UNCHANGED fileVars
    BY DEF vars
  <1> QED
    BY <1>2, <1>3, <1>4, <1>5, <1>6, <1>7, <1>8, <1>9, <1>10 DEF Next

LEMMA OnDiskAlways == Spec => []OnDisk
  BY InitOnDisk, NextOnDisk, PTL DEF Spec

\* A file that no command was killed over is a document, and means what its author
\* wrote, whatever upgrade and migrate have made of it.
THEOREM MeaningKeptHolds == Spec => []MeaningKept
  <1>1. OnDisk => MeaningKept
    <2> SUFFICES ASSUME OnDisk, writing = <<>>, ~torn
                 PROVE  file # Unreadable /\ Meaning(file) = Meaning(written)
      BY DEF MeaningKept
    <2>1. Faithful(file, ran, written)
      BY Zenon DEF OnDisk
    <2> QED
      BY <2>1, DocumentsAssumption DEF Faithful
  <1> QED
    BY <1>1, OnDiskAlways, PTL

\* upgrade and migrate leave nothing for load_playbook to refuse but the content.
THEOREM SettledIsLoadableHolds == Spec => []SettledIsLoadable
  <1>1. OnDisk => SettledIsLoadable
    <2> SUFFICES ASSUME OnDisk, writing = <<>>, ~torn, ran = {"upgrade", "migrate"},
                        written.entries # None, ContentValid(written),
                        written.envelope => written.version # None /\ written.pages = None
                 PROVE  Loads(file)
      BY Zenon DEF SettledIsLoadable
    <2>1. Faithful(file, ran, written)
      BY Zenon DEF OnDisk
    <2>2. Same(file, written)
      BY <2>1 DEF Faithful
    <2>3. file.envelope /\ file.gitlab = None
      <3>1. "upgrade" \in ran /\ "migrate" \in ran
        OBVIOUS
      <3> QED
        BY <2>1, <3>1, Zenon DEF Faithful
    <2>4. file.version # None /\ file.pages = None /\ file.version # "loose"
      <3>1. written.version # "loose"
        BY Zenon DEF ContentValid
      <3>2. CASE written.envelope
        <4>1. file.version = written.version /\ file.pages = written.pages
          BY <2>1, <3>2, Zenon DEF Faithful
        <4> QED
          BY <3>1, <3>2, <4>1
      <3>3. CASE ~written.envelope
        <4>1. file.version = Or(written.version, "semantic") /\ file.pages = None
          BY <2>1, <2>3, <3>3, Zenon DEF Faithful
        <4>2. Or(written.version, "semantic") # None /\ Or(written.version, "semantic") # "loose"
          BY <3>1, NoneAssumption DEF Or
        <4> QED
          BY <4>1, <4>2
      <3> QED
        BY <3>2, <3>3
    <2>5. file.other = None /\ UniqueTierIds(file)
      BY <2>2, Zenon DEF ContentValid, UniqueTierIds, Same
    <2>6. \A i \in DOMAIN file.entries : ~file.entries[i].own
      <3>1. \A i \in DOMAIN written.entries : ~written.entries[i].own
        BY Zenon DEF ContentValid
      <3> QED
        BY <2>2, <3>1, Zenon DEF Same
    <2>7. /\ \A i \in DOMAIN file.tiers : file.tiers[i].when # None
          /\ \A i \in DOMAIN file.badges : file.badges[i].when # None /\ file.badges[i].whole
      BY <2>2, Zenon DEF ContentValid, Same
    <2>8. ContentValid(file)
      BY <2>4, <2>5, <2>6, <2>7, Zenon DEF ContentValid
    <2> QED
      BY <2>3, <2>4, <2>8, Zenon DEF Loads
  <1> QED
    BY <1>1, OnDiskAlways, PTL

-----------------------------------------------------------------------------
(* The same facts twice.                                                   *)

\* Two contexts that differ at most in what the report says of an earlier evaluation.
Alike(c, d) == c.rules = d.rules /\ c.facts = d.facts /\ c.tier = d.tier

LEMMA AlikeJudge ==
    ASSUME NEW c, NEW d, Alike(c, d), NEW when, when.reads # "report"
    PROVE  /\ Holds(when, c) <=> Holds(when, d)
           /\ Certain(when, c) <=> Certain(when, d)
  <1>1. Value(when, c) = Value(when, d)
    BY DEF Alike, Value
  <1>2. Holds(when, c) <=> Holds(when, d)
    BY <1>1, Zenon DEF Holds
  <1>3. Incomplete(when, c) <=> Incomplete(when, d)
    BY <1>1, Zenon DEF Incomplete
  <1> QED
    BY <1>2, <1>3, Zenon DEF Certain

\* What is read of them, badges and links that do not ask for that alone.
LEMMA AlikeRead ==
    ASSUME NEW c, NEW d, Alike(c, d)
    PROVE  /\ \A v : v.reads # "report" => Interpolated(v, c) = Interpolated(v, d)
           /\ \A u : u.reads # "report" /\ ~(u.reads = "playbook" /\ u.by = "format")
                     => Resolved(u, c) = Resolved(u, d)
  <1>1. \A w : w.reads # "report" => Value(w, c) = Value(w, d)
    BY DEF Alike, Value
  <1>2. ASSUME NEW v, v.reads # "report" PROVE Interpolated(v, c) = Interpolated(v, d)
    BY <1>1, <1>2, Zenon DEF Interpolated
  <1>3. ASSUME NEW u, u.reads # "report", ~(u.reads = "playbook" /\ u.by = "format")
        PROVE  Resolved(u, c) = Resolved(u, d)
    <2>1. Value(u, c) = Value(u, d)
      BY <1>1, <1>3
    <2>2. Rendered(u, c) = Rendered(u, d)
      BY <2>1 DEF Rendered
    <2>3. u.by = "format" => Formatted(u, c) = Formatted(u, d)
      BY <1>3, <2>1 DEF Formatted
    <2> QED
      BY <2>2, <2>3 DEF Resolved
  <1> QED
    BY <1>2, <1>3

\* The places where a document has its conditions.
LEMMA ConditionsAt ==
    ASSUME NEW doc
    PROVE  /\ \A i \in DOMAIN doc.tiers :
                 doc.tiers[i].when # None => doc.tiers[i].when \in Conditions(doc)
           /\ \A d \in ToSet(doc.badges) : d.when # None => d.when \in Conditions(doc)
           /\ \A d \in ToSet(doc.links) : d.when # None => d.when \in Conditions(doc)
           /\ LET lists == Or(doc.presentation.checklists, <<>>)
              IN \A l \in DOMAIN lists : \A i \in DOMAIN lists[l] :
                    /\ lists[l][i].when # None => lists[l][i].when \in Conditions(doc)
                    /\ lists[l][i].check # None => lists[l][i].check \in Conditions(doc)
           /\ LET list == Or(doc.presentation.templates, <<>>)
              IN \A i \in DOMAIN list : list[i].when # None => list[i].when \in Conditions(doc)
  <1> DEFINE lists == Or(doc.presentation.checklists, <<>>)
             templates == Or(doc.presentation.templates, <<>>)
             items == UNION {ToSet(lists[i]) : i \in DOMAIN lists}
             Of(list) == {d.when : d \in list}
             all == UNION {Of(ToSet(doc.tiers)), Of(ToSet(doc.badges)), Of(ToSet(doc.links)),
                           Of(items), {d.check : d \in items}, Of(ToSet(templates))}
  <1>1. Conditions(doc) = all \ {None}
    BY Zenon DEF Conditions
  <1>2. \A s : \A i \in DOMAIN s : s[i] \in ToSet(s)
    BY DEF ToSet
  <1>3. \A d : \/ d \in ToSet(doc.tiers) \/ d \in ToSet(doc.badges) \/ d \in ToSet(doc.links)
               \/ d \in items \/ d \in ToSet(templates)
               => d.when \in all
    <2> HIDE DEF items, templates
    <2> QED
      OBVIOUS
  <1>4. \A d \in items : d.check \in all
    <2> HIDE DEF items, templates
    <2> QED
      OBVIOUS
  <1>5. \A l \in DOMAIN lists : \A i \in DOMAIN lists[l] : lists[l][i] \in items
    BY <1>2
  <1> HIDE DEF all, items, lists, templates
  <1>6. \A i \in DOMAIN doc.tiers : doc.tiers[i].when # None => doc.tiers[i].when \in Conditions(doc)
    BY <1>1, <1>2, <1>3
  <1>7. \A d \in ToSet(doc.badges) : d.when # None => d.when \in Conditions(doc)
    BY <1>1, <1>3
  <1>8. \A d \in ToSet(doc.links) : d.when # None => d.when \in Conditions(doc)
    BY <1>1, <1>3
  <1>9. \A l \in DOMAIN lists : \A i \in DOMAIN lists[l] :
           /\ lists[l][i].when # None => lists[l][i].when \in Conditions(doc)
           /\ lists[l][i].check # None => lists[l][i].check \in Conditions(doc)
    BY <1>1, <1>3, <1>4, <1>5
  <1>10. \A i \in DOMAIN templates : templates[i].when # None => templates[i].when \in Conditions(doc)
    BY <1>1, <1>2, <1>3
  <1> QED
    BY <1>6, <1>7, <1>8, <1>9, <1>10 DEF lists, templates

\* What the conditions of a document decide, in two such contexts.
LEMMA AlikeResolve ==
    ASSUME NEW doc, ~AsksEarlier(doc), NEW c, NEW d, Alike(c, d)
    PROVE  /\ WinningTier(doc, c) = WinningTier(doc, d)
           /\ ResolvedBadges(doc, c) = ResolvedBadges(doc, d)
           /\ ResolvedLinks(doc, c) = ResolvedLinks(doc, d)
           /\ ResolvedChecklists(doc, c) = ResolvedChecklists(doc, d)
           /\ ResolvedTemplates(doc, c) = ResolvedTemplates(doc, d)
  <1>1. \A when \in Conditions(doc) : /\ Holds(when, c) <=> Holds(when, d)
                                      /\ Certain(when, c) <=> Certain(when, d)
    BY AlikeJudge DEF AsksEarlier
  <1>2. WinningTier(doc, c) = WinningTier(doc, d)
    <2> DEFINE Winners(x) == {i \in DOMAIN doc.tiers :
                                 doc.tiers[i].when # None /\ Holds(doc.tiers[i].when, x)}
    <2>1. \A i \in DOMAIN doc.tiers : doc.tiers[i].when # None =>
             (Holds(doc.tiers[i].when, c) <=> Holds(doc.tiers[i].when, d))
      BY <1>1, ConditionsAt
    <2>2. Winners(c) = Winners(d)
      BY <2>1, Zenon
    <2>3. \A x : WinningTier(doc, x) =
             IF Winners(x) = {} THEN None
             ELSE doc.tiers[CHOOSE i \in Winners(x) : \A j \in Winners(x) : i <= j].name
      BY Zenon DEF WinningTier
    <2> HIDE DEF Winners
    <2> QED
      BY <2>2, <2>3, Zenon
  <1>3. ResolvedBadges(doc, c) = ResolvedBadges(doc, d)
    <2>1. \A b \in ToSet(doc.badges) : Stays(b, c) <=> Stays(b, d)
      BY <1>1, ConditionsAt, Zenon DEF Stays
    <2>2. \A b \in ToSet(doc.badges) : Interpolated(b.value, c) = Interpolated(b.value, d)
      BY AlikeRead, Zenon DEF AsksEarlier
    <2> DEFINE Kept(x) == {b \in ToSet(doc.badges) : Stays(b, x)}
               Row(b, x) == [slug |-> b.slug, value |-> Interpolated(b.value, x)]
    <2>3. ResolvedBadges(doc, c) = {Row(b, c) : b \in Kept(c)}
          /\ ResolvedBadges(doc, d) = {Row(b, d) : b \in Kept(d)}
      BY Zenon DEF ResolvedBadges
    <2>4. Kept(c) = Kept(d)
      BY <2>1, Zenon
    <2>5. \A b \in Kept(c) : Row(b, c) = Row(b, d)
      BY <2>2, Zenon
    <2> HIDE DEF Kept, Row
    <2>6. {Row(b, c) : b \in Kept(c)} = {Row(b, d) : b \in Kept(c)}
      BY <2>5
    <2> QED
      BY <2>3, <2>4, <2>6
  <1>4. ResolvedLinks(doc, c) = ResolvedLinks(doc, d)
    <2>1. \A b \in ToSet(doc.links) : Stays(b, c) <=> Stays(b, d)
      BY <1>1, ConditionsAt, Zenon DEF Stays
    <2>2. \A l \in ToSet(doc.links) : Resolved(l.url, c) = Resolved(l.url, d)
      BY AlikeRead, Zenon DEF AsksEarlier
    <2> DEFINE Kept(x) == {l \in ToSet(doc.links) : Stays(l, x) /\ Resolved(l.url, x) # None}
               Row(l, x) == [label |-> l.label, url |-> Resolved(l.url, x)]
    <2>3. ResolvedLinks(doc, c) = {Row(l, c) : l \in Kept(c)}
          /\ ResolvedLinks(doc, d) = {Row(l, d) : l \in Kept(d)}
      BY Zenon DEF ResolvedLinks
    <2>4. Kept(c) = Kept(d)
      BY <2>1, <2>2, Zenon
    <2>5. \A l \in Kept(c) : Row(l, c) = Row(l, d)
      BY <2>2, Zenon
    <2> HIDE DEF Kept, Row
    <2>6. {Row(l, c) : l \in Kept(c)} = {Row(l, d) : l \in Kept(c)}
      BY <2>5
    <2> QED
      BY <2>3, <2>4, <2>6
  <1>5. ResolvedChecklists(doc, c) = ResolvedChecklists(doc, d)
    <2> DEFINE lists == Or(doc.presentation.checklists, <<>>)
               Item(e, x) == [label |-> e.label,
                              checked |-> e.check # None /\ Certain(e.check, x)]
               Left(x) == {k \in DOMAIN lists : Shown(lists[k], x) # {}}
    <2>1. \A l \in DOMAIN lists : \A i \in DOMAIN lists[l] :
             /\ lists[l][i].when # None => lists[l][i].when \in Conditions(doc)
             /\ lists[l][i].check # None => lists[l][i].check \in Conditions(doc)
      BY ConditionsAt, Zenon
    <2>2. \A x : ResolvedChecklists(doc, x) =
             [l \in Left(x) |-> [i \in Shown(lists[l], x) |-> Item(lists[l][i], x)]]
      BY Zenon DEF ResolvedChecklists
    <2> HIDE DEF lists
    <2>3. ASSUME NEW l \in DOMAIN lists PROVE Shown(lists[l], c) = Shown(lists[l], d)
      BY <1>1, <2>1, Zenon DEF Shown
    <2>4. ASSUME NEW l \in DOMAIN lists, NEW i \in DOMAIN lists[l]
          PROVE  Item(lists[l][i], c) = Item(lists[l][i], d)
      <3> DEFINE a == lists[l][i].check # None /\ Certain(lists[l][i].check, c)
                 b == lists[l][i].check # None /\ Certain(lists[l][i].check, d)
      <3>1. a <=> b
        BY <1>1, <2>1, Zenon
      <3>2. a = b
        <4> HIDE DEF a, b
        <4> QED
          BY <3>1, Zenon
      <3> HIDE DEF a, b
      <3>3. [label |-> lists[l][i].label, checked |-> a] = [label |-> lists[l][i].label, checked |-> b]
        BY <3>2, Zenon
      <3> QED
        BY <3>3, Zenon DEF a, b
    <2> HIDE DEF Item
    <2>5. Left(c) = Left(d)
      BY <2>3, Zenon
    <2>6. \A l \in Left(c) : l \in DOMAIN lists
      OBVIOUS
    <2> HIDE DEF Left
    <2>7. ASSUME NEW l \in Left(c)
          PROVE  [i \in Shown(lists[l], c) |-> Item(lists[l][i], c)] =
                 [i \in Shown(lists[l], d) |-> Item(lists[l][i], d)]
      <3>1. \A i \in Shown(lists[l], c) : i \in DOMAIN lists[l]
        BY Zenon DEF Shown
      <3> QED
        BY <2>3, <2>4, <2>6, <3>1, Zenon
    <2> DEFINE Row(l, x) == [i \in Shown(lists[l], x) |-> Item(lists[l][i], x)]
    <2>8. ResolvedChecklists(doc, c) = [l \in Left(c) |-> Row(l, c)]
      BY <2>2
    <2>9. ResolvedChecklists(doc, d) = [l \in Left(d) |-> Row(l, d)]
      BY <2>2
    <2>10. \A l \in Left(c) : Row(l, c) = Row(l, d)
      BY <2>7
    <2> HIDE DEF Row
    <2>11. [l \in Left(c) |-> Row(l, c)] = [l \in Left(c) |-> Row(l, d)]
      BY <2>10, Zenon
    <2> QED
      BY <2>5, <2>8, <2>9, <2>11, Zenon
  <1>6. ResolvedTemplates(doc, c) = ResolvedTemplates(doc, d)
    <2> DEFINE list == Or(doc.presentation.templates, <<>>)
    <2>1. \A i \in DOMAIN list : list[i].when # None => list[i].when \in Conditions(doc)
      BY ConditionsAt, Zenon
    <2>2. \A x : ResolvedTemplates(doc, x) = {list[i].url : i \in Shown(list, x)}
      BY Zenon DEF ResolvedTemplates
    <2> HIDE DEF list
    <2>3. Shown(list, c) = Shown(list, d)
      BY <1>1, <2>1, Zenon DEF Shown
    <2> QED
      BY <2>2, <2>3
  <1> QED
    BY <1>2, <1>3, <1>4, <1>5, <1>6

\* Two reports with the same facts, and a playbook that does not ask for what an earlier
\* evaluation has left in them.
LEMMA SameFactsSameConclusions ==
    ASSUME NEW doc, ~AsksEarlier(doc), NEW r, NEW s, r.facts = s.facts
    PROVE  \A k \in {"rules", "tier", "badges", "links", "checklists", "templates"} :
              Evaluation(doc, r)[k] = Evaluation(doc, s)[k]
  <1> DEFINE Tier(x) == WinningTier(doc, Context(doc, x, None))
             Ctx(x) == Context(doc, x, Tier(x))
             Result(x) ==
                [rules |-> Rules(doc, x.facts), tier |-> Tier(x),
                 badges |-> ResolvedBadges(doc, Ctx(x)), links |-> ResolvedLinks(doc, Ctx(x)),
                 checklists |-> ResolvedChecklists(doc, Ctx(x)),
                 templates |-> ResolvedTemplates(doc, Ctx(x)), labels |-> BadgeLabels(doc, x)]
  <1>1. \A x : Evaluation(doc, x) = Result(x)
    BY Zenon DEF Evaluation
  <1>2. \A t : Alike(Context(doc, r, t), Context(doc, s, t))
    BY DEF Alike, Context, RulesInContext
  <1>3. Tier(r) = Tier(s)
    BY <1>2, AlikeResolve
  <1> HIDE DEF Tier
  <1>4. Alike(Ctx(r), Ctx(s))
    BY <1>2, <1>3
  <1> HIDE DEF Ctx
  <1>5. /\ ResolvedBadges(doc, Ctx(r)) = ResolvedBadges(doc, Ctx(s))
        /\ ResolvedLinks(doc, Ctx(r)) = ResolvedLinks(doc, Ctx(s))
        /\ ResolvedChecklists(doc, Ctx(r)) = ResolvedChecklists(doc, Ctx(s))
        /\ ResolvedTemplates(doc, Ctx(r)) = ResolvedTemplates(doc, Ctx(s))
    BY <1>4, AlikeResolve
  <1>6. Rules(doc, r.facts) = Rules(doc, s.facts)
    OBVIOUS
  <1>7. \A k \in {"rules", "tier", "badges", "links", "checklists", "templates"} :
            Result(r)[k] = Result(s)[k]
    BY <1>3, <1>5, <1>6
  <1> HIDE DEF Result
  <1> QED
    BY <1>1, <1>7

\* What is saved is what the analysis of its facts concluded, what is said again is
\* concluded from what is saved.
Concluded ==
    /\ report # NoReport => report.result = Evaluation(report.by, Fresh(report.facts))
    /\ again # NoReport =>
          /\ report # NoReport
          /\ again.result = Evaluation(again.by, report)

LEMMA ConcludedAlways == Spec => []Concluded
  <1>1. Init => Concluded
    BY DEF Init, Concluded
  <1>2. Concluded /\ [Next]_vars => Concluded'
    <2> SUFFICES ASSUME Concluded, [Next]_vars PROVE Concluded'
      OBVIOUS
    <2>1. CASE UNCHANGED <<report, again>>
      BY <2>1 DEF Concluded
    <2>2. ASSUME NEW f \in Facts, NEW hoist \in BOOLEAN, Analyze(f, hoist) PROVE Concluded'
      <3> DEFINE result == Evaluation(file, Fresh(f))
                 saved == [facts |-> f, rules |-> result.rules,
                           tier |-> IF hoist THEN Or(result.tier, Null) ELSE None,
                           badges |-> IF hoist THEN result.badges ELSE {},
                           playbook |-> result.tier, by |-> file, result |-> result]
      <3>1. report' = saved /\ again' = NoReport
        BY <2>2, Zenon DEF Analyze
      <3>2. saved.result = result /\ saved.by = file /\ saved.facts = f
        BY Zenon
      <3> HIDE DEF saved
      <3> QED
        BY <3>1, <3>2, Zenon DEF Concluded
    <2>3. CASE EvaluateAgain
      <3>1. /\ report # NoReport /\ report' = report
            /\ again' = [by |-> file, result |-> Evaluation(file, report)]
        BY <2>3, Zenon DEF EvaluateAgain
      <3>2. again'.by = file /\ again'.result = Evaluation(file, report)
        BY <3>1
      <3> QED
        BY <3>1, <3>2, Zenon DEF Concluded
    <2>4. Upgrade \/ Migrate \/ NothingToUpgrade \/ Dump \/ Kill => UNCHANGED <<report, again>>
      BY Zenon DEF Upgrade, Migrate, Rewrite, NothingToUpgrade, Dump, Kill
    <2>5. UNCHANGED vars => UNCHANGED <<report, again>>
      BY DEF vars
    <2> QED
      BY <2>1, <2>2, <2>3, <2>4, <2>5 DEF Next
  <1> QED
    BY <1>1, <1>2, PTL DEF Spec

\* Whatever has become of the playbook in between, evaluating a saved report with the
\* playbook that was analyzed with comes to the same conclusions, unless the playbook asks
\* for what an evaluation leaves in the report.
THEOREM DryRunAgreesHolds == Spec => []DryRunAgrees
  <1>1. Concluded => DryRunAgrees
    <2> SUFFICES ASSUME Concluded, again # NoReport, again.by = report.by,
                        ~AsksEarlier(report.by)
                 PROVE  \A k \in {"rules", "tier", "badges", "links", "checklists", "templates"} :
                            again.result[k] = report.result[k]
      BY Zenon DEF DryRunAgrees
    <2>1. /\ report.result = Evaluation(report.by, Fresh(report.facts))
          /\ again.result = Evaluation(report.by, report)
      BY Zenon DEF Concluded
    <2>2. Fresh(report.facts).facts = report.facts
      BY DEF Fresh
    <2>3. \A k \in {"rules", "tier", "badges", "links", "checklists", "templates"} :
              Evaluation(report.by, report)[k] = Evaluation(report.by, Fresh(report.facts))[k]
      BY <2>2, SameFactsSameConclusions
    <2> QED
      BY <2>1, <2>3, Zenon
  <1> QED
    BY <1>1, ConcludedAlways, PTL

=============================================================================
