------------------------- MODULE Publication_proofs -------------------------
(***************************************************************************)
(* Proofs about what some processes write and others read: ownership and   *)
(* publication of the database, for any set of processes and any number of *)
(* commits; the generations of prices, for any calendar of corporate       *)
(* actions; the refreshes of the Senate's reports, for any number of       *)
(* reports, rows, revisions and refreshes; and the staging of readings,    *)
(* for any documents, stagers and bounds: what the files and the locks of  *)
(* the stagers promise to the audit, and what the threads of a batch       *)
(* promise to the next night.                                              *)
(***************************************************************************)
EXTENDS Publication, Prices, SenateRefresh, Staging, StageBatch,
        FunctionTheorems, SequenceTheorems, FiniteSetTheorems, TLAPS

(* A clone still to be announced is the whole working file.                *)
CloneIsCurrent ==
  \A p \in Process : pc[p] \in {"cloned", "announcing"} =>
    snap[p] = disk /\ snap[p] \in snapshots

PubInv == PublicationTypeOK /\ SingleOwner /\ PublishedIsSealed /\ CloneIsCurrent

Phases == OwnerPhase \union ReaderPhase \union {"down", "refused"}

LEMMA PubInit == PublicationInit => PubInv
  BY PublicationAssumption DEF PublicationInit, PubInv, PublicationTypeOK, SingleOwner, PublishedIsSealed,
    CloneIsCurrent, Content, Owns, Connected, OwnerPhase, ReaderPhase

(* A step that only moves one process to another phase.                    *)
LEMMA GotoType ==
  ASSUME PublicationTypeOK, NEW p \in Process, NEW phase \in Phases, Goto(p, phase)
  PROVE  /\ pc' \in [Process -> Phases]
         /\ pc'[p] = phase
         /\ \A q \in Process : q # p => pc'[q] = pc[q]
  BY DEF PublicationTypeOK, Goto, Phases

LEMMA TypeStep == PublicationTypeOK /\ [PublicationNext]_publicationVars => PublicationTypeOK'
<1> SUFFICES ASSUME PublicationTypeOK, [PublicationNext]_publicationVars PROVE PublicationTypeOK'
  OBVIOUS
<1> USE PublicationAssumption DEF PublicationTypeOK, Content, Goto
<1>1. ASSUME NEW p \in Process,
             \/ Acquire(p) \/ AcquireRefused(p) \/ Connect(p) \/ Seal(p) \/ CloneFails(p)
             \/ Reopen(p) \/ Probe(p) \/ EndProbe(p) \/ OpenRead(p) \/ Leave(p)
      PROVE  PublicationTypeOK'
  BY <1>1 DEF Acquire, AcquireRefused, Connect, Seal, CloneFails, Reopen, Probe,
    EndProbe, OpenRead, Leave, OwnerPhase, ReaderPhase
<1>2. ASSUME NEW p \in Process, Commit(p) PROVE PublicationTypeOK'
  BY <1>2 DEF Commit
<1>3. ASSUME NEW p \in Process, Clone(p) PROVE PublicationTypeOK'
  BY <1>3 DEF Clone, OwnerPhase
<1>4. ASSUME NEW p \in Process, Announce(p) PROVE PublicationTypeOK'
  BY <1>4 DEF Announce, OwnerPhase
<1>5. ASSUME NEW p \in Process, Resolve(p) PROVE PublicationTypeOK'
  BY <1>5 DEF Resolve, ReaderPhase
<1>6. CASE PlaceHold \/ ReleaseHold
  BY <1>6 DEF PlaceHold, ReleaseHold
<1>7. CASE UNCHANGED publicationVars
  BY <1>7 DEF publicationVars
<1> QED BY <1>1, <1>2, <1>3, <1>4, <1>5, <1>6, <1>7 DEF PublicationNext

-----------------------------------------------------------------------------
(* Ownership.                                                              *)

LEMMA OwnerStepSafe ==
  PublicationTypeOK /\ SingleOwner /\ [PublicationNext]_publicationVars => SingleOwner'
<1> SUFFICES ASSUME PublicationTypeOK, SingleOwner, [PublicationNext]_publicationVars PROVE SingleOwner'
  OBVIOUS
<1> USE DEF PublicationTypeOK, SingleOwner, Goto, Owns, Probes, Connected, ReadsWorking, OwnerPhase
<1>1. ASSUME NEW p \in Process, Acquire(p) PROVE SingleOwner'
  BY <1>1 DEF Acquire
<1>2. ASSUME NEW p \in Process, AcquireRefused(p) PROVE SingleOwner'
  BY <1>2 DEF AcquireRefused
<1>3. ASSUME NEW p \in Process, Connect(p) PROVE SingleOwner'
  BY <1>3 DEF Connect
<1>4. ASSUME NEW p \in Process, Commit(p) PROVE SingleOwner'
  BY <1>4 DEF Commit
<1>5. ASSUME NEW p \in Process, Seal(p) \/ CloneFails(p) PROVE SingleOwner'
  BY <1>5 DEF Seal, CloneFails
<1>6. ASSUME NEW p \in Process, Clone(p) PROVE SingleOwner'
  BY <1>6 DEF Clone
<1>7. ASSUME NEW p \in Process, Reopen(p) PROVE SingleOwner'
  BY <1>7 DEF Reopen
<1>8. ASSUME NEW p \in Process, Announce(p) PROVE SingleOwner'
  BY <1>8 DEF Announce
<1>9. ASSUME NEW p \in Process, Resolve(p) \/ Probe(p) \/ EndProbe(p) PROVE SingleOwner'
  BY <1>9 DEF Resolve, Probe, EndProbe
<1>10. ASSUME NEW p \in Process, OpenRead(p) PROVE SingleOwner'
  BY <1>10 DEF OpenRead
<1>11. ASSUME NEW p \in Process, Leave(p) PROVE SingleOwner'
  BY <1>11 DEF Leave
<1>12. CASE PlaceHold \/ ReleaseHold
  BY <1>12 DEF PlaceHold, ReleaseHold
<1>13. CASE UNCHANGED publicationVars
  BY <1>13 DEF publicationVars
<1> QED BY <1>1, <1>2, <1>3, <1>4, <1>5, <1>6, <1>7, <1>8, <1>9, <1>10, <1>11, <1>12,
         <1>13 DEF PublicationNext

-----------------------------------------------------------------------------
(* Sealed versions.                                                        *)

LEMMA SealedStep ==
  PubInv /\ [PublicationNext]_publicationVars => PublishedIsSealed' /\ CloneIsCurrent'
<1> SUFFICES ASSUME PubInv, [PublicationNext]_publicationVars PROVE PublishedIsSealed' /\ CloneIsCurrent'
  OBVIOUS
<1> USE PublicationAssumption
    DEF PubInv, PublicationTypeOK, PublishedIsSealed, CloneIsCurrent, Goto, ReaderPhase, Content
<1>1. ASSUME NEW p \in Process,
             \/ Acquire(p) \/ AcquireRefused(p) \/ Connect(p) \/ Seal(p) \/ CloneFails(p)
             \/ Reopen(p) \/ EndProbe(p) \/ OpenRead(p) \/ Leave(p)
      PROVE  PublishedIsSealed' /\ CloneIsCurrent'
  BY <1>1 DEF Acquire, AcquireRefused, Connect, Seal, CloneFails, Reopen,
    EndProbe, OpenRead, Leave
<1>2. ASSUME NEW p \in Process, Probe(p) PROVE PublishedIsSealed' /\ CloneIsCurrent'
  BY <1>2 DEF Probe
<1>3. ASSUME NEW p \in Process, Commit(p) PROVE PublishedIsSealed' /\ CloneIsCurrent'
  <2>1. \A q \in Process : pc[q] \notin {"cloned", "announcing"}
    BY <1>3 DEF Commit, SingleOwner, Owns, OwnerPhase
  <2> QED BY <1>3, <2>1 DEF Commit
<1>4. ASSUME NEW p \in Process, Clone(p) PROVE PublishedIsSealed' /\ CloneIsCurrent'
  BY <1>4 DEF Clone
<1>5. ASSUME NEW p \in Process, Announce(p) PROVE PublishedIsSealed' /\ CloneIsCurrent'
  BY <1>5 DEF Announce
<1>6. ASSUME NEW p \in Process, Resolve(p) PROVE PublishedIsSealed' /\ CloneIsCurrent'
  BY <1>6 DEF Resolve
<1>7. CASE PlaceHold \/ ReleaseHold
  BY <1>7 DEF PlaceHold, ReleaseHold
<1>8. CASE UNCHANGED publicationVars
  BY <1>8 DEF publicationVars
<1> QED BY <1>1, <1>2, <1>3, <1>4, <1>5, <1>6, <1>7, <1>8 DEF PublicationNext

(* PubInv is inductive: the four parts hold in every reachable state.      *)
THEOREM PublicationInvariant == PublicationSpec => []PubInv
<1>1. PubInv /\ [PublicationNext]_publicationVars => PubInv'
  BY TypeStep, OwnerStepSafe, SealedStep DEF PubInv
<1> QED BY PubInit, <1>1, PTL DEF PublicationSpec

-----------------------------------------------------------------------------
(* Results.                                                                *)

(* The state of every process and of the pointer has its type.             *)
THEOREM PublicationTypeCorrect == PublicationSpec => []PublicationTypeOK
<1>1. PubInv => PublicationTypeOK
  BY DEF PubInv
<1> QED BY PublicationInvariant, <1>1, PTL

(* However many processes open, publish, read and die, the database has at *)
(* most one owner, whose connection excludes readers of the working file.  *)
THEOREM OwnershipIsExclusive == PublicationSpec => []SingleOwner
<1>1. PubInv => SingleOwner
  BY DEF PubInv
<1> QED BY PublicationInvariant, <1>1, PTL

(* The pointer and every resolved version name a sealed snapshot.          *)
THEOREM PointerNeverDangles == PublicationSpec => []PublishedIsSealed
<1>1. PubInv => PublishedIsSealed
  BY DEF PubInv
<1> QED BY PublicationInvariant, <1>1, PTL

(* A new version is the working database of the moment it is announced.    *)
THEOREM AnnouncementsAreCurrent == PublicationSpec => AnnouncesTheLatest
<1>1. PubInv /\ [PublicationNext]_publicationVars
        => [pointer'.snapshot # pointer.snapshot => pointer'.snapshot = disk]_publicationVars
  <2> SUFFICES ASSUME PubInv, PublicationNext, pointer'.snapshot # pointer.snapshot
               PROVE  pointer'.snapshot = disk
    BY DEF publicationVars
  <2> USE DEF PubInv, PublicationTypeOK
  <2>1. CASE PlaceHold \/ ReleaseHold
    BY <2>1 DEF PlaceHold, ReleaseHold
  <2>2. ASSUME NEW p \in Process, Announce(p) PROVE pointer'.snapshot = disk
    BY <2>2 DEF Announce, CloneIsCurrent
  <2> QED BY <2>1, <2>2 DEF PublicationNext, Acquire, AcquireRefused, Connect, Commit, Seal, Clone,
            CloneFails, Reopen, Resolve, Probe, EndProbe, OpenRead, Leave
<1> QED BY PublicationInvariant, <1>1, PTL DEF PublicationSpec, AnnouncesTheLatest

(* An open reader sees one state of the database for as long as it reads.  *)
THEOREM ReadsArePinned == PublicationSpec => PinnedReads
<1> DEFINE Pinned == \A p \in Process :
      pc[p] = "reading" /\ pc'[p] = "reading" => View(p)' = View(p)
<1>1. PubInv /\ [PublicationNext]_publicationVars => [Pinned]_publicationVars
  <2> SUFFICES ASSUME PubInv, PublicationNext,
                      NEW r \in Process, pc[r] = "reading", pc'[r] = "reading"
               PROVE  View(r)' = View(r)
    OBVIOUS
  <2> USE DEF PubInv, PublicationTypeOK, Goto, View
  <2>1. ASSUME NEW p \in Process, Commit(p) PROVE View(r)' = View(r)
    <3>1. snap[r] # NoSnapshot
      BY <2>1 DEF Commit, SingleOwner, Connected, ReadsWorking
    <3> QED BY <2>1, <3>1 DEF Commit
  <2>2. ASSUME NEW p \in Process, Clone(p) PROVE View(r)' = View(r)
    BY <2>2 DEF Clone
  <2>3. ASSUME NEW p \in Process, Resolve(p) PROVE View(r)' = View(r)
    BY <2>3 DEF Resolve
  <2>4. CASE UNCHANGED <<disk, snap>>
    BY <2>4
  <2> QED BY <2>1, <2>2, <2>3, <2>4 DEF PublicationNext, Acquire, AcquireRefused, Connect, Seal,
            CloneFails, Reopen, Announce, Probe, EndProbe, OpenRead, Leave, PlaceHold,
            ReleaseHold
<1> QED BY PublicationInvariant, <1>1, PTL DEF PublicationSpec, PinnedReads

(* Writers: one at a time, and what they leave behind is complete.         *)
THEOREM OwnershipIsSafe == PublicationSpec => []OwnershipInvariant
<1>1. PubInv => OwnershipInvariant
  BY DEF PubInv, OwnershipInvariant
<1> QED BY PublicationInvariant, <1>1, PTL

(* Readers: the latest version is announced, and an open read is pinned.   *)
THEOREM ReadersServed == PublicationSpec => ReadersAreServed
  BY AnnouncementsAreCurrent, ReadsArePinned DEF ReadersAreServed

-----------------------------------------------------------------------------
(* Prices.  Two series are of one scale when they differ from the known    *)
(* actions by the same offset.                                             *)

After(d) == Cardinality({a \in Actions : d < a})
Aligned(series, k) == \A d \in DOMAIN series : series[d] = After(d) + k

LEMMA ActionsAreFinite ==
  /\ IsFiniteSet(Actions) /\ Cardinality(Actions) \in Nat
  /\ \A s \in SUBSET Actions : IsFiniteSet(s) /\ Cardinality(s) \in 0 .. Cardinality(Actions)
<1>1. IsFiniteSet(1 .. LastDay)
  BY PriceAssumption, FS_Interval
<1>2. IsFiniteSet(Actions) /\ Cardinality(Actions) \in Nat
  BY <1>1, PriceAssumption, FS_Subset, FS_CardinalityType
<1>3. ASSUME NEW s \in SUBSET Actions PROVE IsFiniteSet(s) /\ Cardinality(s) \in 0 .. Cardinality(Actions)
  BY <1>2, <1>3, FS_Subset, FS_CardinalityType
<1> QED BY <1>2, <1>3

LEMMA AfterIsNatural == \A d : After(d) \in Nat
BY ActionsAreFinite DEF After

(* The actions between two days are those after the first and not after    *)
(* the second.                                                             *)
LEMMA ActionsBetween ==
  ASSUME NEW d \in Nat, NEW e \in Nat, d <= e
  PROVE  Cardinality({a \in Actions : d < a /\ a <= e}) = After(d) - After(e)
<1> DEFINE between == {a \in Actions : d < a /\ a <= e}
           after == {a \in Actions : e < a}
<1>0. \A a \in Actions : a \in Nat
  BY PriceAssumption
<1>1. between \union after = {a \in Actions : d < a} /\ between \intersect after = {}
  BY <1>0
<1>2. IsFiniteSet(between) /\ IsFiniteSet(after) /\ Cardinality(between) \in Nat /\ Cardinality(after) \in Nat
  BY ActionsAreFinite
<1> HIDE DEF between, after
<1>3. Cardinality(between \union after) = Cardinality(between) + Cardinality(after) - 0
  <2>1. Cardinality({}) = 0
    BY FS_EmptySet
  <2>2. Cardinality(between \union after)
          = Cardinality(between) + Cardinality(after) - Cardinality(between \intersect after)
    BY <1>2, FS_Union
  <2> QED BY <1>1, <2>1, <2>2
<1>4. After(e) = Cardinality(after) /\ After(d) = Cardinality(between \union after)
  BY <1>1 DEF After, after
<1> QED BY <1>2, <1>3, <1>4 DEF between

LEMMA SeriesFields ==
  ASSUME NEW s \in Series
  PROVE  /\ DOMAIN s \subseteq Day /\ \A d \in DOMAIN s : d \in Nat /\ s[d] \in Nat
         /\ s = Empty <=> DOMAIN s = {}
<1>1. PICK days \in SUBSET Day : s \in [days -> 0 .. Cardinality(Actions)]
  BY DEF Series
<1>2. DOMAIN s = days /\ \A d \in days : d \in Nat /\ s[d] \in Nat
  BY <1>1, ActionsAreFinite DEF Day
<1>3. DOMAIN s = {} => s = Empty
  BY <1>1 DEF Empty
<1> QED BY <1>1, <1>2, <1>3 DEF Empty

LEMMA EmptyIsSeries == Empty \in Series /\ DOMAIN Empty = {}
<1>1. Empty \in [{} -> 0 .. Cardinality(Actions)]
  BY DEF Empty
<1> QED BY <1>1 DEF Series, Empty

LEMMA OverIsSeries ==
  ASSUME NEW s \in Series, NEW t \in Series
  PROVE  /\ Over(s, t) \in Series /\ DOMAIN Over(s, t) = DOMAIN s \union DOMAIN t
         /\ \A d \in DOMAIN s : Over(s, t)[d] = s[d]
         /\ \A d \in DOMAIN t \ DOMAIN s : Over(s, t)[d] = t[d]
<1>1. PICK days \in SUBSET Day : s \in [days -> 0 .. Cardinality(Actions)]
  BY DEF Series
<1>2. PICK more \in SUBSET Day : t \in [more -> 0 .. Cardinality(Actions)]
  BY DEF Series
<1>3. Over(s, t) \in [days \union more -> 0 .. Cardinality(Actions)]
  BY <1>1, <1>2 DEF Over
<1>4. days \union more \in SUBSET Day
  OBVIOUS
<1>5. Over(s, t) \in Series
  BY <1>3, <1>4 DEF Series
<1> QED BY <1>5 DEF Over

(* What one download returns is of one scale; a series of one scale is     *)
(* what a download could have returned.                                    *)
LEMMA DownloadIsAligned ==
  ASSUME PriceTypeOK, NEW first \in Starts, NEW last \in Day, last <= today
  PROVE  /\ Download(first, last) \in Series /\ DOMAIN Download(first, last) = first .. last
         /\ \E k \in Int : Aligned(Download(first, last), k)
<1>1. first \in Nat /\ first .. last \subseteq Day /\ today \in Nat
  BY PriceAssumption DEF PriceTypeOK, Day
<1>2. Download(first, last) \in [first .. last -> 0 .. Cardinality(Actions)]
  BY ActionsAreFinite DEF Download
<1>3. Download(first, last) \in Series
  BY <1>1, <1>2 DEF Series
<1>4. ASSUME NEW d \in first .. last
      PROVE  Download(first, last)[d] = After(d) + (0 - After(today))
  <2>1. d \in Nat /\ d <= today
    BY <1>1 DEF Day
  <2>2. Download(first, last)[d] = Cardinality({a \in Actions : d < a /\ a <= today})
    BY DEF Download
  <2> QED BY <1>1, <2>1, <2>2, ActionsBetween, AfterIsNatural
<1>5. Aligned(Download(first, last), 0 - After(today)) /\ 0 - After(today) \in Int
  BY <1>4, AfterIsNatural DEF Aligned, Download
<1> QED BY <1>3, <1>5 DEF Download

LEMMA AlignedIsOneDownload ==
  ASSUME NEW s \in Series, NEW k \in Int, Aligned(s, k)
  PROVE  OneDownload(s)
<1> SUFFICES ASSUME NEW d \in DOMAIN s, NEW e \in DOMAIN s, d < e
             PROVE  s[d] - s[e] = Cardinality({a \in Actions : d < a /\ a <= e})
  BY DEF OneDownload
<1>1. d \in Nat /\ e \in Nat /\ d <= e
  BY SeriesFields
<1>2. s[d] = After(d) + k /\ s[e] = After(e) + k
  BY DEF Aligned
<1>3. After(d) \in Nat /\ After(e) \in Nat
  BY AfterIsNatural
<1>4. Cardinality({a \in Actions : d < a /\ a <= e}) = After(d) - After(e)
  BY <1>1, ActionsBetween
<1> QED BY <1>2, <1>3, <1>4

(* A common day fixes the scale.                                           *)
LEMMA ScaleIsUnique ==
  ASSUME NEW s \in Series, NEW t \in Series, NEW k \in Int, NEW j \in Int,
         Aligned(s, k), Aligned(t, j), Overlap(s, t) # {}, ~Conflict(s, t)
  PROVE  k = j
<1>1. PICK d \in DOMAIN s : d \in DOMAIN t /\ s[d] = t[d]
  BY DEF Overlap, Conflict
<1>2. After(d) + k = After(d) + j
  BY <1>1 DEF Aligned
<1>3. After(d) \in Nat
  BY AfterIsNatural
<1> QED BY <1>2, <1>3

LEMMA OneScale ==
  ASSUME NEW s \in Series, s # Empty, NEW k \in Int, NEW j \in Int, Aligned(s, k), Aligned(s, j)
  PROVE  k = j
<1>1. Overlap(s, s) # {} /\ ~Conflict(s, s)
  BY SeriesFields DEF Overlap, Conflict
<1> QED BY <1>1, ScaleIsUnique

LEMMA OverIsAligned ==
  ASSUME NEW s \in Series, NEW t \in Series, NEW k \in Int, Aligned(s, k), Aligned(t, k)
  PROVE  Aligned(Over(s, t), k)
<1>0. /\ DOMAIN Over(s, t) = DOMAIN s \union DOMAIN t
      /\ \A d \in DOMAIN s : Over(s, t)[d] = s[d]
      /\ \A d \in DOMAIN t \ DOMAIN s : Over(s, t)[d] = t[d]
  BY OverIsSeries
<1>1. ASSUME NEW d \in DOMAIN Over(s, t) PROVE Over(s, t)[d] = After(d) + k
  <2>1. CASE d \in DOMAIN s
    BY <2>1, OverIsSeries DEF Aligned
  <2>2. CASE d \in DOMAIN t \ DOMAIN s
    BY <1>0, <2>2 DEF Aligned
  <2> QED BY <1>0, <2>1, <2>2
<1> QED BY <1>1 DEF Aligned

LEMMA EmptyIsAligned == \A k \in Int : Aligned(Empty, k)
BY EmptyIsSeries DEF Aligned

-----------------------------------------------------------------------------
(* What is stored.                                                         *)

EvidenceTyped(ev) == DOMAIN ev \subseteq Id /\ \A g \in DOMAIN ev : ev[g] \in Series \ {Empty}

(* A generation has the scale of the series it is named after.             *)
EvidenceAligned(ev) ==
  \A g \in DOMAIN ev : g.of # Empty /\ \E k \in Int : Aligned(ev[g], k) /\ Aligned(g.of, k)

(* No close that is there is rewritten or lost.                            *)
Extends(ev, new) ==
  \A g \in DOMAIN ev :
    g \in DOMAIN new /\ \A d \in DOMAIN ev[g] : d \in DOMAIN new[g] /\ new[g][d] = ev[g][d]

LEMMA ExtendsIsTransitive ==
  ASSUME NEW a, NEW b, NEW c, Extends(a, b), Extends(b, c)
  PROVE  Extends(a, c)
BY DEF Extends

LEMMA StoreFields ==
  ASSUME NEW ev, NEW g, NEW series
  PROVE  /\ DOMAIN Store(ev, g, series) = DOMAIN ev \union {g}
         /\ \A h \in DOMAIN ev \ {g} : Store(ev, g, series)[h] = ev[h]
         /\ g \in DOMAIN ev => Store(ev, g, series)[g] = Over(series, ev[g])
         /\ g \notin DOMAIN ev => Store(ev, g, series)[g] = Over(series, Empty)
BY DEF Store

LEMMA StoreIsTyped ==
  ASSUME NEW ev, EvidenceTyped(ev), NEW g \in Id, NEW series \in Series, series # Empty
  PROVE  EvidenceTyped(Store(ev, g, series))
<1> DEFINE new == Store(ev, g, series)
<1>1. ASSUME NEW t \in Series PROVE Over(series, t) \in Series \ {Empty}
  <2>1. Over(series, t) \in Series /\ DOMAIN series \subseteq DOMAIN Over(series, t)
    BY OverIsSeries
  <2>2. DOMAIN series # {}
    BY SeriesFields
  <2> QED BY <2>1, <2>2, SeriesFields
<1>2. new[g] \in Series \ {Empty}
  <2>1. CASE g \in DOMAIN ev
    BY <1>1, <2>1, StoreFields DEF EvidenceTyped
  <2>2. CASE g \notin DOMAIN ev
    BY <1>1, <2>2, EmptyIsSeries DEF Store
  <2> QED BY <2>1, <2>2
<1>3. DOMAIN new = DOMAIN ev \union {g} /\ \A h \in DOMAIN ev \ {g} : new[h] = ev[h]
  BY DEF Store
<1> HIDE DEF new
<1>4. ASSUME NEW h \in DOMAIN new PROVE h \in Id /\ new[h] \in Series \ {Empty}
  <2>1. CASE h = g
    BY <1>2, <2>1
  <2>2. CASE h \in DOMAIN ev \ {g}
    BY <1>3, <2>2 DEF EvidenceTyped
  <2> QED BY <1>3, <2>1, <2>2
<1> QED BY <1>4 DEF EvidenceTyped, new

LEMMA StoreIsAligned ==
  ASSUME NEW ev, EvidenceTyped(ev), EvidenceAligned(ev), NEW g \in Id, g.of # Empty,
         NEW series \in Series, NEW k \in Int, Aligned(series, k), Aligned(g.of, k)
  PROVE  EvidenceAligned(Store(ev, g, series)) /\ Extends(ev, Store(ev, g, series))
<1> DEFINE new == Store(ev, g, series)
<1>1. PICK old \in Series : new[g] = Over(series, old) /\ Aligned(old, k) /\ (g \in DOMAIN ev => old = ev[g])
  <2>1. CASE g \in DOMAIN ev
    <3>1. PICK j \in Int : Aligned(ev[g], j) /\ Aligned(g.of, j)
      BY <2>1 DEF EvidenceAligned
    <3>2. j = k
      BY <3>1, OneScale DEF Id
    <3>3. new[g] = Over(series, ev[g]) /\ ev[g] \in Series
      BY <2>1 DEF Store, EvidenceTyped
    <3> QED BY <3>1, <3>2, <3>3
  <2>2. CASE g \notin DOMAIN ev
    <3>1. new[g] = Over(series, Empty)
      BY <2>2 DEF Store
    <3> QED BY <2>2, <3>1, EmptyIsSeries, EmptyIsAligned
  <2> QED BY <2>1, <2>2
<1>2. Aligned(new[g], k)
  BY <1>1, OverIsAligned
<1>3. DOMAIN new = DOMAIN ev \union {g} /\ \A h \in DOMAIN ev \ {g} : new[h] = ev[h]
  BY DEF Store
<1>4. ASSUME NEW d \in DOMAIN old PROVE d \in DOMAIN new[g] /\ new[g][d] = old[d]
  <2>1. d \in DOMAIN new[g]
    BY <1>1, OverIsSeries
  <2> QED BY <1>1, <1>2, <2>1 DEF Aligned
<1> HIDE DEF new
<1>5. EvidenceAligned(new)
  BY <1>2, <1>3 DEF EvidenceAligned
<1>6. ASSUME NEW h \in DOMAIN ev
      PROVE  h \in DOMAIN new /\ \A d \in DOMAIN ev[h] : d \in DOMAIN new[h] /\ new[h][d] = ev[h][d]
  <2>1. CASE h = g
    BY <1>1, <1>3, <1>4, <2>1
  <2>2. CASE h # g
    BY <1>3, <2>2
  <2> QED BY <2>1, <2>2
<1> QED BY <1>5, <1>6 DEF Extends, new

(* A merge that is repeated finds what it would write.                     *)
LEMMA OverTwice ==
  ASSUME NEW a, NEW b, NEW c
  PROVE  /\ Over(a, Over(a, c)) = Over(a, c)
         /\ Over(a, Over(b, Over(a, Over(b, c)))) = Over(a, Over(b, c))
<1>1. ASSUME NEW x PROVE Over(a, Over(a, x)) = Over(a, x)
  BY DEF Over
<1>2. Over(a, Over(b, Over(a, Over(b, c)))) = Over(a, Over(b, c))
  BY DEF Over
<1> QED BY <1>1, <1>2

LEMMA StoreTwice ==
  ASSUME NEW ev, NEW g, NEW series
  PROVE  Store(Store(ev, g, series), g, series) = Store(ev, g, series)
BY OverTwice DEF Store

LEMMA StoreTwiceBoth ==
  ASSUME NEW ev, NEW g, NEW a, NEW h, NEW b
  PROVE  Store(Store(Store(Store(ev, g, a), h, b), g, a), h, b) = Store(Store(ev, g, a), h, b)
BY OverTwice DEF Store

State == [served : Id, comparable : BOOLEAN, alternate : Id, rebased : BOOLEAN, row : BOOLEAN]

LEMMA NoIdIsOne == NoId \in Id /\ NoId.of = Empty
BY EmptyIsSeries DEF NoId, Id

LEMMA NamesAreIds ==
  ASSUME NEW s \in Series
  PROVE  /\ Yahoo(s) \in Id /\ Yahoo(s).of = s /\ Yahoo(s) # NoId
         /\ Legacy(s) \in Id /\ (s # Empty => Legacy(s).of = s)
BY NoIdIsOne DEF Yahoo, Legacy, Id, NoId

LEMMA RowIsState ==
  ASSUME NEW g \in Id, NEW c \in BOOLEAN, NEW a \in Id
  PROVE  /\ Row(g, c, a) \in State /\ Row(g, c, a).row /\ Row(g, c, a).served = g
         /\ Row(g, c, a).comparable = c /\ Row(g, c, a).alternate = a
BY DEF Row, State

(* Merging one refresh twice, whatever the database holds.                 *)
LEMMA MergedTwice ==
  ASSUME NEW p \in Series, NEW ev, NEW st \in State, NEW source \in Series, source # Empty
  PROVE  LET db == [prices |-> p, evidence |-> ev, state |-> st]
         IN  Merged(Merged(db, source), source) = Merged(db, source)
<1> DEFINE db == [prices |-> p, evidence |-> ev, state |-> st]
           served == IF st.row THEN st.served ELSE Legacy(p)
           base == IF p = Empty THEN ev ELSE Store(ev, served, p)
           once == Merged(db, source)
<1>1. db.prices = p /\ db.evidence = ev /\ db.state = st
  OBVIOUS
<1>2. served \in Id /\ Yahoo(source) \in Id /\ Yahoo(source) # NoId
  BY NamesAreIds DEF State
<1>3. CASE HeldBack(db, source)
  <2>1. once = [prices |-> p, evidence |-> Store(base, Yahoo(source), source),
                state |-> Row(served, FALSE, Yahoo(source))]
    BY <1>1, <1>3 DEF Merged
  <2> HIDE DEF once, db
  <2>2. once.state.row /\ once.state.served = served /\ once.state.alternate = Yahoo(source)
    BY <1>2, <2>1, <1>1 DEF Row
  <2>3. HeldBack(once, source)
    BY <1>2, <2>2 DEF HeldBack
  <2>4. /\ once.prices = p /\ once.evidence = Store(base, Yahoo(source), source)
    BY <2>1
  <2> DEFINE again == IF p = Empty THEN once.evidence ELSE Store(once.evidence, served, p)
  <2>5. Merged(once, source) = [prices |-> p, evidence |-> Store(again, Yahoo(source), source),
                                state |-> Row(served, FALSE, Yahoo(source))]
    <3> HIDE DEF base, served
    <3> QED BY <2>2, <2>3, <2>4 DEF Merged
  <2>6. Store(again, Yahoo(source), source) = once.evidence
    <3>1. CASE p = Empty
      BY <2>4, <3>1, StoreTwice
    <3>2. CASE p # Empty
      <4> HIDE DEF served
      <4> QED BY <2>4, <3>2, StoreTwiceBoth
    <3> QED BY <3>1, <3>2
  <2>7. Merged(once, source) = once
    <3> HIDE DEF base, again
    <3> QED BY <2>1, <2>4, <2>5, <2>6
  <2> QED BY <2>7 DEF once, db
<1>4. CASE ~HeldBack(db, source)
  <2> DEFINE whole == Over(p, source)
  <2>1. once = [prices |-> whole, evidence |-> Store(ev, Yahoo(source), whole),
                state |-> Row(Yahoo(source), TRUE, NoId)]
    BY <1>1, <1>4 DEF Merged
  <2>2. /\ DOMAIN whole = DOMAIN p \union DOMAIN source
        /\ \A d \in DOMAIN p : whole[d] = p[d]
        /\ \A d \in DOMAIN source \ DOMAIN p : whole[d] = source[d]
    BY OverIsSeries
  <2>3. \A d \in Overlap(p, source) : p[d] = source[d]
    <3>1. CASE p = Empty
      BY <3>1, EmptyIsSeries DEF Overlap
    <3>2. CASE p # Empty
      BY <1>1, <1>4, <3>2 DEF HeldBack, Conflict
    <3> QED BY <3>1, <3>2
  <2>4. ~Conflict(whole, source) /\ Overlap(whole, source) # {}
    <3> HIDE DEF whole
    <3>1. DOMAIN source # {}
      BY SeriesFields
    <3>2. \A d \in DOMAIN source : d \in DOMAIN whole /\ whole[d] = source[d]
      BY <2>2, <2>3 DEF Overlap
    <3> QED BY <3>1, <3>2 DEF Conflict, Overlap
  <2> HIDE DEF once, db
  <2>5. /\ once.prices = whole /\ once.evidence = Store(ev, Yahoo(source), whole)
        /\ once.state = Row(Yahoo(source), TRUE, NoId) /\ once.state.alternate = NoId
    BY <1>2, <2>1, NoIdIsOne DEF Row
  <2>6. ~HeldBack(once, source)
    BY <2>4, <2>5 DEF HeldBack
  <2>7. Over(whole, source) = whole
    BY DEF Over
  <2>8. Merged(once, source) = [prices |-> whole, evidence |-> Store(once.evidence, Yahoo(source), whole),
                                state |-> Row(Yahoo(source), TRUE, NoId)]
    <3> HIDE DEF whole
    <3> QED BY <2>5, <2>6, <2>7 DEF Merged
  <2>9. Store(once.evidence, Yahoo(source), whole) = once.evidence
    BY <2>5, StoreTwice
  <2> QED BY <2>1, <2>5, <2>8, <2>9 DEF once, db
<1> QED BY <1>3, <1>4

-----------------------------------------------------------------------------
(* The invariant.  Until a maintenance script runs, the prices have the    *)
(* scale of the generation they are served under, at whatever write a      *)
(* fetch stopped, and every generation is of one scale.                    *)
PricesAreOfOneScale ==
  \E k \in Int :
    /\ Aligned(prices, k)
    /\ state.row => prices # Empty /\ state.served.of # Empty /\ Aligned(state.served.of, k)

PriceInv ==
  /\ PriceTypeOK /\ StateIsBacked
  /\ \E k \in Int : Aligned(temp, k)
  /\ repairs = 0 => EvidenceAligned(evidence) /\ PricesAreOfOneScale

LEMMA PriceFields ==
  ASSUME PriceInv
  PROVE  /\ today \in Day /\ prices \in Series /\ temp \in Series /\ state \in State /\ EvidenceTyped(evidence)
         /\ Served \in Id
<1>1. today \in Day /\ prices \in Series /\ temp \in Series /\ state \in State /\ EvidenceTyped(evidence)
  BY DEF PriceInv, PriceTypeOK, State, EvidenceTyped
<1>2. Served \in Id
  BY <1>1, NamesAreIds DEF Served, State
<1> QED BY <1>1, <1>2

LEMMA PricesStart == PriceInit => PriceInv
<1> SUFFICES ASSUME PriceInit PROVE PriceInv
  OBVIOUS
<1>1. PICK fresh \in State : /\ state = fresh /\ ~fresh.row /\ ~fresh.comparable /\ fresh.alternate = NoId
  <2>1. PICK first : first = Row(NoId, FALSE, NoId)
    OBVIOUS
  <2>2. first \in State /\ ~first.comparable /\ first.alternate = NoId
    BY <2>1, NoIdIsOne, RowIsState
  <2>3. [first EXCEPT !.row = FALSE] \in State /\ ~[first EXCEPT !.row = FALSE].row
        /\ ~[first EXCEPT !.row = FALSE].comparable /\ [first EXCEPT !.row = FALSE].alternate = NoId
    BY <2>2 DEF State
  <2> QED BY <2>1, <2>3 DEF PriceInit
<1>2. DOMAIN evidence = {}
  BY DEF PriceInit
<1>3. PriceTypeOK
  <2>1. today \in Day
    BY PriceAssumption DEF PriceInit, Day
  <2>2. repairs \in 0 .. MaxRepairs
    BY PriceAssumption DEF PriceInit
  <2>3. prices \in Series /\ temp \in Series
    BY EmptyIsSeries DEF PriceInit
  <2> QED BY <1>1, <1>2, <2>1, <2>2, <2>3 DEF PriceTypeOK, State
<1>4. StateIsBacked
  BY <1>1 DEF StateIsBacked
<1>5. 0 \in Int /\ Aligned(prices, 0) /\ Aligned(temp, 0)
  BY EmptyIsAligned DEF PriceInit
<1> QED BY <1>1, <1>2, <1>3, <1>4, <1>5 DEF PriceInv, EvidenceAligned, PricesAreOfOneScale

(* What a writer has to leave.                                             *)
LEMMA WritingKeeps ==
  ASSUME PriceInv, today' = today, temp' = temp, repairs' \in {repairs, repairs + 1}, repairs' <= MaxRepairs,
         prices' \in Series, state' \in State, EvidenceTyped(evidence'), StateIsBacked',
         repairs' = 0 => EvidenceAligned(evidence') /\ PricesAreOfOneScale'
  PROVE  PriceInv'
<1>1. repairs' \in 0 .. MaxRepairs
  BY PriceAssumption DEF PriceInv, PriceTypeOK
<1>2. PriceTypeOK'
  BY <1>1 DEF PriceInv, PriceTypeOK, State, EvidenceTyped
<1>3. (\E k \in Int : Aligned(temp, k))'
  BY DEF PriceInv
<1> QED BY <1>2, <1>3 DEF PriceInv

(* The generation that is served has the scale of the prices.              *)
LEMMA ServedIsOfScale ==
  ASSUME PriceInv, repairs = 0, prices # Empty
  PROVE  \E k \in Int : Aligned(prices, k) /\ Served.of # Empty /\ Aligned(Served.of, k)
BY PriceFields, NamesAreIds DEF PriceInv, PricesAreOfOneScale, Served

(* What a fetch or a merge stores when it does not touch the prices.       *)
LEMMA AlternateKeeps ==
  ASSUME PriceInv, NEW source \in Series, source # Empty, NEW j \in Int, Aligned(source, j),
         prices # Empty, repairs' = repairs, today' = today, temp' = temp, prices' = prices,
         NEW both, both = Store(Store(evidence, Served, prices), Yahoo(source), source),
         \/ evidence' = Store(evidence, Served, prices) /\ state' = state
         \/ evidence' = both /\ state' \in {state, Row(Served, FALSE, Yahoo(source))}
  PROVE  PriceInv' /\ (repairs = 0 => Extends(evidence, evidence'))
<1> DEFINE one == Store(evidence, Served, prices)
           row == Row(Served, FALSE, Yahoo(source))
<1>1. EvidenceTyped(one) /\ EvidenceTyped(both)
  BY PriceFields, NamesAreIds, StoreIsTyped
<1>2. DOMAIN evidence \subseteq DOMAIN one /\ DOMAIN one \subseteq DOMAIN both /\ Yahoo(source) \in DOMAIN both
  BY DEF Store
<1>3. row \in State /\ row.row /\ row.served = Served /\ ~row.comparable /\ row.alternate = Yahoo(source)
  BY PriceFields, NamesAreIds, RowIsState DEF Row, State
<1>4. ASSUME repairs = 0
      PROVE  /\ EvidenceAligned(one) /\ EvidenceAligned(both) /\ Extends(evidence, one) /\ Extends(evidence, both)
             /\ \E k \in Int : Aligned(prices, k) /\ Served.of # Empty /\ Aligned(Served.of, k)
  <2>1. PICK k \in Int : Aligned(prices, k) /\ Served.of # Empty /\ Aligned(Served.of, k)
    BY <1>4, ServedIsOfScale
  <2>2. EvidenceAligned(one) /\ Extends(evidence, one)
    BY <1>4, <2>1, PriceFields, StoreIsAligned DEF PriceInv
  <2>3. EvidenceAligned(both) /\ Extends(one, both)
    <3> HIDE DEF one
    <3>1. both = Store(one, Yahoo(source), source)
      BY DEF one
    <3> QED BY <1>1, <2>2, <3>1, NamesAreIds, StoreIsAligned
  <2> QED BY <2>1, <2>2, <2>3, ExtendsIsTransitive
<1> HIDE DEF one, row
<1>5. evidence' \in {one, both} /\ state' \in {state, row} /\ (state' # state => evidence' = both)
  BY DEF one, row
<1>6. state' \in State /\ EvidenceTyped(evidence')
  BY <1>1, <1>3, <1>5, PriceFields
<1>7. StateIsBacked'
  <2>1. CASE state' = state
    BY <1>2, <1>5, <2>1 DEF PriceInv, StateIsBacked
  <2>2. CASE state' # state
    BY <1>2, <1>3, <1>5, <2>2 DEF StateIsBacked
  <2> QED BY <2>1, <2>2
<1>8. ASSUME repairs = 0 PROVE EvidenceAligned(evidence') /\ PricesAreOfOneScale' /\ Extends(evidence, evidence')
  <2>1. EvidenceAligned(evidence') /\ Extends(evidence, evidence')
    BY <1>4, <1>5, <1>8
  <2>2. CASE state' = state
    BY <1>8, <2>1, <2>2 DEF PriceInv, PricesAreOfOneScale
  <2>3. CASE state' = row
    BY <1>3, <1>4, <1>8, <2>1, <2>3 DEF PricesAreOfOneScale
  <2> QED BY <1>5, <2>1, <2>2, <2>3
<1>9. repairs' <= MaxRepairs
  BY PriceAssumption DEF PriceInv, PriceTypeOK
<1> QED BY <1>6, <1>7, <1>8, <1>9, PriceFields, WritingKeeps

(* A download that is joined to the prices has their scale.                *)
LEMMA JoinIsAligned ==
  ASSUME PriceInv, repairs = 0, NEW source \in Series, NEW j \in Int, Aligned(source, j),
         prices = Empty \/ (~Conflict(prices, source) /\ Overlap(prices, source) # {})
  PROVE  Aligned(prices, j) /\ (state.row => state.served.of # Empty /\ Aligned(state.served.of, j))
<1>1. PICK k \in Int : /\ Aligned(prices, k)
                       /\ state.row => prices # Empty /\ state.served.of # Empty /\ Aligned(state.served.of, k)
  BY DEF PriceInv, PricesAreOfOneScale
<1>2. CASE prices = Empty
  BY <1>1, <1>2, EmptyIsAligned
<1>3. CASE prices # Empty
  <2>1. k = j
    BY <1>1, <1>3, PriceFields, ScaleIsUnique
  <2> QED BY <1>1, <2>1
<1> QED BY <1>2, <1>3

(* What a fetch or a merge stores when it adds to the prices.              *)
LEMMA JoiningKeeps ==
  ASSUME PriceInv, NEW whole \in Series, whole # Empty, NEW g \in Id, g.of # Empty,
         repairs' = repairs, today' = today, temp' = temp, prices' = whole,
         repairs = 0 => \E k \in Int :
           /\ Aligned(whole, k) /\ Aligned(g.of, k)
           /\ state.row => state.served.of # Empty /\ Aligned(state.served.of, k),
         \/ evidence' = evidence /\ state' = state
         \/ evidence' = Store(evidence, g, whole) /\ state' \in {state, Row(g, TRUE, NoId)}
  PROVE  PriceInv' /\ (repairs = 0 => Extends(evidence, evidence'))
<1> DEFINE new == Store(evidence, g, whole)
           row == Row(g, TRUE, NoId)
<1>1. EvidenceTyped(new) /\ g \in DOMAIN new /\ DOMAIN evidence \subseteq DOMAIN new
  <2>1. EvidenceTyped(new)
    BY PriceFields, StoreIsTyped
  <2> QED BY <2>1 DEF Store
<1>2. row \in State /\ row.row /\ row.served = g /\ row.comparable /\ row.alternate = NoId
  BY NoIdIsOne, RowIsState DEF Row, State
<1>3. ASSUME repairs = 0
      PROVE  EvidenceAligned(new) /\ Extends(evidence, new) /\ EvidenceAligned(evidence) /\ Extends(evidence, evidence)
  <2>1. EvidenceAligned(evidence) /\ EvidenceTyped(evidence)
    BY <1>3, PriceFields DEF PriceInv
  <2>2. EvidenceAligned(new) /\ Extends(evidence, new)
    BY <1>3, <2>1, StoreIsAligned
  <2> QED BY <2>1, <2>2 DEF Extends
<1> HIDE DEF new, row
<1>4. evidence' \in {evidence, new} /\ state' \in {state, row} /\ (state' # state => evidence' = new)
  BY DEF new, row
<1>5. state' \in State /\ EvidenceTyped(evidence')
  BY <1>1, <1>2, <1>4, PriceFields
<1>6. StateIsBacked'
  <2>1. CASE state' = state
    BY <1>1, <1>4, <2>1 DEF PriceInv, StateIsBacked
  <2>2. CASE state' # state
    BY <1>1, <1>2, <1>4, <2>2 DEF StateIsBacked
  <2> QED BY <2>1, <2>2
<1>7. ASSUME repairs = 0 PROVE EvidenceAligned(evidence') /\ PricesAreOfOneScale' /\ Extends(evidence, evidence')
  <2>1. EvidenceAligned(evidence') /\ Extends(evidence, evidence')
    BY <1>3, <1>4, <1>7
  <2>2. PricesAreOfOneScale'
    BY <1>2, <1>4, <1>7 DEF PricesAreOfOneScale
  <2> QED BY <2>1, <2>2
<1>8. repairs' <= MaxRepairs
  BY PriceAssumption DEF PriceInv, PriceTypeOK
<1> QED BY <1>5, <1>6, <1>7, <1>8, PriceFields, WritingKeeps

LEMMA FetchKeeps ==
  ASSUME PriceInv, NEW first \in Day, NEW last \in Day, Fetch(first, last), repairs' = repairs
  PROVE  PriceInv' /\ (repairs = 0 => Extends(evidence, evidence'))
<1>1. PICK incoming \in Series : /\ incoming = Download(first, last) /\ DOMAIN incoming = first .. last
                                 /\ \E j \in Int : Aligned(incoming, j)
  BY DownloadIsAligned DEF Fetch, PriceInv
<1>2. PICK j \in Int : Aligned(incoming, j)
  BY <1>1
<1>3. incoming # Empty /\ DOMAIN incoming # {}
  BY <1>1, EmptyIsSeries DEF Fetch
<1>4. UNCHANGED <<today, temp>>
  BY DEF Fetch
<1>5. CASE Diverges(incoming)
  <2>1. PICK both : both = Store(Store(evidence, Served, prices), Yahoo(incoming), incoming)
    OBVIOUS
  <2>2. /\ prices # Empty /\ prices' = prices
        /\ \/ evidence' = Store(evidence, Served, prices) /\ state' = state
           \/ evidence' = both /\ state' \in {state, Row(Served, FALSE, Yahoo(incoming))}
    BY <1>1, <1>5, <2>1 DEF Fetch, Diverges
  <2> QED BY <1>2, <1>3, <1>4, <2>1, <2>2, AlternateKeeps
<1>6. CASE ~Diverges(incoming)
  <2>1. PICK merged : merged = Over(incoming, prices)
    OBVIOUS
  <2>2. /\ prices' = merged
        /\ \/ evidence' = evidence /\ state' = state
           \/ evidence' = Store(evidence, Yahoo(merged), merged) /\ state' \in {state, Row(Yahoo(merged), TRUE, NoId)}
    BY <1>1, <1>6, <2>1 DEF Fetch
  <2>3. merged \in Series /\ merged # Empty
    <3>1. merged \in Series /\ DOMAIN incoming \subseteq DOMAIN merged
      BY <2>1, PriceFields, OverIsSeries
    <3> QED BY <1>3, <3>1, EmptyIsSeries
  <2>4. ASSUME repairs = 0
        PROVE  Aligned(merged, j) /\ (state.row => state.served.of # Empty /\ Aligned(state.served.of, j))
    <3>1. prices = Empty \/ (~Conflict(prices, incoming) /\ Overlap(prices, incoming) # {})
      BY <1>6 DEF Diverges
    <3>2. Aligned(prices, j) /\ (state.row => state.served.of # Empty /\ Aligned(state.served.of, j))
      BY <1>2, <2>4, <3>1, JoinIsAligned
    <3> QED BY <1>2, <2>1, <3>2, PriceFields, OverIsAligned
  <2>5. Yahoo(merged) \in Id /\ Yahoo(merged).of = merged
    BY <2>3, NamesAreIds
  <2> QED BY <1>4, <2>2, <2>3, <2>4, <2>5, JoiningKeeps
<1> QED BY <1>5, <1>6

LEMMA MergeRefreshKeeps ==
  ASSUME PriceInv, MergeRefresh, repairs' = repairs
  PROVE  PriceInv' /\ (repairs = 0 => Extends(evidence, evidence'))
<1>1. PICK source \in Series, j \in Int : source = temp /\ source # Empty /\ Aligned(source, j)
  BY PriceFields DEF MergeRefresh, PriceInv
<1>2. PICK db : db = Merged(Database, source)
  OBVIOUS
<1>3. prices' = db.prices /\ evidence' = db.evidence /\ state' = db.state /\ UNCHANGED <<today, temp>>
  BY <1>1, <1>2 DEF MergeRefresh
<1>4. Database.prices = prices /\ Database.evidence = evidence /\ Database.state = state
  BY DEF Database
<1>5. Yahoo(source) \in Id /\ Yahoo(source).of = source
  BY NamesAreIds
<1>6. CASE HeldBack(Database, source) /\ prices # Empty
  <2>1. PICK both : both = Store(Store(evidence, Served, prices), Yahoo(source), source)
    OBVIOUS
  <2>2. db = [prices |-> prices, evidence |-> both, state |-> Row(Served, FALSE, Yahoo(source))]
    BY <1>2, <1>4, <1>6, <2>1 DEF Merged, Served
  <2>3. prices' = prices /\ evidence' = both /\ state' = Row(Served, FALSE, Yahoo(source))
    BY <1>3, <2>2
  <2> QED BY <1>1, <1>3, <1>6, <2>1, <2>3, AlternateKeeps
<1>7. CASE HeldBack(Database, source) /\ prices = Empty
  <2>1. PICK new : new = Store(evidence, Yahoo(source), source)
    OBVIOUS
  <2>2. db = [prices |-> prices, evidence |-> new, state |-> Row(Served, FALSE, Yahoo(source))]
    BY <1>2, <1>4, <1>7, <2>1 DEF Merged, Served
  <2>3. prices' = prices /\ evidence' = new /\ state' = Row(Served, FALSE, Yahoo(source))
    BY <1>3, <2>2
  <2>4. state.row /\ repairs # 0
    BY <1>4, <1>7 DEF HeldBack, PriceInv, PricesAreOfOneScale
  <2>5. EvidenceTyped(new) /\ Yahoo(source) \in DOMAIN new
    <3>1. EvidenceTyped(new)
      BY <1>1, <1>5, <2>1, PriceFields, StoreIsTyped
    <3> QED BY <2>1, <3>1 DEF Store
  <2>6. state' \in State /\ ~state'.comparable /\ state'.alternate = Yahoo(source)
    BY <1>5, <2>3, PriceFields, RowIsState DEF Row, State
  <2>7. StateIsBacked'
    BY <2>3, <2>5, <2>6 DEF StateIsBacked
  <2>8. repairs' <= MaxRepairs
    BY PriceAssumption DEF PriceInv, PriceTypeOK
  <2> QED BY <1>3, <2>3, <2>4, <2>5, <2>6, <2>7, <2>8, PriceFields, WritingKeeps
<1>8. CASE ~HeldBack(Database, source)
  <2>1. PICK whole : whole = Over(prices, source)
    OBVIOUS
  <2>2. db = [prices |-> whole, evidence |-> Store(evidence, Yahoo(source), whole), state |-> Row(Yahoo(source), TRUE, NoId)]
    BY <1>2, <1>4, <1>8, <2>1 DEF Merged
  <2>3. prices' = whole /\ evidence' = Store(evidence, Yahoo(source), whole) /\ state' = Row(Yahoo(source), TRUE, NoId)
    BY <1>3, <2>2
  <2>4. whole \in Series /\ whole # Empty
    <3>1. whole \in Series /\ DOMAIN source \subseteq DOMAIN whole
      BY <2>1, PriceFields, OverIsSeries
    <3>2. DOMAIN source # {}
      BY <1>1, SeriesFields
    <3> QED BY <3>1, <3>2, EmptyIsSeries
  <2>5. ASSUME repairs = 0
        PROVE  Aligned(whole, j) /\ (state.row => state.served.of # Empty /\ Aligned(state.served.of, j))
    <3>1. prices = Empty \/ (~Conflict(prices, source) /\ Overlap(prices, source) # {})
      BY <1>4, <1>8 DEF HeldBack
    <3>2. Aligned(prices, j) /\ (state.row => state.served.of # Empty /\ Aligned(state.served.of, j))
      BY <1>1, <2>5, <3>1, JoinIsAligned
    <3> QED BY <1>1, <2>1, <3>2, PriceFields, OverIsAligned
  <2> QED BY <1>1, <1>3, <1>5, <2>3, <2>4, <2>5, JoiningKeeps
<1> QED BY <1>6, <1>7, <1>8

LEMMA NextSessionKeeps ==
  ASSUME PriceInv, NextSession, repairs' = repairs
  PROVE  PriceInv' /\ (repairs = 0 => Extends(evidence, evidence'))
<1>1. today' \in Day /\ UNCHANGED <<prices, evidence, state, temp, repairs>>
  BY PriceAssumption DEF NextSession, PriceInv, PriceTypeOK, Day
<1> QED BY <1>1 DEF PriceInv, PriceTypeOK, StateIsBacked, PricesAreOfOneScale, Extends

LEMMA RefreshKeeps ==
  ASSUME PriceInv, NEW first \in Day, Refresh(first), repairs' = repairs
  PROVE  PriceInv' /\ (repairs = 0 => Extends(evidence, evidence'))
<1>1. temp' \in Series /\ \E k \in Int : Aligned(temp', k)
  BY DownloadIsAligned DEF Refresh, PriceInv, PriceTypeOK, Day
<1>2. UNCHANGED <<today, prices, evidence, state, repairs>>
  BY DEF Refresh
<1> QED BY <1>1, <1>2 DEF PriceInv, PriceTypeOK, StateIsBacked, PricesAreOfOneScale, Extends

(* After a maintenance script only what the state names is promised.       *)
LEMMA RepairKeeps ==
  ASSUME PriceInv, Certify \/ Rebaseline \/ StoreSecondFetch, repairs < MaxRepairs, repairs' = repairs + 1
  PROVE  PriceInv' /\ repairs' # 0
<1>1. repairs' # 0 /\ repairs' <= MaxRepairs
  BY PriceAssumption DEF PriceInv, PriceTypeOK
<1>2. CASE Certify
  <2>1. PICK g \in Adjusted, served \in Id : state' \in {Row(g, TRUE, NoId), Row(served, FALSE, g)}
    BY <1>2, PriceFields, NoIdIsOne DEF Certify, Newest, State
  <2>2. g \in DOMAIN evidence /\ g \in Id
    BY PriceFields DEF Adjusted, EvidenceTyped
  <2>3. /\ state' \in State
        /\ state'.comparable => state'.served = g /\ state'.alternate = NoId
        /\ state'.alternate \in {NoId, g}
    <3>1. CASE state' = Row(g, TRUE, NoId)
      BY <2>2, <3>1, NoIdIsOne DEF Row, State
    <3>2. CASE state' = Row(served, FALSE, g)
      BY <2>2, <3>2 DEF Row, State
    <3> QED BY <2>1, <3>1, <3>2
  <2>4. UNCHANGED <<today, prices, evidence, temp>>
    BY <1>2 DEF Certify
  <2>5. StateIsBacked'
    BY <2>2, <2>3, <2>4 DEF StateIsBacked
  <2> QED BY <1>1, <2>3, <2>4, <2>5, PriceFields, WritingKeeps
<1>3. CASE Rebaseline
  <2>1. PICK keep \in SUBSET DOMAIN evidence : evidence' = [g \in keep |-> evidence[g]]
    BY <1>3 DEF Rebaseline, Adjusted
  <2>2. EvidenceTyped(evidence')
    BY <2>1, PriceFields DEF EvidenceTyped
  <2>3. prices' \in Series /\ state.alternate \in Id
    BY <1>3, PriceFields DEF Rebaseline, Adjusted, EvidenceTyped
  <2>4. PICK one : one = Row(state.alternate, FALSE, NoId)
    OBVIOUS
  <2>5. one \in State /\ ~one.comparable /\ one.alternate = NoId
    BY <2>3, <2>4, NoIdIsOne, RowIsState DEF Row, State
  <2>6. state' = [one EXCEPT !.rebased = TRUE]
    BY <1>3, <2>4 DEF Rebaseline
  <2>7. state' \in State /\ ~state'.comparable /\ state'.alternate = NoId
    BY <2>5, <2>6 DEF State
  <2>8. StateIsBacked'
    BY <2>7 DEF StateIsBacked
  <2>9. UNCHANGED <<today, temp>>
    BY <1>3 DEF Rebaseline
  <2> QED BY <1>1, <2>2, <2>3, <2>7, <2>8, <2>9, WritingKeeps
<1>4. CASE StoreSecondFetch
  <2>1. evidence' = Store(evidence, Yahoo(temp), temp) /\ temp # Empty /\ UNCHANGED <<today, prices, state, temp>>
    BY <1>4 DEF StoreSecondFetch
  <2>2. EvidenceTyped(evidence')
    BY <2>1, PriceFields, NamesAreIds, StoreIsTyped
  <2>3. DOMAIN evidence \subseteq DOMAIN evidence'
    BY <2>1 DEF Store
  <2>4. StateIsBacked'
    BY <2>1, <2>3 DEF PriceInv, StateIsBacked
  <2> QED BY <1>1, <2>1, <2>2, <2>4, PriceFields, WritingKeeps
<1> QED BY <1>1, <1>2, <1>3, <1>4

LEMMA PriceSteps ==
  ASSUME PriceInv, PriceNext
  PROVE  PriceInv' /\ (repairs' = 0 => Extends(evidence, evidence'))
<1>1. CASE Regular /\ repairs' = repairs
  BY <1>1, NextSessionKeeps, FetchKeeps, RefreshKeeps, MergeRefreshKeeps DEF Regular
<1>2. CASE repairs < MaxRepairs /\ Repair /\ repairs' = repairs + 1
  BY <1>2, RepairKeeps DEF Repair
<1> QED BY <1>1, <1>2 DEF PriceNext

LEMMA PriceStutters == PriceInv /\ UNCHANGED priceVars => PriceInv'
BY DEF priceVars, PriceInv, PriceTypeOK, StateIsBacked, PricesAreOfOneScale

LEMMA PriceInvIsEnough == PriceInv => PriceInvariant
<1> SUFFICES ASSUME PriceInv PROVE PriceInvariant
  OBVIOUS
<1>1. ComparableIsAdjusted
  <2> SUFFICES ASSUME repairs = 0, state.comparable PROVE OneDownload(prices) /\ OneDownload(evidence[state.served])
    BY DEF ComparableIsAdjusted
  <2>1. PICK k \in Int : Aligned(prices, k)
    BY DEF PriceInv, PricesAreOfOneScale
  <2>2. state.served \in DOMAIN evidence
    BY DEF PriceInv, StateIsBacked
  <2>3. evidence[state.served] \in Series /\ \E j \in Int : Aligned(evidence[state.served], j)
    BY <2>2, PriceFields DEF PriceInv, EvidenceTyped, EvidenceAligned
  <2> QED BY <2>1, <2>3, PriceFields, AlignedIsOneDownload
<1>2. MergeIsIdempotent
  <2>1. ASSUME temp # Empty PROVE Merged(Merged(Database, temp), temp) = Merged(Database, temp)
    BY <2>1, PriceFields, MergedTwice DEF Database
  <2> QED BY <2>1 DEF MergeIsIdempotent
<1> QED BY <1>1, <1>2 DEF PriceInv, PriceInvariant

(* Comparable prices have no return that is off by a split or a dividend,  *)
(* and their generation can be looked up, in whatever order fetches and    *)
(* merges come and wherever a fetch stops, for any calendar of actions.    *)
THEOREM PricesAreAdjusted == PriceSpec => []PriceInvariant
<1>1. PriceInit => PriceInv
  BY PricesStart
<1>2. PriceInv /\ [PriceNext]_priceVars => PriceInv'
  BY PriceSteps, PriceStutters
<1>3. PriceInv => PriceInvariant
  BY PriceInvIsEnough
<1> QED BY <1>1, <1>2, <1>3, PTL DEF PriceSpec

(* No close of a generation is rewritten or lost while no maintenance      *)
(* script has run.                                                         *)
THEOREM EvidenceIsKept == PriceSpec => FetchesKeepEvidence
<1>1. PriceInit => PriceInv
  BY PricesStart
<1>2. PriceInv /\ [PriceNext]_priceVars => PriceInv'
  BY PriceSteps, PriceStutters
<1>3. PriceInv /\ [PriceNext]_priceVars =>
        [repairs' = 0 => \A g \in DOMAIN evidence :
           /\ g \in DOMAIN evidence'
           /\ \A d \in DOMAIN evidence[g] :
                d \in DOMAIN evidence'[g] /\ evidence'[g][d] = evidence[g][d]]_priceVars
  BY PriceSteps DEF Extends
<1> QED BY <1>1, <1>2, <1>3, PTL DEF PriceSpec, FetchesKeepEvidence

-----------------------------------------------------------------------------
(* Refreshes of the Senate's reports.                                      *)

EfdRow == [record : Report, row : Nat \ {0}, version : Nat, generation : Nat]
EfdReport == [record : Report, generation : Nat, outcome : ReportOutcome, accepted : Nat]
Request == [attempt : Nat, refreshed : BOOLEAN]

Refreshing ==
  [step : {"search", "fetch"}, target : {"phase", "manual", "bundle"}, generation : Nat, start : Report,
   offset : Nat, owed : SUBSET Report, found : SUBSET Report, inventory : SUBSET EfdReport, rows : SUBSET EfdRow,
   request : Request]
Sealed == [generation : Nat, owed : SUBSET Report, inventory : SUBSET EfdReport, rows : SUBSET EfdRow]

SenateTypes ==
  /\ page \in [Report -> [size : 0 .. MaxRows, version : Nat]]
  /\ listed \subseteq Report /\ withdrawn \subseteq Report
  /\ refresh \in Refreshing \union {IdleRefresh} /\ refreshes \in Nat
  /\ bundle \in [status : {"complete", "quarantined"}, contents : Sealed] \union {NoSweep}
  /\ efdRows \subseteq EfdRow /\ efdReports \subseteq EfdReport /\ frame \subseteq EfdRow /\ authorities \subseteq Nat
  /\ IsFiniteSet(efdRows) /\ IsFiniteSet(authorities)

(* A row was shown at its place: later revisions put others above it.      *)
Shown(t) ==
  t.version <= page[t.record].version /\ t.row <= page[t.record].size - (page[t.record].version - t.version)

(* A report of which rows were parsed has the rows it counts, and a page   *)
(* that was never revised still has as many.                               *)
Counted(e, rows) ==
  /\ \A i \in 1 .. e.accepted : \E t \in rows : t.record = e.record /\ t.row = i
  /\ e.outcome \in {"parsed", "paper_only"} /\ page[e.record].version = 0 => e.accepted = page[e.record].size

(* What one generation fetched.                                            *)
Genuine(generation, inventory, rows) ==
  /\ \A t \in rows : t.generation = generation /\ Shown(t)
  /\ \A e \in inventory : e.generation = generation /\ Counted(e, rows)
  /\ IsFiniteSet(rows)

Presented(inventory) == {e.record : e \in inventory}

(* Pages that shift down show again what they showed; none slips by unless *)
(* a report above it is taken out.                                         *)
SearchIsWhole ==
  refresh # IdleRefresh /\ withdrawn = {} =>
    \A r \in refresh.owed :
      \/ r \in refresh.found \union Presented(refresh.inventory)
      \/ /\ refresh.step = "search" /\ r \in Listing(refresh.start)
         /\ Above(r, Listing(refresh.start)) >= refresh.offset

RefreshIsGenuine == refresh # IdleRefresh => Genuine(refresh.generation, refresh.inventory, refresh.rows)

BundleIsGenuine ==
  bundle.status = "complete" =>
    /\ Genuine(bundle.contents.generation, bundle.contents.inventory, bundle.contents.rows)
    /\ withdrawn = {} => bundle.contents.owed \subseteq Presented(bundle.contents.inventory)

(* What is stored is what was presented last, and rows that an earlier     *)
(* generation had of those reports or of others.                           *)
StoredIsGenuine ==
  /\ \A t \in efdRows : Shown(t) /\ t.generation \in authorities
  /\ \A e \in efdReports : /\ Counted(e, frame) /\ e.generation \in authorities
                           /\ e.outcome \in {"parsed", "paper_only"}
  /\ \A t \in frame : \E s \in efdRows : Identity(s) = Identity(t)

EfdInv ==
  /\ SenateTypes /\ SearchIsWhole /\ RefreshIsGenuine /\ BundleIsGenuine /\ StoredIsGenuine
  /\ IdentitiesAreUnique /\ InventoryIsComplete

LEMMA ReportIsFinite == /\ IsFiniteSet(Report) /\ \A s \in SUBSET Report : IsFiniteSet(s) /\ Cardinality(s) \in Nat
<1>1. IsFiniteSet(Report)
  BY SenateAssumption, FS_Interval DEF Report
<1> QED BY <1>1, FS_Subset, FS_CardinalityType

LEMMA SenateStarts == SenateInit => EfdInv
<1> SUFFICES ASSUME SenateInit PROVE EfdInv
  OBVIOUS
<1>1. page \in [Report -> [size : 0 .. MaxRows, version : Nat]]
  BY DEF SenateInit
<1>2. listed \subseteq Report
  BY SenateAssumption DEF SenateInit, Report
<1>3. bundle.status # "complete"
  BY DEF SenateInit, NoSweep
<1>4. SenateTypes
  BY <1>1, <1>2, FS_EmptySet DEF SenateInit, SenateTypes
<1> QED BY <1>3, <1>4 DEF SenateInit, EfdInv, SearchIsWhole, RefreshIsGenuine, BundleIsGenuine, StoredIsGenuine,
          IdentitiesAreUnique, InventoryIsComplete

-----------------------------------------------------------------------------
(* The site.                                                               *)

LEMMA PublishReportKeeps ==
  ASSUME EfdInv, NEW r \in Report, PublishReport(r)
  PROVE  EfdInv'
<1>1. /\ listed' = listed \union {r}
      /\ UNCHANGED <<page, withdrawn, refresh, refreshes, bundle, efdRows, efdReports, phases, owed, frame, authorities>>
  BY DEF PublishReport
<1>2. SenateTypes'
  BY <1>1 DEF EfdInv, SenateTypes
<1>3. SearchIsWhole'
  <2> SUFFICES ASSUME refresh # IdleRefresh, withdrawn = {}, NEW q \in refresh.owed,
                      refresh.step = "search", q \in Listing(refresh.start),
                      Above(q, Listing(refresh.start)) >= refresh.offset
               PROVE  q \in Listing(refresh.start)' /\ Above(q, Listing(refresh.start)') >= refresh.offset
    BY <1>1 DEF EfdInv, SearchIsWhole
  <2>1. Listing(refresh.start) \subseteq Listing(refresh.start)' /\ Listing(refresh.start)' \subseteq Report
    BY <1>1, <1>2 DEF Listing, SenateTypes
  <2> DEFINE before == {x \in Listing(refresh.start) : x > q}
             after == {x \in Listing(refresh.start)' : x > q}
  <2>2. before \subseteq after /\ after \subseteq Report
    BY <2>1
  <2>3. Cardinality(before) <= Cardinality(after) /\ Cardinality(after) \in Nat /\ Cardinality(before) \in Nat
    BY <2>2, ReportIsFinite, FS_Subset
  <2>4. refresh.offset \in Nat
    BY DEF EfdInv, SenateTypes, Refreshing
  <2> QED BY <2>1, <2>3, <2>4 DEF Above
<1> QED BY <1>1, <1>2, <1>3 DEF EfdInv, RefreshIsGenuine, BundleIsGenuine, StoredIsGenuine, Genuine, Shown, Counted,
          IdentitiesAreUnique, InventoryIsComplete

LEMMA WithdrawKeeps ==
  ASSUME EfdInv, NEW r \in Report, Withdraw(r)
  PROVE  EfdInv'
<1>1. /\ listed' = listed \ {r} /\ withdrawn' = withdrawn \union {r} /\ withdrawn' # {}
      /\ UNCHANGED <<page, refresh, refreshes, bundle, efdRows, efdReports, phases, owed, frame, authorities>>
  BY DEF Withdraw
<1> QED BY <1>1 DEF EfdInv, SenateTypes, SearchIsWhole, RefreshIsGenuine, BundleIsGenuine, StoredIsGenuine, Genuine,
          Shown, Counted, IdentitiesAreUnique, InventoryIsComplete

(* A revision puts a row above those that were shown.                      *)
LEMMA RevisePageKeeps ==
  ASSUME EfdInv, NEW r \in Report, RevisePage(r)
  PROVE  EfdInv'
<1>1. page \in [Report -> [size : 0 .. MaxRows, version : Nat]]
  BY DEF EfdInv, SenateTypes
<1>2. /\ page' = [page EXCEPT ![r] = [size |-> page[r].size + 1, version |-> page[r].version + 1]]
      /\ page[r].size \in 1 .. (MaxRows - 1)
      /\ UNCHANGED <<listed, withdrawn, refresh, refreshes, bundle, efdRows, efdReports, phases, owed, frame, authorities>>
  BY DEF RevisePage
<1>3. page' \in [Report -> [size : 0 .. MaxRows, version : Nat]]
  BY <1>1, <1>2, SenateAssumption
<1>4. ASSUME NEW t \in EfdRow, Shown(t) PROVE Shown(t)'
  <2>1. t.record \in Report /\ t.row \in Nat /\ t.version \in Nat
    BY DEF EfdRow
  <2>2. CASE t.record = r
    <3>1. page'[r].size = page[r].size + 1 /\ page'[r].version = page[r].version + 1
      BY <1>1, <1>2
    <3>2. page[r].size \in Int /\ page[r].version \in Int
      BY <1>1
    <3> QED BY <1>4, <2>1, <2>2, <3>1, <3>2 DEF Shown
  <2>3. CASE t.record # r
    <3>1. page'[t.record] = page[t.record]
      BY <1>1, <1>2, <2>1, <2>3
    <3> QED BY <1>4, <3>1 DEF Shown
  <2> QED BY <2>2, <2>3
<1>5. ASSUME NEW e \in EfdReport, NEW rows, Counted(e, rows) PROVE Counted(e, rows)'
  <2>1. e.record \in Report
    BY DEF EfdReport
  <2>2. CASE e.record = r
    <3>1. page'[r].version = page[r].version + 1 /\ page[r].version \in Nat
      BY <1>1, <1>2
    <3> QED BY <1>5, <2>2, <3>1 DEF Counted
  <2>3. CASE e.record # r
    <3>1. page'[e.record] = page[e.record]
      BY <1>1, <1>2, <2>1, <2>3
    <3> QED BY <1>5, <3>1 DEF Counted
  <2> QED BY <2>2, <2>3
<1>6. ASSUME NEW g, NEW inventory \in SUBSET EfdReport, NEW rows \in SUBSET EfdRow, Genuine(g, inventory, rows)
      PROVE  Genuine(g, inventory, rows)'
  BY <1>4, <1>5, <1>6 DEF Genuine
<1>7. RefreshIsGenuine'
  BY <1>2, <1>6 DEF EfdInv, RefreshIsGenuine, SenateTypes, Refreshing
<1>8. BundleIsGenuine'
  BY <1>2, <1>6 DEF EfdInv, BundleIsGenuine, SenateTypes, Sealed, NoSweep
<1>9. StoredIsGenuine'
  BY <1>2, <1>4, <1>5 DEF EfdInv, StoredIsGenuine, SenateTypes, Identity
<1> QED BY <1>2, <1>3, <1>7, <1>8, <1>9 DEF EfdInv, SenateTypes, SearchIsWhole, Listing, Above, IdentitiesAreUnique,
          InventoryIsComplete, Identity

-----------------------------------------------------------------------------
(* The fetch.                                                              *)

LEMMA UnderWay ==
  ASSUME EfdInv, refresh # IdleRefresh \/ refresh.step # "idle"
  PROVE  refresh \in Refreshing /\ refresh # IdleRefresh /\ refresh.request \in Request
BY DEF EfdInv, SenateTypes, IdleRefresh, Refreshing

(* Steps of the refresh alone.                                             *)
LEMMA RefreshingKeeps ==
  ASSUME EfdInv, refresh' \in Refreshing, refreshes' \in Nat,
         UNCHANGED <<page, listed, withdrawn, bundle, efdRows, efdReports, phases, owed, frame, authorities>>,
         SearchIsWhole', RefreshIsGenuine'
  PROVE  EfdInv'
BY DEF EfdInv, SenateTypes, BundleIsGenuine, StoredIsGenuine, Genuine, Shown, Counted, IdentitiesAreUnique,
       InventoryIsComplete

LEMMA StartRefreshKeeps ==
  ASSUME EfdInv, NEW target \in {"phase", "manual", "bundle"}, NEW start \in Report, StartRefresh(target, start)
  PROVE  EfdInv'
<1>1. PICK request \in Request : request = NewRequest
  BY DEF NewRequest, Request
<1>2. PICK generation \in Nat : generation = Authority(target)
  BY DEF Authority, EfdInv, SenateTypes
<1>3. PICK lines \in SUBSET Report : lines = Listing(start)
  BY DEF Listing, EfdInv, SenateTypes
<1>4. PICK next : next = [step |-> "search", target |-> target, generation |-> generation,
                         start |-> start, offset |-> 0, owed |-> lines,
                         found |-> {}, inventory |-> {}, rows |-> {}, request |-> request]
  OBVIOUS
<1>5. /\ refresh' = next /\ refreshes' = refreshes + 1
      /\ UNCHANGED <<page, listed, withdrawn, bundle, efdRows, efdReports, phases, owed, frame, authorities>>
  BY <1>1, <1>2, <1>3, <1>4 DEF StartRefresh
<1>6. next \in Refreshing
  BY <1>4 DEF Refreshing
<1>7. SearchIsWhole'
  <2>1. next.owed = lines /\ next.step = "search" /\ next.start = start /\ next.offset = 0
    BY <1>4
  <2>2. Listing(next.start)' = lines
    BY <1>3, <1>5, <2>1 DEF Listing
  <2>3. ASSUME NEW r \in lines PROVE Above(r, lines) >= 0
    <3>1. {q \in lines : q > r} \in SUBSET Report
      OBVIOUS
    <3> QED BY <3>1, ReportIsFinite DEF Above
  <2> QED BY <1>5, <2>1, <2>2, <2>3 DEF SearchIsWhole
<1>8. RefreshIsGenuine'
  BY <1>4, <1>5, FS_EmptySet DEF RefreshIsGenuine, Genuine
<1>9. refreshes' \in Nat
  BY <1>5 DEF EfdInv, SenateTypes
<1> QED BY <1>5, <1>6, <1>7, <1>8, <1>9, RefreshingKeeps

(* A request is repeated.                                                  *)
LEMMA RequestKeeps ==
  ASSUME EfdInv, NEW request \in Request, refresh # IdleRefresh, Answered([refresh EXCEPT !.request = request])
  PROVE  EfdInv'
<1>1. PICK now \in Refreshing : now = refresh /\ now # IdleRefresh
  BY UnderWay
<1>2. PICK next : next = [now EXCEPT !.request = request]
  OBVIOUS
<1>3. /\ next \in Refreshing /\ next.step = now.step /\ next.generation = now.generation /\ next.start = now.start
      /\ next.offset = now.offset /\ next.owed = now.owed /\ next.found = now.found
      /\ next.inventory = now.inventory /\ next.rows = now.rows
  BY <1>2 DEF Refreshing
<1>4. /\ refresh' = next
      /\ UNCHANGED <<page, listed, withdrawn, refreshes, bundle, efdRows, efdReports, phases, owed, frame, authorities>>
  BY <1>1, <1>2 DEF Answered
<1>5. SearchIsWhole'
  BY <1>1, <1>3, <1>4 DEF EfdInv, SearchIsWhole, Listing, Above
<1>6. RefreshIsGenuine'
  BY <1>1, <1>3, <1>4 DEF EfdInv, RefreshIsGenuine, Genuine, Shown, Counted
<1>7. refreshes' \in Nat
  BY <1>4 DEF EfdInv, SenateTypes
<1> QED BY <1>3, <1>4, <1>5, <1>6, <1>7, RefreshingKeeps

LEMMA RetriesKeep ==
  ASSUME EfdInv, Backoff \/ RefreshSession
  PROVE  EfdInv'
<1>1. refresh # IdleRefresh
  BY DEF Backoff, RefreshSession, Searching, Fetching, IdleRefresh
<1>2. PICK was \in Request : was = refresh.request
  BY <1>1, UnderWay
<1>3. CASE Backoff
  <2>1. PICK request : request = [was EXCEPT !.attempt = was.attempt + 1]
    OBVIOUS
  <2>2. request \in Request
    BY <2>1 DEF Request
  <2>3. Answered([refresh EXCEPT !.request = request])
    BY <1>2, <1>3, <2>1 DEF Backoff
  <2> QED BY <1>1, <2>2, <2>3, RequestKeeps
<1>4. CASE RefreshSession
  <2>1. PICK request : request = [attempt |-> was.attempt + 1, refreshed |-> TRUE]
    OBVIOUS
  <2>2. request \in Request
    BY <2>1 DEF Request
  <2>3. Answered([refresh EXCEPT !.request = request])
    BY <1>2, <1>4, <2>1 DEF RefreshSession
  <2> QED BY <1>1, <2>2, <2>3, RequestKeeps
<1> QED BY <1>3, <1>4

LEMMA AboveIsFewer ==
  ASSUME NEW listing \in SUBSET Report, NEW r \in listing
  PROVE  Above(r, listing) \in Nat /\ Cardinality(listing) \in Nat /\ Above(r, listing) < Cardinality(listing)
<1> DEFINE above == {q \in listing : q > r}
<1>0. \A q \in Report : q \in Nat /\ ~(q > q)
  BY SenateAssumption DEF Report
<1>1. above \in SUBSET Report /\ above \subseteq listing \ {r}
  BY <1>0
<1>2. IsFiniteSet(listing) /\ Cardinality(listing) \in Nat /\ Cardinality(above) \in Nat
  BY <1>1, ReportIsFinite
<1>3. IsFiniteSet(listing \ {r}) /\ Cardinality(listing \ {r}) = Cardinality(listing) - 1
  BY <1>2, FS_RemoveElement
<1>4. Cardinality(above) <= Cardinality(listing \ {r})
  BY <1>1, <1>3, FS_Subset
<1> QED BY <1>2, <1>3, <1>4 DEF Above

LEMMA SearchPageKeeps ==
  ASSUME EfdInv, SearchPage
  PROVE  EfdInv'
<1>1. PICK now \in Refreshing : now = refresh /\ now.step = "search" /\ now # IdleRefresh
  <2>1. refresh.step = "search"
    BY DEF SearchPage, Searching
  <2> QED BY <2>1, UnderWay
<1>2. PICK matching \in SUBSET Report : matching = Listing(refresh.start)
  BY DEF Listing, EfdInv, SenateTypes
<1>3. PICK upTo \in Nat : upTo = now.offset + SEARCH_PAGE_SIZE
  BY SenateAssumption DEF Refreshing
<1>4. PICK lines \in SUBSET Report :
        lines = {r \in matching : Above(r, matching) >= now.offset /\ Above(r, matching) < upTo}
  OBVIOUS
<1>5. PICK step \in {"search", "fetch"} : step = IF upTo >= Cardinality(matching) THEN "fetch" ELSE now.step
  BY <1>1
<1>6. PICK one : one = [now EXCEPT !.step = step]
  OBVIOUS
<1>7. PICK two : two = [one EXCEPT !.offset = upTo]
  OBVIOUS
<1>8. PICK three : three = [two EXCEPT !.found = now.found \union lines]
  OBVIOUS
<1>9. PICK next : next = [three EXCEPT !.request = NewRequest]
  OBVIOUS
<1>10. one \in Refreshing /\ one.step = step /\ one.generation = now.generation /\ one.start = now.start
       /\ one.owed = now.owed /\ one.found = now.found /\ one.inventory = now.inventory /\ one.rows = now.rows
  BY <1>6 DEF Refreshing
<1>11. two \in Refreshing /\ two.step = step /\ two.generation = now.generation /\ two.start = now.start
       /\ two.owed = now.owed /\ two.found = now.found /\ two.inventory = now.inventory /\ two.rows = now.rows
       /\ two.offset = upTo
  BY <1>7, <1>10 DEF Refreshing
<1>12. three \in Refreshing /\ three.step = step /\ three.generation = now.generation /\ three.start = now.start
       /\ three.owed = now.owed /\ three.found = now.found \union lines /\ three.inventory = now.inventory
       /\ three.rows = now.rows /\ three.offset = upTo
  <2>1. now.found \union lines \in SUBSET Report
    BY DEF Refreshing
  <2> QED BY <1>8, <1>11, <2>1 DEF Refreshing
<1>13. next \in Refreshing /\ next.step = step /\ next.generation = now.generation /\ next.start = now.start
       /\ next.owed = now.owed /\ next.found = now.found \union lines /\ next.inventory = now.inventory
       /\ next.rows = now.rows /\ next.offset = upTo
  <2>1. NewRequest \in Request
    BY DEF NewRequest, Request
  <2> QED BY <1>9, <1>12, <2>1 DEF Refreshing
<1>14. /\ refresh' = next
       /\ UNCHANGED <<page, listed, withdrawn, refreshes, bundle, efdRows, efdReports, phases, owed, frame, authorities>>
  <2>1. next = [now EXCEPT !.step = step, !.offset = upTo, !.found = now.found \union lines, !.request = NewRequest]
    BY <1>6, <1>7, <1>8, <1>9
  <2> QED BY <1>1, <1>2, <1>3, <1>4, <1>5, <2>1 DEF SearchPage, Answered
<1>15. SearchIsWhole'
  <2> SUFFICES ASSUME withdrawn = {}, NEW r \in now.owed
               PROVE  \/ r \in now.found \union lines \union Presented(now.inventory)
                      \/ step = "search" /\ r \in matching /\ Above(r, matching) >= upTo
    BY <1>2, <1>1, <1>13, <1>14 DEF SearchIsWhole, Listing, Above
  <2>1. \/ r \in now.found \union Presented(now.inventory)
        \/ r \in matching /\ Above(r, matching) >= now.offset
    BY <1>1, <1>2 DEF EfdInv, SearchIsWhole
  <2>2. CASE r \in matching /\ Above(r, matching) >= now.offset
    <3>1. Above(r, matching) \in Nat /\ Cardinality(matching) \in Nat /\ Above(r, matching) < Cardinality(matching)
      BY <2>2, AboveIsFewer
    <3> QED BY <1>1, <1>4, <1>5, <2>2, <3>1
  <2> QED BY <2>1, <2>2
<1>16. RefreshIsGenuine'
  BY <1>1, <1>13, <1>14 DEF EfdInv, RefreshIsGenuine, Genuine, Shown, Counted
<1>17. refreshes' \in Nat
  BY <1>14 DEF EfdInv, SenateTypes
<1> QED BY <1>13, <1>14, <1>15, <1>16, <1>17, RefreshingKeeps

LEMMA RowsOfAPage ==
  ASSUME EfdInv, NEW r \in Report, NEW generation \in Nat
  PROVE  /\ Rows(r, generation) \subseteq EfdRow /\ IsFiniteSet(Rows(r, generation))
         /\ \A t \in Rows(r, generation) : t.generation = generation /\ Shown(t)
         /\ \A i \in 1 .. page[r].size : \E t \in Rows(r, generation) : t.record = r /\ t.row = i
<1>1. PICK size \in Nat, version \in Nat : size = page[r].size /\ version = page[r].version
  BY SenateAssumption DEF EfdInv, SenateTypes
<1> DEFINE line == [i \in 1 .. size |-> [record |-> r, row |-> i, version |-> version, generation |-> generation]]
<1>2. Rows(r, generation) = {line[i] : i \in 1 .. size}
  BY <1>1 DEF Rows
<1>3. ASSUME NEW i \in 1 .. size
      PROVE  /\ line[i] \in EfdRow /\ line[i].generation = generation /\ line[i].record = r /\ line[i].row = i
             /\ Shown(line[i])
  <2>1. line[i] \in EfdRow /\ line[i].generation = generation /\ line[i].record = r /\ line[i].row = i
        /\ line[i].version = version
    BY <1>1 DEF EfdRow
  <2> QED BY <1>1, <2>1 DEF Shown
<1>4. line \in Surjection(1 .. size, Rows(r, generation))
  <2>1. line \in [1 .. size -> Rows(r, generation)]
    BY <1>2
  <2>2. \A t \in Rows(r, generation) : \E i \in 1 .. size : line[i] = t
    BY <1>2
  <2> HIDE DEF line
  <2> QED BY <2>1, <2>2 DEF Surjection
<1> HIDE DEF line
<1>5. IsFiniteSet(Rows(r, generation))
  <2>1. IsFiniteSet(1 .. size)
    BY FS_Interval
  <2> QED BY <1>4, <2>1, FS_Surjection
<1> QED BY <1>1, <1>2, <1>3, <1>5

LEMMA FetchReportKeeps ==
  ASSUME EfdInv, NEW r \in Report, NEW outcome \in ReportOutcome, FetchReport(r, outcome)
  PROVE  EfdInv'
<1>1. PICK now \in Refreshing : now = refresh /\ now.step = "fetch" /\ now # IdleRefresh
  <2>1. refresh.step = "fetch"
    BY DEF FetchReport, Fetching
  <2> QED BY <2>1, UnderWay
<1>2. PICK accepted \in Nat : accepted = IF outcome = "parsed" THEN page[r].size ELSE 0
  BY SenateAssumption DEF EfdInv, SenateTypes
<1>3. PICK e : e = [record |-> r, generation |-> now.generation, outcome |-> outcome, accepted |-> accepted]
  OBVIOUS
<1>4. e \in EfdReport /\ e.record = r /\ e.generation = now.generation /\ e.outcome = outcome /\ e.accepted = accepted
  BY <1>3 DEF EfdReport, Refreshing
<1>5. PICK rows : rows = IF outcome = "parsed" THEN now.rows \union Rows(r, now.generation) ELSE now.rows
  OBVIOUS
<1>6. /\ rows \subseteq EfdRow /\ IsFiniteSet(rows) /\ now.rows \subseteq rows
      /\ \A t \in rows : t.generation = now.generation /\ Shown(t)
      /\ \A i \in 1 .. accepted : \E t \in rows : t.record = r /\ t.row = i
  <2>1. /\ now.rows \subseteq EfdRow /\ IsFiniteSet(now.rows) /\ now.generation \in Nat
        /\ \A t \in now.rows : t.generation = now.generation /\ Shown(t)
    BY <1>1 DEF EfdInv, RefreshIsGenuine, Genuine, Refreshing
  <2>2. CASE outcome = "parsed"
    <3>1. IsFiniteSet(rows)
      BY <1>5, <2>1, <2>2, RowsOfAPage, FS_Union
    <3> QED BY <1>2, <1>5, <2>1, <2>2, <3>1, RowsOfAPage
  <2>3. CASE outcome # "parsed"
    BY <1>2, <1>5, <2>1, <2>3
  <2> QED BY <2>2, <2>3
<1>7. Counted(e, rows)
  <2>1. outcome \in {"parsed", "paper_only"} => accepted = page[r].size
    BY <1>2 DEF FetchReport
  <2> QED BY <1>4, <1>6, <2>1 DEF Counted
<1>8. ASSUME NEW x \in now.inventory PROVE x.generation = now.generation /\ Counted(x, rows)
  BY <1>1, <1>6 DEF EfdInv, RefreshIsGenuine, Genuine, Counted
<1>9. PICK one : one = [now EXCEPT !.found = now.found \ {r}]
  OBVIOUS
<1>10. PICK two : two = [one EXCEPT !.request = NewRequest]
  OBVIOUS
<1>11. PICK three : three = [two EXCEPT !.inventory = now.inventory \union {e}]
  OBVIOUS
<1>12. PICK next : next = [three EXCEPT !.rows = rows]
  OBVIOUS
<1>13. /\ one \in Refreshing /\ one.step = "fetch" /\ one.generation = now.generation /\ one.owed = now.owed
       /\ one.found = now.found \ {r} /\ one.inventory = now.inventory /\ one.rows = now.rows
  BY <1>1, <1>9 DEF Refreshing
<1>14. /\ two \in Refreshing /\ two.step = "fetch" /\ two.generation = now.generation /\ two.owed = now.owed
       /\ two.found = now.found \ {r} /\ two.inventory = now.inventory /\ two.rows = now.rows
  <2>1. NewRequest \in Request
    BY DEF NewRequest, Request
  <2> QED BY <1>10, <1>13, <2>1 DEF Refreshing
<1>15. /\ three \in Refreshing /\ three.step = "fetch" /\ three.generation = now.generation /\ three.owed = now.owed
       /\ three.found = now.found \ {r} /\ three.inventory = now.inventory \union {e}
  <2>1. now.inventory \union {e} \in SUBSET EfdReport
    BY <1>4 DEF Refreshing
  <2> QED BY <1>11, <1>14, <2>1 DEF Refreshing
<1>16. /\ next \in Refreshing /\ next.step = "fetch" /\ next.generation = now.generation /\ next.owed = now.owed
       /\ next.found = now.found \ {r} /\ next.inventory = now.inventory \union {e} /\ next.rows = rows
  BY <1>6, <1>12, <1>15 DEF Refreshing
<1>17. /\ refresh' = next
       /\ UNCHANGED <<page, listed, withdrawn, refreshes, bundle, efdRows, efdReports, phases, owed, frame, authorities>>
  <2>1. next = [now EXCEPT !.found = now.found \ {r}, !.request = NewRequest,
                           !.inventory = now.inventory \union {e}, !.rows = rows]
    BY <1>9, <1>10, <1>11, <1>12
  <2> QED BY <1>1, <1>2, <1>3, <1>5, <2>1 DEF FetchReport, Answered
<1>18. SearchIsWhole'
  <2>1. Presented(now.inventory \union {e}) = Presented(now.inventory) \union {r}
    BY <1>4 DEF Presented
  <2> QED BY <1>1, <1>16, <1>17, <2>1 DEF EfdInv, SearchIsWhole
<1>19. Genuine(now.generation, now.inventory \union {e}, rows)
  BY <1>4, <1>6, <1>7, <1>8 DEF Genuine
<1>20. RefreshIsGenuine'
  BY <1>16, <1>17, <1>19 DEF RefreshIsGenuine, Genuine, Shown, Counted
<1>21. refreshes' \in Nat
  BY <1>17 DEF EfdInv, SenateTypes
<1> QED BY <1>16, <1>17, <1>18, <1>20, <1>21, RefreshingKeeps

LEMMA FailRefreshKeeps ==
  ASSUME EfdInv, NEW recorded \in BOOLEAN, FailRefresh(recorded)
  PROVE  EfdInv'
<1>1. PICK quarantined : quarantined = [status |-> "quarantined", contents |-> NoContents]
  OBVIOUS
<1>2. quarantined \in [status : {"complete", "quarantined"}, contents : Sealed] /\ quarantined.status # "complete"
  BY <1>1 DEF NoContents, Sealed
<1>3. /\ refresh' = IdleRefresh /\ bundle' \in {bundle, quarantined}
      /\ UNCHANGED <<page, listed, withdrawn, refreshes, efdRows, efdReports, owed, frame, authorities>>
  BY <1>1 DEF FailRefresh
<1>4. BundleIsGenuine'
  BY <1>2, <1>3 DEF EfdInv, BundleIsGenuine, Genuine, Shown, Counted
<1> QED BY <1>2, <1>3, <1>4 DEF EfdInv, SenateTypes, SearchIsWhole, RefreshIsGenuine, StoredIsGenuine, Shown, Counted,
          IdentitiesAreUnique, InventoryIsComplete

-----------------------------------------------------------------------------
(* The commit: rows are added, and the inventory is replaced.              *)

LEMMA CommitKeeps ==
  ASSUME EfdInv, NEW from, from.generation \in Nat, from.owed \subseteq Report, from.inventory \subseteq EfdReport,
         from.rows \subseteq EfdRow, Genuine(from.generation, from.inventory, from.rows),
         withdrawn = {} => from.owed \subseteq Presented(from.inventory),
         persist_source_refresh(from), UNCHANGED <<page, listed, withdrawn, refreshes, bundle>>,
         refresh' \in {refresh, IdleRefresh}
  PROVE  EfdInv' /\ efdRows \subseteq efdRows'
<1>1. /\ Bound(from.inventory, from.rows) /\ efdRows' = MergeRows(efdRows, from.rows) /\ efdReports' = from.inventory
      /\ owed' = from.owed /\ frame' = from.rows /\ authorities' = authorities \union {from.generation}
  BY DEF persist_source_refresh
<1>2. efdRows' \subseteq efdRows \union from.rows /\ efdRows \subseteq efdRows'
  BY <1>1 DEF MergeRows
<1>3. IsFiniteSet(efdRows') /\ IsFiniteSet(authorities')
  <2>1. IsFiniteSet(efdRows \union from.rows)
    BY FS_Union DEF EfdInv, SenateTypes, Genuine
  <2>2. IsFiniteSet(authorities')
    BY <1>1, FS_AddElement DEF EfdInv, SenateTypes
  <2> QED BY <1>2, <2>1, <2>2, FS_Subset
<1>4. SenateTypes'
  BY <1>1, <1>2, <1>3 DEF EfdInv, SenateTypes
<1>5. StoredIsGenuine'
  <2>1. ASSUME NEW t \in efdRows' PROVE Shown(t)' /\ t.generation \in authorities'
    BY <1>1, <1>2 DEF EfdInv, StoredIsGenuine, Genuine, Shown
  <2>2. ASSUME NEW e \in efdReports'
        PROVE  Counted(e, frame)' /\ e.generation \in authorities' /\ e.outcome \in {"parsed", "paper_only"}
    BY <1>1 DEF Genuine, Counted, Bound, Replaceable
  <2>3. ASSUME NEW t \in frame' PROVE \E s \in efdRows' : Identity(s) = Identity(t)
    BY <1>1 DEF MergeRows
  <2> QED BY <2>1, <2>2, <2>3 DEF StoredIsGenuine, Identity
<1>6. IdentitiesAreUnique'
  <2> SUFFICES ASSUME NEW s \in efdRows', NEW t \in efdRows', Identity(s) = Identity(t) PROVE s = t
    BY DEF IdentitiesAreUnique, Identity
  <2>1. CASE s \in efdRows /\ t \in efdRows
    BY <2>1 DEF EfdInv, IdentitiesAreUnique
  <2>2. CASE s \notin efdRows /\ t \notin efdRows
    BY <1>1, <1>2, <2>2 DEF Bound, Presentable
  <2>3. CASE s \in efdRows /\ t \notin efdRows
    BY <1>1, <2>3 DEF MergeRows
  <2>4. CASE s \notin efdRows /\ t \in efdRows
    BY <1>1, <2>4 DEF MergeRows
  <2> QED BY <2>1, <2>2, <2>3, <2>4
<1>7. InventoryIsComplete'
  BY <1>1 DEF InventoryIsComplete, Presented
<1>8. SearchIsWhole'
  <2>1. CASE refresh' = refresh
    BY <2>1 DEF EfdInv, SearchIsWhole, Listing, Above
  <2>2. CASE refresh' = IdleRefresh
    BY <2>2 DEF SearchIsWhole
  <2> QED BY <2>1, <2>2
<1>9. RefreshIsGenuine'
  BY DEF EfdInv, RefreshIsGenuine, Genuine, Shown, Counted
<1>10. BundleIsGenuine'
  BY DEF EfdInv, BundleIsGenuine, Genuine, Shown, Counted
<1> QED BY <1>2, <1>4, <1>5, <1>6, <1>7, <1>8, <1>9, <1>10 DEF EfdInv

LEMMA FetchedIsWhole ==
  ASSUME EfdInv, Fetched
  PROVE  /\ refresh \in Refreshing /\ Genuine(refresh.generation, refresh.inventory, refresh.rows)
         /\ withdrawn = {} => refresh.owed \subseteq Presented(refresh.inventory)
<1>1. refresh \in Refreshing /\ refresh # IdleRefresh
  BY UnderWay DEF Fetched
<1> QED BY <1>1 DEF EfdInv, RefreshIsGenuine, SearchIsWhole, Fetched

LEMMA SaveKeeps ==
  ASSUME EfdInv, NEW recorded \in BOOLEAN, Save(recorded)
  PROVE  EfdInv' /\ efdRows \subseteq efdRows'
<1>1. PICK from \in Refreshing :
        /\ from = refresh /\ Genuine(from.generation, from.inventory, from.rows)
        /\ withdrawn = {} => from.owed \subseteq Presented(from.inventory)
  BY FetchedIsWhole DEF Save
<1>2. from.generation \in Nat /\ from.owed \subseteq Report /\ from.inventory \subseteq EfdReport /\ from.rows \subseteq EfdRow
  BY DEF Refreshing
<1>3. persist_source_refresh(from) /\ refresh' = IdleRefresh /\ UNCHANGED <<page, listed, withdrawn, refreshes, bundle>>
  BY <1>1 DEF Save
<1> QED BY <1>1, <1>2, <1>3, CommitKeeps

LEMMA SealBundleKeeps ==
  ASSUME EfdInv, SealBundle
  PROVE  EfdInv'
<1>1. PICK from \in Refreshing :
        /\ from = refresh /\ Genuine(from.generation, from.inventory, from.rows)
        /\ withdrawn = {} => from.owed \subseteq Presented(from.inventory)
  BY FetchedIsWhole DEF SealBundle
<1>2. PICK contents : contents = Contents(from)
  OBVIOUS
<1>3. /\ contents \in Sealed /\ contents.generation = from.generation /\ contents.owed = from.owed
      /\ contents.inventory = from.inventory /\ contents.rows = from.rows
  BY <1>2 DEF Contents, Sealed, Refreshing
<1>4. PICK new : new = [status |-> "complete", contents |-> contents]
  OBVIOUS
<1>5. new \in [status : {"complete", "quarantined"}, contents : Sealed] /\ new.contents = contents
  BY <1>3, <1>4
<1>6. /\ bundle' = new /\ refresh' = IdleRefresh
      /\ UNCHANGED <<page, listed, withdrawn, refreshes, efdRows, efdReports, phases, owed, frame, authorities>>
  BY <1>1, <1>2, <1>4 DEF SealBundle
<1>7. BundleIsGenuine'
  BY <1>1, <1>3, <1>5, <1>6 DEF BundleIsGenuine, Genuine, Shown, Counted
<1> QED BY <1>5, <1>6, <1>7 DEF EfdInv, SenateTypes, SearchIsWhole, RefreshIsGenuine, StoredIsGenuine, Shown, Counted,
          IdentitiesAreUnique, InventoryIsComplete

LEMMA IngestBundleKeeps ==
  ASSUME EfdInv, NEW recorded \in BOOLEAN, IngestBundle(recorded)
  PROVE  EfdInv' /\ efdRows \subseteq efdRows'
<1>1. bundle \in [status : {"complete", "quarantined"}, contents : Sealed] /\ bundle.status = "complete"
  BY DEF IngestBundle, EfdInv, SenateTypes, NoSweep
<1>2. PICK from \in Sealed :
        /\ from = bundle.contents /\ Genuine(from.generation, from.inventory, from.rows)
        /\ withdrawn = {} => from.owed \subseteq Presented(from.inventory)
  BY <1>1 DEF EfdInv, BundleIsGenuine
<1>3. from.generation \in Nat /\ from.owed \subseteq Report /\ from.inventory \subseteq EfdReport /\ from.rows \subseteq EfdRow
  BY DEF Sealed
<1>4. persist_source_refresh(from) /\ UNCHANGED <<page, listed, withdrawn, refresh, refreshes, bundle>>
  BY <1>2 DEF IngestBundle
<1> QED BY <1>2, <1>3, <1>4, CommitKeeps

LEMMA SenateSteps ==
  ASSUME EfdInv, [SenateNext]_efdVars
  PROVE  EfdInv' /\ efdRows \subseteq efdRows'
<1>1. ASSUME NEW r \in Report, PublishReport(r) \/ RevisePage(r) \/ Withdraw(r)
      PROVE  EfdInv' /\ efdRows \subseteq efdRows'
  <2>1. efdRows' = efdRows
    BY <1>1 DEF PublishReport, RevisePage, Withdraw
  <2> QED BY <1>1, <2>1, PublishReportKeeps, RevisePageKeeps, WithdrawKeeps
<1>2. ASSUME NEW target \in {"phase", "manual", "bundle"}, NEW start \in Report, StartRefresh(target, start)
      PROVE  EfdInv' /\ efdRows \subseteq efdRows'
  BY <1>2, StartRefreshKeeps DEF StartRefresh
<1>3. CASE Backoff \/ RefreshSession \/ SearchPage
  <2>1. efdRows' = efdRows
    BY <1>3 DEF Backoff, RefreshSession, SearchPage, Answered
  <2> QED BY <1>3, <2>1, RetriesKeep, SearchPageKeeps
<1>4. ASSUME NEW r \in Report, NEW outcome \in ReportOutcome, FetchReport(r, outcome)
      PROVE  EfdInv' /\ efdRows \subseteq efdRows'
  BY <1>4, FetchReportKeeps DEF FetchReport, Answered
<1>5. ASSUME NEW recorded \in BOOLEAN, FailRefresh(recorded) \/ Save(recorded) \/ IngestBundle(recorded)
      PROVE  EfdInv' /\ efdRows \subseteq efdRows'
  <2>1. CASE FailRefresh(recorded)
    BY <2>1, FailRefreshKeeps DEF FailRefresh
  <2> QED BY <1>5, <2>1, SaveKeeps, IngestBundleKeeps
<1>6. CASE SealBundle
  BY <1>6, SealBundleKeeps DEF SealBundle
<1>7. CASE UNCHANGED efdVars
  <2>1. UNCHANGED <<page, listed, withdrawn, refresh, refreshes, bundle, efdRows, efdReports, owed, frame, authorities>>
    BY <1>7 DEF efdVars
  <2>2. SenateTypes'
    BY <2>1 DEF EfdInv, SenateTypes
  <2>3. SearchIsWhole'
    BY <2>1 DEF EfdInv, SearchIsWhole, Listing, Above
  <2>4. RefreshIsGenuine' /\ BundleIsGenuine'
    BY <2>1 DEF EfdInv, RefreshIsGenuine, BundleIsGenuine, Genuine, Shown, Counted
  <2>5. StoredIsGenuine' /\ IdentitiesAreUnique' /\ InventoryIsComplete'
    BY <2>1 DEF EfdInv, StoredIsGenuine, Shown, Counted, IdentitiesAreUnique, InventoryIsComplete
  <2> QED BY <2>1, <2>2, <2>3, <2>4, <2>5 DEF EfdInv
<1> QED BY <1>1, <1>2, <1>3, <1>4, <1>5, <1>6, <1>7 DEF SenateNext

-----------------------------------------------------------------------------
(* What is stored.                                                         *)

LEMMA StoredRow ==
  ASSUME EfdInv, NEW t \in efdRows
  PROVE  /\ t \in EfdRow /\ t.record \in Report /\ t.row \in Nat /\ t.row >= 1 /\ t.version \in Nat /\ Shown(t)
         /\ page[t.record].size \in Nat /\ page[t.record].version \in Nat
<1>1. t \in EfdRow /\ Shown(t)
  BY DEF EfdInv, SenateTypes, StoredIsGenuine
<1>2. t.record \in Report /\ t.row \in Nat /\ t.row >= 1 /\ t.version \in Nat
  BY <1>1 DEF EfdRow
<1> QED BY <1>1, <1>2, SenateAssumption DEF EfdInv, SenateTypes

(* Every row a report of the inventory counts is stored.                   *)
LEMMA CountedIsStored ==
  ASSUME EfdInv, NEW e \in efdReports, NEW i \in 1 .. e.accepted
  PROVE  \E s \in efdRows : s.record = e.record /\ s.row = i
<1>1. PICK t \in frame : t.record = e.record /\ t.row = i
  BY DEF EfdInv, StoredIsGenuine, Counted
<1>2. PICK s \in efdRows : Identity(s) = Identity(t)
  BY DEF EfdInv, StoredIsGenuine
<1> QED BY <1>1, <1>2 DEF Identity

LEMMA ReportsKept == EfdInv => ReportsAreStored
<1> SUFFICES ASSUME EfdInv, NEW e \in efdReports
             PROVE  /\ 1 .. e.accepted \subseteq {t.row : t \in {s \in efdRows : s.record = e.record}}
                    /\ page[e.record].version = 0 =>
                         {t.row : t \in {s \in efdRows : s.record = e.record}} = 1 .. e.accepted
  BY DEF ReportsAreStored
<1>1. 1 .. e.accepted \subseteq {t.row : t \in {s \in efdRows : s.record = e.record}}
  BY CountedIsStored
<1>2. ASSUME page[e.record].version = 0, NEW t \in efdRows, t.record = e.record PROVE t.row \in 1 .. e.accepted
  <2>1. Counted(e, frame) /\ e.outcome \in {"parsed", "paper_only"}
    BY DEF EfdInv, StoredIsGenuine
  <2>2. e.accepted = page[e.record].size
    BY <1>2, <2>1 DEF Counted
  <2>3. t.row <= page[t.record].size
    BY <1>2, StoredRow DEF Shown
  <2> QED BY <1>2, <2>2, <2>3, StoredRow
<1> QED BY <1>1, <1>2

(* As many rows as a report counts, and each of its numbers among them:    *)
(* there are no others.                                                    *)
LEMMA VerifiedRows ==
  ASSUME EfdInv, NEW e \in efdReports, NEW rows \in SUBSET efdRows,
         rows = {t \in efdRows : t.record = e.record}, e.accepted = Cardinality(rows)
  PROVE  \A t \in rows : t.row \in 1 .. e.accepted
<1> DEFINE numbers == {t.row : t \in rows}
           number == [t \in rows |-> t.row]
<1>1. IsFiniteSet(rows) /\ Cardinality(rows) \in Nat
  <2>1. IsFiniteSet(rows)
    BY FS_Subset DEF EfdInv, SenateTypes
  <2> QED BY <2>1, FS_CardinalityType
<1>2. number \in Surjection(rows, numbers)
  <2>1. number \in [rows -> numbers]
    OBVIOUS
  <2>2. \A n \in numbers : \E t \in rows : number[t] = n
    OBVIOUS
  <2> HIDE DEF number
  <2> QED BY <2>1, <2>2 DEF Surjection
<1> HIDE DEF number
<1>3. IsFiniteSet(numbers) /\ Cardinality(numbers) <= e.accepted /\ Cardinality(numbers) \in Nat
  <2>1. IsFiniteSet(numbers) /\ Cardinality(numbers) <= Cardinality(rows)
    BY <1>1, <1>2, FS_Surjection
  <2> QED BY <2>1, FS_CardinalityType
<1>4. 1 .. e.accepted \subseteq numbers
  BY CountedIsStored
<1>5. Cardinality(1 .. e.accepted) = e.accepted /\ e.accepted \in Nat
  <2>1. e.accepted \in Nat
    BY <1>1
  <2> QED BY <2>1, FS_Interval
<1>6. 1 .. e.accepted = numbers
  <2>1. Cardinality(1 .. e.accepted) <= Cardinality(numbers)
        /\ (Cardinality(1 .. e.accepted) = Cardinality(numbers) => 1 .. e.accepted = numbers)
    BY <1>3, <1>4, FS_Subset
  <2> QED BY <1>3, <1>5, <2>1
<1> QED BY <1>6

LEMMA VerifiedIsPresented == EfdInv => VerifiedIsOneRefresh
<1> SUFFICES ASSUME EfdInv, _verify_senate_phase
             PROVE  {Identity(t) : t \in efdRows} = {Identity(t) : t \in frame}
  BY DEF VerifiedIsOneRefresh
<1>1. PICK g : /\ {e.generation : e \in efdReports} \union {t.generation : t \in efdRows} = {g}
               /\ \A e \in efdReports :
                    e.accepted = Cardinality({t \in efdRows : t.generation = g /\ t.record = e.record})
               /\ \A t \in efdRows : \E e \in efdReports : e.record = t.record
  BY DEF _verify_senate_phase
<1>2. ASSUME NEW t \in efdRows PROVE \E f \in frame : Identity(f) = Identity(t)
  <2>1. PICK e \in efdReports : e.record = t.record
    BY <1>1
  <2>2. PICK rows \in SUBSET efdRows : rows = {s \in efdRows : s.record = e.record}
    OBVIOUS
  <2>3. rows = {s \in efdRows : s.generation = g /\ s.record = e.record}
    BY <1>1, <2>2
  <2>4. e.accepted = Cardinality(rows)
    BY <1>1, <2>3
  <2>5. t.row \in 1 .. e.accepted
    BY <2>1, <2>2, <2>4, VerifiedRows
  <2>6. PICK f \in frame : f.record = e.record /\ f.row = t.row
    BY <2>5 DEF EfdInv, StoredIsGenuine, Counted
  <2> QED BY <2>1, <2>6 DEF Identity
<1>3. \A f \in frame : \E t \in efdRows : Identity(t) = Identity(f)
  BY DEF EfdInv, StoredIsGenuine
<1> QED BY <1>2, <1>3

LEMMA AnomaliesAreRefused == EfdInv => AnomaliesAreHeld
<1> SUFFICES ASSUME EfdInv, Cardinality(authorities) = 1, NEW t \in efdRows, NEW e \in efdReports,
                    e.record = t.record, e.accepted > MAX_ACCEPTED_ROW_COUNT
             PROVE  anomalous(t)
  BY DEF AnomaliesAreHeld
<1>1. PICK g : authorities = {g}
  BY FS_Singleton DEF EfdInv, SenateTypes
<1>2. e.generation = g /\ t.generation = g
  BY <1>1 DEF EfdInv, StoredIsGenuine
<1> QED BY <1>2 DEF anomalous

(* Whatever the Senate publishes, revises or takes out of its index while  *)
(* it is searched, and however refreshes fail, are killed or repeated: the *)
(* tables hold what it showed, each row once, and the reports they list    *)
(* with all they counted (the search, the commit and the audit).           *)
THEOREM SenateReportsAreSound == SenateSpec => []SenateIsSound
<1>1. EfdInv => SenateIsSound
  <2>1. EfdInv => RowsWereServed
    BY DEF EfdInv, StoredIsGenuine, RowsWereServed, Shown
  <2> QED BY <2>1, ReportsKept, VerifiedIsPresented, AnomaliesAreRefused DEF EfdInv, SenateIsSound
<1>2. EfdInv /\ [SenateNext]_efdVars => EfdInv'
  BY SenateSteps
<1> QED BY SenateStarts, <1>1, <1>2, PTL DEF SenateSpec

(* No refresh, of a phase, by hand or from a bundle, takes a stored row    *)
(* away (merge_source_refresh).                                            *)
THEOREM SenateRowsAreKept == SenateSpec => SenateRowsStay
<1>1. EfdInv /\ [SenateNext]_efdVars => EfdInv' /\ [efdRows \subseteq efdRows']_efdVars
  BY SenateSteps
<1> QED BY SenateStarts, <1>1, PTL DEF SenateSpec, SenateRowsStay

-----------------------------------------------------------------------------
(* The stagers.                                                            *)

(* A document has one stager at a time; how far it has come says where the *)
(* reading of the live record is.                                          *)
OneStagerEach ==
  \A s, t \in Stager : stager[s].doc = stager[t].doc /\ stager[s].doc # NoDoc => s = t

NamesInOrder ==
  \A s \in Stager :
    /\ stager[s].at = "linked" =>
         live[stager[s].doc] = 0 \/ live[stager[s].doc] \in Range(attempts[stager[s].doc])
    /\ stager[s].at = "cleared" => live[stager[s].doc] = 0

StagingInv == StagingTypeOK /\ OneStagerEach /\ NamesInOrder /\ AttemptsAreKept

LEMMA StagerType ==
  ASSUME StagingTypeOK, NEW s \in Stager
  PROVE  /\ stager[s] \in [at : {"idle", "locked", "linked", "cleared"}, doc : Doc \union {NoDoc}]
         /\ stager[s].at # "idle" => stager[s].doc \in Doc
         /\ stager[s].at = "idle" => stager[s] = Rest
         /\ stager[s] = Rest => stager[s].doc = NoDoc
  BY DEF StagingTypeOK, Rest

(* Only one stager moves in a step.                                        *)
LEMMA StagerMoves ==
  ASSUME StagingTypeOK, NEW s \in Stager, NEW e \in [at : {"idle", "locked", "linked", "cleared"}, doc : Doc \union {NoDoc}],
         e.at = "idle" <=> e.doc = NoDoc, stager' = [stager EXCEPT ![s] = e]
  PROVE  /\ stager' \in [Stager -> [at : {"idle", "locked", "linked", "cleared"}, doc : Doc \union {NoDoc}]]
         /\ \A t \in Stager : stager'[t].at = "idle" <=> stager'[t].doc = NoDoc
         /\ stager'[s] = e
         /\ \A t \in Stager : t # s => stager'[t] = stager[t]
  BY DEF StagingTypeOK

LEMMA StagingStarts == StagingInit => StagingInv
  <1> SUFFICES ASSUME StagingInit PROVE StagingInv
    OBVIOUS
  <1>1. \A d \in Doc : attempts[d] = <<>> /\ live[d] = 0 /\ published[d] = {}
    BY DEF StagingInit
  <1>2. <<>> \in Seq(Reading) /\ Len(<<>>) <= MaxAttempts
    BY StagingAssumption
  <1>3. \A s \in Stager : stager[s] = Rest
    BY DEF StagingInit
  <1>4. StagingTypeOK
    BY <1>2, StagingAssumption DEF StagingTypeOK, StagingInit, Rest
  <1> QED BY <1>1, <1>3, <1>4 DEF StagingInv, OneStagerEach, NamesInOrder, AttemptsAreKept, Rest

(* The second name of a live record: the archive of its document grows.    *)
LEMMA LinkedIsKept ==
  ASSUME StagingInv, NEW s \in Stager, LinkAttempt(s)
  PROVE  /\ attempts' \in [Doc -> Seq(Reading)]
         /\ \A d \in Doc : /\ Len(attempts'[d]) <= MaxAttempts
                           /\ Range(attempts[d]) \subseteq Range(attempts'[d])
         /\ \/ live[stager[s].doc] = 0
            \/ live[stager[s].doc] \in Range(attempts'[stager[s].doc])
  <1>1. stager[s].doc \in Doc
    BY StagerType DEF StagingInv, LinkAttempt
  <1> DEFINE d == stager[s].doc
  <1>2. live[d] \in 0 .. MaxReadings /\ attempts[d] \in Seq(Reading) /\ Len(attempts[d]) < MaxAttempts
    BY <1>1 DEF StagingInv, StagingTypeOK, LinkAttempt
  <1>3. attempts'[d] = IF live[d] = 0 THEN attempts[d] ELSE Append(attempts[d], live[d])
    BY <1>1 DEF StagingInv, StagingTypeOK, LinkAttempt
  <1>4. /\ attempts' = [attempts EXCEPT ![d] = attempts'[d]]
        /\ \A e \in Doc : e # d => attempts'[e] = attempts[e]
    BY <1>1, <1>3 DEF LinkAttempt, StagingInv, StagingTypeOK
  <1>5. CASE live[d] = 0
    <2>1. attempts' = attempts
      BY <1>1, <1>3, <1>4, <1>5 DEF StagingInv, StagingTypeOK
    <2>2. \A e \in Doc : Len(attempts[e]) <= MaxAttempts
      BY DEF StagingInv, StagingTypeOK
    <2>3. attempts \in [Doc -> Seq(Reading)]
      BY DEF StagingInv, StagingTypeOK
    <2> QED BY <1>5, <2>1, <2>2, <2>3
  <1>6. CASE live[d] # 0
    <2>1. live[d] \in Reading /\ attempts'[d] = Append(attempts[d], live[d])
      BY <1>2, <1>3, <1>6, StagingAssumption DEF Reading
    <2>2. /\ attempts'[d] \in Seq(Reading) /\ Len(attempts'[d]) = Len(attempts[d]) + 1
          /\ \A i \in 1 .. Len(attempts[d]) : attempts'[d][i] = attempts[d][i]
          /\ attempts'[d][Len(attempts[d]) + 1] = live[d]
      BY <1>2, <2>1, AppendProperties
    <2>3. Range(attempts[d]) \subseteq Range(attempts'[d]) /\ live[d] \in Range(attempts'[d])
      <3>1. Range(attempts[d]) = {attempts[d][i] : i \in 1 .. Len(attempts[d])}
        BY <1>2, RangeEquality
      <3>2. Range(attempts'[d]) = {attempts'[d][i] : i \in 1 .. Len(attempts[d]) + 1}
        BY <2>2, RangeEquality
      <3>3. Len(attempts[d]) \in Nat
        BY <1>2
      <3> HIDE DEF d
      <3> QED BY <2>2, <3>1, <3>2, <3>3
    <2>4. Len(attempts'[d]) <= MaxAttempts
      BY <1>2, <2>2, StagingAssumption
    <2> QED BY <1>4, <2>2, <2>3, <2>4 DEF StagingInv, StagingTypeOK
  <1> QED BY <1>5, <1>6

(* What a step of one stager leaves to show: the locks stay one each.      *)
LEMMA LocksStay ==
  ASSUME StagingInv, NEW s \in Stager, NEW e \in [at : {"idle", "locked", "linked", "cleared"}, doc : Doc \union {NoDoc}],
         e.at = "idle" <=> e.doc = NoDoc, stager' = [stager EXCEPT ![s] = e],
         e.doc \in {NoDoc, stager[s].doc} \/ ~Locked(e.doc)
  PROVE  /\ OneStagerEach'
         /\ \A t \in Stager : t # s => stager'[t] = stager[t] /\ (stager[s].doc # NoDoc => stager[t].doc # stager[s].doc)
         /\ stager'[s] = e
  <1>1. /\ stager'[s] = e /\ \A t \in Stager : t # s => stager'[t] = stager[t]
        /\ \A t \in Stager : t # s /\ stager[s].doc # NoDoc => stager[t].doc # stager[s].doc
    BY StagerMoves DEF StagingInv, OneStagerEach
  <1>2. \A t \in Stager : t # s /\ e.doc # NoDoc => stager[t].doc # e.doc
    BY <1>1 DEF Locked
  <1>3. OneStagerEach'
    BY <1>1, <1>2 DEF StagingInv, OneStagerEach
  <1> QED BY <1>1, <1>3

LEMMA StagingSteps ==
  ASSUME StagingInv, [StagingNext]_stagingVars
  PROVE  StagingInv'
  <1>1. CASE UNCHANGED stagingVars
    BY <1>1 DEF stagingVars, StagingInv, StagingTypeOK, OneStagerEach, NamesInOrder, AttemptsAreKept
  <1>2. ASSUME NEW s \in Stager, NEW d \in Doc, LockDocument(s, d)
        PROVE  StagingInv'
    <2>1. /\ Enters(d) \in [at : {"idle", "locked", "linked", "cleared"}, doc : Doc \union {NoDoc}]
          /\ Enters(d).at \in {"locked", "cleared"} /\ Enters(d).doc = d
          /\ Enters(d).at = "cleared" => live[d] = 0
      BY DEF Enters
    <2>2. /\ Enters(d).at = "idle" <=> Enters(d).doc = NoDoc
          /\ stager' = [stager EXCEPT ![s] = Enters(d)] /\ ~Locked(Enters(d).doc)
          /\ UNCHANGED <<live, attempts, count, published>>
      BY <1>2, <2>1, StagingAssumption DEF LockDocument
    <2>3. OneStagerEach' /\ stager'[s] = Enters(d) /\ \A t \in Stager : t # s => stager'[t] = stager[t]
      BY <2>1, <2>2, LocksStay
    <2>4. StagingTypeOK'
      BY <2>1, <2>2, StagerMoves DEF StagingInv, StagingTypeOK
    <2>5. NamesInOrder'
      BY <2>1, <2>2, <2>3 DEF StagingInv, NamesInOrder
    <2> QED BY <2>2, <2>3, <2>4, <2>5 DEF StagingInv, AttemptsAreKept
  <1>3. ASSUME NEW s \in Stager, LinkAttempt(s)
        PROVE  StagingInv'
    <2> DEFINE e == [stager[s] EXCEPT !.at = "linked"]
    <2>1. /\ e \in [at : {"idle", "locked", "linked", "cleared"}, doc : Doc \union {NoDoc}]
          /\ e.at = "linked" /\ e.doc = stager[s].doc /\ stager[s].doc \in Doc /\ e.doc # NoDoc
      BY <1>3, StagerType, StagingAssumption DEF StagingInv, LinkAttempt
    <2>2. stager' = [stager EXCEPT ![s] = e] /\ UNCHANGED <<live, count, published>>
      BY <1>3 DEF LinkAttempt
    <2> HIDE DEF e
    <2>3. /\ OneStagerEach' /\ stager'[s] = e
          /\ \A t \in Stager : t # s => stager'[t] = stager[t] /\ stager[t].doc # stager[s].doc
      BY <2>1, <2>2, LocksStay
    <2>4. /\ attempts' \in [Doc -> Seq(Reading)]
          /\ \A d \in Doc : Len(attempts'[d]) <= MaxAttempts /\ Range(attempts[d]) \subseteq Range(attempts'[d])
          /\ live[stager[s].doc] = 0 \/ live[stager[s].doc] \in Range(attempts'[stager[s].doc])
      BY <1>3, LinkedIsKept
    <2>5. StagingTypeOK'
      BY <2>1, <2>2, <2>4, StagerMoves DEF StagingInv, StagingTypeOK
    <2>6. NamesInOrder'
      <3> SUFFICES ASSUME NEW t \in Stager
                   PROVE  /\ stager'[t].at = "linked" =>
                               live[stager'[t].doc] = 0 \/ live[stager'[t].doc] \in Range(attempts'[stager'[t].doc])
                          /\ stager'[t].at = "cleared" => live[stager'[t].doc] = 0
        BY <2>2 DEF NamesInOrder
      <3>1. CASE t = s
        BY <2>1, <2>3, <2>4, <3>1
      <3>2. CASE t # s
        BY <2>3, <2>4, <3>2, StagerType DEF StagingInv, NamesInOrder
      <3> QED BY <3>1, <3>2
    <2> QED BY <2>2, <2>3, <2>4, <2>5, <2>6 DEF StagingInv, AttemptsAreKept
  <1>4. ASSUME NEW s \in Stager, UnlinkLive(s)
        PROVE  StagingInv'
    <2> DEFINE e == [stager[s] EXCEPT !.at = "cleared"]
    <2>1. /\ e \in [at : {"idle", "locked", "linked", "cleared"}, doc : Doc \union {NoDoc}]
          /\ e.at = "cleared" /\ e.doc = stager[s].doc /\ stager[s].doc \in Doc /\ e.doc # NoDoc
      BY <1>4, StagerType, StagingAssumption DEF StagingInv, UnlinkLive
    <2>2. /\ stager' = [stager EXCEPT ![s] = e] /\ UNCHANGED <<attempts, count, published>>
          /\ live' = [live EXCEPT ![stager[s].doc] = 0] /\ stager[s].at = "linked"
      BY <1>4 DEF UnlinkLive
    <2> HIDE DEF e
    <2>3. /\ OneStagerEach' /\ stager'[s] = e
          /\ \A t \in Stager : t # s => stager'[t] = stager[t] /\ stager[t].doc # stager[s].doc
      BY <2>1, <2>2, LocksStay
    <2>4. /\ live' \in [Doc -> 0 .. MaxReadings] /\ live'[stager[s].doc] = 0
          /\ \A d \in Doc : d # stager[s].doc => live'[d] = live[d]
      BY <2>1, <2>2, StagingAssumption DEF StagingInv, StagingTypeOK
    <2>5. StagingTypeOK'
      BY <2>1, <2>2, <2>4, StagerMoves DEF StagingInv, StagingTypeOK
    <2>6. NamesInOrder'
      BY <2>1, <2>2, <2>3, <2>4, StagerType DEF StagingInv, NamesInOrder
    <2>7. live[stager[s].doc] = 0 \/ live[stager[s].doc] \in Range(attempts[stager[s].doc])
      BY <2>2 DEF StagingInv, NamesInOrder
    <2>8. AttemptsAreKept'
      <3> SUFFICES ASSUME NEW d \in Doc, NEW r \in published[d]
                   PROVE  r \in Range(attempts[d]) \union {live'[d]}
        BY <2>2 DEF AttemptsAreKept
      <3>1. r \in Range(attempts[d]) \/ r = live[d]
        BY DEF StagingInv, AttemptsAreKept
      <3> QED BY <2>4, <2>7, <3>1
    <2> QED BY <2>3, <2>5, <2>6, <2>8 DEF StagingInv
  <1>5. ASSUME NEW s \in Stager, WriteRecord(s)
        PROVE  StagingInv'
    <2> DEFINE d == stager[s].doc
    <2>1. /\ d \in Doc /\ d # NoDoc /\ live[d] = 0
          /\ Rest \in [at : {"idle", "locked", "linked", "cleared"}, doc : Doc \union {NoDoc}]
          /\ Rest.at = "idle" /\ Rest.doc = NoDoc
      BY <1>5, StagerType, StagingAssumption DEF StagingInv, NamesInOrder, WriteRecord, Rest
    <2>2. /\ stager' = [stager EXCEPT ![s] = Rest] /\ attempts' = attempts
          /\ live' = [live EXCEPT ![d] = count + 1] /\ count' = count + 1 /\ count < MaxReadings
          /\ published' = [published EXCEPT ![d] = @ \union {count + 1}]
      BY <1>5 DEF WriteRecord
    <2>3. /\ OneStagerEach' /\ stager'[s] = Rest
          /\ \A t \in Stager : t # s => stager'[t] = stager[t] /\ stager[t].doc # d
      BY <2>1, <2>2, LocksStay
    <2>4. count + 1 \in Reading /\ count' \in 0 .. MaxReadings
      BY <2>2, StagingAssumption DEF StagingInv, StagingTypeOK, Reading
    <2> HIDE DEF d
    <2>5. /\ live' \in [Doc -> 0 .. MaxReadings] /\ live'[d] = count + 1
          /\ \A c \in Doc : c # d => live'[c] = live[c]
      BY <2>1, <2>2, <2>4, StagingAssumption DEF StagingInv, StagingTypeOK, Reading
    <2>6. /\ published' \in [Doc -> SUBSET Reading] /\ published'[d] = published[d] \union {count + 1}
          /\ \A c \in Doc : c # d => published'[c] = published[c]
      BY <2>1, <2>2, <2>4 DEF StagingInv, StagingTypeOK
    <2>7. StagingTypeOK'
      BY <2>1, <2>2, <2>4, <2>5, <2>6, StagerMoves DEF StagingInv, StagingTypeOK
    <2>8. NamesInOrder'
      BY <2>1, <2>2, <2>3, <2>5, StagerType DEF StagingInv, NamesInOrder
    <2>9. AttemptsAreKept'
      <3> SUFFICES ASSUME NEW c \in Doc, NEW r \in published'[c]
                   PROVE  r \in Range(attempts[c]) \union {live'[c]}
        BY <2>2 DEF AttemptsAreKept
      <3>1. r \in published[c] => r \in Range(attempts[c]) \/ r = live[c]
        BY DEF StagingInv, AttemptsAreKept
      <3>2. r \in published[c] => r # 0
        BY DEF StagingInv, StagingTypeOK, Reading
      <3> QED BY <2>1, <2>5, <2>6, <3>1, <3>2
    <2> QED BY <2>3, <2>7, <2>8, <2>9 DEF StagingInv
  <1>6. ASSUME NEW s \in Stager, StagerDies(s)
        PROVE  StagingInv'
    <2>1. /\ Rest \in [at : {"idle", "locked", "linked", "cleared"}, doc : Doc \union {NoDoc}]
          /\ Rest.at = "idle" /\ Rest.doc = NoDoc
      BY DEF Rest
    <2>2. stager' = [stager EXCEPT ![s] = Rest] /\ UNCHANGED <<live, attempts, count, published>>
      BY <1>6 DEF StagerDies
    <2>3. /\ OneStagerEach' /\ stager'[s] = Rest /\ \A t \in Stager : t # s => stager'[t] = stager[t]
      BY <2>1, <2>2, LocksStay
    <2>4. StagingTypeOK'
      BY <2>1, <2>2, StagerMoves DEF StagingInv, StagingTypeOK
    <2>5. NamesInOrder'
      BY <2>1, <2>2, <2>3 DEF StagingInv, NamesInOrder
    <2> QED BY <2>2, <2>3, <2>4, <2>5 DEF StagingInv, AttemptsAreKept
  <1> QED BY <1>1, <1>2, <1>3, <1>4, <1>5, <1>6 DEF StagingNext

(* Staging keeps what it published: every reading is the live record of    *)
(* its document or an archived attempt, however stagers of one document    *)
(* race and wherever one of them dies (publish_glm_staging_record).        *)
THEOREM ReadingsAreKept == StagingSpec => []StagingInvariant
  <1>1. StagingInv => StagingInvariant
    BY DEF StagingInv, StagingInvariant
  <1> QED BY <1>1, StagingStarts, StagingSteps, PTL DEF StagingSpec

-----------------------------------------------------------------------------
(* What the audit expects of the live records.                             *)

Busy == {d \in Doc : Locked(d)}

LEMMA BusyGrows ==
  ASSUME StagingInv, NEW s \in Stager, NEW e \in [at : {"idle", "locked", "linked", "cleared"}, doc : Doc \union {NoDoc}],
         e.at = "idle" <=> e.doc = NoDoc, stager' = [stager EXCEPT ![s] = e], stager[s].doc = NoDoc
  PROVE  Busy' = Busy \union {d \in Doc : d = e.doc}
  <1>1. stager'[s] = e /\ \A t \in Stager : t # s => stager'[t] = stager[t]
    BY StagerMoves DEF StagingInv
  <1>2. \A d \in Doc : Locked(d)' <=> Locked(d) \/ d = e.doc
    BY <1>1, StagingAssumption DEF Locked
  <1> QED BY <1>2 DEF Busy

LEMMA BusyShrinks ==
  ASSUME StagingInv, NEW s \in Stager, stager' = [stager EXCEPT ![s] = Rest], stager[s].doc # NoDoc
  PROVE  /\ stager[s].doc \in Busy /\ Busy' = Busy \ {stager[s].doc}
         /\ stager'[s] = Rest
  <1>1. /\ Rest \in [at : {"idle", "locked", "linked", "cleared"}, doc : Doc \union {NoDoc}]
        /\ Rest.at = "idle" /\ Rest.doc = NoDoc
    BY DEF Rest
  <1>2. /\ stager'[s] = Rest
        /\ \A t \in Stager : t # s => stager'[t] = stager[t] /\ stager[t].doc # stager[s].doc
    BY <1>1, LocksStay
  <1>3. stager[s].doc \in Doc
    BY StagerType DEF StagingInv
  <1>4. \A d \in Doc : Locked(d)' <=> Locked(d) /\ d # stager[s].doc
    BY <1>1, <1>2, StagingAssumption DEF Locked
  <1> QED BY <1>2, <1>3, <1>4 DEF Busy, Locked

LEMMA BusyStays ==
  ASSUME StagingInv, NEW s \in Stager, NEW e \in [at : {"idle", "locked", "linked", "cleared"}, doc : Doc \union {NoDoc}],
         e.at = "idle" <=> e.doc = NoDoc, stager' = [stager EXCEPT ![s] = e], e.doc = stager[s].doc
  PROVE  Busy' = Busy
  <1>1. \A t \in Stager : stager'[t].doc = stager[t].doc
    BY StagerMoves DEF StagingInv
  <1> QED BY <1>1 DEF Busy, Locked

LEMMA StagingStepsWrite ==
  ASSUME StagingInv, [StagingNext]_stagingVars
  PROVE  [Record!RecordNext]_Record!recordVars
  <1> USE DEF Record!recordVars
  <1>1. CASE UNCHANGED stagingVars
    <2>1. \A d \in Doc : Locked(d)' <=> Locked(d)
      BY <1>1 DEF stagingVars, Locked
    <2> QED BY <1>1, <2>1 DEF stagingVars
  <1>2. ASSUME NEW s \in Stager, NEW d \in Doc, LockDocument(s, d)
        PROVE  Record!Seize(d)
    <2>1. /\ Enters(d) \in [at : {"idle", "locked", "linked", "cleared"}, doc : Doc \union {NoDoc}]
          /\ Enters(d).at \in {"locked", "cleared"} /\ Enters(d).doc = d
      BY DEF Enters
    <2>2. /\ stager' = [stager EXCEPT ![s] = Enters(d)] /\ stager[s].doc = NoDoc /\ d \notin Busy
          /\ UNCHANGED <<live, count>>
      BY <1>2 DEF LockDocument, Busy, Rest
    <2>3. Busy' = Busy \union {d}
      BY <2>1, <2>2, BusyGrows, StagingAssumption
    <2> QED BY <2>2, <2>3 DEF Record!Seize, Busy
  <1>3. ASSUME NEW s \in Stager, LinkAttempt(s)
        PROVE  UNCHANGED <<live, Busy, count>>
    <2> DEFINE e == [stager[s] EXCEPT !.at = "linked"]
    <2>1. /\ e \in [at : {"idle", "locked", "linked", "cleared"}, doc : Doc \union {NoDoc}]
          /\ e.at = "linked" /\ e.doc = stager[s].doc /\ e.doc # NoDoc
      BY <1>3, StagerType, StagingAssumption DEF StagingInv, LinkAttempt
    <2>2. stager' = [stager EXCEPT ![s] = e] /\ UNCHANGED <<live, count>>
      BY <1>3 DEF LinkAttempt
    <2> HIDE DEF e
    <2> QED BY <2>1, <2>2, BusyStays
  <1>4. ASSUME NEW s \in Stager, UnlinkLive(s)
        PROVE  \E d \in Doc : Record!Clear(d)
    <2> DEFINE e == [stager[s] EXCEPT !.at = "cleared"]
    <2>1. /\ e \in [at : {"idle", "locked", "linked", "cleared"}, doc : Doc \union {NoDoc}]
          /\ e.at = "cleared" /\ e.doc = stager[s].doc /\ e.doc # NoDoc /\ stager[s].doc \in Doc
      BY <1>4, StagerType, StagingAssumption DEF StagingInv, UnlinkLive
    <2>2. /\ stager' = [stager EXCEPT ![s] = e] /\ count' = count
          /\ live' = [live EXCEPT ![stager[s].doc] = 0]
      BY <1>4 DEF UnlinkLive
    <2> HIDE DEF e
    <2>3. Busy' = Busy /\ stager[s].doc \in Busy
      BY <2>1, <2>2, BusyStays DEF Busy, Locked
    <2> QED BY <2>1, <2>2, <2>3 DEF Record!Clear, Busy
  <1>5. ASSUME NEW s \in Stager, WriteRecord(s)
        PROVE  \E d \in Doc : Record!Write(d)
    <2>1. stager[s].doc \in Doc /\ stager[s].doc # NoDoc /\ live[stager[s].doc] = 0
      BY <1>5, StagerType, StagingAssumption DEF StagingInv, NamesInOrder, WriteRecord
    <2>2. stager[s].doc \in Busy /\ Busy' = Busy \ {stager[s].doc}
      BY <1>5, <2>1, BusyShrinks DEF WriteRecord
    <2> QED BY <1>5, <2>1, <2>2 DEF WriteRecord, Record!Write, Busy
  <1>6. ASSUME NEW s \in Stager, StagerDies(s)
        PROVE  \E d \in Doc : Record!Release(d)
    <2>1. stager[s].doc \in Doc /\ stager[s].doc # NoDoc
      BY <1>6, StagerType, StagingAssumption DEF StagingInv, StagerDies
    <2>2. stager[s].doc \in Busy /\ Busy' = Busy \ {stager[s].doc}
      BY <1>6, <2>1, BusyShrinks DEF StagerDies
    <2> QED BY <1>6, <2>1, <2>2 DEF StagerDies, Record!Release, Busy
  <1> QED BY <1>1, <1>2, <1>3, <1>4, <1>5, <1>6 DEF StagingNext, Record!RecordNext, Busy

(* The stagers write the live records as the audit expects of them: under  *)
(* the lock of the document, and never one name over another.              *)
THEOREM StagersImplementRecords == StagingSpec => StagersWriteRecords
  <1>1. StagingInit => Record!RecordInit
    BY StagingAssumption DEF StagingInit, Record!RecordInit, Locked, Rest
  <1> QED BY <1>1, StagingStarts, StagingSteps, StagingStepsWrite, PTL
          DEF StagingSpec, StagersWriteRecords, Record!RecordSpec

(* No stager brings an older reading of a document back over one that the  *)
(* audit has seen: a live record goes, or becomes newer.                   *)
THEOREM LiveReadingsAdvance == StagingSpec => Record!ReadingsAdvance
  <1>1. StagingInv /\ [StagingNext]_stagingVars =>
          [\A d \in Doc : live'[d] \in {0, live[d]} \/ live'[d] > count]_Record!recordVars
    <2> SUFFICES ASSUME StagingInv, [Record!RecordNext]_Record!recordVars
                 PROVE  [\A d \in Doc : live'[d] \in {0, live[d]} \/ live'[d] > count]_Record!recordVars
      BY StagingStepsWrite
    <2>1. live \in [Doc -> 0 .. MaxReadings] /\ count \in Nat
      BY StagingAssumption DEF StagingInv, StagingTypeOK
    <2>2. ASSUME NEW e \in Doc, NEW r, live' = [live EXCEPT ![e] = r], r = 0 \/ r > count
          PROVE  \A d \in Doc : live'[d] \in {0, live[d]} \/ live'[d] > count
      BY <2>1, <2>2
    <2>3. count + 1 > count
      BY <2>1
    <2>4. CASE \E d \in Doc : Record!Seize(d) \/ Record!Release(d)
      BY <2>4 DEF Record!Seize, Record!Release
    <2>5. CASE \E d \in Doc : Record!Clear(d)
      BY <2>2, <2>5 DEF Record!Clear
    <2>6. CASE \E d \in Doc : Record!Write(d)
      BY <2>2, <2>3, <2>6 DEF Record!Write
    <2> QED BY <2>4, <2>5, <2>6 DEF Record!RecordNext
  <1> QED BY <1>1, StagingStarts, StagingSteps, PTL DEF StagingSpec, Record!ReadingsAdvance

-----------------------------------------------------------------------------
(* The threads of a batch.                                                 *)

At(those) == {c \in Candidate : task[c].at \in those}
Publishing(o) == {c \in Candidate : task[c].at = "publishing" /\ task[c].of = o}
Kept == Threshold - 1

(* What a future carries through its phases.                               *)
Carries ==
  \A c \in Candidate :
    /\ task[c].at = "stopping" => task[c].of \in {"quota", "fatal"}
    /\ task[c].at \in {"read", "publishing"} => task[c].of \in {"ok", "rate", "busy", "defect"}
    /\ task[c].at = "returned" => task[c].of \in Answer

(* The counters say how many futures have come how far.                    *)
CountersFit ==
  /\ tally.processed = Cardinality(At({"collected"}))
  /\ tally.staged + tally.errors <= tally.processed
  /\ \A o \in Outcome :
       /\ settled[o] <= Cardinality(At({"publishing", "returned", "collected"}))
       /\ written[o] <= Cardinality(At({"returned", "collected"}))

(* A batch that goes on has had no answer that stops or skips, and a       *)
(* stopped one knows of it, or will when it collects the answer.           *)
StopIsKnown ==
  /\ ~stop =>
       /\ rateStreak < Threshold /\ busyStreak < Threshold
       /\ tally.staged + tally.errors = tally.processed /\ ~tally.quota /\ ~tally.fatal
       /\ \A c \in Candidate : /\ task[c].at # "cancelled"
                               /\ task[c].at = "returned" => task[c].of \in {"staged", "error"}
  /\ stop => \/ tally.quota \/ tally.fatal
             \/ \E c \in Candidate : task[c].at = "returned" /\ task[c].of \in Stopping
  /\ tally.over => \A c \in Candidate : task[c].at \in {"collected", "cancelled"}

(* Error records that are written or on their way, since the last success. *)
AtMostKept(streak) == IF streak < Kept THEN streak ELSE Kept
StreaksCount ==
  /\ written["rate"] + Cardinality(Publishing("rate")) <= Kept * settled["ok"] + AtMostKept(rateStreak)
  /\ written["busy"] + Cardinality(Publishing("busy")) <=
       Kept * (settled["ok"] + settled["rate"] + settled["defect"]) + AtMostKept(busyStreak)

BatchInv == BatchTypeOK /\ Carries /\ CountersFit /\ StopIsKnown /\ StreaksCount

LEMMA CandidatesCounted ==
  ASSUME NEW S \in SUBSET Candidate
  PROVE  /\ IsFiniteSet(S) /\ Cardinality(S) \in 0 .. Candidates
         /\ S # Candidate => Cardinality(S) < Candidates
         /\ S = Candidate => Cardinality(S) = Candidates
  <1>1. IsFiniteSet(Candidate) /\ Cardinality(Candidate) = Candidates
    <2>1. /\ IsFiniteSet(1 .. Candidates)
          /\ Cardinality(1 .. Candidates) = IF 1 > Candidates THEN 0 ELSE Candidates - 1 + 1
      BY FS_Interval, BatchAssumption
    <2> QED BY <2>1, BatchAssumption DEF Candidate
  <1>2. /\ IsFiniteSet(S) /\ Cardinality(S) <= Cardinality(Candidate)
        /\ Cardinality(Candidate) = Cardinality(S) => Candidate = S
    BY <1>1, FS_Subset
  <1>3. Cardinality(S) \in Nat
    BY <1>2, FS_CardinalityType
  <1> QED BY <1>1, <1>2, <1>3, BatchAssumption

LEMMA CardinalityMoves ==
  ASSUME NEW S, IsFiniteSet(S), NEW x
  PROVE  /\ Cardinality(S \union {x}) = IF x \in S THEN Cardinality(S) ELSE Cardinality(S) + 1
         /\ Cardinality(S \ {x}) = IF x \in S THEN Cardinality(S) - 1 ELSE Cardinality(S)
  BY FS_AddElement, FS_RemoveElement

(* A future that moves on is counted among the phases that it enters.      *)
LEMMA Moves ==
  ASSUME BatchTypeOK, NEW c \in Candidate, NEW phase \in Phase, NEW of \in Outcome \union Answer \union {"none"},
         Becomes(c, phase, of)
  PROVE  /\ task' \in [Candidate -> [at : Phase, of : Outcome \union Answer \union {"none"}]]
         /\ task'[c].at = phase /\ task'[c].of = of
         /\ \A b \in Candidate : b # c => task'[b] = task[b]
  BY DEF BatchTypeOK, Becomes

LEMMA MovesCount ==
  ASSUME BatchTypeOK, NEW c \in Candidate, NEW phase \in Phase, NEW of \in Outcome \union Answer \union {"none"},
         Becomes(c, phase, of), NEW P
  PROVE  Cardinality(At(P)') = IF phase \in P
           THEN IF task[c].at \in P THEN Cardinality(At(P)) ELSE Cardinality(At(P)) + 1
           ELSE IF task[c].at \in P THEN Cardinality(At(P)) - 1 ELSE Cardinality(At(P))
  <1>1. IsFiniteSet(At(P)) /\ (c \in At(P) <=> task[c].at \in P)
    BY CandidatesCounted DEF At
  <1>2. At(P)' = IF phase \in P THEN At(P) \union {c} ELSE At(P) \ {c}
    BY Moves DEF At
  <1> QED BY <1>1, <1>2, CardinalityMoves

LEMMA MovesPublishing ==
  ASSUME BatchTypeOK, NEW c \in Candidate, NEW phase \in Phase, NEW of \in Outcome \union Answer \union {"none"},
         Becomes(c, phase, of), NEW o
  PROVE  Cardinality(Publishing(o)') =
           Cardinality(Publishing(o))
           - (IF task[c].at = "publishing" /\ task[c].of = o THEN 1 ELSE 0)
           + (IF phase = "publishing" /\ of = o THEN 1 ELSE 0)
  <1> DEFINE was == task[c].at = "publishing" /\ task[c].of = o
             is == phase = "publishing" /\ of = o
             n == Cardinality(Publishing(o))
  <1>1. IsFiniteSet(Publishing(o)) /\ n \in Nat /\ (c \in Publishing(o) <=> was)
    BY CandidatesCounted, BatchAssumption DEF Publishing
  <1>2. Publishing(o)' = IF is THEN Publishing(o) \union {c} ELSE Publishing(o) \ {c}
    BY Moves DEF Publishing
  <1>3. Cardinality(Publishing(o)') = IF is THEN IF was THEN n ELSE n + 1
                                            ELSE IF was THEN n - 1 ELSE n
    <2>1. CASE is
      <3>1. Publishing(o)' = Publishing(o) \union {c}
        BY <1>2, <2>1
      <3> QED BY <1>1, <2>1, <3>1, CardinalityMoves
    <2>2. CASE ~is
      <3>1. Publishing(o)' = Publishing(o) \ {c}
        BY <1>2, <2>2
      <3> QED BY <1>1, <2>2, <3>1, CardinalityMoves
    <2> QED BY <2>1, <2>2
  <1> HIDE DEF was, is, n
  <1>4. Cardinality(Publishing(o)') = n - (IF was THEN 1 ELSE 0) + (IF is THEN 1 ELSE 0)
    BY <1>1, <1>3
  <1> QED BY <1>4 DEF was, is, n

LEMMA BatchStarts == BatchInit => BatchInv
  <1> SUFFICES ASSUME BatchInit PROVE BatchInv
    OBVIOUS
  <1>1. \A c \in Candidate : task[c] = [at |-> "queued", of |-> "none"]
    BY DEF BatchInit
  <1>2. \A P : "queued" \notin P => At(P) = {}
    BY <1>1 DEF At
  <1>3. \A o : Publishing(o) = {}
    BY <1>1 DEF Publishing
  <1>4. Cardinality({}) = 0
    BY FS_EmptySet
  <1>5. BatchTypeOK
    <2>1. Cardinality(Active) = 0
      BY <1>1, <1>4 DEF Active
    <2>2. /\ task \in [Candidate -> [at : Phase, of : Outcome \union Answer \union {"none"}]]
          /\ written \in [Outcome -> 0 .. Candidates] /\ settled \in [Outcome -> 0 .. Candidates]
      BY BatchAssumption DEF BatchInit, Phase
    <2>3. tally \in [processed : 0 .. Candidates, staged : 0 .. Candidates, errors : 0 .. Candidates,
                     remaining : 0 .. Candidates, quota : BOOLEAN, fatal : BOOLEAN, over : BOOLEAN]
      <3>1. tally = [processed |-> 0, staged |-> 0, errors |-> 0, remaining |-> 0,
                     quota |-> FALSE, fatal |-> FALSE, over |-> FALSE]
        BY DEF BatchInit
      <3>2. 0 \in 0 .. Candidates
        BY BatchAssumption
      <3> QED BY <3>1, <3>2
    <2>4. stop \in BOOLEAN
      BY DEF BatchInit
    <2>5. rateStreak \in 0 .. Threshold /\ busyStreak \in 0 .. Threshold
      <3>1. rateStreak = 0 /\ busyStreak = 0
        BY DEF BatchInit
      <3> QED BY <3>1, BatchAssumption
    <2> QED BY <2>1, <2>2, <2>3, <2>4, <2>5, BatchAssumption DEF BatchTypeOK, Active
  <1>6. Carries
    BY <1>1 DEF Carries
  <1>7. CountersFit
    <2>1. /\ At({"collected"}) = {} /\ At({"publishing", "returned", "collected"}) = {}
          /\ At({"returned", "collected"}) = {}
      BY <1>2
    <2> QED BY <1>4, <2>1 DEF CountersFit, BatchInit
  <1>8. StopIsKnown
    BY <1>1, BatchAssumption DEF StopIsKnown, BatchInit
  <1>9. StreaksCount
    <2>1. Kept \in Nat /\ Kept * 0 = 0 /\ AtMostKept(0) \in Nat
      BY BatchAssumption DEF Kept, AtMostKept
    <2>2. written = [o \in Outcome |-> 0] /\ settled = [o \in Outcome |-> 0] /\ rateStreak = 0 /\ busyStreak = 0
      BY DEF BatchInit
    <2>3. \A o \in {"ok", "rate", "busy", "defect"} : written[o] = 0 /\ settled[o] = 0
      BY <2>2 DEF Outcome
    <2>4. settled["ok"] + settled["rate"] + settled["defect"] = 0
      BY <2>3
    <2> QED BY <1>3, <1>4, <2>1, <2>2, <2>3, <2>4 DEF StreaksCount
  <1> QED BY <1>5, <1>6, <1>7, <1>8, <1>9 DEF BatchInv

(* What a future may become, and what then is left to show.                *)
Tally == [processed : 0 .. Candidates, staged : 0 .. Candidates, errors : 0 .. Candidates,
          remaining : 0 .. Candidates, quota : BOOLEAN, fatal : BOOLEAN, over : BOOLEAN]
Running == {"reading", "read", "publishing", "stopping"}

LEMMA MoveIsTyped ==
  ASSUME BatchInv, NEW c \in Candidate, NEW phase \in Phase, NEW of \in Outcome \union Answer \union {"none"},
         Becomes(c, phase, of), phase \in Running => task[c].at \in Running \/ Cardinality(Active) < Workers,
         stop' \in BOOLEAN, rateStreak' \in 0 .. Threshold, busyStreak' \in 0 .. Threshold, tally' \in Tally,
         written' \in [Outcome -> 0 .. Candidates], settled' \in [Outcome -> 0 .. Candidates]
  PROVE  BatchTypeOK'
  <1>1. Active = At(Running) /\ Cardinality(Active) <= Workers /\ Cardinality(Active) \in Nat
    <2>1. Active = At(Running) /\ At(Running) \in SUBSET Candidate
      BY DEF Active, At, Running
    <2> QED BY <2>1, CandidatesCounted, BatchAssumption DEF BatchInv, BatchTypeOK, Active
  <1>2. Cardinality(At(Running)') = IF phase \in Running
          THEN IF task[c].at \in Running THEN Cardinality(At(Running)) ELSE Cardinality(At(Running)) + 1
          ELSE IF task[c].at \in Running THEN Cardinality(At(Running)) - 1 ELSE Cardinality(At(Running))
    BY MovesCount DEF BatchInv
  <1>3. Cardinality(At(Running)') <= Workers
    <2> DEFINE n == Cardinality(At(Running))  in == phase \in Running  was == task[c].at \in Running
    <2>1. n \in Nat /\ n <= Workers /\ (in => was \/ n < Workers)
      BY <1>1
    <2>2. Cardinality(At(Running)') = IF in THEN IF was THEN n ELSE n + 1 ELSE IF was THEN n - 1 ELSE n
      BY <1>2
    <2> HIDE DEF n, in, was
    <2> QED BY <2>1, <2>2, BatchAssumption
  <1>4. task' \in [Candidate -> [at : Phase, of : Outcome \union Answer \union {"none"}]]
    BY Moves DEF BatchInv
  <1>5. At(Running)' = {b \in Candidate : task'[b].at \in {"reading", "read", "publishing", "stopping"}}
    BY DEF At, Running
  <1> QED BY <1>3, <1>4, <1>5 DEF BatchTypeOK, Tally

LEMMA MoveCarries ==
  ASSUME BatchInv, NEW c \in Candidate, NEW phase \in Phase, NEW of \in Outcome \union Answer \union {"none"},
         Becomes(c, phase, of),
         phase = "stopping" => of \in {"quota", "fatal"},
         phase \in {"read", "publishing"} => of \in {"ok", "rate", "busy", "defect"},
         phase = "returned" => of \in Answer
  PROVE  Carries'
  BY Moves DEF BatchInv, Carries

(* Before a decision nothing is counted.                                   *)
LEMMA MoveBeforeCounts ==
  ASSUME BatchInv, NEW c \in Candidate, NEW phase \in Phase, NEW of \in Outcome \union Answer \union {"none"},
         Becomes(c, phase, of), task[c].at \notin {"publishing", "returned", "collected"},
         phase \notin {"publishing", "collected"}, UNCHANGED <<tally, written, settled>>
  PROVE  /\ CountersFit'
         /\ \A o : Cardinality(Publishing(o)') = Cardinality(Publishing(o))
  <1> DEFINE one == {"collected"}  two == {"returned", "collected"}  three == {"publishing", "returned", "collected"}
  <1>1. /\ Cardinality(At(one)') = Cardinality(At(one))
        /\ Cardinality(At(two)') >= Cardinality(At(two))
        /\ Cardinality(At(three)') >= Cardinality(At(three))
        /\ Cardinality(At(two)) \in Nat /\ Cardinality(At(three)) \in Nat
        /\ Cardinality(At(two)') \in Nat /\ Cardinality(At(three)') \in Nat
    <2>1. \A P : At(P) \in SUBSET Candidate
      BY DEF At
    <2>2. \A P : Cardinality(At(P)) \in Nat
      BY <2>1, CandidatesCounted, BatchAssumption
    <2> HIDE DEF one, two, three
    <2>3. \A P : Cardinality(At(P)') = IF phase \in P
            THEN IF task[c].at \in P THEN Cardinality(At(P)) ELSE Cardinality(At(P)) + 1
            ELSE IF task[c].at \in P THEN Cardinality(At(P)) - 1 ELSE Cardinality(At(P))
      BY MovesCount DEF BatchInv
    <2>4. task[c].at \notin one /\ task[c].at \notin two /\ task[c].at \notin three /\ phase \notin one
      BY DEF one, two, three
    <2> QED BY <2>2, <2>3, <2>4
  <1>2. CountersFit'
    BY <1>1 DEF BatchInv, BatchTypeOK, CountersFit
  <1>3. \A o : Cardinality(Publishing(o)') = Cardinality(Publishing(o))
    <2> SUFFICES ASSUME NEW o PROVE Cardinality(Publishing(o)') = Cardinality(Publishing(o))
      OBVIOUS
    <2>1. Cardinality(Publishing(o)) \in Nat
      <3>1. Publishing(o) \in SUBSET Candidate
        BY DEF Publishing
      <3> QED BY <3>1, CandidatesCounted, BatchAssumption
    <2>2. Cardinality(Publishing(o)') =
            Cardinality(Publishing(o))
            - (IF task[c].at = "publishing" /\ task[c].of = o THEN 1 ELSE 0)
            + (IF phase = "publishing" /\ of = o THEN 1 ELSE 0)
      BY MovesPublishing DEF BatchInv
    <2> QED BY <2>1, <2>2
  <1> QED BY <1>2, <1>3

LEMMA MoveKnowsStop ==
  ASSUME BatchInv, NEW c \in Candidate, NEW phase \in Phase, NEW of \in Outcome \union Answer \union {"none"},
         Becomes(c, phase, of), tally' = tally, task[c].at \notin {"returned", "collected", "cancelled"},
         ~stop' => /\ ~stop /\ rateStreak' < Threshold /\ busyStreak' < Threshold
                   /\ phase # "cancelled" /\ (phase = "returned" => of \in {"staged", "error"}),
         stop' => stop \/ (phase = "returned" /\ of \in Stopping)
  PROVE  StopIsKnown'
  <1>1. /\ task'[c].at = phase /\ task'[c].of = of
        /\ \A b \in Candidate : b # c => task'[b] = task[b]
    BY Moves DEF BatchInv
  <1>2. ~tally.over
    BY DEF BatchInv, StopIsKnown
  <1>3. ~stop' =>
       /\ rateStreak' < Threshold /\ busyStreak' < Threshold
       /\ tally'.staged + tally'.errors = tally'.processed /\ ~tally'.quota /\ ~tally'.fatal
       /\ \A b \in Candidate : /\ task'[b].at # "cancelled"
                               /\ task'[b].at = "returned" => task'[b].of \in {"staged", "error"}
    BY <1>1 DEF BatchInv, StopIsKnown
  <1>4. stop' => \/ tally'.quota \/ tally'.fatal
                 \/ \E b \in Candidate : task'[b].at = "returned" /\ task'[b].of \in Stopping
    BY <1>1 DEF BatchInv, StopIsKnown
  <1> QED BY <1>2, <1>3, <1>4 DEF StopIsKnown

(* A streak that grows is one more record on its way, a success makes room *)
(* for as many as the threshold leaves.                                    *)
LEMMA KeptRoom ==
  ASSUME NEW n \in Nat, NEW m \in Nat, m \in {n, n + 1}
  PROVE  /\ Kept \in Nat /\ Kept * n \in Nat /\ Kept * m \in Nat
         /\ Kept * m = IF m = n THEN Kept * n ELSE Kept * n + Kept
  <1>1. Kept \in Nat
    BY BatchAssumption DEF Kept
  <1>2. Kept * (n + 1) = Kept * n + Kept /\ Kept * n \in Nat
    BY <1>1
  <1> QED BY <1>1, <1>2

LEMMA BatchTypes ==
  ASSUME BatchInv
  PROVE  /\ stop \in BOOLEAN /\ rateStreak \in 0 .. Threshold /\ busyStreak \in 0 .. Threshold /\ tally \in Tally
         /\ written \in [Outcome -> 0 .. Candidates] /\ settled \in [Outcome -> 0 .. Candidates]
         /\ \A c \in Candidate : task[c] \in [at : Phase, of : Outcome \union Answer \union {"none"}]
  BY DEF BatchInv, BatchTypeOK, Tally

LEMMA TakeStep ==
  ASSUME BatchInv, NEW c \in Candidate, TakeTask(c)
  PROVE  BatchInv'
  <1>1. PICK phase \in {"returned", "reading"}, of \in {"skipped", "none"} :
          /\ Becomes(c, phase, of) /\ (phase = "returned" => stop /\ of = "skipped")
          /\ (stop <=> phase = "returned")
    BY DEF TakeTask
  <1>2. /\ phase \in Phase /\ of \in Outcome \union Answer \union {"none"}
        /\ task[c].at = "queued" /\ Cardinality(Active) < Workers
        /\ UNCHANGED <<rateStreak, busyStreak, tally, written, settled>> /\ stop' = stop
    BY DEF Phase, Answer, TakeTask, streaks
  <1>3. BatchTypeOK'
    BY <1>1, <1>2, BatchTypes, MoveIsTyped
  <1>4. Carries'
    BY <1>1, <1>2, MoveCarries DEF Answer
  <1>5. CountersFit' /\ \A o : Cardinality(Publishing(o)') = Cardinality(Publishing(o))
    BY <1>1, <1>2, MoveBeforeCounts
  <1>6. StopIsKnown'
    <2>1. ~stop => rateStreak < Threshold /\ busyStreak < Threshold
      BY DEF BatchInv, StopIsKnown
    <2> QED BY <1>1, <1>2, <2>1, MoveKnowsStop
  <1>7. StreaksCount'
    BY <1>2, <1>5 DEF BatchInv, StreaksCount, AtMostKept, Kept
  <1> QED BY <1>3, <1>4, <1>5, <1>6, <1>7 DEF BatchInv

LEMMA ReadStep ==
  ASSUME BatchInv, NEW c \in Candidate, ReadDocument(c)
  PROVE  BatchInv'
  <1>1. PICK o \in Outcome : Becomes(c, IF o \in {"quota", "fatal"} THEN "stopping" ELSE "read", o)
    BY DEF ReadDocument
  <1> DEFINE phase == IF o \in {"quota", "fatal"} THEN "stopping" ELSE "read"
  <1>2. /\ phase \in Phase /\ o \in Outcome \union Answer \union {"none"} /\ phase \in {"stopping", "read"}
        /\ (phase = "stopping" => o \in {"quota", "fatal"})
        /\ (phase = "read" => o \in {"ok", "rate", "busy", "defect"})
        /\ task[c].at = "reading" /\ task[c].at \in Running
        /\ UNCHANGED <<rateStreak, busyStreak, tally, written, settled>> /\ stop' = stop /\ Becomes(c, phase, o)
    BY <1>1 DEF Phase, Outcome, ReadDocument, streaks, Running
  <1> HIDE DEF phase
  <1>3. BatchTypeOK'
    BY <1>2, BatchTypes, MoveIsTyped
  <1>4. Carries'
    BY <1>2, MoveCarries
  <1>5. CountersFit' /\ \A p : Cardinality(Publishing(p)') = Cardinality(Publishing(p))
    BY <1>2, MoveBeforeCounts
  <1>6. StopIsKnown'
    <2>1. ~stop => rateStreak < Threshold /\ busyStreak < Threshold
      BY DEF BatchInv, StopIsKnown
    <2> QED BY <1>2, <2>1, MoveKnowsStop
  <1>7. StreaksCount'
    BY <1>2, <1>5 DEF BatchInv, StreaksCount, AtMostKept, Kept
  <1> QED BY <1>3, <1>4, <1>5, <1>6, <1>7 DEF BatchInv

LEMMA HaltStep ==
  ASSUME BatchInv, NEW c \in Candidate, HaltBatch(c)
  PROVE  BatchInv'
  <1> DEFINE of == task[c].of
  <1>1. /\ task[c].at = "stopping" /\ of \in {"quota", "fatal"} /\ Becomes(c, "returned", of) /\ stop' = TRUE
        /\ UNCHANGED <<rateStreak, busyStreak, tally, written, settled>>
    BY DEF BatchInv, Carries, HaltBatch, streaks
  <1>2. /\ "returned" \in Phase /\ of \in Outcome \union Answer \union {"none"} /\ of \in Answer /\ of \in Stopping
        /\ "returned" \notin Running
    BY <1>1 DEF Phase, Outcome, Answer, Stopping, Running
  <1> HIDE DEF of
  <1>3. BatchTypeOK'
    BY <1>1, <1>2, BatchTypes, MoveIsTyped
  <1>4. Carries'
    BY <1>1, <1>2, MoveCarries
  <1>5. CountersFit' /\ \A p : Cardinality(Publishing(p)') = Cardinality(Publishing(p))
    BY <1>1, <1>2, MoveBeforeCounts
  <1>6. StopIsKnown'
    BY <1>1, <1>2, MoveKnowsStop
  <1>7. StreaksCount'
    BY <1>1, <1>5 DEF BatchInv, StreaksCount, AtMostKept, Kept
  <1> QED BY <1>3, <1>4, <1>5, <1>6, <1>7 DEF BatchInv

Fits(w, p, n, s) == w + p <= Kept * n + AtMostKept(s)
Grows(n, m, s, t, p, q) ==
  \/ m = n + 1 /\ t = 0 /\ q = p
  \/ m = n /\ t = s /\ q = p
  \/ m = n /\ t = s + 1 /\ q = p
  \/ m = n /\ t = s + 1 /\ q = p + 1 /\ t < Threshold

LEMMA Room ==
  ASSUME NEW w \in Nat, NEW p \in Nat, NEW q \in Nat, NEW n \in Nat, NEW m \in Nat, NEW s \in Nat, NEW t \in Nat,
         Fits(w, p, n, s), s < Threshold, Grows(n, m, s, t, p, q)
  PROVE  Fits(w, q, m, t)
  <1> USE DEF Fits, Grows
  <1>1. /\ Kept \in Nat /\ Threshold = Kept + 1 /\ Kept * n \in Nat
        /\ m = n + 1 => Kept * m = Kept * n + Kept
    <2>1. Kept \in Nat /\ Threshold = Kept + 1
      BY BatchAssumption DEF Kept
    <2> QED BY <2>1, KeptRoom
  <1> DEFINE k == Kept * n
  <1>2. /\ k \in Nat /\ w + p <= k + AtMostKept(s)
        /\ Kept * m = IF m = n THEN k ELSE IF m = n + 1 THEN k + Kept ELSE Kept * m
    BY <1>1
  <1> DEFINE j == Kept * m
  <1> HIDE DEF k, j
  <1>3. j = IF m = n THEN k ELSE k + Kept
    BY <1>2 DEF j
  <1>4. w + q <= j + AtMostKept(t)
    BY <1>1, <1>2, <1>3 DEF AtMostKept
  <1> QED BY <1>4 DEF j

LEMMA DecideStep ==
  ASSUME BatchInv, NEW c \in Candidate, DecideRecord(c)
  PROVE  BatchInv'
  <1> DEFINE o == task[c].of
  <1>1. /\ task[c].at = "read" /\ o \in {"ok", "rate", "busy", "defect"} /\ tally' = tally /\ written' = written
        /\ o \in Outcome
    BY DEF BatchInv, Carries, DecideRecord, Outcome
  <1>2. CASE stop
    <2>1. /\ Becomes(c, "returned", "skipped") /\ UNCHANGED <<rateStreak, busyStreak, settled>> /\ stop' = stop
          /\ "returned" \in Phase /\ "skipped" \in Answer /\ "returned" \notin Running
      BY <1>2 DEF DecideRecord, streaks, Phase, Answer, Running
    <2>2. BatchTypeOK'
      BY <1>1, <2>1, BatchTypes, MoveIsTyped
    <2>3. Carries'
      BY <2>1, MoveCarries
    <2>4. CountersFit' /\ \A p : Cardinality(Publishing(p)') = Cardinality(Publishing(p))
      BY <1>1, <2>1, MoveBeforeCounts
    <2>5. StopIsKnown'
      BY <1>1, <1>2, <2>1, MoveKnowsStop
    <2>6. StreaksCount'
      BY <1>1, <2>1, <2>4 DEF BatchInv, StreaksCount, AtMostKept, Kept
    <2> QED BY <2>2, <2>3, <2>4, <2>5, <2>6 DEF BatchInv
  <1>3. CASE ~stop
    <2>1. PICK phase \in {"returned", "publishing"}, of \in {o, "dead", "saturated"} :
            /\ Becomes(c, phase, of)
            /\ \/ phase = "returned" /\ of = "dead" /\ stop' = TRUE /\ o = "rate"
               \/ phase = "returned" /\ of = "saturated" /\ stop' = TRUE /\ o = "busy"
               \/ /\ phase = "publishing" /\ of = o /\ stop' = stop
                  /\ ~(o = "rate" /\ rateStreak' >= Threshold) /\ ~(o = "busy" /\ busyStreak' >= Threshold)
      BY <1>3 DEF DecideRecord
    <2>2. /\ rateStreak' = NewRate(o) /\ busyStreak' = NewBusy(o)
          /\ settled' = [settled EXCEPT ![o] = @ + 1]
      BY <1>3 DEF DecideRecord
    <2> HIDE DEF o
    <2>3. /\ phase \in Phase /\ of \in Outcome \union Answer \union {"none"} /\ task[c].at \in Running
          /\ (phase = "returned" => of \in Stopping /\ of \in Answer /\ of # o)
          /\ (phase = "publishing" => of = o)
      BY <1>1, <2>1 DEF Phase, Answer, Stopping, Running, Outcome
    <2>4. /\ rateStreak \in Nat /\ busyStreak \in Nat /\ rateStreak < Threshold /\ busyStreak < Threshold
          /\ \A p \in Outcome : settled[p] \in Nat
      BY <1>3, BatchAssumption, BatchTypes DEF BatchInv, StopIsKnown
    <2>5. /\ rateStreak' \in 0 .. Threshold /\ busyStreak' \in 0 .. Threshold
          /\ rateStreak' \in Nat /\ busyStreak' \in Nat
      BY <2>2, <2>4, BatchAssumption DEF NewRate, NewBusy
    <2>6. \A P : Cardinality(At(P)') = IF phase \in P
            THEN IF task[c].at \in P THEN Cardinality(At(P)) ELSE Cardinality(At(P)) + 1
            ELSE IF task[c].at \in P THEN Cardinality(At(P)) - 1 ELSE Cardinality(At(P))
      BY <2>1, <2>3, MovesCount DEF BatchInv
    <2>7. \A P : At(P) \in SUBSET Candidate /\ At(P)' \in SUBSET Candidate
      BY DEF At
    <2>8. \A P : Cardinality(At(P)) \in 0 .. Candidates /\ Cardinality(At(P)') \in 0 .. Candidates
      BY <2>7, CandidatesCounted
    <2>9. CountersFit'
      <3> DEFINE two == {"returned", "collected"}  three == {"publishing", "returned", "collected"}
      <3>1. Cardinality(At({"collected"})') = Cardinality(At({"collected"}))
        BY <1>1, <2>3, <2>6, <2>1
      <3>2. Cardinality(At(two)') >= Cardinality(At(two))
        BY <1>1, <2>3, <2>6, <2>8, <2>1
      <3>3. Cardinality(At(three)') = Cardinality(At(three)) + 1
        BY <1>1, <2>3, <2>6, <2>1
      <3>4. \A p \in Outcome : settled[p] <= Cardinality(At(three)) /\ written[p] <= Cardinality(At(two))
                               /\ written[p] \in Nat
        BY BatchTypes, BatchAssumption DEF BatchInv, CountersFit
      <3>5. \A p \in Outcome : settled'[p] <= settled[p] + 1
        BY <2>2, <2>4, BatchTypes
      <3>6. \A p \in Outcome : settled'[p] \in Nat
        BY <2>2, <2>4, BatchTypes
      <3> HIDE DEF two, three
      <3>7. \A p \in Outcome : settled'[p] <= Cardinality(At(three)') /\ written'[p] <= Cardinality(At(two)')
        BY <1>1, <2>4, <2>8, <3>2, <3>3, <3>4, <3>5, <3>6
      <3> QED BY <1>1, <3>1, <3>7 DEF BatchInv, CountersFit, two, three
    <2>10. settled' \in [Outcome -> 0 .. Candidates]
      <3>1. \A p \in Outcome : settled'[p] \in Nat /\ settled'[p] <= Candidates
        BY <2>2, <2>4, <2>8, <2>9, BatchTypes, BatchAssumption DEF CountersFit
      <3>2. settled' = [p \in Outcome |-> settled'[p]]
        BY <2>2, BatchTypes
      <3>3. \A p \in Outcome : settled'[p] \in 0 .. Candidates
        BY <3>1, BatchAssumption
      <3> QED BY <3>2, <3>3
    <2>11. BatchTypeOK'
      <3>1. stop' \in BOOLEAN
        BY <2>1, BatchTypes
      <3> QED BY <1>1, <2>1, <2>3, <2>5, <2>10, <3>1, BatchTypes, MoveIsTyped
    <2>12. Carries'
      BY <1>1, <2>1, <2>3, MoveCarries
    <2>13. StopIsKnown'
      <3>1. ~stop' => rateStreak' < Threshold /\ busyStreak' < Threshold /\ phase = "publishing"
        BY <1>3, <2>1, <2>2, <2>4, BatchAssumption DEF NewRate, NewBusy
      <3> QED BY <1>1, <1>3, <2>1, <2>3, <3>1, MoveKnowsStop
    <2>14. StreaksCount'
      <3> DEFINE ok == settled["ok"]  rest == settled["ok"] + settled["rate"] + settled["defect"]
                 ok1 == settled'["ok"]  rest1 == settled'["ok"] + settled'["rate"] + settled'["defect"]
                 pr == Cardinality(Publishing("rate"))  pb == Cardinality(Publishing("busy"))
                 pr1 == Cardinality(Publishing("rate")')  pb1 == Cardinality(Publishing("busy")')
      <3>1. pr \in Nat /\ pb \in Nat
        <4>1. \A p : Publishing(p) \in SUBSET Candidate
          BY DEF Publishing
        <4> QED BY <4>1, CandidatesCounted
      <3>2. /\ pr1 = pr + (IF phase = "publishing" /\ o = "rate" THEN 1 ELSE 0)
            /\ pb1 = pb + (IF phase = "publishing" /\ o = "busy" THEN 1 ELSE 0)
        <4>1. \A p : Cardinality(Publishing(p)') =
                  Cardinality(Publishing(p))
                  - (IF task[c].at = "publishing" /\ task[c].of = p THEN 1 ELSE 0)
                  + (IF phase = "publishing" /\ of = p THEN 1 ELSE 0)
          BY <2>1, <2>3, MovesPublishing DEF BatchInv
        <4> QED BY <1>1, <2>3, <3>1, <4>1
      <3>3. /\ ok \in Nat /\ rest \in Nat /\ ok1 \in Nat /\ rest1 \in Nat
            /\ ok1 = IF o = "ok" THEN ok + 1 ELSE ok
            /\ rest1 = IF o = "busy" THEN rest ELSE rest + 1
        <4>1. \A p \in Outcome : settled'[p] = IF p = o THEN settled[p] + 1 ELSE settled[p]
          BY <2>2, BatchTypes
        <4>2. {"ok", "rate", "busy", "defect"} \subseteq Outcome
          BY DEF Outcome
        <4> QED BY <1>1, <2>4, <4>1, <4>2
      <3>4. /\ written["rate"] \in Nat /\ written["busy"] \in Nat
            /\ Fits(written["rate"], pr, ok, rateStreak)
            /\ Fits(written["busy"], pb, rest, busyStreak)
        BY BatchTypes, BatchAssumption DEF BatchInv, StreaksCount, Outcome, Fits
      <3> HIDE DEF ok, rest, ok1, rest1, pr, pb, pr1, pb1
      <3>5. Grows(ok, ok1, rateStreak, rateStreak', pr, pr1)
        BY <1>1, <2>1, <2>2, <2>4, <2>5, <3>1, <3>2, <3>3, BatchAssumption DEF NewRate, Grows
      <3>6. Grows(rest, rest1, busyStreak, busyStreak', pb, pb1)
        BY <1>1, <2>1, <2>2, <2>4, <2>5, <3>1, <3>2, <3>3, BatchAssumption DEF NewBusy, Grows
      <3>7. pr1 \in Nat /\ pb1 \in Nat
        BY <3>1, <3>2
      <3>8. Fits(written["rate"], pr1, ok1, rateStreak')
        BY <2>4, <2>5, <3>1, <3>3, <3>4, <3>5, <3>7, Room
      <3>9. Fits(written["busy"], pb1, rest1, busyStreak')
        BY <2>4, <2>5, <3>1, <3>3, <3>4, <3>6, <3>7, Room
      <3> QED BY <1>1, <3>8, <3>9 DEF StreaksCount, Fits, AtMostKept, Kept, ok1, rest1, pr1, pb1
    <2> QED BY <2>9, <2>11, <2>12, <2>13, <2>14 DEF BatchInv
  <1> QED BY <1>2, <1>3

LEMMA PublishStep ==
  ASSUME BatchInv, NEW c \in Candidate, PublishRecord(c)
  PROVE  BatchInv'
  <1> DEFINE o == task[c].of
  <1>1. /\ task[c].at = "publishing" /\ o \in {"ok", "rate", "busy", "defect"} /\ o \in Outcome
        /\ UNCHANGED <<stop, rateStreak, busyStreak, tally, settled>>
    BY DEF BatchInv, Carries, PublishRecord, streaks, Outcome
  <1>2. PICK of \in {"staged", "error"} :
          /\ Becomes(c, "returned", of)
          /\ written' \in {written, [written EXCEPT ![o] = @ + 1]}
    BY DEF PublishRecord
  <1>3. /\ "returned" \in Phase /\ of \in Answer /\ "returned" \notin Running
        /\ of \in Outcome \union Answer \union {"none"}
    BY DEF Phase, Answer, Running
  <1>4. \A P : Cardinality(At(P)') = IF "returned" \in P
          THEN IF "publishing" \in P THEN Cardinality(At(P)) ELSE Cardinality(At(P)) + 1
          ELSE IF "publishing" \in P THEN Cardinality(At(P)) - 1 ELSE Cardinality(At(P))
    BY <1>1, <1>2, <1>3, MovesCount DEF BatchInv
  <1>5. \A P : Cardinality(At(P)) \in 0 .. Candidates /\ Cardinality(At(P)') \in 0 .. Candidates
    <2>1. \A P : At(P) \in SUBSET Candidate /\ At(P)' \in SUBSET Candidate
      BY DEF At
    <2> QED BY <2>1, CandidatesCounted
  <1>6. \A p \in Outcome : written[p] \in Nat /\ settled[p] \in Nat
    BY BatchTypes, BatchAssumption
  <1>7. /\ \A p \in Outcome : p # o => written'[p] = written[p]
        /\ written'[o] \in {written[o], written[o] + 1}
        /\ written' = [p \in Outcome |-> written'[p]]
    BY <1>1, <1>2, BatchTypes
  <1> HIDE DEF o
  <1>8. CountersFit'
    <2> DEFINE two == {"returned", "collected"}  three == {"publishing", "returned", "collected"}
    <2>1. /\ Cardinality(At({"collected"})') = Cardinality(At({"collected"}))
          /\ Cardinality(At(two)') = Cardinality(At(two)) + 1
          /\ Cardinality(At(three)') = Cardinality(At(three))
      BY <1>4
    <2>2. \A p \in Outcome : settled[p] <= Cardinality(At(three)) /\ written[p] <= Cardinality(At(two))
      BY DEF BatchInv, CountersFit
    <2> HIDE DEF two, three
    <2>3. \A p \in Outcome : settled'[p] <= Cardinality(At(three)') /\ written'[p] <= Cardinality(At(two)')
      <3>1. \A p \in Outcome : written'[p] \in Nat /\ written'[p] <= written[p] + 1
        BY <1>6, <1>7
      <3> QED BY <1>1, <1>5, <1>6, <2>1, <2>2, <3>1
    <2> QED BY <1>1, <2>1, <2>3 DEF BatchInv, CountersFit, two, three
  <1>9. BatchTypeOK'
    <2>1. \A p \in Outcome : written'[p] \in 0 .. Candidates
      <3>1. \A p \in Outcome : written'[p] \in Nat
        BY <1>6, <1>7
      <3>2. \A p \in Outcome : written'[p] <= Cardinality(At({"returned", "collected"})')
        BY <1>8 DEF CountersFit
      <3> QED BY <1>5, <3>1, <3>2, BatchAssumption
    <2>2. written' \in [Outcome -> 0 .. Candidates]
      BY <1>7, <2>1
    <2> QED BY <1>1, <1>2, <1>3, <2>2, BatchTypes, MoveIsTyped
  <1>10. Carries'
    BY <1>2, <1>3, MoveCarries
  <1>11. StopIsKnown'
    <2>1. ~stop => rateStreak < Threshold /\ busyStreak < Threshold
      BY DEF BatchInv, StopIsKnown
    <2> QED BY <1>1, <1>2, <1>3, <2>1, MoveKnowsStop
  <1>12. StreaksCount'
    <2>1. \A p : Cardinality(Publishing(p)') =
             Cardinality(Publishing(p)) - (IF p = o THEN 1 ELSE 0)
      <3>1. \A p : Cardinality(Publishing(p)) \in Nat
        <4>1. \A p : Publishing(p) \in SUBSET Candidate
          BY DEF Publishing
        <4> QED BY <4>1, CandidatesCounted
      <3>2. \A p : Cardinality(Publishing(p)') =
              Cardinality(Publishing(p))
              - (IF task[c].at = "publishing" /\ task[c].of = p THEN 1 ELSE 0)
              + (IF "returned" = "publishing" /\ of = p THEN 1 ELSE 0)
        BY <1>2, <1>3, MovesPublishing DEF BatchInv
      <3> QED BY <1>1, <3>1, <3>2 DEF o
    <2>2. \A p : Cardinality(Publishing(p)) \in Nat
      <3>1. \A p : Publishing(p) \in SUBSET Candidate
        BY DEF Publishing
      <3> QED BY <3>1, CandidatesCounted
    <2>3. \A p \in Outcome :
            written'[p] + Cardinality(Publishing(p)') <= written[p] + Cardinality(Publishing(p))
      BY <1>6, <1>7, <2>1, <2>2
    <2>4. \A p \in Outcome : written'[p] + Cardinality(Publishing(p)') \in Int
      BY <1>6, <1>7, <2>1, <2>2
    <2> DEFINE x == Kept * settled["ok"] + AtMostKept(rateStreak)
               y == Kept * (settled["ok"] + settled["rate"] + settled["defect"]) + AtMostKept(busyStreak)
    <2>5. /\ written["rate"] + Cardinality(Publishing("rate")) <= x
          /\ written["busy"] + Cardinality(Publishing("busy")) <= y
      BY DEF BatchInv, StreaksCount
    <2>6. x \in Int /\ y \in Int /\ x' = x /\ y' = y
      <3>1. /\ Kept \in Int /\ AtMostKept(rateStreak) \in Int /\ AtMostKept(busyStreak) \in Int
        BY BatchTypes, BatchAssumption DEF Kept, AtMostKept
      <3>2. settled["ok"] \in Int /\ settled["rate"] \in Int /\ settled["defect"] \in Int
        BY <1>6 DEF Outcome
      <3> QED BY <1>1, <3>1, <3>2 DEF AtMostKept, Kept
    <2>7. "rate" \in Outcome /\ "busy" \in Outcome
      BY DEF Outcome
    <2> HIDE DEF x, y
    <2>8. /\ written'["rate"] + Cardinality(Publishing("rate")') <= x'
          /\ written'["busy"] + Cardinality(Publishing("busy")') <= y'
      BY <1>6, <2>2, <2>3, <2>4, <2>5, <2>6, <2>7
    <2> QED BY <2>8 DEF StreaksCount, x, y
  <1> QED BY <1>8, <1>9, <1>10, <1>11, <1>12 DEF BatchInv

LEMMA CollectStep ==
  ASSUME BatchInv, NEW c \in Candidate, Collect(c)
  PROVE  BatchInv'
  <1> DEFINE a == task[c].of  halts == a \in Stopping
  <1>1. /\ task[c].at = "returned" /\ a \in Answer
        /\ UNCHANGED <<stop, rateStreak, busyStreak, written, settled>>
    BY DEF BatchInv, Carries, Collect, streaks
  <1>2. /\ tally \in Tally /\ tally.processed \in Nat /\ tally.staged \in Nat /\ tally.errors \in Nat
        /\ tally.staged + tally.errors <= tally.processed
    BY BatchTypes, BatchAssumption DEF Tally, BatchInv, CountersFit
  <1>3. \A b \in Candidate : task'[b] =
          IF b = c THEN [at |-> "collected", of |-> "none"]
          ELSE IF halts /\ task[b].at = "queued" THEN [at |-> "cancelled", of |-> "none"] ELSE task[b]
    BY DEF Collect
  <1>4. tally' = [tally EXCEPT
          !.processed = @ + 1,
          !.staged = @ + (IF a = "staged" THEN 1 ELSE 0),
          !.errors = @ + (IF a = "error" THEN 1 ELSE 0),
          !.remaining = IF halts THEN Candidates - tally.processed - 1 ELSE @,
          !.quota = @ \/ (halts /\ a # "fatal"),
          !.fatal = @ \/ (halts /\ a = "fatal")]
    BY DEF Collect
  <1>5. /\ tally'.processed = tally.processed + 1
        /\ tally'.staged = tally.staged + (IF a = "staged" THEN 1 ELSE 0)
        /\ tally'.errors = tally.errors + (IF a = "error" THEN 1 ELSE 0)
        /\ tally'.remaining = IF halts THEN Candidates - tally.processed - 1 ELSE tally.remaining
        /\ tally'.over = tally.over
    BY <1>2, <1>4 DEF Tally
  <1>6. /\ tally'.quota = (tally.quota \/ (halts /\ a # "fatal"))
        /\ tally'.fatal = (tally.fatal \/ (halts /\ a = "fatal"))
    BY <1>2, <1>4 DEF Tally
  <1>7. /\ \A P : At(P) \in SUBSET Candidate /\ At(P)' \in SUBSET Candidate
        /\ \A P : Cardinality(At(P)) \in 0 .. Candidates /\ Cardinality(At(P)') \in 0 .. Candidates
    <2>1. \A P : At(P) \in SUBSET Candidate /\ At(P)' \in SUBSET Candidate
      BY DEF At
    <2> QED BY <2>1, CandidatesCounted
  <1>8. /\ At({"collected"})' = At({"collected"}) \union {c} /\ c \notin At({"collected"})
        /\ At({"returned", "collected"})' = At({"returned", "collected"})
        /\ At({"publishing", "returned", "collected"})' = At({"publishing", "returned", "collected"})
        /\ At(Running)' = At(Running)
    BY <1>1, <1>3 DEF At, Running
  <1>9. \A o : Publishing(o)' = Publishing(o)
    BY <1>1, <1>3 DEF Publishing
  <1>10. tally.processed = Cardinality(At({"collected"})) /\ tally'.processed = Cardinality(At({"collected"})')
    <2>1. IsFiniteSet(At({"collected"}))
      BY <1>7, CandidatesCounted
    <2>2. Cardinality(At({"collected"}) \union {c}) = Cardinality(At({"collected"})) + 1
      BY <1>8, <2>1, CardinalityMoves
    <2>3. tally.processed = Cardinality(At({"collected"}))
      BY DEF BatchInv, CountersFit
    <2> QED BY <1>5, <1>8, <2>2, <2>3
  <1>11. tally'.staged + tally'.errors <= tally'.processed
    <2>1. tally'.staged + tally'.errors <= tally.staged + tally.errors + 1
      BY <1>2, <1>5
    <2> QED BY <1>2, <1>5, <2>1
  <1>12. BatchTypeOK'
    <2>1. task' \in [Candidate -> [at : Phase, of : Outcome \union Answer \union {"none"}]]
      <3>1. task' = [b \in Candidate |-> task'[b]]
        BY DEF Collect
      <3>2. \A b \in Candidate : task'[b] \in [at : Phase, of : Outcome \union Answer \union {"none"}]
        BY <1>3, BatchTypes DEF Phase
      <3> QED BY <3>1, <3>2
    <2>2. tally' \in Tally
      <3>1. tally'.processed \in 0 .. Candidates
        BY <1>7, <1>10
      <3>2. /\ tally'.staged \in Nat /\ tally'.errors \in Nat
            /\ tally'.staged + tally'.errors <= Candidates
        BY <1>2, <1>5, <1>11, <3>1, BatchAssumption
      <3>3. tally'.staged \in 0 .. Candidates /\ tally'.errors \in 0 .. Candidates
        BY <3>2, BatchAssumption
      <3>4. tally'.remaining \in 0 .. Candidates
        <4>1. tally.remaining \in 0 .. Candidates
          BY <1>2 DEF Tally
        <4>2. Candidates - tally.processed - 1 \in 0 .. Candidates
          BY <1>2, <1>5, <3>1, BatchAssumption
        <4> QED BY <1>5, <4>1, <4>2
      <3>5. tally'.quota \in BOOLEAN /\ tally'.fatal \in BOOLEAN
        BY <1>6
      <3>6. tally'.over \in BOOLEAN
        BY <1>2, <1>5 DEF Tally
      <3>7. tally' = [processed |-> tally'.processed, staged |-> tally'.staged, errors |-> tally'.errors,
                      remaining |-> tally'.remaining, quota |-> tally'.quota, fatal |-> tally'.fatal,
                      over |-> tally'.over]
        BY <1>2, <1>4 DEF Tally
      <3> QED BY <3>1, <3>3, <3>4, <3>5, <3>6, <3>7 DEF Tally
    <2>3. At(Running) = Active /\ At(Running)' = Active'
      BY DEF At, Running, Active
    <2>4. Cardinality(Active') <= Workers
      BY <1>8, <2>3 DEF BatchInv, BatchTypeOK, Active
    <2> QED BY <1>1, <2>1, <2>2, <2>4, BatchTypes DEF BatchTypeOK, Tally, Active
  <1>13. Carries'
    BY <1>3 DEF BatchInv, Carries
  <1>14. CountersFit'
    BY <1>1, <1>8, <1>10, <1>11 DEF BatchInv, CountersFit
  <1>15. ~tally.over
    BY <1>1 DEF BatchInv, StopIsKnown
  <1>16. CASE ~stop
    <2>1. a \in {"staged", "error"} /\ ~halts
      BY <1>1, <1>16 DEF BatchInv, StopIsKnown, Stopping
    <2>2. tally'.quota = tally.quota /\ tally'.fatal = tally.fatal
      BY <1>2, <1>6, <2>1 DEF Tally
    <2>3. tally'.staged + tally'.errors = tally'.processed
      BY <1>2, <1>5, <1>16, <2>1 DEF BatchInv, StopIsKnown
    <2>4. \A b \in Candidate : /\ task'[b].at # "cancelled"
                               /\ task'[b].at = "returned" => task'[b].of \in {"staged", "error"}
      BY <1>3, <1>16, <2>1 DEF BatchInv, StopIsKnown
    <2>5. StopIsKnown'
      BY <1>1, <1>5, <1>15, <1>16, <2>2, <2>3, <2>4 DEF BatchInv, StopIsKnown
    <2> QED BY <1>1, <1>9, <1>12, <1>13, <1>14, <2>5 DEF BatchInv, StreaksCount, AtMostKept, Kept
  <1>17. CASE stop
    <2>1. \/ tally'.quota \/ tally'.fatal
          \/ \E b \in Candidate : task'[b].at = "returned" /\ task'[b].of \in Stopping
      <3>1. CASE tally.quota \/ tally.fatal
        BY <1>6, <3>1
      <3>2. ASSUME NEW b \in Candidate, task[b].at = "returned", task[b].of \in Stopping
            PROVE  \/ tally'.quota \/ tally'.fatal
                   \/ task'[b].at = "returned" /\ task'[b].of \in Stopping
        BY <1>3, <1>6, <3>2
      <3> QED BY <1>17, <3>1, <3>2 DEF BatchInv, StopIsKnown
    <2>2. StopIsKnown'
      BY <1>1, <1>5, <1>15, <1>17, <2>1 DEF StopIsKnown
    <2> QED BY <1>1, <1>9, <1>12, <1>13, <1>14, <2>2 DEF BatchInv, StreaksCount, AtMostKept, Kept
  <1> QED BY <1>16, <1>17

LEMMA EndStep ==
  ASSUME BatchInv, EndBatch
  PROVE  BatchInv'
  <1>1. /\ \A c \in Candidate : task[c].at \in {"collected", "cancelled"}
        /\ UNCHANGED <<task, stop, rateStreak, busyStreak, written, settled>>
    BY DEF EndBatch, streaks
  <1> DEFINE left == IF tally.quota \/ tally.fatal THEN Max({tally.remaining, Candidates - tally.processed})
                                                   ELSE tally.remaining
  <1>2. tally \in Tally /\ tally' = [tally EXCEPT !.over = TRUE, !.remaining = left]
    BY BatchTypes DEF EndBatch
  <1>3. left \in 0 .. Candidates
    <2>1. tally.remaining \in 0 .. Candidates /\ tally.processed \in 0 .. Candidates
      BY <1>2 DEF Tally
    <2>2. ASSUME NEW m \in 0 .. Candidates, NEW n \in 0 .. Candidates
          PROVE  Max({m, n}) \in 0 .. Candidates
      <3>1. \E x \in {m, n} : \A y \in {m, n} : x >= y
        BY <2>2, BatchAssumption
      <3> QED BY <3>1 DEF Max
    <2>3. Candidates - tally.processed \in 0 .. Candidates
      BY <2>1, BatchAssumption
    <2> QED BY <2>1, <2>2, <2>3
  <1> HIDE DEF left
  <1>4. /\ tally' \in Tally /\ tally'.processed = tally.processed /\ tally'.staged = tally.staged
        /\ tally'.errors = tally.errors /\ tally'.quota = tally.quota /\ tally'.fatal = tally.fatal
    BY <1>2, <1>3 DEF Tally
  <1>5. BatchTypeOK'
    BY <1>1, <1>4 DEF BatchInv, BatchTypeOK, Tally
  <1>6. /\ \A P : At(P)' = At(P)
        /\ \A o : Publishing(o)' = Publishing(o)
    BY <1>1 DEF At, Publishing
  <1>7. Carries'
    BY <1>1 DEF BatchInv, Carries
  <1>8. CountersFit' /\ StreaksCount'
    BY <1>1, <1>4, <1>6 DEF BatchInv, CountersFit, StreaksCount, AtMostKept, Kept
  <1>9. StopIsKnown'
    BY <1>1, <1>4 DEF BatchInv, StopIsKnown
  <1> QED BY <1>5, <1>7, <1>8, <1>9 DEF BatchInv

LEMMA BatchSteps ==
  ASSUME BatchInv, [BatchNext]_batchVars
  PROVE  BatchInv'
  <1>1. CASE UNCHANGED batchVars
    BY <1>1 DEF batchVars, streaks, BatchInv, BatchTypeOK, Carries, CountersFit, StopIsKnown, StreaksCount,
                AtMostKept, Kept, At, Publishing
  <1> QED BY <1>1, TakeStep, ReadStep, HaltStep, DecideStep, PublishStep, CollectStep, EndStep DEF BatchNext

LEMMA BatchInvariant ==
  ASSUME BatchInv
  PROVE  BatchStops
  <1>1. DeadQuotaStaysUnwritten
    <2> DEFINE ok == settled["ok"]  rest == settled["ok"] + settled["rate"] + settled["defect"]
               x == Kept * ok  y == Kept * rest
               pr == Cardinality(Publishing("rate"))  pb == Cardinality(Publishing("busy"))
    <2>1. pr \in Nat /\ pb \in Nat
      <3>1. \A p : Publishing(p) \in SUBSET Candidate
        BY DEF Publishing
      <3> QED BY <3>1, CandidatesCounted
    <2>2. /\ ok \in Nat /\ rest \in Nat /\ written["rate"] \in Nat /\ written["busy"] \in Nat
      <3>1. /\ settled["ok"] \in Nat /\ settled["rate"] \in Nat /\ settled["defect"] \in Nat
            /\ written["rate"] \in Nat /\ written["busy"] \in Nat
        BY BatchTypes, BatchAssumption DEF Outcome
      <3> QED BY <3>1
    <2>3. /\ Kept \in Nat /\ AtMostKept(rateStreak) <= Kept /\ AtMostKept(busyStreak) <= Kept
          /\ AtMostKept(rateStreak) \in Nat /\ AtMostKept(busyStreak) \in Nat
      BY BatchTypes, BatchAssumption DEF Kept, AtMostKept
    <2>4. /\ written["rate"] + pr <= x + AtMostKept(rateStreak)
          /\ written["busy"] + pb <= y + AtMostKept(busyStreak)
      BY DEF BatchInv, StreaksCount
    <2>5. x \in Nat /\ y \in Nat /\ Kept * (ok + 1) = x + Kept /\ Kept * (rest + 1) = y + Kept
      <3> HIDE DEF ok, rest
      <3> QED BY <2>2, <2>3
    <2> HIDE DEF x, y, pr, pb, ok, rest
    <2>6. written["rate"] <= Kept * (ok + 1) /\ written["busy"] <= Kept * (rest + 1)
      BY <2>1, <2>2, <2>3, <2>4, <2>5
    <2> QED BY <2>6 DEF DeadQuotaStaysUnwritten, Kept, ok, rest
  <1>2. StopIsReported
    <2> SUFFICES ASSUME tally.over
                 PROVE  /\ stop <=> tally.quota \/ tally.fatal
                        /\ ~stop => tally.staged + tally.errors = Candidates
      BY DEF StopIsReported
    <2>1. \A c \in Candidate : task[c].at \in {"collected", "cancelled"}
      BY DEF BatchInv, StopIsKnown
    <2>2. stop => tally.quota \/ tally.fatal
      BY <2>1 DEF BatchInv, StopIsKnown
    <2>3. ~stop => ~tally.quota /\ ~tally.fatal
      BY DEF BatchInv, StopIsKnown
    <2>4. ASSUME ~stop
          PROVE  tally.staged + tally.errors = Candidates
      <3>1. At({"collected"}) = Candidate
        BY <2>1, <2>4 DEF BatchInv, StopIsKnown, At
      <3>2. Cardinality(At({"collected"})) = Candidates
        BY <3>1, CandidatesCounted
      <3> QED BY <2>4, <3>2 DEF BatchInv, StopIsKnown, CountersFit
    <2> QED BY <2>2, <2>3, <2>4
  <1> QED BY <1>1, <1>2 DEF BatchInv, BatchStops

(* However the threads of a batch overlap, an exhausted quota or a         *)
(* saturated endpoint stops them before a threshold's worth of error       *)
(* records is written, and the batch says that it was stopped              *)
(* (stage_batch, _stage_one).                                              *)
THEOREM BatchesStopInTime == BatchSpec => []BatchStops
  BY BatchStarts, BatchSteps, BatchInvariant, PTL DEF BatchSpec
=============================================================================
