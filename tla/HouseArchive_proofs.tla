------------------------ MODULE HouseArchive_proofs -------------------------
(***************************************************************************)
(* Proofs about the House archive for any filings, contents, recipes,      *)
(* number of generations and kills; about the close at which a filed trade *)
(* is priced; about what is recommended of the trades that are known, and  *)
(* what a later backtest finds of it; and about the positions rebuilt from *)
(* filed trades.                                                           *)
(***************************************************************************)
EXTENDS HouseArchive, EntryClose, Consensus, Positions, WellFoundedInduction, FiniteSetTheorems, FunctionTheorems,
        SequenceTheorems, TLAPS

(* The last complete generation exists once one is complete: generations   *)
(* become complete in their order, or not at all.                          *)
LastExists == Completed # {} => \E g \in Completed : \A h \in Completed : h <= g

(* Rows belong to documents that their generation lists.                   *)
RowsAreListed ==
  \A d \in Doc, s \in Source, g \in Generation :
    rows[d][s][g] > 0 => g <= Latest /\ d \in ListedIn(generations[g].listing)

RemovedIsUnlisted ==
  \A g \in 1 .. Latest : generations[g].removed \intersect ListedIn(generations[g].listing) = {}

(* Only a person marks a document invalid.                                 *)
InvalidIsManual ==
  \A d \in Doc, r \in Recipe, g \in Generation :
    /\ r # ManualReview => runs[d][r][g].status # "invalid"
    /\ r = ManualReview => runs[d][r][g].status \in {"none", "invalid"}

(* What moving everything back would give.                                 *)
Restored == [d \in Doc |-> IF fetch.orphans[d] # Absent THEN fetch.orphans[d]
                           ELSE fetch.backup[d]]

(* A refresh half way can still go back, and what it moved in is complete. *)
CanGoBack ==
  /\ ~Idle => Latest < MaxGenerations
  /\ ~Idle /\ ~torn => Restored = Artifacts(Current)
  /\ fetch.phase \in {"swapped_out", "swapped_in"} => fetch.orphans = NoPdfs
  /\ fetch.phase \in {"swapped_in", "quarantined"} => files = Artifacts(fetch.listing)

ArchiveInv ==
  /\ TypeOK /\ LastExists
  /\ RowsAreListed /\ RemovedIsUnlisted /\ RemovalsAreFinal
  /\ InvalidIsManual /\ CompletedStaysSettled /\ OnePaidReading
  /\ InSync /\ CanGoBack

-----------------------------------------------------------------------------
(* Types.                                                                  *)

LEMMA LatestType == TypeOK => Latest \in 0 .. MaxGenerations
  BY ArchiveAssumption DEF TypeOK, Latest

LEMMA GenerationType ==
  ASSUME TypeOK, NEW g \in 1 .. Latest
  PROVE  /\ generations[g] \in Archived
         /\ generations[g].listing \in Listing
         /\ generations[g].complete \in BOOLEAN
         /\ generations[g].removed \subseteq Doc
         /\ g \in Generation
  <1>1. generations[g] \in Archived
    BY DEF TypeOK, Latest
  <1>2. g \in Generation
    BY LatestType, ArchiveAssumption DEF Generation
  <1> QED BY <1>1, <1>2 DEF Archived

LEMMA CurrentType == TypeOK => Current \in Listing
  <1> SUFFICES ASSUME TypeOK PROVE Current \in Listing
    OBVIOUS
  <1>1. CASE Latest = 0
    BY <1>1 DEF Current, Listing, NoPdfs
  <1>2. CASE Latest # 0
    <2>1. Latest \in 1 .. Latest
      BY <1>2, LatestType, ArchiveAssumption
    <2> QED BY <1>2, <2>1, GenerationType DEF Current
  <1> QED BY <1>1, <1>2

LEMMA ArtifactsType == ASSUME NEW l \in Listing PROVE Artifacts(l) \in Pdfs
  BY ArchiveAssumption DEF Listing, Artifacts, Pdfs

LEMMA LastType ==
  ASSUME TypeOK, LastExists, Completed # {}
  PROVE  /\ LastCompleted \in Completed
         /\ LastCompleted \in 1 .. Latest
         /\ LastCompleted \in Generation
         /\ \A h \in Completed : h <= LastCompleted
  <1>1. /\ LastCompleted \in Completed
        /\ \A h \in Completed : h <= LastCompleted
    BY DEF LastExists, LastCompleted
  <1> QED BY <1>1, GenerationType DEF Completed

(* Promotion appends a generation and leaves the earlier ones alone.       *)
LEMMA PromotedGenerations ==
  ASSUME TypeOK, Promote
  PROVE  /\ Latest' = Latest + 1
         /\ \A g \in 1 .. Latest : generations'[g] = generations[g]
         /\ generations'[Latest + 1] = Successor
         /\ Completed' = Completed
  <1>1. generations \in Seq(Archived) /\ generations' = Append(generations, Successor)
    BY DEF TypeOK, Promote
  <1>2. Successor.complete = FALSE
    BY DEF Successor
  <1>3. /\ Latest' = Latest + 1
        /\ \A g \in 1 .. Latest : generations'[g] = generations[g]
        /\ generations'[Latest + 1] = Successor
    BY <1>1 DEF Latest
  <1>4. Completed' = Completed
    BY <1>2, <1>3, LatestType DEF Completed
  <1> QED BY <1>3, <1>4

-----------------------------------------------------------------------------
(* Each operation on the tables, entry by entry.                           *)

LEMMA PromoteAt ==
  ASSUME TypeOK, LastExists, CanGoBack, Promote
  PROVE  /\ Latest + 1 \in Generation
         /\ rows' \in [Doc -> [Source -> [Generation -> 0 .. MaxRows]]]
         /\ runs' \in [Doc -> [Recipe -> [Generation -> Run]]]
         /\ \A d \in Doc, s \in Source, g \in Generation :
              rows'[d][s][g] = IF d \in Carried(fetch.listing) /\ g = Latest + 1
                               THEN rows[d][s][LastCompleted] ELSE rows[d][s][g]
         /\ \A d \in Doc, r \in Recipe, g \in Generation :
              runs'[d][r][g] = IF d \in Carried(fetch.listing) /\ g = Latest + 1
                               THEN runs[d][r][LastCompleted] ELSE runs[d][r][g]
  <1>1. Latest + 1 \in Generation
    BY LatestType, ArchiveAssumption DEF Promote, Idle, CanGoBack, Generation
  <1>2. Carried(fetch.listing) # {} => LastCompleted \in Generation
    BY LastType DEF Carried
  <1> DEFINE counts == 0 .. MaxRows
  <1>3. /\ rows \in [Doc -> [Source -> [Generation -> counts]]]
        /\ runs \in [Doc -> [Recipe -> [Generation -> Run]]]
    BY DEF TypeOK
  <1>4. /\ rows' = Copied(rows, Carried(fetch.listing), LastCompleted, Latest + 1)
        /\ runs' = Copied(runs, Carried(fetch.listing), LastCompleted, Latest + 1)
    BY DEF Promote
  <1> HIDE DEF counts
  <1> DEFINE carried == Carried(fetch.listing)
             from == LastCompleted
             to == Latest + 1
  <1> HIDE DEF carried, from, to
  <1>5. carried # {} => from \in Generation
    BY <1>2 DEF carried, from
  <1>6. to \in Generation
    BY <1>1 DEF to
  <1>7. /\ Copied(rows, carried, from, to) \in [Doc -> [Source -> [Generation -> counts]]]
        /\ \A d \in Doc, s \in Source, g \in Generation :
             Copied(rows, carried, from, to)[d][s][g] =
               IF d \in carried /\ g = to THEN rows[d][s][from] ELSE rows[d][s][g]
    BY <1>3, <1>5, <1>6, ArchiveAssumption DEF Copied
  <1>8. /\ Copied(runs, carried, from, to) \in [Doc -> [Recipe -> [Generation -> Run]]]
        /\ \A d \in Doc, r \in Recipe, g \in Generation :
             Copied(runs, carried, from, to)[d][r][g] =
               IF d \in carried /\ g = to THEN runs[d][r][from] ELSE runs[d][r][g]
    BY <1>3, <1>5, <1>6, ArchiveAssumption DEF Copied
  <1> QED BY <1>1, <1>4, <1>7, <1>8 DEF carried, from, to, counts

(* What is carried is listed and unchanged since the last complete one.    *)
LEMMA CarriedAgree ==
  ASSUME NEW l, NEW d \in Carried(l)
  PROVE  /\ Completed # {}
         /\ d \in ListedIn(l) /\ d \in Doc
         /\ generations[LastCompleted].listing[d] = l[d]
  BY DEF Carried, CarriedFrom, ListedIn

LEMMA RecordRunAt ==
  ASSUME TypeOK, NEW d \in Doc, NEW r \in Recipe, NEW g \in Generation,
         NEW status \in {"none", "success", "no_txs", "invalid", "failed"},
         NEW n \in 0 .. MaxRows, RecordRun(d, r, g, status, n)
  PROVE  /\ runs' \in [Doc -> [Recipe -> [Generation -> Run]]]
         /\ runs'[d][r][g] = [status |-> status, count |-> n]
         /\ \A e \in Doc, q \in Recipe, h \in Generation :
              ~(e = d /\ q = r /\ h = g) => runs'[e][q][h] = runs[e][q][h]
  <1> DEFINE run == [status |-> status, count |-> n]
  <1>1. run \in Run
    BY DEF Run
  <1>2. runs' = [runs EXCEPT ![d][r][g] = run]
    BY DEF RecordRun
  <1>3. runs \in [Doc -> [Recipe -> [Generation -> Run]]]
    BY DEF TypeOK
  <1> HIDE DEF run
  <1>4. /\ runs' \in [Doc -> [Recipe -> [Generation -> Run]]]
        /\ runs'[d][r][g] = run
        /\ \A e \in Doc, q \in Recipe, h \in Generation :
             ~(e = d /\ q = r /\ h = g) => runs'[e][q][h] = runs[e][q][h]
    BY <1>1, <1>2, <1>3
  <1> QED BY <1>4 DEF run

(* What a result changes, entry by entry.                                  *)
SaveRowsEffect(d, g, r, n) ==
  /\ rows' \in [Doc -> [Source -> [Generation -> 0 .. MaxRows]]]
  /\ rows'[d]["house_pdf"][g] = n
  /\ \A e \in Doc, s \in Source, h \in Generation :
       ~(e = d /\ s = "house_pdf" /\ h = g) => rows'[e][s][h] = rows[e][s][h]
  /\ runs' \in [Doc -> [Recipe -> [Generation -> Run]]]
  /\ runs'[d][r][g] = [status |-> "success", count |-> n]
  /\ \A e \in Doc, q \in Recipe, h \in Generation :
       ~(e = d /\ q = r /\ h = g) => runs'[e][q][h] = runs[e][q][h]
  /\ r \in Recipe /\ r # ManualReview /\ FamilyOf(r) = "house_pdf"

SaveFailureEffect(d, g, r) ==
  /\ runs' \in [Doc -> [Recipe -> [Generation -> Run]]]
  /\ runs'[d][r][g] = [status |-> "failed", count |-> 0]
  /\ \A e \in Doc, q \in Recipe, h \in Generation :
       ~(e = d /\ q = r /\ h = g) => runs'[e][q][h] = runs[e][q][h]
  /\ r \in Recipe /\ r # ManualReview

AdmitEffect(d, g, r, n) ==
  /\ rows' \in [Doc -> [Source -> [Generation -> 0 .. MaxRows]]]
  /\ \A h \in Generation : rows'[d]["gemini_ocr"][h] = IF h = g THEN n ELSE 0
  /\ \A e \in Doc, s \in Source, h \in Generation :
       ~(e = d /\ s = "gemini_ocr") => rows'[e][s][h] = rows[e][s][h]
  /\ runs' \in [Doc -> [Recipe -> [Generation -> Run]]]
  /\ runs'[d][r][g] = [status |-> IF n = 0 THEN "no_txs" ELSE "success", count |-> n]
  /\ \A e \in Doc, q \in Recipe, h \in Generation :
       ~(e = d /\ q = r /\ h = g) => runs'[e][q][h] = runs[e][q][h]
  /\ r \in Recipe /\ r # ManualReview /\ FamilyOf(r) = "gemini_ocr"

MarkInvalidEffect(d, g) ==
  /\ runs' \in [Doc -> [Recipe -> [Generation -> Run]]]
  /\ runs'[d][ManualReview][g] = [status |-> "invalid", count |-> 0]
  /\ \A e \in Doc, q \in Recipe, h \in Generation :
       ~(e = d /\ q = ManualReview /\ h = g) => runs'[e][q][h] = runs[e][q][h]
  /\ ManualReview \in Recipe /\ FamilyOf(ManualReview) = "house_pdf"

LEMMA SaveRowsAt ==
  ASSUME TypeOK, NEW d \in Doc, NEW g \in Generation, NEW r \in LocalRecipe,
         NEW n \in 1 .. MaxRows, SaveRows(d, g, r, n)
  PROVE  SaveRowsEffect(d, g, r, n)
  <1>1. /\ r \in Recipe /\ n \in 0 .. MaxRows /\ RecordRun(d, r, g, "success", n)
        /\ r # ManualReview /\ FamilyOf(r) = "house_pdf"
    BY ArchiveAssumption DEF SaveRows, Recipe, FamilyOf
  <1>2. /\ rows' \in [Doc -> [Source -> [Generation -> 0 .. MaxRows]]]
        /\ rows'[d]["house_pdf"][g] = n
        /\ \A e \in Doc, s \in Source, h \in Generation :
             ~(e = d /\ s = "house_pdf" /\ h = g) => rows'[e][s][h] = rows[e][s][h]
    BY ArchiveAssumption DEF TypeOK, SaveRows, Source
  <1> QED BY <1>1, <1>2, RecordRunAt DEF SaveRowsEffect

LEMMA SaveFailureAt ==
  ASSUME TypeOK, NEW d \in Doc, NEW g \in Generation, NEW r \in LocalRecipe, SaveFailure(d, g, r)
  PROVE  SaveFailureEffect(d, g, r)
  <1>1. /\ r \in Recipe /\ 0 \in 0 .. MaxRows /\ RecordRun(d, r, g, "failed", 0)
        /\ r # ManualReview
    BY ArchiveAssumption DEF SaveFailure, Recipe
  <1> QED BY <1>1, RecordRunAt DEF SaveFailureEffect

LEMMA AdmitAt ==
  ASSUME TypeOK, NEW d \in Doc, NEW g \in Generation, NEW r \in OcrRecipe,
         NEW n \in 0 .. MaxRows, Admit(d, g, r, n)
  PROVE  AdmitEffect(d, g, r, n)
  <1> DEFINE paid == [h \in Generation |-> IF h = g THEN n ELSE 0]
             status == IF n = 0 THEN "no_txs" ELSE "success"
  <1>1. /\ paid \in [Generation -> 0 .. MaxRows]
        /\ \A h \in Generation : paid[h] = IF h = g THEN n ELSE 0
    BY ArchiveAssumption
  <1>2. rows' = [rows EXCEPT ![d]["gemini_ocr"] = paid]
    BY DEF Admit
  <1>3. /\ r \in Recipe /\ r # ManualReview /\ FamilyOf(r) = "gemini_ocr"
        /\ status \in {"none", "success", "no_txs", "invalid", "failed"}
        /\ RecordRun(d, r, g, status, n)
    BY ArchiveAssumption DEF Admit, Recipe, FamilyOf
  <1> HIDE DEF paid, status
  <1>4. /\ rows' \in [Doc -> [Source -> [Generation -> 0 .. MaxRows]]]
        /\ \A h \in Generation : rows'[d]["gemini_ocr"][h] = IF h = g THEN n ELSE 0
        /\ \A e \in Doc, s \in Source, h \in Generation :
             ~(e = d /\ s = "gemini_ocr") => rows'[e][s][h] = rows[e][s][h]
    BY <1>1, <1>2 DEF TypeOK, Source
  <1>5. /\ runs' \in [Doc -> [Recipe -> [Generation -> Run]]]
        /\ runs'[d][r][g] = [status |-> status, count |-> n]
        /\ \A e \in Doc, q \in Recipe, h \in Generation :
             ~(e = d /\ q = r /\ h = g) => runs'[e][q][h] = runs[e][q][h]
    BY <1>3, RecordRunAt
  <1> QED BY <1>3, <1>4, <1>5 DEF status, AdmitEffect

LEMMA MarkInvalidAt ==
  ASSUME TypeOK, NEW d \in Doc, NEW g \in Generation, MarkInvalid(d, g)
  PROVE  MarkInvalidEffect(d, g)
  <1>1. /\ ManualReview \in Recipe /\ 0 \in 0 .. MaxRows
        /\ RecordRun(d, ManualReview, g, "invalid", 0)
        /\ FamilyOf(ManualReview) = "house_pdf"
    BY ArchiveAssumption DEF MarkInvalid, Recipe, FamilyOf
  <1> QED BY <1>1, RecordRunAt DEF MarkInvalidEffect

LEMMA CompleteAt ==
  ASSUME TypeOK, Complete
  PROVE  /\ rows' \in [Doc -> [Source -> [Generation -> 0 .. MaxRows]]]
         /\ \A d \in Doc, s \in Source, g \in Generation :
              rows'[d][s][g] = IF d \in generations[Latest].removed /\ g # Latest
                               THEN 0 ELSE rows[d][s][g]
         /\ generations' \in Seq(Archived)
         /\ Latest' = Latest /\ Latest \in 1 .. Latest
         /\ \A g \in 1 .. Latest : /\ generations'[g].listing = generations[g].listing
                                   /\ generations'[g].removed = generations[g].removed
         /\ Completed' = Completed \union {Latest}
  <1>1. Latest \in 1 .. Latest
    BY LatestType, ArchiveAssumption DEF Complete
  <1>2. /\ rows' \in [Doc -> [Source -> [Generation -> 0 .. MaxRows]]]
        /\ \A d \in Doc, s \in Source, g \in Generation :
             rows'[d][s][g] = IF d \in generations[Latest].removed /\ g # Latest
                              THEN 0 ELSE rows[d][s][g]
    BY ArchiveAssumption DEF TypeOK, Complete
  <1> DEFINE done == [generations[Latest] EXCEPT !.complete = TRUE]
  <1>3. /\ done \in Archived /\ done.complete = TRUE
        /\ done.listing = generations[Latest].listing
        /\ done.removed = generations[Latest].removed
    BY <1>1, GenerationType DEF Archived
  <1>4. generations' = [generations EXCEPT ![Latest] = done]
    BY DEF Complete
  <1> HIDE DEF done
  <1>5. /\ generations' \in Seq(Archived) /\ Len(generations') = Len(generations)
        /\ \A g \in 1 .. Latest : generations'[g] = IF g = Latest THEN done ELSE generations[g]
    BY <1>1, <1>3, <1>4 DEF TypeOK, Latest
  <1>6. Latest' = Latest
    BY <1>5 DEF Latest
  <1>7. \A g \in 1 .. Latest : /\ generations'[g].listing = generations[g].listing
                               /\ generations'[g].removed = generations[g].removed
    BY <1>3, <1>5
  <1>8. Completed' = Completed \union {Latest}
    BY <1>1, <1>3, <1>5, <1>6 DEF Completed
  <1> QED BY <1>1, <1>2, <1>5, <1>6, <1>7, <1>8

-----------------------------------------------------------------------------
(* The type, and what ties rows and runs to the generations.               *)

LEMMA NothingFetched == NoPdfs \in Listing /\ NoPdfs \in Pdfs
  BY DEF NoPdfs, Listing, Pdfs

LEMMA ArchiveInit == Init => ArchiveInv
  <1> SUFFICES ASSUME Init PROVE ArchiveInv
    OBVIOUS
  <1> USE DEF Init
  <1>1. Latest = 0 /\ Completed = {} /\ Current = NoPdfs
    BY DEF Latest, Completed, Current
  <1>2. TypeOK
    <2>1. generations \in Seq(Archived) /\ Len(generations) <= MaxGenerations
      BY ArchiveAssumption
    <2>2. rows \in [Doc -> [Source -> [Generation -> 0 .. MaxRows]]]
      BY ArchiveAssumption
    <2>3. NoRun \in Run
      BY ArchiveAssumption DEF NoRun, Run
    <2>4. runs \in [Doc -> [Recipe -> [Generation -> Run]]]
      BY <2>3
    <2>5. files \in Pdfs /\ torn \in BOOLEAN
      BY NothingFetched
    <2>6. fetch \in [phase : Phase, listing : Listing, backup : Pdfs, orphans : Pdfs]
      BY NothingFetched DEF NoFetch, Phase
    <2> QED BY <2>1, <2>2, <2>4, <2>5, <2>6 DEF TypeOK
  <1>3. RowsAreListed /\ InvalidIsManual
    BY ArchiveAssumption DEF RowsAreListed, InvalidIsManual, NoRun
  <1>4. InSync /\ CanGoBack
    BY <1>1 DEF InSync, CanGoBack, Idle, NoFetch, Artifacts, NoPdfs
  <1> QED BY <1>1, <1>2, <1>3, <1>4 DEF ArchiveInv, LastExists, RemovedIsUnlisted,
        RemovalsAreFinal, CompletedStaysSettled, OnePaidReading

LEMMA TypeStep == ArchiveInv /\ [Next]_vars => TypeOK'
  <1> SUFFICES ASSUME ArchiveInv, [Next]_vars PROVE TypeOK'
    OBVIOUS
  <1>1. TypeOK /\ LastExists /\ CanGoBack
    BY DEF ArchiveInv
  <1> USE <1>1
  <1>2. ASSUME NEW l \in Listing, KeepUnchanged(l) PROVE TypeOK'
    BY <1>2 DEF TypeOK, KeepUnchanged
  <1>3. ASSUME NEW l \in Listing, SwapOut(l) PROVE TypeOK'
    BY <1>3, NothingFetched DEF TypeOK, SwapOut, NoFetch, Phase
  <1>4. CASE SwapIn
    BY <1>4, ArtifactsType DEF TypeOK, SwapIn, Phase
  <1>5. CASE Quarantine
    <2> DEFINE listed == ListedIn(fetch.listing)
               orphans == [d \in Doc |-> IF d \in listed THEN Absent ELSE fetch.backup[d]]
               backup == [d \in Doc |-> IF d \in listed THEN fetch.backup[d] ELSE Absent]
    <2>1. orphans \in Pdfs /\ backup \in Pdfs
      BY DEF TypeOK, Pdfs
    <2>2. fetch' = [fetch EXCEPT !.phase = "quarantined", !.orphans = orphans, !.backup = backup]
      BY <1>5 DEF Quarantine
    <2> HIDE DEF orphans, backup
    <2> QED BY <1>5, <2>1, <2>2 DEF TypeOK, Quarantine, Phase
  <1>6. CASE Promote
    <2>1. fetch.listing \in Listing
      BY DEF TypeOK
    <2>2. Successor \in Archived
      BY <2>1 DEF Successor, Archived, ListedIn
    <2>3. generations' \in Seq(Archived) /\ Len(generations') = Latest + 1
      BY <1>6, <2>2 DEF Promote, TypeOK, Latest
    <2>4. Latest + 1 <= MaxGenerations
      BY <1>6, PromoteAt, ArchiveAssumption DEF Generation
    <2>5. fetch' \in [phase : Phase, listing : Listing, backup : Pdfs, orphans : Pdfs]
      BY <1>6, NothingFetched DEF Promote, NoFetch, Phase
    <2> QED BY <1>6, <2>3, <2>4, <2>5, PromoteAt DEF TypeOK, Promote
  <1>7. CASE Undo
    <2>1. files' \in Pdfs
      BY <1>7 DEF Undo, TypeOK, Pdfs
    <2> QED BY <1>7, <2>1, NothingFetched DEF TypeOK, Undo, NoFetch, Phase
  <1>8. CASE Kill
    BY <1>8, NothingFetched DEF TypeOK, Kill, NoFetch, Phase
  <1>9. ASSUME NEW d \in Doc, NEW g \in Generation, NEW r \in LocalRecipe,
               NEW n \in 1 .. MaxRows, SaveRows(d, g, r, n)
        PROVE  TypeOK'
    BY <1>9, SaveRowsAt DEF TypeOK, SaveRows, SaveRowsEffect
  <1>10. ASSUME NEW d \in Doc, NEW g \in Generation, NEW r \in LocalRecipe, SaveFailure(d, g, r)
         PROVE  TypeOK'
    BY <1>10, SaveFailureAt DEF TypeOK, SaveFailure, SaveFailureEffect
  <1>11. ASSUME NEW d \in Doc, NEW g \in Generation, NEW r \in OcrRecipe,
                NEW n \in 0 .. MaxRows, Admit(d, g, r, n)
         PROVE  TypeOK'
    BY <1>11, AdmitAt DEF TypeOK, Admit, AdmitEffect
  <1>12. ASSUME NEW d \in Doc, NEW g \in Generation, MarkInvalid(d, g) PROVE TypeOK'
    BY <1>12, MarkInvalidAt DEF TypeOK, MarkInvalid, MarkInvalidEffect
  <1>13. CASE Complete
    BY <1>13, CompleteAt DEF TypeOK, Complete, Latest
  <1>14. CASE UNCHANGED vars
    BY <1>14 DEF TypeOK, vars
  <1> QED BY <1>2, <1>3, <1>4, <1>5, <1>6, <1>7, <1>8, <1>9, <1>10, <1>11, <1>12, <1>13,
        <1>14 DEF Next, Refresh, Settle

(* The steps that write a table.                                           *)
LEMMA TableSteps ==
  ASSUME TypeOK, [Next]_vars
  PROVE  \/ UNCHANGED tables
         \/ Promote
         \/ \E d \in Doc, g \in Generation, r \in LocalRecipe, n \in 1 .. MaxRows :
              SaveRows(d, g, r, n) /\ SaveRowsEffect(d, g, r, n)
         \/ \E d \in Doc, g \in Generation, r \in LocalRecipe :
              SaveFailure(d, g, r) /\ SaveFailureEffect(d, g, r)
         \/ \E d \in Doc, g \in Generation, r \in OcrRecipe, n \in 0 .. MaxRows :
              Admit(d, g, r, n) /\ AdmitEffect(d, g, r, n)
         \/ \E d \in Doc, g \in Generation : MarkInvalid(d, g) /\ MarkInvalidEffect(d, g)
         \/ Complete
  <1>1. CASE UNCHANGED vars
    BY <1>1 DEF vars, tables
  <1>2. CASE Refresh
    BY <1>2 DEF Refresh, tables, KeepUnchanged, SwapOut, SwapIn, Quarantine, Undo, Kill
  <1>3. CASE Settle
    BY <1>3, SaveRowsAt, SaveFailureAt, AdmitAt, MarkInvalidAt DEF Settle
  <1> QED BY <1>1, <1>2, <1>3 DEF Next

LEMMA Same ==
  ASSUME UNCHANGED generations
  PROVE  Latest' = Latest /\ Completed' = Completed /\ Current' = Current
  BY DEF Latest, Completed, Current

LEMMA BoundAt ==
  ASSUME TypeOK, NEW d \in Doc, NEW g \in Generation, Bound(d, g)
  PROVE  g = Latest /\ g \in 1 .. Latest /\ d \in ListedIn(generations[g].listing)
  BY LatestType, ArchiveAssumption DEF Bound, Current, Generation

LEMMA LastExistsStep == ArchiveInv /\ [Next]_vars => LastExists'
  <1> SUFFICES ASSUME ArchiveInv, [Next]_vars PROVE LastExists'
    OBVIOUS
  <1>1. TypeOK /\ LastExists
    BY DEF ArchiveInv
  <1>2. CASE Promote
    BY <1>1, <1>2, PromotedGenerations DEF LastExists
  <1>3. CASE Complete
    <2>1. Completed' = Completed \union {Latest} /\ Completed \subseteq 1 .. Latest
      BY <1>1, <1>3, CompleteAt DEF Completed
    <2>2. Latest \in Completed' /\ \A h \in Completed' : h <= Latest
      BY <1>1, <2>1, LatestType, ArchiveAssumption
    <2> QED BY <2>2 DEF LastExists
  <1>4. CASE UNCHANGED generations
    BY <1>1, <1>4, Same DEF LastExists
  <1> QED BY <1>1, <1>2, <1>3, <1>4, TableSteps DEF tables, SaveRows, SaveFailure, Admit, MarkInvalid

LEMMA RowsAreListedStep == ArchiveInv /\ [Next]_vars => RowsAreListed'
  <1> SUFFICES ASSUME ArchiveInv, [Next]_vars PROVE RowsAreListed'
    OBVIOUS
  <1>1. TypeOK /\ LastExists /\ CanGoBack /\ RowsAreListed
    BY DEF ArchiveInv
  <1> SUFFICES ASSUME NEW e \in Doc, NEW s \in Source, NEW h \in Generation, rows'[e][s][h] > 0
               PROVE  h <= Latest' /\ e \in ListedIn(generations'[h].listing)
    BY DEF RowsAreListed
  <1>2. rows[e][s][h] > 0 => h \in 1 .. Latest /\ e \in ListedIn(generations[h].listing)
    BY <1>1, LatestType, ArchiveAssumption DEF RowsAreListed, Generation
  <1>3. CASE UNCHANGED <<generations, rows>>
    BY <1>2, <1>3, Same, LatestType, <1>1, ArchiveAssumption
  <1>4. CASE Promote
    <2>1. CASE e \in Carried(fetch.listing) /\ h = Latest + 1
      <3>1. e \in ListedIn(fetch.listing)
        BY <2>1, CarriedAgree
      <3> QED BY <1>1, <1>4, <2>1, <3>1, PromotedGenerations, LatestType, ArchiveAssumption DEF Successor
    <2>2. CASE ~(e \in Carried(fetch.listing) /\ h = Latest + 1)
      <3>1. rows[e][s][h] > 0
        BY <1>1, <1>4, <2>2, PromoteAt
      <3> QED BY <1>1, <1>2, <1>4, <3>1, PromotedGenerations, LatestType, ArchiveAssumption
    <2> QED BY <2>1, <2>2
  <1>5. ASSUME NEW d \in Doc, NEW g \in Generation, NEW r \in LocalRecipe,
               NEW n \in 1 .. MaxRows, SaveRows(d, g, r, n), SaveRowsEffect(d, g, r, n)
        PROVE  h <= Latest' /\ e \in ListedIn(generations'[h].listing)
    <2>1. UNCHANGED generations /\ Bound(d, g)
      BY <1>5 DEF SaveRows
    <2>2. (e = d /\ h = g) \/ rows'[e][s][h] = rows[e][s][h]
      BY <1>5 DEF SaveRowsEffect
    <2> QED BY <1>1, <1>2, <2>1, <2>2, BoundAt, Same, LatestType, ArchiveAssumption
  <1>6. ASSUME NEW d \in Doc, NEW g \in Generation, NEW r \in OcrRecipe,
               NEW n \in 0 .. MaxRows, Admit(d, g, r, n), AdmitEffect(d, g, r, n)
        PROVE  h <= Latest' /\ e \in ListedIn(generations'[h].listing)
    <2>1. UNCHANGED generations /\ Bound(d, g)
      BY <1>6 DEF Admit
    <2>2. (e = d /\ h = g) \/ rows'[e][s][h] \in {0, rows[e][s][h]}
      BY <1>6 DEF AdmitEffect
    <2> QED BY <1>1, <1>2, <2>1, <2>2, BoundAt, Same, LatestType, ArchiveAssumption
  <1>7. CASE Complete
    <2>1. rows'[e][s][h] \in {0, rows[e][s][h]}
      BY <1>1, <1>7, CompleteAt
    <2>2. rows[e][s][h] > 0
      BY <2>1
    <2> QED BY <1>1, <1>2, <1>7, <2>2, CompleteAt, LatestType, ArchiveAssumption
  <1> QED BY <1>1, <1>3, <1>4, <1>5, <1>6, <1>7, TableSteps DEF tables, SaveFailure, MarkInvalid

LEMMA RemovedIsUnlistedStep == ArchiveInv /\ [Next]_vars => RemovedIsUnlisted'
  <1> SUFFICES ASSUME ArchiveInv, [Next]_vars PROVE RemovedIsUnlisted'
    OBVIOUS
  <1>1. TypeOK /\ RemovedIsUnlisted
    BY DEF ArchiveInv
  <1>2. CASE UNCHANGED generations
    BY <1>1, <1>2, Same DEF RemovedIsUnlisted
  <1>3. CASE Promote
    BY <1>1, <1>3, PromotedGenerations, LatestType, ArchiveAssumption DEF RemovedIsUnlisted, Successor
  <1>4. CASE Complete
    BY <1>1, <1>4, CompleteAt DEF RemovedIsUnlisted
  <1> QED BY <1>1, <1>2, <1>3, <1>4, TableSteps DEF tables, SaveRows, SaveFailure, Admit, MarkInvalid

LEMMA InvalidIsManualStep == ArchiveInv /\ [Next]_vars => InvalidIsManual'
  <1> SUFFICES ASSUME ArchiveInv, [Next]_vars PROVE InvalidIsManual'
    OBVIOUS
  <1>1. TypeOK /\ LastExists /\ CanGoBack /\ InvalidIsManual
    BY DEF ArchiveInv
  <1> SUFFICES ASSUME NEW e \in Doc, NEW q \in Recipe, NEW h \in Generation
               PROVE  /\ q # ManualReview => runs'[e][q][h].status # "invalid"
                      /\ q = ManualReview => runs'[e][q][h].status \in {"none", "invalid"}
    BY DEF InvalidIsManual
  <1>2. CASE runs'[e][q][h] = runs[e][q][h]
    BY <1>1, <1>2 DEF InvalidIsManual
  <1>3. CASE Promote
    <2>1. CASE e \in Carried(fetch.listing) /\ h = Latest + 1
      <3>1. LastCompleted \in Generation
        BY <1>1, <2>1, CarriedAgree, LastType
      <3>2. runs'[e][q][h] = runs[e][q][LastCompleted]
        BY <1>1, <1>3, <2>1, PromoteAt
      <3> QED BY <1>1, <3>1, <3>2 DEF InvalidIsManual
    <2>2. CASE ~(e \in Carried(fetch.listing) /\ h = Latest + 1)
      BY <1>1, <1>2, <1>3, <2>2, PromoteAt
    <2> QED BY <2>1, <2>2
  <1>4. ASSUME NEW d \in Doc, NEW g \in Generation, NEW r \in LocalRecipe,
               NEW n \in 1 .. MaxRows, SaveRows(d, g, r, n), SaveRowsEffect(d, g, r, n)
        PROVE  \/ runs'[e][q][h] = runs[e][q][h]
               \/ q # ManualReview /\ runs'[e][q][h].status = "success"
    BY <1>4 DEF SaveRowsEffect
  <1>5. ASSUME NEW d \in Doc, NEW g \in Generation, NEW r \in LocalRecipe,
               SaveFailure(d, g, r), SaveFailureEffect(d, g, r)
        PROVE  \/ runs'[e][q][h] = runs[e][q][h]
               \/ q # ManualReview /\ runs'[e][q][h].status = "failed"
    BY <1>5 DEF SaveFailureEffect
  <1>6. ASSUME NEW d \in Doc, NEW g \in Generation, NEW r \in OcrRecipe,
               NEW n \in 0 .. MaxRows, Admit(d, g, r, n), AdmitEffect(d, g, r, n)
        PROVE  \/ runs'[e][q][h] = runs[e][q][h]
               \/ q # ManualReview /\ runs'[e][q][h].status \in {"no_txs", "success"}
    BY <1>6 DEF AdmitEffect
  <1>7. ASSUME NEW d \in Doc, NEW g \in Generation, MarkInvalid(d, g), MarkInvalidEffect(d, g)
        PROVE  \/ runs'[e][q][h] = runs[e][q][h]
               \/ q = ManualReview /\ runs'[e][q][h].status = "invalid"
    BY <1>7 DEF MarkInvalidEffect
  <1>8. CASE UNCHANGED runs
    BY <1>2, <1>8
  <1> QED BY <1>1, <1>2, <1>3, <1>4, <1>5, <1>6, <1>7, <1>8, TableSteps DEF tables, Complete

-----------------------------------------------------------------------------
(* Removals and paid readings.                                             *)

LEMMA RemovalsStep == ArchiveInv /\ [Next]_vars => RemovalsAreFinal'
  <1> SUFFICES ASSUME ArchiveInv, [Next]_vars PROVE RemovalsAreFinal'
    OBVIOUS
  <1>1. /\ TypeOK /\ LastExists /\ CanGoBack
        /\ RemovalsAreFinal /\ RemovedIsUnlisted /\ RowsAreListed
    BY DEF ArchiveInv
  <1> SUFFICES ASSUME NEW k \in Completed', NEW e \in Doc, NEW s \in Source,
                      e \in generations'[k].removed, NEW h \in 1 .. k
               PROVE  rows'[e][s][h] = 0
    BY DEF RemovalsAreFinal
  <1>2. Latest \in Nat
    BY <1>1, LatestType, ArchiveAssumption
  <1>3. CASE UNCHANGED <<generations, rows>>
    BY <1>1, <1>3, Same DEF RemovalsAreFinal
  <1>4. CASE Promote
    <2>1. k \in Completed /\ k \in 1 .. Latest /\ generations'[k] = generations[k]
      BY <1>1, <1>4, PromotedGenerations DEF Completed
    <2>2. rows[e][s][h] = 0
      BY <1>1, <2>1 DEF RemovalsAreFinal
    <2>3. h \in Generation /\ h # Latest + 1
      BY <1>1, <1>2, <2>1, LatestType, ArchiveAssumption DEF Generation
    <2> QED BY <1>1, <1>4, <2>2, <2>3, PromoteAt
  <1>5. ASSUME UNCHANGED generations, NEW d \in Doc, NEW g \in Generation, Bound(d, g)
        PROVE  /\ rows[e][s][h] = 0 /\ h \in Generation
               /\ ~(e = d /\ h = g)
    <2>1. k \in Completed /\ k \in 1 .. Latest /\ e \in generations[k].removed
      BY <1>1, <1>5, Same DEF Completed
    <2>2. rows[e][s][h] = 0
      BY <1>1, <2>1 DEF RemovalsAreFinal
    <2>3. h \in Generation /\ h <= k /\ k <= Latest
      BY <1>1, <1>2, <2>1, LatestType, ArchiveAssumption DEF Generation
    <2>4. h = g => k = Latest
      BY <1>1, <1>2, <1>5, <2>1, <2>3, BoundAt
    <2>5. e = d /\ h = g => e \in ListedIn(generations[k].listing)
      BY <1>1, <1>5, <2>4, BoundAt
    <2> QED BY <1>1, <2>1, <2>2, <2>3, <2>5 DEF RemovedIsUnlisted
  <1>6. ASSUME NEW d \in Doc, NEW g \in Generation, NEW r \in LocalRecipe,
               NEW n \in 1 .. MaxRows, SaveRows(d, g, r, n), SaveRowsEffect(d, g, r, n)
        PROVE  rows'[e][s][h] = 0
    <2>1. rows[e][s][h] = 0 /\ h \in Generation /\ ~(e = d /\ h = g)
      BY <1>5, <1>6 DEF SaveRows
    <2> QED BY <1>6, <2>1 DEF SaveRowsEffect
  <1>7. ASSUME NEW d \in Doc, NEW g \in Generation, NEW r \in OcrRecipe,
               NEW n \in 0 .. MaxRows, Admit(d, g, r, n), AdmitEffect(d, g, r, n)
        PROVE  rows'[e][s][h] = 0
    <2>1. rows[e][s][h] = 0 /\ h \in Generation /\ ~(e = d /\ h = g)
      BY <1>5, <1>7 DEF Admit
    <2> QED BY <1>7, <2>1 DEF AdmitEffect
  <1>8. CASE Complete
    <2>1. /\ k \in 1 .. Latest /\ e \in generations[k].removed
          /\ k \in Completed \/ k = Latest
      BY <1>1, <1>8, CompleteAt DEF Completed
    <2>2. h \in Generation /\ h <= k /\ k <= Latest
      BY <1>1, <1>2, <2>1, LatestType, ArchiveAssumption DEF Generation
    <2>3. rows'[e][s][h] = IF e \in generations[Latest].removed /\ h # Latest
                           THEN 0 ELSE rows[e][s][h]
      BY <1>1, <1>8, <2>2, CompleteAt
    <2>4. CASE k \in Completed
      BY <1>1, <2>1, <2>3, <2>4 DEF RemovalsAreFinal
    <2>5. CASE k = Latest /\ h # Latest
      BY <2>1, <2>3, <2>5
    <2>6. CASE k = Latest /\ h = Latest
      <3>1. e \notin ListedIn(generations[Latest].listing)
        BY <1>1, <2>1, <2>6 DEF RemovedIsUnlisted
      <3>2. rows[e][s][h] \in Nat /\ ~(rows[e][s][h] > 0)
        BY <1>1, <2>2, <2>6, <3>1, ArchiveAssumption DEF RowsAreListed, TypeOK
      <3> QED BY <2>3, <2>6, <3>2
    <2> QED BY <2>1, <2>4, <2>5, <2>6
  <1> QED BY <1>1, <1>3, <1>4, <1>6, <1>7, <1>8, TableSteps DEF tables, SaveFailure, MarkInvalid

LEMMA PaidReadingStep == ArchiveInv /\ [Next]_vars => OnePaidReading'
  <1> SUFFICES ASSUME ArchiveInv, [Next]_vars PROVE OnePaidReading'
    OBVIOUS
  <1>1. /\ TypeOK /\ LastExists /\ CanGoBack
        /\ OnePaidReading /\ RowsAreListed
    BY DEF ArchiveInv
  <1> DEFINE paid(d, g) == rows[d]["gemini_ocr"][g]
             Agree(d, g, h) == /\ paid(d, g) = paid(d, h)
                               /\ generations[g].listing[d] = generations[h].listing[d]
  <1> SUFFICES ASSUME NEW e \in Doc, NEW g1 \in 1 .. Latest', NEW g2 \in 1 .. Latest',
                      paid(e, g1)' > 0, paid(e, g2)' > 0
               PROVE  Agree(e, g1, g2)'
    BY DEF OnePaidReading
  <1>2. /\ Latest \in Nat /\ "gemini_ocr" \in Source
        /\ \A g \in 1 .. Latest : g \in Generation
    BY <1>1, LatestType, ArchiveAssumption DEF Source, Generation
  <1>3. \A g, h \in 1 .. Latest : paid(e, g) > 0 /\ paid(e, h) > 0 => Agree(e, g, h)
    BY <1>1 DEF OnePaidReading
  <1>4. CASE UNCHANGED <<generations, rows>>
    BY <1>3, <1>4, Same
  <1>5. CASE Promote
    <2> DEFINE origin(g) == IF g = Latest + 1 THEN LastCompleted ELSE g
    <2>1. ASSUME NEW g \in 1 .. Latest', paid(e, g)' > 0
          PROVE  /\ origin(g) \in 1 .. Latest
                 /\ paid(e, g)' = paid(e, origin(g))
                 /\ generations'[g].listing[e] = generations[origin(g)].listing[e]
      <3>1. g \in 1 .. Latest + 1 /\ g \in Generation
        <4>1. Latest' = Latest + 1
          BY <1>1, <1>5, PromotedGenerations
        <4>2. Latest + 1 \in Generation
          BY <1>1, <1>5, PromoteAt
        <4>3. g \in 1 .. Latest + 1
          BY <2>1, <4>1
        <4>4. g \in 1 .. Latest \/ g = Latest + 1
          BY <1>2, <4>3
        <4> QED BY <1>2, <4>2, <4>3, <4>4
      <3>2. CASE g # Latest + 1
        <4>1. paid(e, g)' = paid(e, g)
          BY <1>1, <1>2, <1>5, <3>1, <3>2, PromoteAt
        <4> QED BY <1>1, <1>2, <1>5, <3>1, <3>2, <4>1, PromotedGenerations
      <3>3. CASE g = Latest + 1 /\ e \in Carried(fetch.listing)
        <4>1. paid(e, g)' = paid(e, LastCompleted)
          BY <1>1, <1>2, <1>5, <3>1, <3>3, PromoteAt
        <4>2. /\ LastCompleted \in 1 .. Latest
              /\ generations[LastCompleted].listing[e] = fetch.listing[e]
          BY <1>1, <3>3, CarriedAgree, LastType
        <4>3. generations'[g].listing = fetch.listing
          BY <1>1, <1>5, <3>3, PromotedGenerations DEF Successor
        <4> QED BY <3>3, <4>1, <4>2, <4>3
      <3>4. CASE g = Latest + 1 /\ e \notin Carried(fetch.listing)
        <4>1. paid(e, g)' = paid(e, g)
          BY <1>1, <1>2, <1>5, <3>1, <3>4, PromoteAt
        <4>2. paid(e, g) > 0
          BY <2>1, <4>1
        <4>3. g <= Latest
          BY <1>1, <1>2, <3>1, <4>2 DEF RowsAreListed
        <4> QED BY <1>2, <3>4, <4>3
      <3> QED BY <3>2, <3>3, <3>4
    <2> HIDE DEF origin
    <2>2. /\ origin(g1) \in 1 .. Latest /\ paid(e, g1)' = paid(e, origin(g1))
          /\ generations'[g1].listing[e] = generations[origin(g1)].listing[e]
      BY <2>1
    <2>3. /\ origin(g2) \in 1 .. Latest /\ paid(e, g2)' = paid(e, origin(g2))
          /\ generations'[g2].listing[e] = generations[origin(g2)].listing[e]
      BY <2>1
    <2> QED BY <1>3, <2>2, <2>3
  <1>6. ASSUME NEW d \in Doc, NEW g \in Generation, NEW r \in LocalRecipe,
               NEW n \in 1 .. MaxRows, SaveRows(d, g, r, n), SaveRowsEffect(d, g, r, n)
        PROVE  Agree(e, g1, g2)'
    <2>1. UNCHANGED generations
      BY <1>6 DEF SaveRows
    <2>2. g1 \in Generation /\ g2 \in Generation /\ "gemini_ocr" \in Source /\ "gemini_ocr" # "house_pdf"
      BY <1>2, <2>1, Same
    <2>3. \A h \in Generation : rows'[e]["gemini_ocr"][h] = rows[e]["gemini_ocr"][h]
      BY <1>6, <2>2 DEF SaveRowsEffect
    <2>4. paid(e, g1)' = paid(e, g1) /\ paid(e, g2)' = paid(e, g2)
      BY <2>2, <2>3
    <2> QED BY <1>3, <2>1, <2>4, Same
  <1>7. ASSUME NEW d \in Doc, NEW g \in Generation, NEW r \in OcrRecipe,
               NEW n \in 0 .. MaxRows, Admit(d, g, r, n), AdmitEffect(d, g, r, n)
        PROVE  Agree(e, g1, g2)'
    <2>1. UNCHANGED generations
      BY <1>7 DEF Admit
    <2>2. g1 \in 1 .. Latest /\ g2 \in 1 .. Latest /\ g1 \in Generation /\ g2 \in Generation
      BY <1>2, <2>1, Same
    <2>3. CASE e = d
      <3>1. g1 = g /\ g2 = g
        BY <1>7, <2>2, <2>3 DEF AdmitEffect
      <3> QED BY <3>1
    <2>4. CASE e # d
      <3>1. paid(e, g1)' = paid(e, g1) /\ paid(e, g2)' = paid(e, g2)
        BY <1>2, <1>7, <2>2, <2>4 DEF AdmitEffect
      <3> QED BY <1>3, <2>1, <2>2, <3>1
    <2> QED BY <2>3, <2>4
  <1>8. CASE Complete
    <2>1. /\ g1 \in 1 .. Latest /\ g2 \in 1 .. Latest
          /\ generations'[g1].listing = generations[g1].listing
          /\ generations'[g2].listing = generations[g2].listing
      BY <1>1, <1>8, CompleteAt
    <2>2. paid(e, g1)' \in {0, paid(e, g1)} /\ paid(e, g2)' \in {0, paid(e, g2)}
      BY <1>1, <1>2, <1>8, <2>1, CompleteAt
    <2>3. paid(e, g1)' = paid(e, g1) /\ paid(e, g2)' = paid(e, g2)
      BY <2>2
    <2> QED BY <1>3, <2>1, <2>3
  <1> QED BY <1>1, <1>4, <1>5, <1>6, <1>7, <1>8, TableSteps DEF tables, SaveFailure, MarkInvalid

-----------------------------------------------------------------------------
(* The directory.                                                          *)

(* A complete generation keeps its listing, so the directory still fits.   *)
LEMMA CurrentSteps ==
  ASSUME TypeOK, [Next]_vars, ~Promote
  PROVE  Current' = Current /\ Latest' = Latest
  <1>1. CASE UNCHANGED generations
    BY <1>1, Same
  <1>2. CASE Complete
    BY <1>2, CompleteAt DEF Current
  <1> QED BY <1>1, <1>2, TableSteps DEF tables, SaveRows, SaveFailure, Admit, MarkInvalid

LEMMA DirectoryStep == ArchiveInv /\ [Next]_vars => InSync' /\ CanGoBack'
  <1> SUFFICES ASSUME ArchiveInv, [Next]_vars PROVE InSync' /\ CanGoBack'
    OBVIOUS
  <1>1. TypeOK /\ InSync /\ CanGoBack
    BY DEF ArchiveInv
  <1>2. /\ fetch.phase \in Phase /\ fetch.listing \in Listing
        /\ fetch.backup \in Pdfs /\ fetch.orphans \in Pdfs /\ files \in Pdfs
        /\ fetch \in [phase : Phase, listing : Listing, backup : Pdfs, orphans : Pdfs]
    BY <1>1 DEF TypeOK
  <1>3. NoFetch.phase = "idle"
    BY DEF NoFetch
  <1>4. CASE UNCHANGED disk /\ ~Promote
    BY <1>1, <1>4, CurrentSteps DEF disk, InSync, CanGoBack, Idle, Restored
  <1>5. ASSUME NEW l \in Listing, KeepUnchanged(l) PROVE InSync' /\ CanGoBack'
    <2>1. files = Artifacts(Current) /\ Idle
      BY <1>5 DEF KeepUnchanged, Unchanged
    <2>2. UNCHANGED <<generations, fetch, files>> /\ Current' = Current
      BY <1>5, Same DEF KeepUnchanged
    <2> QED BY <2>1, <2>2 DEF InSync, CanGoBack, Idle
  <1>6. ASSUME NEW l \in Listing, SwapOut(l) PROVE InSync' /\ CanGoBack'
    <2>1. /\ Latest' = Latest /\ Current' = Current /\ torn' = torn
          /\ Latest < MaxGenerations /\ Idle
          /\ fetch'.phase = "swapped_out" /\ fetch'.orphans = NoPdfs /\ fetch'.backup = files
      BY <1>6, Same DEF SwapOut, NoFetch
    <2>2. Restored' = files
      BY <1>2, <2>1 DEF Restored, NoPdfs, Pdfs
    <2> QED BY <1>1, <2>1, <2>2 DEF InSync, CanGoBack, Idle
  <1>7. CASE SwapIn
    <2>1. /\ Latest' = Latest /\ Current' = Current /\ torn' = torn
          /\ files' = Artifacts(fetch.listing) /\ ~Idle
          /\ fetch.phase = "swapped_out" /\ fetch'.phase = "swapped_in"
          /\ fetch'.orphans = fetch.orphans /\ fetch'.backup = fetch.backup
          /\ fetch'.listing = fetch.listing
      BY <1>2, <1>7, Same DEF SwapIn, Idle
    <2>2. Restored' = Restored
      BY <2>1 DEF Restored
    <2> QED BY <1>1, <2>1, <2>2 DEF InSync, CanGoBack, Idle
  <1>8. CASE Quarantine
    <2> DEFINE listed == ListedIn(fetch.listing)
               orphans == [d \in Doc |-> IF d \in listed THEN Absent ELSE fetch.backup[d]]
               backup == [d \in Doc |-> IF d \in listed THEN fetch.backup[d] ELSE Absent]
    <2>1. fetch' = [fetch EXCEPT !.phase = "quarantined", !.orphans = orphans, !.backup = backup]
      BY <1>8 DEF Quarantine
    <2>2. [d \in Doc |-> IF orphans[d] # Absent THEN orphans[d] ELSE backup[d]] = fetch.backup
      BY <1>2 DEF Pdfs
    <2>3. Restored = fetch.backup
      BY <1>1, <1>2, <1>8 DEF Quarantine, CanGoBack, Restored, NoPdfs, Pdfs
    <2> HIDE DEF orphans, backup
    <2>4. /\ Latest' = Latest /\ Current' = Current /\ torn' = torn /\ files' = files /\ ~Idle
          /\ fetch.phase = "swapped_in" /\ fetch'.phase = "quarantined"
          /\ fetch'.orphans = orphans /\ fetch'.backup = backup
          /\ fetch'.listing = fetch.listing
      BY <1>2, <1>8, <2>1, Same DEF Quarantine, Idle
    <2>5. Restored' = Restored
      BY <2>2, <2>3, <2>4 DEF Restored
    <2> QED BY <1>1, <2>4, <2>5 DEF InSync, CanGoBack, Idle
  <1>9. CASE Promote
    <2>1. Latest' \in 1 .. Latest' /\ generations'[Latest'].listing = fetch.listing
      BY <1>1, <1>9, PromotedGenerations, LatestType, ArchiveAssumption DEF Successor
    <2>2. Current' = fetch.listing
      BY <2>1 DEF Current
    <2>3. files' = Artifacts(fetch.listing) /\ fetch' = NoFetch
      BY <1>1, <1>9 DEF Promote, CanGoBack
    <2> QED BY <1>3, <2>2, <2>3 DEF InSync, CanGoBack, Idle
  <1>10. CASE Undo
    <2>1. /\ Current' = Current /\ torn' = torn /\ fetch' = NoFetch
          /\ files' = Restored /\ ~Idle
      BY <1>10, Same DEF Undo, Restored
    <2> QED BY <1>1, <1>3, <2>1 DEF InSync, CanGoBack, Idle
  <1>11. CASE Kill
    BY <1>3, <1>11 DEF Kill, InSync, CanGoBack, Idle
  <1>12. CASE Settle \/ UNCHANGED vars
    BY <1>4, <1>9, <1>12 DEF Settle, SaveRows, SaveFailure, Admit, MarkInvalid, Complete, disk, vars
  <1> QED BY <1>5, <1>6, <1>7, <1>8, <1>9, <1>10, <1>11, <1>12 DEF Next, Refresh

-----------------------------------------------------------------------------
(* What is settled.                                                        *)

Untouched(e, h) ==
  /\ \A s \in Source : rows'[e][s][h] = rows[e][s][h]
  /\ \A q \in Recipe : runs'[e][q][h] = runs[e][q][h]

StillListed(e, h) == h <= Latest' /\ e \in ListedIn(generations'[h].listing)

LEMMA FamilyType == ASSUME NEW r \in Recipe PROVE FamilyOf(r) \in Source
  BY DEF FamilyOf, Source

LEMMA UntouchedStaysAccepted ==
  ASSUME NEW e, NEW h, Untouched(e, h), StillListed(e, h), Accepted(e, h)
  PROVE  Accepted(e, h)'
  <1>1. PICK q \in Recipe : Settles(e, q, h)
    BY DEF Accepted
  <1>2. Settles(e, q, h)'
    BY <1>1, FamilyType DEF Settles, Untouched
  <1> QED BY <1>2 DEF Accepted, StillListed

(* A result of a document leaves it settled, whatever else was recorded.   *)
LEMMA SavedIsAccepted ==
  ASSUME NEW d \in Doc, NEW g \in Generation, NEW r \in LocalRecipe, NEW n \in 1 .. MaxRows,
         SaveRowsEffect(d, g, r, n), StillListed(d, g)
  PROVE  Accepted(d, g)'
  <1>1. Settles(d, r, g)'
    BY ArchiveAssumption DEF SaveRowsEffect, Settles
  <1> QED BY <1>1 DEF Accepted, StillListed, SaveRowsEffect

LEMMA AdmittedIsAccepted ==
  ASSUME NEW d \in Doc, NEW g \in Generation, NEW r \in OcrRecipe, NEW n \in 0 .. MaxRows,
         AdmitEffect(d, g, r, n), StillListed(d, g)
  PROVE  Accepted(d, g)'
  <1>1. rows'[d]["gemini_ocr"][g] = n /\ FamilyOf(r) = "gemini_ocr" /\ r \in Recipe
    BY DEF AdmitEffect
  <1>2. CASE n = 0
    <2>1. Settles(d, r, g)'
      BY <1>1, <1>2 DEF AdmitEffect, Settles
    <2> QED BY <1>1, <2>1 DEF Accepted, StillListed
  <1>3. CASE n # 0
    <2>1. n > 0
      BY <1>3, ArchiveAssumption
    <2>2. Settles(d, r, g)'
      BY <1>1, <1>3, <2>1 DEF AdmitEffect, Settles
    <2> QED BY <1>1, <2>2 DEF Accepted, StillListed
  <1> QED BY <1>2, <1>3

(* A failure is recorded only where nothing was settled.                   *)
LEMMA FailureKeepsAccepted ==
  ASSUME InvalidIsManual, NEW d \in Doc, NEW g \in Generation, NEW r \in LocalRecipe,
         SaveFailure(d, g, r), SaveFailureEffect(d, g, r),
         StillListed(d, g), Accepted(d, g)
  PROVE  Accepted(d, g)'
  <1>1. PICK q \in Recipe : Settles(d, q, g)
    BY DEF Accepted
  <1>2. ~Settles(d, r, g)
    BY DEF SaveFailure, SaveFailureEffect, InvalidIsManual, Settles
  <1>3. runs'[d][q][g] = runs[d][q][g] /\ UNCHANGED rows
    BY <1>1, <1>2 DEF SaveFailureEffect, SaveFailure
  <1>4. Settles(d, q, g)'
    BY <1>1, <1>3 DEF Settles
  <1> QED BY <1>4 DEF Accepted, StillListed

(* An invalid document is marked again, or another recipe had settled it.  *)
LEMMA MarkKeepsAccepted ==
  ASSUME InvalidIsManual, NEW d \in Doc, NEW g \in Generation,
         MarkInvalid(d, g), MarkInvalidEffect(d, g),
         StillListed(d, g), Accepted(d, g)
  PROVE  Accepted(d, g)'
  <1>1. PICK q \in Recipe : Settles(d, q, g)
    BY DEF Accepted
  <1>2. UNCHANGED rows
    BY DEF MarkInvalid
  <1>3. CASE q = ManualReview
    <2>1. \A s \in Source : rows[d][s][g] = 0
      BY <1>1, <1>3 DEF Settles, InvalidIsManual
    <2>2. Settles(d, q, g)'
      BY <1>1, <1>2, <1>3, <2>1, FamilyType DEF Settles, MarkInvalidEffect
    <2> QED BY <2>2 DEF Accepted, StillListed
  <1>4. CASE q # ManualReview
    <2>1. runs'[d][q][g] = runs[d][q][g]
      BY <1>1, <1>4 DEF MarkInvalidEffect
    <2>2. Settles(d, q, g)'
      BY <1>1, <1>2, <2>1 DEF Settles
    <2> QED BY <2>2 DEF Accepted, StillListed
  <1> QED BY <1>3, <1>4

LEMMA ListedStep ==
  ASSUME TypeOK, LastExists, [Next]_vars, NEW e, NEW h \in 1 .. Latest,
         e \in ListedIn(generations[h].listing)
  PROVE  StillListed(e, h)
  <1>1. Latest \in Nat
    BY LatestType, ArchiveAssumption
  <1>2. CASE UNCHANGED generations
    BY <1>1, <1>2, Same DEF StillListed
  <1>3. CASE Promote
    BY <1>1, <1>3, PromotedGenerations DEF StillListed
  <1>4. CASE Complete
    BY <1>1, <1>4, CompleteAt DEF StillListed
  <1> QED BY <1>2, <1>3, <1>4, TableSteps DEF tables, SaveRows, SaveFailure, Admit, MarkInvalid

(* A settled document stays settled in its generation, unless a paid       *)
(* reading of a later one replaces it, or its removal is completed.        *)
LEMMA AcceptedStep ==
  ASSUME ArchiveInv, [Next]_vars, NEW e \in Doc, NEW h \in 1 .. Latest, Accepted(e, h)
  PROVE  \/ Accepted(e, h)'
         \/ h # Latest /\ Accepted(e, Latest)' /\ UNCHANGED generations
         \/ h # Latest /\ Complete /\ e \in generations[Latest].removed
  <1>1. TypeOK /\ LastExists /\ CanGoBack /\ InvalidIsManual
    BY DEF ArchiveInv
  <1>2. h \in Generation /\ Latest \in Nat /\ StillListed(e, h)
    BY <1>1, ListedStep, LatestType, ArchiveAssumption DEF Generation, Accepted
  <1>3. Untouched(e, h) => Accepted(e, h)'
    BY <1>2, UntouchedStaysAccepted
  <1>4. CASE UNCHANGED tables
    BY <1>3, <1>4 DEF tables, Untouched
  <1>5. CASE Promote
    <2>1. h # Latest + 1
      BY <1>2
    <2>2. Untouched(e, h)
      BY <1>1, <1>2, <1>5, <2>1, PromoteAt DEF Untouched
    <2> QED BY <1>3, <2>2
  <1>6. ASSUME NEW d \in Doc, NEW g \in Generation, NEW r \in LocalRecipe,
               NEW n \in 1 .. MaxRows, SaveRows(d, g, r, n), SaveRowsEffect(d, g, r, n)
        PROVE  Accepted(e, h)'
    <2>1. CASE e = d /\ h = g
      BY <1>2, <1>6, <2>1, SavedIsAccepted
    <2>2. CASE ~(e = d /\ h = g)
      <3>1. Untouched(e, h)
        BY <1>2, <1>6, <2>2 DEF SaveRowsEffect, Untouched
      <3> QED BY <1>3, <3>1
    <2> QED BY <2>1, <2>2
  <1>7. ASSUME NEW d \in Doc, NEW g \in Generation, NEW r \in LocalRecipe,
               SaveFailure(d, g, r), SaveFailureEffect(d, g, r)
        PROVE  Accepted(e, h)'
    <2>1. CASE e = d /\ h = g
      BY <1>1, <1>2, <1>7, <2>1, FailureKeepsAccepted
    <2>2. CASE ~(e = d /\ h = g)
      <3>1. UNCHANGED rows
        BY <1>7 DEF SaveFailure
      <3>2. Untouched(e, h)
        BY <1>2, <1>7, <2>2, <3>1 DEF SaveFailureEffect, Untouched
      <3> QED BY <1>3, <3>2
    <2> QED BY <2>1, <2>2
  <1>8. ASSUME NEW d \in Doc, NEW g \in Generation, NEW r \in OcrRecipe,
               NEW n \in 0 .. MaxRows, Admit(d, g, r, n), AdmitEffect(d, g, r, n)
        PROVE  \/ Accepted(e, h)'
               \/ h # Latest /\ Accepted(e, Latest)' /\ UNCHANGED generations
    <2>1. UNCHANGED generations /\ g = Latest /\ g \in 1 .. Latest
          /\ d \in ListedIn(generations[g].listing)
      BY <1>1, <1>8, BoundAt DEF Admit
    <2>2. CASE e = d
      <3>1. StillListed(d, g)
        BY <1>1, <2>1, ListedStep
      <3>2. Accepted(d, g)'
        BY <1>8, <3>1, AdmittedIsAccepted
      <3> QED BY <2>1, <2>2, <3>2, Same
    <2>3. CASE e # d
      <3>1. Untouched(e, h)
        BY <1>2, <1>8, <2>3 DEF AdmitEffect, Untouched
      <3> QED BY <1>3, <3>1
    <2> QED BY <2>2, <2>3
  <1>9. ASSUME NEW d \in Doc, NEW g \in Generation, MarkInvalid(d, g), MarkInvalidEffect(d, g)
        PROVE  Accepted(e, h)'
    <2>1. CASE e = d /\ h = g
      BY <1>1, <1>2, <1>9, <2>1, MarkKeepsAccepted
    <2>2. CASE ~(e = d /\ h = g)
      <3>1. UNCHANGED rows
        BY <1>9 DEF MarkInvalid
      <3>2. Untouched(e, h)
        BY <1>2, <1>9, <2>2, <3>1 DEF MarkInvalidEffect, Untouched
      <3> QED BY <1>3, <3>2
    <2> QED BY <2>1, <2>2
  <1>10. CASE Complete
    <2>1. CASE h # Latest /\ e \in generations[Latest].removed
      BY <1>10, <2>1
    <2>2. CASE ~(h # Latest /\ e \in generations[Latest].removed)
      <3>1. UNCHANGED runs
        BY <1>10 DEF Complete
      <3>2. Untouched(e, h)
        BY <1>1, <1>2, <1>10, <2>2, <3>1, CompleteAt DEF Untouched
      <3> QED BY <1>3, <3>2
    <2> QED BY <2>1, <2>2
  <1> QED BY <1>1, <1>4, <1>5, <1>6, <1>7, <1>8, <1>9, <1>10, TableSteps

LEMMA CompletedSettledStep == ArchiveInv /\ [Next]_vars => CompletedStaysSettled'
  <1> SUFFICES ASSUME ArchiveInv, [Next]_vars, Latest' \in Completed',
                      NEW e \in ListedIn(generations'[Latest'].listing)
               PROVE  Accepted(e, Latest)'
    BY DEF CompletedStaysSettled, Unresolved
  <1>1. TypeOK /\ CompletedStaysSettled /\ Latest \in Nat
    BY LatestType, ArchiveAssumption DEF ArchiveInv
  <1>2. ~Promote
    BY <1>1, PromotedGenerations DEF Completed
  <1>3. /\ Latest' = Latest /\ Latest \in 1 .. Latest
        /\ generations'[Latest'].listing = generations[Latest].listing
        /\ Unresolved(Latest) = {}
    <2>1. CASE Complete
      BY <1>1, <2>1, CompleteAt DEF Complete
    <2>2. CASE UNCHANGED generations
      BY <1>1, <2>2, Same DEF CompletedStaysSettled, Completed
    <2> QED BY <1>1, <1>2, <2>1, <2>2, TableSteps
            DEF tables, SaveRows, SaveFailure, Admit, MarkInvalid
  <1>4. e \in Doc /\ Accepted(e, Latest)
    BY <1>3 DEF Unresolved, ListedIn
  <1>5. Accepted(e, Latest)'
    BY <1>3, <1>4, AcceptedStep
  <1> QED BY <1>3, <1>5

-----------------------------------------------------------------------------
(* The theorems.                                                           *)

LEMMA ArchiveStep == ArchiveInv /\ [Next]_vars => ArchiveInv'
  BY TypeStep, LastExistsStep, RowsAreListedStep, RemovedIsUnlistedStep, RemovalsStep,
     InvalidIsManualStep, CompletedSettledStep, PaidReadingStep, DirectoryStep DEF ArchiveInv

LEMMA ArchiveInductive == Spec => []ArchiveInv
  BY ArchiveInit, ArchiveStep, PTL DEF Spec

(* Every table, file and staging directory is well typed.                  *)
THEOREM ArchiveTypeCorrect == Spec => []TypeOK
<1>1. ArchiveInv => TypeOK
  BY DEF ArchiveInv
<1> QED BY <1>1, ArchiveInductive, PTL

(* A refresh that was not killed leaves exactly the latest generation's    *)
(* PDFs, at whatever step an exception stopped it.                         *)
THEOREM FilesInSync == Spec => []InSync
<1>1. ArchiveInv => InSync
  BY DEF ArchiveInv
<1> QED BY <1>1, ArchiveInductive, PTL

(* A complete latest generation stays settled under later results.         *)
THEOREM CompletedSettled == Spec => []CompletedStaysSettled
<1>1. ArchiveInv => CompletedStaysSettled
  BY DEF ArchiveInv
<1> QED BY <1>1, ArchiveInductive, PTL

(* Rows of a filing do not come back after its removal was completed.      *)
THEOREM RemovalsFinal == Spec => []RemovalsAreFinal
<1>1. ArchiveInv => RemovalsAreFinal
  BY DEF ArchiveInv
<1> QED BY <1>1, ArchiveInductive, PTL

(* Two paid readings of one filing never count side by side.               *)
THEOREM PaidReadingIsOne == Spec => []OnePaidReading
<1>1. ArchiveInv => OnePaidReading
  BY DEF ArchiveInv
<1> QED BY <1>1, ArchiveInductive, PTL

(* The tables of all generations agree about every filing.                 *)
THEOREM FilingsConsistent == Spec => []FilingsAreConsistent
<1>1. ArchiveInv => FilingsAreConsistent
  BY DEF ArchiveInv, FilingsAreConsistent
<1> QED BY <1>1, ArchiveInductive, PTL

(* The shown version of a filing goes back only by a completed removal.    *)
THEOREM ShownAdvances == Spec => ShownOnlyAdvances
<1> DEFINE Advances(d, g) ==
             \/ \E h \in g .. Latest' : Accepted(d, h)'
             \/ Latest' \in Completed' /\ d \in generations'[Latest'].removed
<1>1. ASSUME ArchiveInv, [Next]_vars, NEW d \in Doc, NEW g \in 1 .. Latest, Accepted(d, g)
      PROVE  Advances(d, g)
  <2>1. TypeOK /\ LastExists /\ Latest \in Nat
    BY <1>1, LatestType, ArchiveAssumption DEF ArchiveInv
  <2>2. g <= Latest'
    BY <1>1, <2>1, ListedStep DEF Accepted, StillListed
  <2>3. CASE Accepted(d, g)'
    <3>1. Latest' \in Nat
      BY <1>1, TypeStep DEF TypeOK, Latest
    <3>2. g \in g .. Latest'
      BY <2>1, <2>2, <3>1
    <3> QED BY <2>3, <3>2
  <2>4. CASE g # Latest /\ Accepted(d, Latest)' /\ UNCHANGED generations
    <3>1. Latest' = Latest /\ Latest \in g .. Latest'
      BY <2>1, <2>4, Same
    <3> QED BY <2>4, <3>1
  <2>5. CASE Complete /\ d \in generations[Latest].removed
    BY <2>1, <2>5, CompleteAt
  <2> QED BY <1>1, <2>3, <2>4, <2>5, AcceptedStep
<1>2. ArchiveInv /\ [Next]_vars
        => [\A d \in Doc : \A g \in 1 .. Latest : Accepted(d, g) => Advances(d, g)]_tables
  BY <1>1
<1> QED BY <1>2, ArchiveInductive, PTL DEF Spec, ShownOnlyAdvances

(* A refresh never asks again for what was settled and is unchanged.       *)
THEOREM SettledCarried == Spec => SettledIsCarried
<1> DEFINE Carries == \A d \in Carried(generations'[Latest'].listing) :
                        Accepted(d, LastCompleted) => Accepted(d, Latest)'
<1>1. ASSUME ArchiveInv, [Next]_vars, Latest' > Latest PROVE Carries
  <2>1. TypeOK /\ LastExists /\ CanGoBack /\ Latest \in Nat
    BY <1>1, LatestType, ArchiveAssumption DEF ArchiveInv
  <2>2. Promote
    BY <1>1, <2>1, CurrentSteps
  <2>3. Latest' = Latest + 1 /\ generations'[Latest'].listing = fetch.listing
    BY <2>1, <2>2, PromotedGenerations DEF Successor
  <2> SUFFICES ASSUME NEW d \in Carried(fetch.listing), Accepted(d, LastCompleted)
               PROVE  Accepted(d, Latest)'
    BY <2>3
  <2>4. d \in Doc /\ d \in ListedIn(fetch.listing) /\ LastCompleted \in Generation
    BY <2>1, CarriedAgree, LastType
  <2>5. PICK q \in Recipe : Settles(d, q, LastCompleted)
    BY DEF Accepted
  <2>6. Latest' \in Generation
    BY <2>1, <2>2, <2>3, PromoteAt
  <2>7. /\ runs'[d][q][Latest'] = runs[d][q][LastCompleted]
        /\ \A s \in Source : rows'[d][s][Latest'] = rows[d][s][LastCompleted]
    BY <2>1, <2>2, <2>3, <2>4, <2>6, PromoteAt
  <2>8. Settles(d, q, Latest)'
    BY <2>5, <2>7, FamilyType DEF Settles
  <2>9. Latest' <= Latest' /\ d \in ListedIn(generations'[Latest'].listing)
    BY <2>1, <2>3, <2>4
  <2> QED BY <2>8, <2>9 DEF Accepted
<1>2. ArchiveInv /\ [Next]_vars => [Latest' > Latest => Carries]_vars
  BY <1>1
<1> QED BY <1>2, ArchiveInductive, PTL DEF Spec, SettledIsCarried

-----------------------------------------------------------------------------
(* The closes at which trades are priced.                                  *)

MarketType == market \in Seq({NoBar, NaN} \union ClosePrice)

LEMMA MarketIs ==
  ASSUME MarketType
  PROVE  /\ Len(market) \in Nat
         /\ \A d \in 1 .. Len(market) : market[d] \in {NoBar, NaN} \union ClosePrice
  BY DEF MarketType

LEMMA CodesAreNoPrices == NoBar \notin ClosePrice /\ NaN \notin ClosePrice /\ None \notin ClosePrice /\ NoBar # NaN
  BY EntryCloseAssumption DEF NoBar, NaN, None

LEMMA FirstOf ==
  ASSUME NEW S \in SUBSET Nat, S # {}
  PROVE  Min(S) \in S /\ \A n \in S : Min(S) <= n
<1> DEFINE R == OpToRel(<, Nat)
<1>1. IsWellFoundedOn(R, Nat)
  BY NatLessThanWellFounded
<1>2. \A x, y \in Nat : x < y => <<x, y>> \in R
  BY DEF OpToRel
<1> HIDE DEF R
<1>3. PICK x \in S : \A y \in S : ~(<<y, x>> \in R)
  BY <1>1, WFMin
<1>4. ASSUME NEW y \in S PROVE x <= y
  <2>1. x \in Nat /\ y \in Nat /\ ~(<<y, x>> \in R)
    BY <1>3
  <2>2. ~(y < x)
    BY <1>2, <2>1
  <2> QED BY <2>1, <2>2
<1> QED BY <1>3, <1>4 DEF Min

LEMMA LastOf ==
  ASSUME NEW n \in Nat, NEW S \in SUBSET (0 .. n), S # {}
  PROVE  Max(S) \in S /\ \A m \in S : m <= Max(S)
<1> DEFINE T == {n - m : m \in S}
<1>1. T \in SUBSET Nat /\ T # {}
  <2>1. \A m \in S : m \in Int /\ n - m \in Nat
    OBVIOUS
  <2> QED BY <2>1
<1>2. Min(T) \in T /\ \A k \in T : Min(T) <= k
  BY <1>1, FirstOf
<1>3. PICK x \in S : Min(T) = n - x
  BY <1>2
<1>4. ASSUME NEW m \in S PROVE x >= m
  <2>1. n - m \in T /\ m \in Int /\ x \in Int
    OBVIOUS
  <2>2. n - x <= n - m
    BY <1>2, <1>3, <2>1
  <2> QED BY <2>1, <2>2
<1> QED BY <1>4 DEF Max

(* The least and the greatest are known by what they are.                  *)
LEMMA FirstIs ==
  ASSUME NEW S \in SUBSET Nat, NEW x \in S, \A y \in S : x <= y
  PROVE  Min(S) = x
<1>1. Min(S) \in S /\ Min(S) <= x
  BY FirstOf
<1>2. x <= Min(S) /\ Min(S) \in Nat /\ x \in Nat
  BY <1>1
<1> QED BY <1>1, <1>2

LEMMA LastIs ==
  ASSUME NEW n \in Nat, NEW S \in SUBSET (0 .. n), NEW x \in S, \A y \in S : y <= x
  PROVE  Max(S) = x
<1>1. Max(S) \in S /\ x <= Max(S)
  BY LastOf
<1>2. Max(S) <= x /\ Max(S) \in 0 .. n /\ x \in 0 .. n
  BY <1>1
<1> QED BY <1>1, <1>2

-----------------------------------------------------------------------------
(* The dates of the frame are numbered in their order.                     *)

Below(asOf, d) == {e \in Barred(asOf) : e < d}

LEMMA BarredIs ==
  ASSUME NEW asOf \in Nat
  PROVE  /\ Barred(asOf) \subseteq 1 .. asOf /\ IsFiniteSet(Barred(asOf)) /\ Cardinality(Barred(asOf)) \in Nat
         /\ \A d : Below(asOf, d) \subseteq Barred(asOf) /\ IsFiniteSet(Below(asOf, d))
                   /\ Cardinality(Below(asOf, d)) \in Nat
<1>1. Barred(asOf) \subseteq 1 .. asOf
  BY DEF Barred
<1>2. IsFiniteSet(1 .. asOf)
  BY FS_Interval
<1>3. IsFiniteSet(Barred(asOf))
  BY <1>1, <1>2, FS_Subset
<1>4. ASSUME NEW d
      PROVE  Below(asOf, d) \subseteq Barred(asOf) /\ IsFiniteSet(Below(asOf, d))
             /\ Cardinality(Below(asOf, d)) \in Nat
  <2>1. Below(asOf, d) \subseteq Barred(asOf)
    BY DEF Below
  <2>2. IsFiniteSet(Below(asOf, d))
    BY <1>3, <2>1, FS_Subset
  <2> QED BY <2>1, <2>2, FS_CardinalityType
<1> QED BY <1>1, <1>3, <1>4, FS_CardinalityType

(* A later date has more dates before it.                                  *)
LEMMA LaterHasMore ==
  ASSUME NEW asOf \in Nat, NEW d \in Barred(asOf), NEW e \in Int, d < e
  PROVE  Cardinality(Below(asOf, d)) < Cardinality(Below(asOf, e))
<1>1. d \in Int
  BY BarredIs
<1>2. Below(asOf, d) \subseteq Below(asOf, e)
  <2> SUFFICES ASSUME NEW x \in Below(asOf, d) PROVE x \in Below(asOf, e)
    OBVIOUS
  <2>1. x \in Barred(asOf) /\ x < d /\ x \in 1 .. asOf
    BY BarredIs DEF Below
  <2> QED BY <1>1, <2>1 DEF Below
<1>3. d \in Below(asOf, e) /\ d \notin Below(asOf, d)
  BY <1>1 DEF Below
<1>4. Cardinality(Below(asOf, d)) <= Cardinality(Below(asOf, e))
      /\ Cardinality(Below(asOf, d)) # Cardinality(Below(asOf, e))
  <2>1. IsFiniteSet(Below(asOf, e)) /\ Below(asOf, d) # Below(asOf, e)
    BY <1>3, BarredIs
  <2> QED BY <1>2, <2>1, FS_Subset
<1>5. Cardinality(Below(asOf, d)) \in Nat /\ Cardinality(Below(asOf, e)) \in Nat
  BY BarredIs
<1> QED BY <1>4, <1>5

LEMMA BarsAreNumbered ==
  ASSUME NEW asOf \in Nat
  PROVE  /\ DOMAIN Bars(asOf) = 1 .. Cardinality(Barred(asOf))
         /\ \A k \in DOMAIN Bars(asOf) :
              Bars(asOf)[k] \in Barred(asOf) /\ Cardinality(Below(asOf, Bars(asOf)[k])) = k - 1
         /\ \A d \in Barred(asOf) : \E k \in DOMAIN Bars(asOf) : Bars(asOf)[k] = d
<1>1. PICK n \in Nat : n = Cardinality(Barred(asOf))
  BY BarredIs
<1>2. PICK place : place = [d \in Barred(asOf) |-> Cardinality(Below(asOf, d)) + 1]
  OBVIOUS
<1>3. ASSUME NEW d \in Barred(asOf) PROVE place[d] \in 1 .. n
  <2>1. Below(asOf, d) # Barred(asOf) /\ d \in Int
    BY BarredIs DEF Below
  <2>2. Cardinality(Below(asOf, d)) <= n /\ Cardinality(Below(asOf, d)) # n
    BY <1>1, <2>1, BarredIs, FS_Subset
  <2>3. Cardinality(Below(asOf, d)) \in Nat
    BY BarredIs
  <2> QED BY <1>2, <2>2, <2>3
<1>4. ASSUME NEW d \in Barred(asOf), NEW e \in Barred(asOf), place[d] = place[e] PROVE d = e
  <2>1. d \in Int /\ e \in Int
    BY BarredIs
  <2>2. Cardinality(Below(asOf, d)) \in Nat /\ Cardinality(Below(asOf, e)) \in Nat
    BY BarredIs
  <2>3. Cardinality(Below(asOf, d)) = Cardinality(Below(asOf, e))
    BY <1>2, <1>4, <2>2
  <2> QED BY <2>1, <2>2, <2>3, LaterHasMore
<1>5. place \in Injection(Barred(asOf), 1 .. n)
  BY <1>2, <1>3, <1>4 DEF Injection, IsInjective
<1>6. place \in Surjection(Barred(asOf), 1 .. n)
  <2>1. IsFiniteSet(1 .. n) /\ Cardinality(1 .. n) = n
    BY FS_Interval
  <2> QED BY <1>1, <1>5, <2>1, FS_Injection
<1>7. ASSUME NEW k \in 1 .. n PROVE \E d \in Barred(asOf) : place[d] = k
  BY <1>6 DEF Surjection
<1>8. \A k \in 1 .. n : \E d \in Barred(asOf) : Cardinality(Below(asOf, d)) = k - 1
  <2> SUFFICES ASSUME NEW k \in 1 .. n PROVE \E d \in Barred(asOf) : Cardinality(Below(asOf, d)) = k - 1
    OBVIOUS
  <2>1. PICK d \in Barred(asOf) : place[d] = k
    BY <1>7
  <2>2. Cardinality(Below(asOf, d)) \in Nat
    BY BarredIs
  <2> QED BY <1>2, <2>1, <2>2
<1>9. DOMAIN Bars(asOf) = 1 .. n /\ \A k \in 1 .. n :
        Bars(asOf)[k] = CHOOSE d \in Barred(asOf) : Cardinality(Below(asOf, d)) = k - 1
  BY <1>1 DEF Bars, Below
<1>10. \A k \in 1 .. n : Bars(asOf)[k] \in Barred(asOf) /\ Cardinality(Below(asOf, Bars(asOf)[k])) = k - 1
  BY <1>8, <1>9
<1>11. ASSUME NEW d \in Barred(asOf) PROVE \E k \in 1 .. n : Bars(asOf)[k] = d
  <2>1. PICK k \in 1 .. n : k = place[d]
    BY <1>3
  <2>2. Cardinality(Below(asOf, d)) \in Nat
    BY BarredIs
  <2>3. Cardinality(Below(asOf, d)) = k - 1
    BY <1>2, <2>1, <2>2
  <2>4. Bars(asOf)[k] \in Barred(asOf) /\ Cardinality(Below(asOf, Bars(asOf)[k])) = k - 1
    BY <1>10
  <2>5. Bars(asOf)[k] \in Int /\ d \in Int
    BY <2>4, BarredIs
  <2>6. ~(d < Bars(asOf)[k]) /\ ~(Bars(asOf)[k] < d)
    BY <2>3, <2>4, <2>5, LaterHasMore
  <2> QED BY <2>5, <2>6
<1> QED BY <1>1, <1>9, <1>10, <1>11

(* What a search in the dates returns: how many are before a day.          *)
LEMMA SearchIs ==
  ASSUME NEW asOf \in Nat, NEW day \in Int
  PROVE  /\ searchsorted_left(Bars(asOf), day) = Cardinality(Below(asOf, day))
         /\ searchsorted_right(Bars(asOf), day) = searchsorted_left(Bars(asOf), day + 1)
<1>1. PICK bars : bars = Bars(asOf)
  OBVIOUS
<1>2. PICK found : found = {i \in DOMAIN bars : bars[i] < day}
  OBVIOUS
<1>3. PICK f : f = [i \in found |-> bars[i]]
  OBVIOUS
<1>4. \A i \in found : f[i] \in Below(asOf, day)
  BY <1>1, <1>2, <1>3, BarsAreNumbered DEF Below
<1>5. ASSUME NEW i \in found, NEW j \in found, f[i] = f[j] PROVE i = j
  <2>1. i \in DOMAIN bars /\ j \in DOMAIN bars /\ bars[i] = bars[j]
    BY <1>2, <1>3, <1>5
  <2>2. i - 1 = j - 1
    BY <1>1, <2>1, BarsAreNumbered
  <2>3. i \in Int /\ j \in Int
    <3>1. i \in 1 .. Cardinality(Barred(asOf)) /\ j \in 1 .. Cardinality(Barred(asOf))
      BY <1>1, <2>1, BarsAreNumbered
    <3>2. Cardinality(Barred(asOf)) \in Nat
      BY BarredIs
    <3> QED BY <3>1, <3>2
  <2> QED BY <2>2, <2>3
<1>6. ASSUME NEW d \in Below(asOf, day) PROVE \E i \in found : f[i] = d
  <2>1. d \in Barred(asOf) /\ d < day
    BY DEF Below
  <2>2. PICK i \in DOMAIN bars : bars[i] = d
    BY <1>1, <2>1, BarsAreNumbered
  <2> QED BY <1>2, <1>3, <2>1, <2>2
<1>7. f \in Bijection(found, Below(asOf, day))
  <2>1. f \in [found -> Below(asOf, day)]
    BY <1>3, <1>4
  <2>2. f \in Injection(found, Below(asOf, day))
    BY <1>5, <2>1 DEF Injection, IsInjective
  <2>3. f \in Surjection(found, Below(asOf, day))
    BY <1>6, <2>1 DEF Surjection
  <2> QED BY <2>2, <2>3 DEF Bijection
<1>8. IsFiniteSet(found)
  <2>1. found \subseteq 1 .. Cardinality(Barred(asOf)) /\ Cardinality(Barred(asOf)) \in Nat
    BY <1>1, <1>2, BarsAreNumbered, BarredIs
  <2>2. IsFiniteSet(1 .. Cardinality(Barred(asOf)))
    BY <2>1, FS_Interval
  <2> QED BY <2>1, <2>2, FS_Subset
<1>9. Cardinality(Below(asOf, day)) = Cardinality(found)
  BY <1>7, <1>8, FS_Bijection DEF ExistsBijection
<1>10. searchsorted_right(bars, day) = searchsorted_left(bars, day + 1)
  <2>1. \A i \in DOMAIN bars : bars[i] <= day <=> bars[i] < day + 1
    <3> SUFFICES ASSUME NEW i \in DOMAIN bars PROVE bars[i] <= day <=> bars[i] < day + 1
      OBVIOUS
    <3>1. bars[i] \in 1 .. asOf
      BY <1>1, BarsAreNumbered, BarredIs
    <3> QED BY <3>1
  <2>2. {i \in DOMAIN bars : bars[i] <= day} = {i \in DOMAIN bars : bars[i] < day + 1}
    BY <2>1
  <2> QED BY <2>2 DEF searchsorted_left, searchsorted_right
<1> QED BY <1>1, <1>2, <1>9, <1>10 DEF searchsorted_left

(* So the places from one search to another are those of the dates         *)
(* between.                                                                *)
LEMMA PlacesBetween ==
  ASSUME NEW asOf \in Nat, NEW day \in Int, NEW k \in DOMAIN Bars(asOf)
  PROVE  k <= searchsorted_left(Bars(asOf), day) <=> Bars(asOf)[k] < day
<1>1. PICK d : d = Bars(asOf)[k]
  OBVIOUS
<1>2. d \in Barred(asOf) /\ Cardinality(Below(asOf, d)) = k - 1 /\ k \in Nat
  <2>1. k \in 1 .. Cardinality(Barred(asOf)) /\ Cardinality(Barred(asOf)) \in Nat
    BY BarsAreNumbered, BarredIs
  <2> QED BY <1>1, <2>1, BarsAreNumbered
<1>3. d \in 1 .. asOf
  BY <1>2, BarredIs
<1>4. PICK m \in Nat : m = searchsorted_left(Bars(asOf), day) /\ m = Cardinality(Below(asOf, day))
  BY SearchIs, BarredIs
<1>5. CASE d < day
  <2>1. k - 1 < m
    BY <1>2, <1>3, <1>4, <1>5, LaterHasMore
  <2> QED BY <1>1, <1>2, <1>4, <1>5, <2>1
<1>6. CASE ~(d < day)
  <2>1. Below(asOf, day) \subseteq Below(asOf, d)
    <3> SUFFICES ASSUME NEW x \in Below(asOf, day) PROVE x \in Below(asOf, d)
      OBVIOUS
    <3>1. x \in Barred(asOf) /\ x < day /\ x \in 1 .. asOf
      BY BarredIs DEF Below
    <3> QED BY <1>3, <1>6, <3>1 DEF Below
  <2>2. m <= k - 1
    BY <1>2, <1>4, <2>1, BarredIs, FS_Subset
  <2> QED BY <1>1, <1>2, <1>4, <1>6, <2>2
<1> QED BY <1>5, <1>6

-----------------------------------------------------------------------------
(* The memoized search and the definition.                                 *)

LEMMA ComputeIsExact ==
  ASSUME MarketType, NEW asOf \in Day, NEW day \in Day
  PROVE  _compute(day, asOf) = entry_close(day, asOf)
<1>1. asOf \in Nat /\ asOf <= Len(market) /\ day \in Nat /\ Len(market) \in Nat /\ MaxGap \in Nat
  BY MarketIs, EntryCloseAssumption DEF Day
<1>2. PICK bars : bars = Bars(asOf)
  OBVIOUS
<1>3. PICK low, high :
        low = searchsorted_left(bars, day) /\ high = searchsorted_left(bars, day + MaxGap + 1)
  OBVIOUS
<1>4. PICK found : found = WithClose(bars, low + 1 .. high)
  OBVIOUS
<1>5. PICK closes : closes = Priced(day .. asOf)
  OBVIOUS
<1>6. low \in Nat /\ high \in Nat
  BY <1>1, <1>2, <1>3, SearchIs, BarredIs
<1>7. PICK n \in Nat : n = Cardinality(Barred(asOf)) /\ DOMAIN bars = 1 .. n
  BY <1>1, <1>2, BarsAreNumbered, BarredIs
<1>8. high <= n
  <2>1. day + MaxGap + 1 \in Int
    BY <1>1
  <2>2. high = Cardinality(Below(asOf, day + MaxGap + 1))
    BY <1>1, <1>2, <1>3, <2>1, SearchIs
  <2> QED BY <1>1, <1>7, <2>2, BarredIs, FS_Subset
<1>9. \A d \in Barred(asOf) : market[d] # NaN <=> market[d] \in ClosePrice
  <2> SUFFICES ASSUME NEW d \in Barred(asOf) PROVE market[d] # NaN <=> market[d] \in ClosePrice
    OBVIOUS
  <2>1. d \in 1 .. asOf /\ market[d] # NoBar
    BY DEF Barred
  <2>2. market[d] \in {NoBar, NaN} \union ClosePrice
    BY <1>1, <2>1, MarketIs
  <2> QED BY <2>1, <2>2, CodesAreNoPrices
<1>10. \A k \in found : /\ k \in 1 .. n /\ bars[k] \in closes /\ bars[k] < day + MaxGap + 1
  <2> SUFFICES ASSUME NEW k \in found
               PROVE  k \in 1 .. n /\ bars[k] \in closes /\ bars[k] < day + MaxGap + 1
    OBVIOUS
  <2>1. k \in low + 1 .. high /\ market[bars[k]] # NaN
    BY <1>4 DEF WithClose
  <2>2. k \in 1 .. n
    BY <1>6, <1>7, <1>8, <2>1
  <2>3. bars[k] \in Barred(asOf) /\ bars[k] \in 1 .. asOf
    BY <1>1, <1>2, <1>7, <2>2, BarsAreNumbered, BarredIs
  <2>4. ~(k <= low) /\ k <= high /\ k \in DOMAIN bars
    BY <1>6, <1>7, <2>1, <2>2
  <2>5. ~(bars[k] < day)
    BY <1>1, <1>2, <1>3, <2>4, PlacesBetween
  <2>6. bars[k] < day + MaxGap + 1
    <3>1. day + MaxGap + 1 \in Int
      BY <1>1
    <3> QED BY <1>1, <1>2, <1>3, <2>4, <3>1, PlacesBetween
  <2>7. market[bars[k]] \in ClosePrice
    BY <1>9, <2>1, <2>3
  <2> QED BY <1>1, <1>5, <2>2, <2>3, <2>5, <2>6, <2>7 DEF Priced
<1>11. \A d \in closes : d < day + MaxGap + 1 => \E k \in found : bars[k] = d
  <2> SUFFICES ASSUME NEW d \in closes, d < day + MaxGap + 1 PROVE \E k \in found : bars[k] = d
    OBVIOUS
  <2>1. d \in day .. asOf /\ market[d] \in ClosePrice
    BY <1>5 DEF Priced
  <2>2. d \in 1 .. asOf
    BY <1>1, <2>1 DEF Day
  <2>3. d \in Barred(asOf)
    BY <2>1, <2>2, CodesAreNoPrices DEF Barred
  <2>4. PICK k \in DOMAIN bars : bars[k] = d
    BY <1>1, <1>2, <2>3, BarsAreNumbered
  <2>5. ~(k <= low) /\ k \in 1 .. n
    BY <1>1, <1>2, <1>3, <1>7, <2>1, <2>4, PlacesBetween
  <2>6. k <= high
    <3>1. day + MaxGap + 1 \in Int
      BY <1>1
    <3> QED BY <1>1, <1>2, <1>3, <2>4, <3>1, PlacesBetween
  <2>7. k \in low + 1 .. high
    BY <1>6, <1>7, <2>5, <2>6
  <2> QED BY <1>4, <2>1, <2>4, <2>7, CodesAreNoPrices DEF WithClose
<1>12. closes \subseteq 0 .. asOf /\ \A d \in closes : d >= day
  BY <1>1, <1>5 DEF Priced
<1>13. found \in SUBSET Nat /\ closes \in SUBSET Nat
  BY <1>1, <1>7, <1>10, <1>12
<1>14. CASE found = {}
  <2>1. closes = {} \/ Min(closes) - day > MaxGap
    <3>1. CASE closes # {}
      <4>1. Min(closes) \in closes
        BY <1>13, <3>1, FirstOf
      <4>2. ~(Min(closes) < day + MaxGap + 1) /\ Min(closes) \in Nat
        BY <1>11, <1>13, <1>14, <4>1
      <4> QED BY <1>1, <4>2
    <3> QED BY <3>1
  <2>2. entry_close(day, asOf) = None
    BY <1>5, <2>1 DEF entry_close
  <2>3. _compute(day, asOf) = None
    BY <1>2, <1>3, <1>4, <1>14 DEF _compute
  <2> QED BY <2>2, <2>3
<1>15. CASE found # {}
  <2>1. Min(found) \in found /\ \A k \in found : Min(found) <= k
    BY <1>13, <1>15, FirstOf
  <2>2. PICK first : first = bars[Min(found)]
    OBVIOUS
  <2>3. first \in closes /\ first < day + MaxGap + 1 /\ first \in Nat
    BY <1>10, <1>13, <2>1, <2>2
  <2>4. ASSUME NEW d \in closes PROVE first <= d
    <3>1. d \in Nat
      BY <1>13
    <3>2. CASE d < day + MaxGap + 1
      <4>1. PICK k \in found : bars[k] = d
        BY <1>11, <3>2
      <4>2. Min(found) <= k /\ k \in DOMAIN bars /\ Min(found) \in DOMAIN bars
        BY <1>7, <1>10, <2>1, <4>1
      <4>3. first \in Barred(asOf) /\ d \in Barred(asOf)
            /\ Cardinality(Below(asOf, first)) = Min(found) - 1 /\ Cardinality(Below(asOf, d)) = k - 1
        BY <1>1, <1>2, <2>2, <4>1, <4>2, BarsAreNumbered
      <4>4. ~(d < first)
        <5>1. Min(found) \in Nat /\ k \in Nat
          BY <1>13, <2>1
        <5> QED BY <1>1, <2>3, <3>1, <4>2, <4>3, <5>1, LaterHasMore
      <4> QED BY <2>3, <3>1, <4>4
    <3>3. CASE ~(d < day + MaxGap + 1)
      BY <1>1, <2>3, <3>1, <3>3
    <3> QED BY <3>2, <3>3
  <2>5. Min(closes) = first
    BY <1>13, <2>3, <2>4, FirstIs
  <2>6. ~(Min(closes) - day > MaxGap) /\ closes # {}
    BY <1>1, <2>3, <2>5
  <2>7. entry_close(day, asOf) = market[first]
    BY <1>5, <2>5, <2>6 DEF entry_close
  <2>8. _compute(day, asOf) = market[first]
    BY <1>2, <1>3, <1>4, <1>15, <2>2 DEF _compute
  <2> QED BY <2>7, <2>8
<1> QED BY <1>14, <1>15

LEMMA CurrentIsExact ==
  ASSUME MarketType, NEW asOf \in Day
  PROVE  _current_compute(asOf) = _current_close(asOf)
<1>1. asOf \in Nat /\ asOf <= Len(market) /\ Len(market) \in Nat
  BY MarketIs DEF Day
<1>2. PICK bars : bars = Bars(asOf)
  OBVIOUS
<1>3. PICK high : high = searchsorted_right(bars, asOf)
  OBVIOUS
<1>4. PICK found : found = WithClose(bars, 1 .. high)
  OBVIOUS
<1>5. PICK closes : closes = Priced(1 .. asOf)
  OBVIOUS
<1>6. PICK n \in Nat : n = Cardinality(Barred(asOf)) /\ DOMAIN bars = 1 .. n
  BY <1>1, <1>2, BarsAreNumbered, BarredIs
<1>7. high = searchsorted_left(bars, asOf + 1) /\ high \in Nat /\ high <= n
  <2>1. asOf + 1 \in Int
    BY <1>1
  <2>2. high = searchsorted_left(bars, asOf + 1) /\ high = Cardinality(Below(asOf, asOf + 1))
    BY <1>1, <1>2, <1>3, <2>1, SearchIs
  <2> QED BY <1>1, <1>6, <2>2, BarredIs, FS_Subset
<1>8. \A k \in found : k \in 1 .. n /\ bars[k] \in closes /\ bars[k] \in Barred(asOf)
  <2> SUFFICES ASSUME NEW k \in found
               PROVE  k \in 1 .. n /\ bars[k] \in closes /\ bars[k] \in Barred(asOf)
    OBVIOUS
  <2>1. k \in 1 .. high /\ market[bars[k]] # NaN
    BY <1>4 DEF WithClose
  <2>2. k \in 1 .. n
    BY <1>6, <1>7, <2>1
  <2>3. bars[k] \in Barred(asOf)
    BY <1>1, <1>2, <1>6, <2>2, BarsAreNumbered
  <2>4. bars[k] \in 1 .. asOf /\ market[bars[k]] # NoBar
    BY <2>3 DEF Barred
  <2>5. market[bars[k]] \in {NoBar, NaN} \union ClosePrice
    BY <1>1, <2>4, MarketIs
  <2> QED BY <1>5, <2>1, <2>2, <2>3, <2>4, <2>5 DEF Priced
<1>9. \A d \in closes : \E k \in found : bars[k] = d
  <2> SUFFICES ASSUME NEW d \in closes PROVE \E k \in found : bars[k] = d
    OBVIOUS
  <2>1. d \in 1 .. asOf /\ market[d] \in ClosePrice
    BY <1>5 DEF Priced
  <2>2. d \in Barred(asOf)
    BY <2>1, CodesAreNoPrices DEF Barred
  <2>3. PICK k \in DOMAIN bars : bars[k] = d
    BY <1>1, <1>2, <2>2, BarsAreNumbered
  <2>4. d < asOf + 1 /\ asOf + 1 \in Int
    BY <1>1, <2>1
  <2>5. k <= high /\ k \in 1 .. n
    BY <1>1, <1>2, <1>6, <1>7, <2>3, <2>4, PlacesBetween
  <2>6. k \in 1 .. high
    BY <1>6, <1>7, <2>5
  <2> QED BY <1>4, <2>1, <2>3, <2>6, CodesAreNoPrices DEF WithClose
<1>10. found \in SUBSET (0 .. n) /\ closes \in SUBSET (0 .. asOf)
  BY <1>1, <1>5, <1>6, <1>8 DEF Priced
<1>11. CASE found = {}
  <2>1. closes = {}
    BY <1>9, <1>11
  <2>2. _current_close(asOf) = None
    BY <1>5, <2>1 DEF _current_close
  <2>3. _current_compute(asOf) = None
    BY <1>2, <1>3, <1>4, <1>11 DEF _current_compute
  <2> QED BY <2>2, <2>3
<1>12. CASE found # {}
  <2>1. Max(found) \in found /\ \A k \in found : k <= Max(found)
    BY <1>6, <1>10, <1>12, LastOf
  <2>2. PICK final : final = bars[Max(found)]
    OBVIOUS
  <2>3. final \in closes /\ final \in Barred(asOf) /\ final \in 0 .. asOf
    BY <1>8, <1>10, <2>1, <2>2
  <2>4. ASSUME NEW d \in closes PROVE d <= final
    <3>1. PICK k \in found : bars[k] = d
      BY <1>9
    <3>2. k <= Max(found) /\ k \in DOMAIN bars /\ Max(found) \in DOMAIN bars /\ k \in Int /\ Max(found) \in Int
      BY <1>6, <1>8, <2>1, <3>1
    <3>3. d \in Barred(asOf)
          /\ Cardinality(Below(asOf, final)) = Max(found) - 1 /\ Cardinality(Below(asOf, d)) = k - 1
      BY <1>1, <1>2, <2>2, <3>1, <3>2, BarsAreNumbered
    <3>4. final \in Int /\ d \in 0 .. asOf
      BY <1>1, <1>10, <2>3
    <3>5. ~(final < d)
      BY <1>1, <2>3, <3>2, <3>3, <3>4, LaterHasMore
    <3> QED BY <1>1, <3>4, <3>5
  <2>5. Max(closes) = final
    BY <1>1, <1>10, <2>3, <2>4, LastIs
  <2>6. _current_close(asOf) = market[final]
    BY <1>5, <2>3, <2>5 DEF _current_close
  <2>7. _current_compute(asOf) = market[final]
    BY <1>2, <1>3, <1>4, <1>12, <2>2 DEF _current_compute
  <2> QED BY <2>6, <2>7
<1> QED BY <1>11, <1>12

LEMMA PriceStays ==
  ASSUME MarketType, NEW day \in Day, NEW asOf \in Day, NEW later \in Day, asOf <= later, entry_close(day, asOf) # None
  PROVE  entry_close(day, later) = entry_close(day, asOf)
<1>1. /\ asOf \in Nat /\ later \in Nat /\ day \in Nat
  BY MarketIs DEF Day
<1>2. PICK closes, more : closes = Priced(day .. asOf) /\ more = Priced(day .. later)
  OBVIOUS
<1>3. closes # {} /\ ~(Min(closes) - day > MaxGap) /\ entry_close(day, asOf) = market[Min(closes)]
  BY <1>2 DEF entry_close
<1>4. closes \in SUBSET Nat /\ more \in SUBSET Nat
  BY <1>1, <1>2 DEF Priced
<1>5. Min(closes) \in closes /\ \A d \in closes : Min(closes) <= d
  BY <1>3, <1>4, FirstOf
<1>6. closes \subseteq more /\ \A d \in more : d \in closes \/ d > asOf
  BY <1>1, <1>2 DEF Priced
<1>7. Min(closes) \in day .. asOf
  BY <1>2, <1>5 DEF Priced
<1>8. ASSUME NEW d \in more PROVE Min(closes) <= d
  <2>1. d \in Nat
    BY <1>4
  <2> QED BY <1>1, <1>5, <1>6, <1>7, <2>1
<1>9. Min(more) = Min(closes) /\ more # {}
  BY <1>4, <1>5, <1>6, <1>8, FirstIs
<1>10. entry_close(day, later) = market[Min(closes)]
  BY <1>2, <1>3, <1>9 DEF entry_close
<1> QED BY <1>3, <1>10

(* For any prices and any gap: the memoized search is the definition, and  *)
(* a trade once priced keeps its price (positions.py).                     *)
THEOREM EntriesAreSound == MarketSpec => []EntryIsSound
<1>1. MarketInit => MarketType
  BY DEF MarketInit, MarketType
<1>2. MarketType /\ [MarketNext]_market => MarketType'
  <2> SUFFICES ASSUME MarketType, [MarketNext]_market PROVE MarketType'
    OBVIOUS
  <2>1. CASE MarketNext
    <3>1. PICK value \in {NoBar, NaN} \union ClosePrice : market' = Append(market, value)
      BY <2>1 DEF MarketNext, Trade
    <3> QED BY <3>1 DEF MarketType
  <2>2. CASE UNCHANGED market
    BY <2>2 DEF MarketType
  <2> QED BY <2>1, <2>2
<1>3. MarketType => EntryIsSound
  BY ComputeIsExact, CurrentIsExact, PriceStays DEF EntryIsSound, LookupIsExact, PricedStaysPriced
<1> QED BY <1>1, <1>2, <1>3, PTL DEF MarketSpec

-----------------------------------------------------------------------------
(* The consensus recommendation.                                           *)

LEMMA LaterOfTwo ==
  ASSUME NEW a \in Int, NEW b \in Int, a <= b
  PROVE  Max({a, b}) = b
<1>1. \A x \in {a, b} : (\A y \in {a, b} : x >= y) => x = b
  OBVIOUS
<1>2. b \in {a, b} /\ \A y \in {a, b} : b >= y
  OBVIOUS
<1> QED BY <1>1, <1>2 DEF Max

LEMMA LesserOfTwo ==
  ASSUME NEW a \in Nat, NEW b \in Nat
  PROVE  Min({a, b}) \in Nat /\ Min({a, b}) <= a /\ Min({a, b}) <= b
<1>1. \E x \in {a, b} : \A y \in {a, b} : x <= y
  OBVIOUS
<1> QED BY <1>1 DEF Min

(* A ticker has one family, and one name it is traded under on a day.      *)
LEMMA FamiliesAreClosed ==
  ASSUME NEW t, NEW u \in TickerFamily(t)
  PROVE  TickerFamily(u) = TickerFamily(t) /\ t \in TickerFamily(u)
BY DEF TickerFamily

LEMMA TradedOnce ==
  ASSUME ConsensusAssumption, NEW t \in Ticker, NEW day \in Nat \ {0}, NEW s \in TradedAs(TickerFamily(t), day)
  PROVE  /\ TradedAs(TickerFamily(t), day) = {s} /\ s \in Ticker /\ TickerFamily(s) = TickerFamily(t)
         /\ Exists(s, day) /\ (s = New => day >= RenameDay)
<1>1. day # NoDay /\ RenameDay \in Nat /\ AcquiredDay \in Nat /\ ListingDay \in Nat
  BY DEF ConsensusAssumption
<1>2. /\ Old \in Ticker /\ New \in Ticker
      /\ Old # New /\ Gone # Old /\ Gone # New /\ Listed # Old /\ Listed # New /\ Listed # Gone
  BY DEF ConsensusAssumption
<1>3. CASE t \in {Old, New}
  <2>1. TickerFamily(t) = {Old, New}
    BY <1>3 DEF TickerFamily
  <2>2. TradedAs(TickerFamily(t), day) = IF Tradable(Old, day) THEN {Resolve(Old, day).symbol} ELSE {}
    BY <2>1 DEF TradedAs
  <2>3. Resolve(Old, day).symbol = IF day >= RenameDay THEN New ELSE Old
    BY <1>1 DEF Resolve
  <2>4. s = (IF day >= RenameDay THEN New ELSE Old) /\ TradedAs(TickerFamily(t), day) = {s}
    BY <2>2, <2>3
  <2>5. s \in Ticker /\ TickerFamily(s) = {Old, New}
    BY <1>2, <2>4 DEF TickerFamily
  <2>6. (s = Old => day < RenameDay) /\ s # Gone /\ s # Listed /\ (s = New => day >= RenameDay)
    BY <1>1, <1>2, <2>4
  <2>7. Exists(s, day)
    BY <2>6 DEF Exists
  <2> QED BY <2>1, <2>4, <2>5, <2>6, <2>7
<1>4. CASE t \notin {Old, New}
  <2>1. TickerFamily(t) = {t} /\ Old \notin {t}
    BY <1>4 DEF TickerFamily
  <2>2. (CHOOSE u \in {t} : TRUE) = t
    OBVIOUS
  <2>3. TradedAs(TickerFamily(t), day) = IF Tradable(t, day) THEN {Resolve(t, day).symbol} ELSE {}
    BY <2>1, <2>2 DEF TradedAs
  <2>4. Resolve(t, day).symbol = t
    BY <1>4 DEF Resolve
  <2>5. s = t /\ TradedAs(TickerFamily(t), day) = {s} /\ Resolve(t, day).status = "usable"
    BY <2>3, <2>4 DEF Tradable
  <2>6. (t = Listed => ~(day < ListingDay)) /\ (t = Gone => ~(day > AcquiredDay))
    BY <1>1, <1>2, <2>5 DEF Resolve
  <2>7. s # Old /\ s # New /\ (s = Gone => day <= AcquiredDay) /\ (s = Listed => day >= ListingDay)
    BY <1>1, <1>4, <2>5, <2>6
  <2>8. Exists(s, day)
    BY <2>7 DEF Exists
  <2> QED BY <2>1, <2>5, <2>7, <2>8
<1> QED BY <1>3, <1>4

(* Members counted are of different persons: a spelling that two buyers    *)
(* share, or that could be of both, is of neither.                         *)
LEMMA SpellingsAreSymmetric ==
  ASSUME NEW m, NEW n, SameMember(m, n)
  PROVE  SameMember(n, m)
BY DEF SameMember, MiddlesAgree

LEMMA GroupsAreDistinct ==
  ASSUME NEW names, NEW a \in names, NEW b \in names, NEW m \in MemberGroup(a, names), NEW n \in MemberGroup(b, names),
         SameMember(m, n)
  PROVE  MemberGroup(a, names) = MemberGroup(b, names)
<1>1. /\ ~Ambiguous(a, names) /\ MemberGroup(a, names) = {x \in Spellings(a, names) : ~Ambiguous(x, names)}
      /\ ~Ambiguous(b, names) /\ MemberGroup(b, names) = {x \in Spellings(b, names) : ~Ambiguous(x, names)}
  BY DEF MemberGroup
<1>2. m \in names /\ n \in names /\ SameMember(a, m) /\ SameMember(b, n) /\ ~Ambiguous(m, names) /\ ~Ambiguous(n, names)
  BY <1>1 DEF Spellings
<1>3. \A x \in names : ~Ambiguous(x, names) =>
        \A y, z \in names : SameMember(x, y) /\ SameMember(x, z) => SameMember(y, z)
  BY DEF Ambiguous, Spellings
<1>4. SameMember(a, n)
  BY <1>2, <1>3, SpellingsAreSymmetric
<1>5. SameMember(a, b)
  BY <1>2, <1>3, <1>4, SpellingsAreSymmetric
<1>6. ASSUME NEW x \in names PROVE SameMember(a, x) <=> SameMember(b, x)
  BY <1>1, <1>3, <1>5, SpellingsAreSymmetric
<1> QED BY <1>1, <1>6 DEF Spellings

LEMMA BuyersAreDistinct ==
  ASSUME NEW family, NEW frame, NEW g \in Buyers(family, frame), NEW h \in Buyers(family, frame), g # h,
         NEW m \in g, NEW n \in h
  PROVE  ~SameMember(m, n)
<1>1. PICK names : names = {f.member : f \in LegacyPurchases(frame)}
  OBVIOUS
<1>2. \A k \in Buyers(family, frame) : \E a \in names : k = MemberGroup(a, names)
  BY <1>1 DEF Buyers
<1> QED BY <1>2, GroupsAreDistinct

LEMMA BuyersAreFinite ==
  ASSUME ConsensusAssumption, NEW frame \in SUBSET Filing, NEW family
  PROVE  IsFiniteSet(Buyers(family, frame)) /\ Cardinality(Buyers(family, frame)) \in Nat
<1>1. PICK names : names = {f.member : f \in LegacyPurchases(frame)}
  OBVIOUS
<1>2. PICK bought : bought = {r \in LegacyPurchases(frame) : ResolvedSymbol[r] \in family}
  OBVIOUS
<1>3. IsFiniteSet(bought)
  <2>1. bought \subseteq Filing /\ IsFiniteSet(Filing)
    BY <1>2 DEF LegacyPurchases, Purchases, ConsensusAssumption
  <2> QED BY <2>1, FS_Subset
<1>4. PICK groups : groups = {MemberGroup(f.member, names) : f \in bought}
  OBVIOUS
<1>5. PICK group : group = [f \in bought |-> MemberGroup(f.member, names)]
  OBVIOUS
<1>6. group \in Surjection(bought, groups)
  BY <1>4, <1>5 DEF Surjection
<1>7. IsFiniteSet(groups)
  BY <1>3, <1>6, FS_Surjection
<1>8. Buyers(family, frame) = groups \ {{}}
  BY <1>1, <1>2, <1>4 DEF Buyers
<1> QED BY <1>7, <1>8, FS_Subset, FS_CardinalityType

(* What is scored.                                                         *)
Upto(frame, day) == {f \in frame : f.disclosed # NoDay /\ f.disclosed <= day}

LEMMA PurchasesAreOfTickers ==
  ASSUME ConsensusAssumption, NEW frame \in SUBSET Filing, NEW f \in LegacyPurchases(frame)
  PROVE  ResolvedSymbol[f] \in Ticker
<1>1. f \in Filing /\ ResolvedSymbol[f] # NoTicker
  BY DEF LegacyPurchases, Purchases
<1>2. ResolvedSymbol[f] = Resolve(f.ticker, ReferenceDay(f)).symbol /\ f.ticker # NoTicker
  BY <1>1 DEF ResolvedSymbol
<1>3. f.ticker \in Ticker /\ New \in Ticker
  BY <1>1, <1>2 DEF ConsensusAssumption
<1> QED BY <1>2, <1>3 DEF Resolve

LEMMA CandidatesAre ==
  ASSUME ConsensusAssumption, NEW frame \in SUBSET Filing, NEW minimum, NEW day \in Nat \ {0},
         NEW t \in Candidates(frame, minimum, day)
  PROVE  /\ t \in Ticker /\ TradedAs(TickerFamily(t), day) = {t}
         /\ Exists(t, day) /\ (t = New => day >= RenameDay)
         /\ Cardinality(Buyers(TickerFamily(t), frame)) >= minimum
<1>1. PICK f \in LegacyPurchases(frame) :
        /\ t \in TradedAs(TickerFamily(ResolvedSymbol[f]), day)
        /\ Cardinality(Buyers(TickerFamily(ResolvedSymbol[f]), frame)) >= minimum
  BY DEF Candidates
<1>2. ResolvedSymbol[f] \in Ticker
  BY PurchasesAreOfTickers
<1>3. /\ TradedAs(TickerFamily(ResolvedSymbol[f]), day) = {t} /\ t \in Ticker
      /\ TickerFamily(t) = TickerFamily(ResolvedSymbol[f])
      /\ Exists(t, day) /\ (t = New => day >= RenameDay)
  BY <1>1, <1>2, TradedOnce
<1> QED BY <1>1, <1>3

LEMMA ScoredAre ==
  ASSUME NEW candidates, NEW frame, NEW day, NEW r \in Scored(candidates, frame, day)
  PROVE  /\ r.ticker \in candidates /\ r.buyers = Score(r.ticker, frame, day) /\ r.buyers # {}
         /\ r = [ticker |-> r.ticker, buyers |-> r.buyers]
         /\ r.buyers = Buyers(TickerFamily(r.ticker), Upto(frame, day))
         /\ ~(Cardinality(r.buyers) < MIN_BUYERS)
<1>1. PICK t \in candidates : r = [ticker |-> t, buyers |-> Score(t, frame, day)] /\ r.buyers # {}
  BY DEF Scored
<1>2. r.ticker = t /\ r.buyers = Score(t, frame, day)
  BY <1>1
<1> QED BY <1>1, <1>2 DEF Score, Upto

LEMMA TickersAreFinite == ConsensusAssumption => IsFiniteSet(Ticker)
<1> SUFFICES ASSUME ConsensusAssumption PROVE IsFiniteSet(Ticker)
  OBVIOUS
<1>1. PICK n \in Nat : n = Len(Alphabet) /\ DOMAIN Alphabet = 1 .. n
  BY DEF ConsensusAssumption
<1>2. IsFiniteSet(1 .. n)
  BY FS_Interval
<1>3. [i \in 1 .. n |-> Alphabet[i]] \in Surjection(1 .. n, Ticker)
  BY <1>1 DEF Ticker, Range, Surjection
<1> QED BY <1>2, <1>3, FS_Surjection

LEMMA ScoredIsFinite ==
  ASSUME ConsensusAssumption, NEW frame, NEW day, NEW candidates \in SUBSET Ticker
  PROVE  IsFiniteSet(Scored(candidates, frame, day))
<1>1. IsFiniteSet(candidates)
  BY TickersAreFinite, FS_Subset
<1>2. PICK all : all = {[ticker |-> t, buyers |-> Score(t, frame, day)] : t \in candidates}
  OBVIOUS
<1>3. PICK row : row = [t \in candidates |-> [ticker |-> t, buyers |-> Score(t, frame, day)]]
  OBVIOUS
<1>4. row \in Surjection(candidates, all)
  BY <1>2, <1>3 DEF Surjection
<1>5. IsFiniteSet(all)
  BY <1>1, <1>4, FS_Surjection
<1>6. Scored(candidates, frame, day) \subseteq all
  BY <1>2 DEF Scored
<1> QED BY <1>5, <1>6, FS_Subset

(* A finite set that is ordered strictly and totally: the number of those  *)
(* before an element is its place, and there is one element at each.       *)
IsOrder(S, R) ==
  /\ IsFiniteSet(S)
  /\ \A x \in S : <<x, x>> \notin R
  /\ \A x, y \in S : x # y => <<x, y>> \in R \/ <<y, x>> \in R
  /\ \A x, y, z \in S : <<x, y>> \in R /\ <<y, z>> \in R => <<x, z>> \in R
Before(x, S, R) == {y \in S : <<y, x>> \in R}

LEMMA PlacesAreTaken ==
  ASSUME NEW S, NEW R, IsOrder(S, R)
  PROVE  /\ \A k \in 1 .. Cardinality(S) : \E x \in S : Cardinality(Before(x, S, R)) = k - 1
         /\ \A x, y \in S : Cardinality(Before(x, S, R)) = Cardinality(Before(y, S, R)) => x = y
<1> USE DEF IsOrder
<1>1. PICK n \in Nat : n = Cardinality(S)
  BY FS_CardinalityType
<1>2. PICK before : before = [x \in S |-> {y \in S : <<y, x>> \in R}]
  OBVIOUS
<1>3. \A x \in S : /\ before[x] \subseteq S /\ x \notin before[x]
                   /\ IsFiniteSet(before[x]) /\ Cardinality(before[x]) \in Nat
  <2>1. \A x \in S : before[x] \subseteq S /\ x \notin before[x]
    BY <1>2
  <2> QED BY <2>1, FS_Subset, FS_CardinalityType
<1>4. ASSUME NEW x \in S PROVE Cardinality(before[x]) < n
  <2>1. before[x] # S /\ before[x] \in SUBSET S
    BY <1>3
  <2>2. Cardinality(before[x]) <= n /\ Cardinality(before[x]) # n
    BY <1>1, <2>1, FS_Subset
  <2> QED BY <1>3, <2>2
<1>5. ASSUME NEW x \in S, NEW y \in S, <<x, y>> \in R PROVE Cardinality(before[x]) < Cardinality(before[y])
  <2>1. before[x] \in SUBSET before[y] /\ before[x] # before[y]
    BY <1>2, <1>3, <1>5
  <2>2. Cardinality(before[x]) <= Cardinality(before[y]) /\ Cardinality(before[x]) # Cardinality(before[y])
    BY <1>3, <2>1, FS_Subset
  <2> QED BY <1>3, <2>2
<1>6. ASSUME NEW x \in S, NEW y \in S, Cardinality(before[x]) = Cardinality(before[y]) PROVE x = y
  <2>1. CASE <<x, y>> \in R
    BY <1>3, <1>5, <1>6, <2>1
  <2>2. CASE <<y, x>> \in R
    BY <1>3, <1>5, <1>6, <2>2
  <2> QED BY <2>1, <2>2
<1>7. PICK place : place = [x \in S |-> Cardinality(before[x]) + 1]
  OBVIOUS
<1>8. place \in Injection(S, 1 .. n)
  <2>1. \A x \in S : place[x] \in 1 .. n
    BY <1>1, <1>3, <1>4, <1>7
  <2>2. ASSUME NEW x \in S, NEW y \in S, place[x] = place[y] PROVE x = y
    BY <1>3, <1>6, <1>7, <2>2
  <2> QED BY <1>7, <2>1, <2>2 DEF Injection, IsInjective
<1>9. place \in Surjection(S, 1 .. n)
  <2>1. IsFiniteSet(1 .. n) /\ Cardinality(1 .. n) = n
    BY FS_Interval
  <2> QED BY <1>1, <1>8, <2>1, FS_Injection
<1>10. ASSUME NEW k \in 1 .. n PROVE \E x \in S : Cardinality(Before(x, S, R)) = k - 1
  <2>1. PICK x \in S : place[x] = k
    BY <1>9 DEF Surjection
  <2>2. Cardinality(before[x]) = k - 1
    BY <1>3, <1>7, <2>1
  <2> QED BY <1>2, <2>2 DEF Before
<1>11. \A x, y \in S : Cardinality(Before(x, S, R)) = Cardinality(Before(y, S, R)) => x = y
  BY <1>2, <1>6 DEF Before
<1> QED BY <1>1, <1>10, <1>11

LEMMA FunctionsAreSequences ==
  ASSUME NEW S, NEW n \in Nat, NEW f \in [1 .. n -> S]
  PROVE  f \in Seq(S)
OBVIOUS

(* Rows of one decision, one per ticker: their order is total.             *)
IsScored(scored) ==
  /\ IsFiniteSet(scored)
  /\ \A r \in scored : /\ r.ticker \in Ticker /\ Cardinality(r.buyers) \in Nat
                       /\ \A q \in scored : q.ticker = r.ticker => q = r

LEMMA BestAreRanked ==
  ASSUME ConsensusAssumption, NEW scored, IsScored(scored)
  PROVE  /\ Best(scored) \in Seq(scored) /\ Len(Best(scored)) \in Nat
         /\ \A i, j \in DOMAIN Best(scored) : Best(scored)[i] = Best(scored)[j] => i = j
<1>1. IsFiniteSet(scored) /\ Cardinality(scored) \in Nat
  BY FS_CardinalityType DEF IsScored
<1>2. PICK size \in Nat : size = Min({TopN, Cardinality(scored)}) /\ size <= Cardinality(scored)
  BY <1>1, LesserOfTwo DEF ConsensusAssumption
<1>3. PICK order : order = {p \in scored \X scored : Better(p[1], p[2])}
  OBVIOUS
<1>4. \A q, r \in scored : <<q, r>> \in order <=> Better(q, r)
  BY <1>3
<1>5. ASSUME NEW r \in scored PROVE Place(r.ticker) \in Nat /\ Alphabet[Place(r.ticker)] = r.ticker
  <2>1. r.ticker \in Ticker /\ Alphabet \in Seq(Ticker)
    BY DEF IsScored, ConsensusAssumption
  <2>2. \E i \in DOMAIN Alphabet : Alphabet[i] = r.ticker
    BY <2>1 DEF Ticker, Range
  <2>3. Place(r.ticker) \in DOMAIN Alphabet /\ Alphabet[Place(r.ticker)] = r.ticker
    BY <2>2 DEF Place
  <2> QED BY <2>1, <2>3
<1>6. PICK place : place = [r \in scored |-> Place(r.ticker)]
  OBVIOUS
<1>7. PICK count : count = [r \in scored |-> Cardinality(r.buyers)]
  OBVIOUS
<1>8. /\ \A r \in scored : place[r] \in Nat /\ count[r] \in Nat
      /\ \A q, r \in scored : place[q] = place[r] => q = r
      /\ \A q, r \in scored : Better(q, r) <=> count[q] > count[r] \/ (count[q] = count[r] /\ place[q] < place[r])
  BY <1>5, <1>6, <1>7 DEF IsScored, Better
<1>9. /\ \A r \in scored : <<r, r>> \notin order
      /\ \A q, r \in scored : q # r => <<q, r>> \in order \/ <<r, q>> \in order
      /\ \A q, r, s \in scored : <<q, r>> \in order /\ <<r, s>> \in order => <<q, s>> \in order
  <2>1. \A q, r \in scored : <<q, r>> \in order <=> count[q] > count[r] \/ (count[q] = count[r] /\ place[q] < place[r])
    BY <1>4, <1>8
  <2>2. \A r \in scored : <<r, r>> \notin order
    BY <1>8, <2>1
  <2>3. ASSUME NEW q \in scored, NEW r \in scored, q # r PROVE <<q, r>> \in order \/ <<r, q>> \in order
    <3>1. place[q] \in Nat /\ place[r] \in Nat /\ count[q] \in Nat /\ count[r] \in Nat /\ place[q] # place[r]
      BY <1>8, <2>3
    <3>2. /\ <<q, r>> \in order <=> count[q] > count[r] \/ (count[q] = count[r] /\ place[q] < place[r])
          /\ <<r, q>> \in order <=> count[r] > count[q] \/ (count[r] = count[q] /\ place[r] < place[q])
      BY <2>1
    <3>3. PICK a \in Nat, b \in Nat, c \in Nat, d \in Nat : a = count[q] /\ b = count[r] /\ c = place[q] /\ d = place[r]
      BY <3>1
    <3>4. c # d
      BY <3>1, <3>3
    <3>5. a > b \/ (a = b /\ c < d) \/ b > a \/ (b = a /\ d < c)
      BY <3>4
    <3> QED BY <3>2, <3>3, <3>5
  <2>4. ASSUME NEW q \in scored, NEW r \in scored, NEW s \in scored, <<q, r>> \in order, <<r, s>> \in order
        PROVE  <<q, s>> \in order
    <3>1. /\ place[q] \in Nat /\ place[r] \in Nat /\ place[s] \in Nat
          /\ count[q] \in Nat /\ count[r] \in Nat /\ count[s] \in Nat
      BY <1>8
    <3>2. /\ count[q] > count[r] \/ (count[q] = count[r] /\ place[q] < place[r])
          /\ count[r] > count[s] \/ (count[r] = count[s] /\ place[r] < place[s])
      BY <2>1, <2>4
    <3>3. count[q] > count[s] \/ (count[q] = count[s] /\ place[q] < place[s])
      <4>1. PICK a \in Nat, b \in Nat, c \in Nat : a = count[q] /\ b = count[r] /\ c = count[s]
        BY <3>1
      <4>2. PICK d \in Nat, e \in Nat, f \in Nat : d = place[q] /\ e = place[r] /\ f = place[s]
        BY <3>1
      <4>3. (a > b \/ (a = b /\ d < e)) /\ (b > c \/ (b = c /\ e < f))
        BY <3>2, <4>1, <4>2
      <4>4. a > c \/ (a = c /\ d < f)
        BY <4>3
      <4> QED BY <4>1, <4>2, <4>4
    <3> QED BY <2>1, <3>3
  <2> QED BY <2>2, <2>3, <2>4
<1>10. /\ \A k \in 1 .. Cardinality(scored) : \E x \in scored : Cardinality(Before(x, scored, order)) = k - 1
       /\ \A x, y \in scored : Cardinality(Before(x, scored, order)) = Cardinality(Before(y, scored, order)) => x = y
  <2>1. IsOrder(scored, order)
    BY <1>1, <1>9 DEF IsOrder
  <2> QED BY <2>1, PlacesAreTaken
<1>11. \A x \in scored : Before(x, scored, order) = {y \in scored : Better(y, x)}
  BY <1>4 DEF Before
<1>12. \A k \in 1 .. size : \E x \in scored : Cardinality({y \in scored : Better(y, x)}) = k - 1
  <2> SUFFICES ASSUME NEW k \in 1 .. size
               PROVE  \E x \in scored : Cardinality({y \in scored : Better(y, x)}) = k - 1
    OBVIOUS
  <2>1. k \in 1 .. Cardinality(scored)
    BY <1>1, <1>2
  <2> QED BY <1>10, <1>11, <2>1
<1>13. /\ DOMAIN Best(scored) = 1 .. size
       /\ \A k \in 1 .. size : /\ Best(scored)[k] \in scored
                               /\ Cardinality({y \in scored : Better(y, Best(scored)[k])}) = k - 1
  BY <1>2, <1>12 DEF Best
<1>14. Best(scored) \in Seq(scored)
  <2>1. Best(scored) \in [1 .. size -> scored]
    BY <1>2, <1>13 DEF Best
  <2> QED BY <1>2, <2>1, FunctionsAreSequences
<1>15. ASSUME NEW i \in 1 .. size, NEW j \in 1 .. size, Best(scored)[i] = Best(scored)[j] PROVE i = j
  <2>1. i - 1 = j - 1
    BY <1>13, <1>15
  <2> QED BY <2>1
<1> QED BY <1>13, <1>14, <1>15

(* What is recommended from one frame of filings.                          *)
Proposal(frame, day) == Ranked(Candidates(frame, 1, day), frame, day)

LEMMA ScoredIsScored ==
  ASSUME ConsensusAssumption, NEW frame \in SUBSET Filing, NEW day \in Nat \ {0}, NEW minimum
  PROVE  IsScored(Scored(Candidates(frame, minimum, day), frame, day))
<1>1. PICK scored : scored = Scored(Candidates(frame, minimum, day), frame, day)
  OBVIOUS
<1>2. IsFiniteSet(scored)
  <2>1. Candidates(frame, minimum, day) \in SUBSET Ticker
    BY CandidatesAre
  <2> QED BY <1>1, <2>1, ScoredIsFinite
<1>3. ASSUME NEW r \in scored
      PROVE  /\ r.ticker \in Ticker /\ Cardinality(r.buyers) \in Nat
             /\ \A q \in scored : q.ticker = r.ticker => q = r
  <2>1. r.ticker \in Candidates(frame, minimum, day) /\ r.buyers = Buyers(TickerFamily(r.ticker), Upto(frame, day))
    BY <1>1, ScoredAre
  <2>2. Upto(frame, day) \in SUBSET Filing
    BY DEF Upto
  <2>3. Cardinality(r.buyers) \in Nat
    BY <2>1, <2>2, BuyersAreFinite
  <2>4. ASSUME NEW q \in scored, q.ticker = r.ticker PROVE q = r
    <3>1. /\ r = [ticker |-> r.ticker, buyers |-> r.buyers] /\ r.buyers = Score(r.ticker, frame, day)
          /\ q = [ticker |-> q.ticker, buyers |-> q.buyers] /\ q.buyers = Score(q.ticker, frame, day)
      BY <1>1, ScoredAre
    <3>2. q.buyers = r.buyers
      BY <2>4, <3>1
    <3> QED BY <2>4, <3>1, <3>2
  <2> QED BY <2>1, <2>3, <2>4, CandidatesAre
<1> QED BY <1>1, <1>2, <1>3 DEF IsScored

LEMMA ProposalsAre ==
  ASSUME ConsensusAssumption, NEW frame \in SUBSET Filing, NEW day \in Nat \ {0}
  PROVE  /\ Len(Proposal(frame, day)) \in Nat /\ DOMAIN Proposal(frame, day) = 1 .. Len(Proposal(frame, day))
         /\ Proposal(frame, day) \in Seq(Scored(Candidates(frame, 1, day), frame, day))
         /\ \A i, j \in DOMAIN Proposal(frame, day) : Proposal(frame, day)[i] = Proposal(frame, day)[j] => i = j
         /\ \A i \in DOMAIN Proposal(frame, day) :
              Proposal(frame, day)[i] \in Scored(Candidates(frame, 1, day), frame, day)
<1>1. PICK scored : scored = Scored(Candidates(frame, 1, day), frame, day) /\ IsScored(scored)
  BY ScoredIsScored
<1>2. Proposal(frame, day) = Best(scored)
  BY <1>1 DEF Proposal, Ranked
<1>3. /\ Best(scored) \in Seq(scored) /\ Len(Best(scored)) \in Nat
      /\ \A i, j \in DOMAIN Best(scored) : Best(scored)[i] = Best(scored)[j] => i = j
  BY <1>1, BestAreRanked
<1>4. DOMAIN Best(scored) = 1 .. Len(Best(scored)) /\ \A i \in DOMAIN Best(scored) : Best(scored)[i] \in scored
  BY <1>3
<1> QED BY <1>1, <1>2, <1>3, <1>4

IsProposed(r, frame, day) ==
  /\ TradedAs(TickerFamily(r.ticker), day) = {r.ticker}
  /\ Exists(r.ticker, day) /\ (r.ticker = New => day >= RenameDay)
  /\ r = [ticker |-> r.ticker, buyers |-> Score(r.ticker, frame, day)]
  /\ \A g, h \in r.buyers : g # h => \A m \in g, n \in h : ~SameMember(m, n)

LEMMA ProposedIsTradable ==
  ASSUME ConsensusAssumption, NEW frame \in SUBSET Filing, NEW day \in Nat \ {0},
         NEW i \in DOMAIN Proposal(frame, day)
  PROVE  IsProposed(Proposal(frame, day)[i], frame, day)
<1>1. PICK r : r = Proposal(frame, day)[i] /\ r \in Scored(Candidates(frame, 1, day), frame, day)
  BY ProposalsAre
<1>2. /\ r.ticker \in Candidates(frame, 1, day) /\ r = [ticker |-> r.ticker, buyers |-> r.buyers]
      /\ r.buyers = Score(r.ticker, frame, day) /\ r.buyers = Buyers(TickerFamily(r.ticker), Upto(frame, day))
  BY <1>1, ScoredAre
<1>3. TradedAs(TickerFamily(r.ticker), day) = {r.ticker} /\ Exists(r.ticker, day) /\ (r.ticker = New => day >= RenameDay)
  <2>1. PICK minimum : minimum = 1
    OBVIOUS
  <2>2. PICK t \in Candidates(frame, minimum, day) : t = r.ticker
    BY <1>2, <2>1
  <2>3. TradedAs(TickerFamily(t), day) = {t} /\ Exists(t, day) /\ (t = New => day >= RenameDay)
    <3>1. TradedAs(TickerFamily(t), day) = {t}
      BY CandidatesAre
    <3>2. Exists(t, day)
      BY CandidatesAre
    <3>3. (t = New => day >= RenameDay)
      BY CandidatesAre
    <3> QED BY <3>1, <3>2, <3>3
  <2> QED BY <2>2, <2>3
<1>4. \A g, h \in r.buyers : g # h => \A m \in g, n \in h : ~SameMember(m, n)
  BY <1>2, BuyersAreDistinct
<1>5. r = [ticker |-> r.ticker, buyers |-> Score(r.ticker, frame, day)]
  BY <1>2
<1>6. IsProposed(r, frame, day)
  BY <1>3, <1>4, <1>5 DEF IsProposed
<1> QED BY <1>1, <1>6

LEMMA ProposedOnce ==
  ASSUME ConsensusAssumption, NEW frame \in SUBSET Filing, NEW day \in Nat \ {0},
         NEW i \in DOMAIN Proposal(frame, day), NEW j \in DOMAIN Proposal(frame, day),
         TickerFamily(Proposal(frame, day)[i].ticker) = TickerFamily(Proposal(frame, day)[j].ticker)
  PROVE  i = j
<1>1. PICK q : q = Proposal(frame, day)[i] /\ IsProposed(q, frame, day)
  BY ProposedIsTradable
<1>2. PICK r : r = Proposal(frame, day)[j] /\ IsProposed(r, frame, day)
  BY ProposedIsTradable
<1>3. {q.ticker} = {r.ticker}
  BY <1>1, <1>2 DEF IsProposed
<1>4. q.ticker = r.ticker
  BY <1>3
<1>5. q = r
  BY <1>1, <1>2, <1>4 DEF IsProposed
<1> QED BY <1>1, <1>2, <1>5, ProposalsAre

(* The replay counts what the live run counted, from any sets of filings   *)
(* with the same purchases: it only asks for MIN_BUYERS earlier.           *)
LEMMA ReplayScoresTheSame ==
  ASSUME ConsensusAssumption, NEW frame \in SUBSET Filing, NEW other \in SUBSET Filing, NEW day \in Nat \ {0},
         Purchases(frame) = Purchases(other), Upto(frame, day) = frame, Upto(other, day) = other
  PROVE  Ranked(Candidates(other, MIN_BUYERS, day), other, day) = Proposal(frame, day)
<1>1. \A family : Buyers(family, frame) = Buyers(family, other)
  BY DEF Buyers, LegacyPurchases
<1>2. \A t : Score(t, frame, day) = Score(t, other, day)
  BY <1>1 DEF Score, Upto
<1>3. PICK families : families = {TickerFamily(ResolvedSymbol[f]) : f \in LegacyPurchases(frame)}
  OBVIOUS
<1>4. /\ Candidates(frame, 1, day) = UNION {TradedAs(family, day) :
                                       family \in {x \in families : Cardinality(Buyers(x, frame)) >= 1}}
      /\ Candidates(other, MIN_BUYERS, day) = UNION {TradedAs(family, day) :
                                       family \in {x \in families : Cardinality(Buyers(x, frame)) >= MIN_BUYERS}}
  BY <1>1, <1>3 DEF Candidates, LegacyPurchases
<1>5. Candidates(other, MIN_BUYERS, day) \subseteq Candidates(frame, 1, day)
  <2>1. \A x \in families : Cardinality(Buyers(x, frame)) \in Nat
    BY BuyersAreFinite
  <2>2. MIN_BUYERS \in Nat \ {0}
    BY DEF ConsensusAssumption
  <2>3. \A x \in families : Cardinality(Buyers(x, frame)) >= MIN_BUYERS => Cardinality(Buyers(x, frame)) >= 1
    BY <2>1, <2>2
  <2> QED BY <1>4, <2>3
<1>6. ASSUME NEW t \in Candidates(frame, 1, day), Score(t, frame, day) # {} PROVE t \in Candidates(other, MIN_BUYERS, day)
  <2>1. PICK x \in families : t \in TradedAs(x, day) /\ Cardinality(Buyers(x, frame)) >= 1
    BY <1>4
  <2>2. TickerFamily(t) = x
    <3>1. PICK f \in LegacyPurchases(frame) : x = TickerFamily(ResolvedSymbol[f])
      BY <1>3
    <3>2. ResolvedSymbol[f] \in Ticker
      BY PurchasesAreOfTickers
    <3> QED BY <2>1, <3>1, <3>2, TradedOnce
  <2>3. Score(t, frame, day) = IF Cardinality(Buyers(x, frame)) < MIN_BUYERS THEN {} ELSE Buyers(x, frame)
    BY <2>2 DEF Score, Upto
  <2>4. Cardinality(Buyers(x, frame)) >= MIN_BUYERS
    BY <1>6, <2>3, BuyersAreFinite DEF ConsensusAssumption
  <2> QED BY <1>4, <2>1, <2>4
<1>7. Scored(Candidates(other, MIN_BUYERS, day), other, day) = Scored(Candidates(frame, 1, day), frame, day)
  BY <1>2, <1>5, <1>6 DEF Scored
<1> QED BY <1>7 DEF Proposal, Ranked

-----------------------------------------------------------------------------
(* The days that have ended, what was recommended on them, and what the    *)
(* backtests found.                                                        *)

IsSequence(s) == \E S : s \in Seq(S)

LEMMA AppendedTo ==
  ASSUME NEW s, IsSequence(s), NEW e
  PROVE  /\ IsSequence(Append(s, e)) /\ Len(s) \in Nat /\ DOMAIN s = 1 .. Len(s)
         /\ Len(Append(s, e)) = Len(s) + 1 /\ DOMAIN Append(s, e) = 1 .. Len(s) + 1
         /\ Append(s, e)[Len(s) + 1] = e
         /\ \A i \in DOMAIN s : Append(s, e)[i] = s[i]
<1>1. PICK S : s \in Seq(S)
  BY DEF IsSequence
<1>2. PICK T : T = S \cup {e}
  OBVIOUS
<1>3. s \in Seq(T) /\ e \in T
  BY <1>1, <1>2
<1>4. Append(s, e) \in Seq(T) /\ Len(s) \in Nat
  BY <1>3
<1> QED BY <1>3, <1>4 DEF IsSequence

DatesAreOver ==
  /\ date \in Nat \ {0} /\ DOMAIN known \subseteq Filing
  /\ \A f \in DOMAIN known : known[f] \in Nat /\ known[f] < date
  /\ \A f \in DOMAIN retired : retired[f] \in Nat /\ retired[f] < date

(* Each ended day, up to the last that is asked for, has a recommendation, *)
(* and where no fence was lifted it is the one its rows still give.        *)
DecisionsAreMade ==
  /\ IsSequence(recommended) /\ Len(recommended) < date
  /\ date <= MaxDecisions => Len(recommended) = date - 1
RecommendedIsProposed ==
  \A d \in DOMAIN recommended : \E frame \in SUBSET Filing : recommended[d] = Proposal(frame, d)
RecommendedStands == \A d \in DOMAIN recommended : Unreleased(d) => recommended[d] = Recommend(d)

Paid(recs) ==
  IF recs = <<>> THEN Cash ELSE [status |-> "invested", reason |-> "none", recommendations |-> recs]
Payable(recs, day) == BenchmarkReturn(day) /\ Evaluated(recs, day) = DOMAIN recs
Truthful(observation, d) ==
  /\ observation.status # "skipped" => observation.recommendations = recommended[d]
  /\ Funded(observation) => Payable(recommended[d], d) /\ observation = Paid(recommended[d])
BacktestsAreTruthful ==
  /\ IsSequence(backtests)
  /\ \A i \in DOMAIN backtests : DOMAIN backtests[i] \subseteq DOMAIN recommended
  /\ \A i \in DOMAIN backtests : \A d \in DOMAIN backtests[i] : Unreleased(d) => Truthful(backtests[i][d], d)

ConsensusIInv ==
  /\ DatesAreOver /\ DecisionsAreMade /\ RecommendedIsProposed /\ RecommendedStands
  /\ BacktestsAreTruthful /\ FundedIsFinal

LEMMA DecisionsAreOver ==
  ASSUME DatesAreOver, DecisionsAreMade, NEW d \in DOMAIN recommended
  PROVE  d \in Nat \ {0} /\ d < date
<1>1. Len(recommended) \in Nat /\ DOMAIN recommended = 1 .. Len(recommended)
  BY AppendedTo DEF DecisionsAreMade
<1>2. PICK n \in Nat : n = Len(recommended)
  BY <1>1
<1>3. PICK thisDay \in Nat : thisDay = date
  BY DEF DatesAreOver
<1>4. d \in 1 .. n /\ n < thisDay
  BY <1>1, <1>2, <1>3 DEF DecisionsAreMade
<1> QED BY <1>3, <1>4

-----------------------------------------------------------------------------
LEMMA FramesAreOfFilings ==
  ASSUME DatesAreOver, NEW day
  PROVE  /\ Window(day, day - LOOKBACK) \subseteq Filing /\ LiveFrame(day) \subseteq Filing
         /\ Upto(LiveFrame(day), day) = LiveFrame(day)
BY DEF DatesAreOver, Window, ShownOn, LiveFrame, Upto

(* The replay, from all the transactions, is what a live run would give.   *)
LEMMA ReplayIsLive ==
  ASSUME ConsensusAssumption, DatesAreOver, NEW day \in Nat \ {0}
  PROVE  Replayed(day, TransactionsStart) = Recommend(day)
<1>1. PICK earliest \in Int, first \in Int : earliest = TransactionsStart /\ first = day - LOOKBACK
  BY DEF ConsensusAssumption, TransactionsStart, Today0
<1>2. Max({earliest, first}) = first
  <2>1. PICK lookback \in Nat, thisDay \in Nat \ {0} : lookback = LOOKBACK /\ thisDay = day
    BY DEF ConsensusAssumption
  <2>2. earliest = 1 - lookback /\ first = thisDay - lookback
    BY <1>1, <2>1 DEF TransactionsStart, Today0
  <2>3. earliest <= first
    BY <2>1, <2>2
  <2> QED BY <2>3, LaterOfTwo
<1>3. PICK recent : recent = {f \in DecisionFrame(day, TransactionsStart) :
                                f.disclosed >= day - LOOKBACK /\ f.disclosed <= day /\ f.buys}
  OBVIOUS
<1>4. DecisionFrame(day, TransactionsStart) = {f \in Window(day, day - LOOKBACK) : ~Fenced(f)}
  BY <1>1, <1>2 DEF DecisionFrame
<1>5. recent \in SUBSET Filing /\ LiveFrame(day) \in SUBSET Filing
  BY <1>3, <1>4, FramesAreOfFilings
<1>6. Purchases(LiveFrame(day)) = Purchases(recent)
  <2>1. ASSUME NEW f \in Filing, ResolvedSymbol[f] # NoTicker PROVE f.ticker # NoTicker
    BY <2>1 DEF ResolvedSymbol
  <2> QED BY <1>3, <1>4, <1>5, <2>1 DEF Purchases, LiveFrame, Window
<1>7. Upto(recent, day) = recent /\ Upto(LiveFrame(day), day) = LiveFrame(day)
  BY <1>3, <1>4 DEF Upto, LiveFrame, Window
<1>8. Ranked(Candidates(recent, MIN_BUYERS, day), recent, day) = Proposal(LiveFrame(day), day)
  BY <1>5, <1>6, <1>7, ReplayScoresTheSame
<1> QED BY <1>3, <1>8 DEF Replayed, Recommend, Proposal

LEMMA ObservationIs ==
  ASSUME NEW day, NEW start, NEW recs, recs = Replayed(day, start)
  PROVE  /\ Observation(day, start).status # "skipped" => Observation(day, start).recommendations = recs
         /\ Funded(Observation(day, start)) => Payable(recs, day)
         /\ Payable(recs, day) => Observation(day, start) = Paid(recs)
<1>1. PICK o : o = Observation(day, start)
  OBVIOUS
<1>2. Evaluated(<<>>, day) = DOMAIN <<>>
  BY DEF Evaluated
<1>3. CASE recs = <<>> /\ ~BenchmarkReturn(day)
  <2>1. o = Unobserved
    BY <1>1, <1>3 DEF Observation
  <2>2. o.status = "skipped" /\ ~Payable(recs, day)
    BY <1>3, <2>1 DEF Unobserved, Payable
  <2> QED BY <1>1, <2>2 DEF Funded
<1>4. CASE recs = <<>> /\ BenchmarkReturn(day)
  <2>1. o = Cash
    BY <1>1, <1>4 DEF Observation
  <2>2. o.recommendations = recs /\ o = Paid(recs)
    BY <1>4, <2>1 DEF Cash, Paid
  <2>3. Payable(recs, day)
    BY <1>2, <1>4 DEF Payable
  <2> QED BY <1>1, <2>2, <2>3
<1>5. CASE recs # <<>>
  <2>1. o = [status |-> IF Payable(recs, day) THEN "invested" ELSE "unavailable",
             reason |-> o.reason, recommendations |-> recs]
    BY <1>1, <1>5 DEF Observation, Payable
  <2>2. o.recommendations = recs
    BY <2>1
  <2>3. ASSUME ~Payable(recs, day) PROVE ~Funded(o)
    <3>1. o.status = "unavailable"
      BY <2>1, <2>3
    <3> QED BY <3>1 DEF Funded
  <2>4. ASSUME Payable(recs, day) PROVE o = Paid(recs)
    <3>1. o = [status |-> "invested", reason |-> "none", recommendations |-> recs]
      BY <1>1, <1>5, <2>4 DEF Observation, Payable
    <3> QED BY <1>5, <3>1 DEF Paid
  <2> QED BY <1>1, <2>2, <2>3, <2>4
<1> QED BY <1>3, <1>4, <1>5

-----------------------------------------------------------------------------
(* What a step does to a day that is over.                                 *)
Kept(d) ==
  /\ Unreleased(d)' => Unreleased(d) /\ Recommend(d)' = Recommend(d)
  /\ \A symbol : Evaluable(symbol, d) => Evaluable(symbol, d)'

LEMMA EvaluableStays ==
  ASSUME NEW d, \A symbol, s : Quoted(symbol, s) => Quoted(symbol, s)', NEW symbol, Evaluable(symbol, d)
  PROVE  Evaluable(symbol, d)'
BY DEF Evaluable

LEMMA EndOfDayKeeps ==
  ASSUME ConsensusAssumption, DatesAreOver, NEW new, NEW gone \in SUBSET Filing, NEW missing \in SUBSET (Patchy \X {date}),
         EndOfDay(new, gone, missing), NEW d \in Nat \ {0}, d < date
  PROVE  Kept(d)
<1>1. known' = With(known, new) /\ retired' = With(retired, gone) /\ gaps' = gaps \cup missing
      /\ released' = released /\ date' = date + 1 /\ gone \cap DOMAIN retired = {}
  BY DEF EndOfDay
<1>2. PICK thisDay \in Nat : thisDay = date
  BY DEF DatesAreOver
<1>3. ShownOn(d)' = ShownOn(d)
  <2>1. DOMAIN known' = DOMAIN known \cup new /\ DOMAIN retired' = DOMAIN retired \cup gone
    BY <1>1 DEF With
  <2>2. \A f \in DOMAIN known : known'[f] = known[f]
    BY <1>1 DEF With
  <2>3. \A f \in new \ DOMAIN known : known'[f] = thisDay
    BY <1>1, <1>2 DEF With
  <2>4. \A f \in DOMAIN retired : retired'[f] = retired[f]
    BY <1>1 DEF With
  <2>5. \A f \in gone \ DOMAIN retired : retired'[f] = thisDay
    BY <1>1, <1>2 DEF With
  <2>6. thisDay > d /\ ~(thisDay <= d)
    BY <1>2
  <2>7. \A f : f \in ShownOn(d)' <=> /\ f \in DOMAIN known' /\ known'[f] <= d
                                     /\ f \in DOMAIN retired' => retired'[f] > d
    BY DEF ShownOn
  <2>8. \A f : f \in ShownOn(d) <=> /\ f \in DOMAIN known /\ known[f] <= d
                                    /\ f \in DOMAIN retired => retired[f] > d
    BY DEF ShownOn
  <2>9. \A f : f \in ShownOn(d)' <=> f \in ShownOn(d)
    BY <2>1, <2>2, <2>3, <2>4, <2>5, <2>6, <2>7, <2>8
  <2> QED BY <2>9
<1>4. Unreleased(d)' <=> Unreleased(d)
  BY <1>1, <1>3 DEF Unreleased, Window
<1>5. LiveFrame(d)' = LiveFrame(d)
  BY <1>1, <1>3 DEF LiveFrame, Window, Fenced
<1>6. Recommend(d)' = Recommend(d)
  BY <1>5 DEF Recommend
<1>7. ASSUME NEW symbol, NEW s, Quoted(symbol, s) PROVE Quoted(symbol, s)'
  <2>1. s \in Nat /\ s < thisDay
    BY <1>2, <1>7 DEF Quoted, ConsensusAssumption
  <2>2. <<symbol, s>> \notin missing
    BY <1>2, <2>1
  <2>3. s < date'
    BY <1>1, <1>2, <2>1
  <2> QED BY <1>1, <1>7, <2>2, <2>3 DEF Quoted
<1>8. \A symbol : Evaluable(symbol, d) => Evaluable(symbol, d)'
  BY <1>7, EvaluableStays
<1> QED BY <1>4, <1>6, <1>8 DEF Kept

LEMMA LiftFenceKeeps ==
  ASSUME NEW f, LiftFence(f), NEW d
  PROVE  Kept(d)
<1>1. known' = known /\ retired' = retired /\ gaps' = gaps /\ date' = date /\ released' = released \cup {f}
  BY DEF LiftFence
<1>2. Window(d, d - LOOKBACK)' = Window(d, d - LOOKBACK)
  BY <1>1 DEF Window, ShownOn
<1>3. ASSUME Unreleased(d)' PROVE Unreleased(d) /\ f \notin Window(d, d - LOOKBACK)
  BY <1>1, <1>2, <1>3 DEF Unreleased
<1>4. ASSUME Unreleased(d)' PROVE Recommend(d)' = Recommend(d)
  <2>1. LiveFrame(d)' = LiveFrame(d)
    BY <1>1, <1>2, <1>3, <1>4 DEF LiveFrame, Fenced
  <2> QED BY <2>1 DEF Recommend
<1>5. ASSUME NEW symbol, NEW s, Quoted(symbol, s) PROVE Quoted(symbol, s)'
  BY <1>1, <1>5 DEF Quoted
<1>6. \A symbol : Evaluable(symbol, d) => Evaluable(symbol, d)'
  BY <1>5, EvaluableStays
<1> QED BY <1>3, <1>4, <1>6 DEF Kept

LEMMA RestKeeps ==
  ASSUME known' = known, retired' = retired, released' = released, date' = date, gaps' \subseteq gaps, NEW d
  PROVE  Kept(d)
<1>1. Window(d, d - LOOKBACK)' = Window(d, d - LOOKBACK)
  BY DEF Window, ShownOn
<1>2. Unreleased(d)' <=> Unreleased(d)
  BY <1>1 DEF Unreleased
<1>3. LiveFrame(d)' = LiveFrame(d)
  BY <1>1 DEF LiveFrame, Fenced
<1>4. Recommend(d)' = Recommend(d)
  BY <1>3 DEF Recommend
<1>5. ASSUME NEW symbol, NEW s, Quoted(symbol, s) PROVE Quoted(symbol, s)'
  BY <1>5 DEF Quoted
<1>6. \A symbol : Evaluable(symbol, d) => Evaluable(symbol, d)'
  BY <1>5, EvaluableStays
<1> QED BY <1>2, <1>4, <1>6 DEF Kept

LEMMA PayableStays ==
  ASSUME NEW d, Kept(d), NEW recs, Payable(recs, d)
  PROVE  Payable(recs, d)'
<1>1. \A symbol : Evaluable(symbol, d) => Evaluable(symbol, d)'
  BY DEF Kept
<1>2. BenchmarkReturn(d)'
  BY <1>1 DEF Payable, BenchmarkReturn
<1>3. \A i \in DOMAIN recs : Evaluable(recs[i].ticker, d)
  BY DEF Payable, Evaluated
<1>4. \A i \in DOMAIN recs : Evaluable(recs[i].ticker, d)'
  BY <1>1, <1>3
<1>5. Evaluated(recs, d)' = DOMAIN recs
  BY <1>4 DEF Evaluated
<1> QED BY <1>2, <1>5 DEF Payable

-----------------------------------------------------------------------------
(* The decisions that were made stay, and so does what is said of them.    *)
Extended ==
  \A d \in DOMAIN recommended : d \in DOMAIN recommended' /\ recommended'[d] = recommended[d] /\ Kept(d)

LEMMA RecommendationsStand ==
  ASSUME ConsensusIInv, Extended,
         \A d \in DOMAIN recommended' :
           \/ d \in DOMAIN recommended
           \/ recommended'[d] = Recommend(d)' /\ \E frame \in SUBSET Filing : recommended'[d] = Proposal(frame, d)
  PROVE  RecommendedIsProposed' /\ RecommendedStands'
<1>1. ASSUME NEW d \in DOMAIN recommended' PROVE \E frame \in SUBSET Filing : recommended'[d] = Proposal(frame, d)
  BY DEF Extended, ConsensusIInv, RecommendedIsProposed
<1>2. ASSUME NEW d \in DOMAIN recommended', Unreleased(d)' PROVE recommended'[d] = Recommend(d)'
  <2>1. CASE d \in DOMAIN recommended
    <3>1. recommended'[d] = recommended[d] /\ Kept(d)
      BY <2>1 DEF Extended
    <3>2. Unreleased(d) /\ Recommend(d)' = Recommend(d)
      BY <1>2, <3>1 DEF Kept
    <3>3. recommended[d] = Recommend(d)
      BY <2>1, <3>2 DEF ConsensusIInv, RecommendedStands
    <3> QED BY <3>1, <3>2, <3>3
  <2> QED BY <2>1
<1>3. RecommendedIsProposed'
  BY <1>1 DEF RecommendedIsProposed
<1>4. RecommendedStands'
  BY <1>2 DEF RecommendedStands
<1> QED BY <1>3, <1>4

LEMMA TruthStays ==
  ASSUME Extended, NEW d \in DOMAIN recommended, NEW o, Truthful(o, d)
  PROVE  Truthful(o, d)'
<1>1. recommended'[d] = recommended[d] /\ Kept(d)
  BY DEF Extended
<1>2. Payable(recommended[d], d) => Payable(recommended[d], d)'
  BY <1>1, PayableStays
<1>3. ASSUME Funded(o) PROVE Payable(recommended[d], d)' /\ o = Paid(recommended[d])
  BY <1>2, <1>3 DEF Truthful
<1>4. PICK recs : recs = recommended[d]
  OBVIOUS
<1>5. ASSUME Funded(o) PROVE Payable(recs, d)'
  <2>1. Payable(recs, d)
    BY <1>4, <1>5 DEF Truthful
  <2> QED BY <1>1, <2>1, PayableStays
<1>6. recommended'[d] = recs
  BY <1>1, <1>4
<1>7. Funded(o) => Payable(recommended[d], d)'
  BY <1>5, <1>6 DEF Payable, Evaluated
<1> QED BY <1>1, <1>3, <1>7 DEF Truthful

LEMMA BacktestsStand ==
  ASSUME ConsensusIInv, Extended, backtests' = backtests
  PROVE  BacktestsAreTruthful' /\ FundedIsFinal'
<1>1. \A i \in DOMAIN backtests : DOMAIN backtests[i] \subseteq DOMAIN recommended
  BY DEF ConsensusIInv, BacktestsAreTruthful
<1>2. ASSUME NEW i \in DOMAIN backtests, NEW d \in DOMAIN backtests[i], Unreleased(d)' PROVE Unreleased(d)
  <2>1. Kept(d)
    BY <1>1 DEF Extended
  <2> QED BY <1>2, <2>1 DEF Kept
<1>3. ASSUME NEW i \in DOMAIN backtests, NEW d \in DOMAIN backtests[i], Unreleased(d)'
      PROVE  Truthful(backtests[i][d], d)'
  <2>1. PICK o : o = backtests[i][d] /\ o = backtests'[i][d]
    OBVIOUS
  <2>2. Truthful(o, d)
    BY <1>2, <1>3, <2>1 DEF ConsensusIInv, BacktestsAreTruthful
  <2>3. Truthful(o, d)'
    BY <1>1, <2>2, TruthStays
  <2> QED BY <2>1, <2>3 DEF Truthful
<1>4. IsSequence(backtests') /\ \A i \in DOMAIN backtests' : DOMAIN backtests'[i] \subseteq DOMAIN recommended'
  BY <1>1 DEF ConsensusIInv, BacktestsAreTruthful, Extended
<1>5. BacktestsAreTruthful'
  BY <1>3, <1>4 DEF BacktestsAreTruthful
<1>6. FundedIsFinal'
  BY <1>2 DEF ConsensusIInv, FundedIsFinal
<1> QED BY <1>5, <1>6

-----------------------------------------------------------------------------
(* A day ends, with what it admits, retires and recommends.                *)
LEMMA EndOfDayIsSound ==
  ASSUME ConsensusAssumption, ConsensusIInv, NEW new \in SUBSET Filing, NEW gone \in SUBSET Filing,
         NEW missing \in SUBSET (Patchy \X {date}), EndOfDay(new, gone, missing)
  PROVE  ConsensusIInv'
<1>1. PICK thisDay \in Nat \ {0} : thisDay = date
  BY DEF ConsensusIInv, DatesAreOver
<1>2. /\ known' = With(known, new) /\ retired' = With(retired, gone) /\ date' = thisDay + 1
      /\ backtests' = backtests
      /\ recommended' = IF thisDay <= MaxDecisions THEN Append(recommended, Recommend(thisDay)') ELSE recommended
  BY <1>1 DEF EndOfDay
<1>3. DatesAreOver'
  <2>1. DOMAIN known' = DOMAIN known \cup new /\ DOMAIN retired' = DOMAIN retired \cup gone
    BY <1>2 DEF With
  <2>2. \A f \in DOMAIN known' : known'[f] = IF f \in DOMAIN known THEN known[f] ELSE thisDay
    BY <1>1, <1>2 DEF With
  <2>3. \A f \in DOMAIN retired' : retired'[f] = IF f \in DOMAIN retired THEN retired[f] ELSE thisDay
    BY <1>1, <1>2 DEF With
  <2>4. \A f \in DOMAIN known : known[f] \in Nat /\ known[f] < thisDay
    BY <1>1 DEF ConsensusIInv, DatesAreOver
  <2>5. \A f \in DOMAIN retired : retired[f] \in Nat /\ retired[f] < thisDay
    BY <1>1 DEF ConsensusIInv, DatesAreOver
  <2>6. DOMAIN known' \subseteq Filing
    BY <2>1 DEF ConsensusIInv, DatesAreOver
  <2>7. \A n \in Nat : n < thisDay => n < thisDay + 1
    OBVIOUS
  <2>8. thisDay \in Nat /\ thisDay < thisDay + 1 /\ thisDay + 1 \in Nat \ {0}
    OBVIOUS
  <2>9. \A f \in DOMAIN known' : known'[f] \in Nat /\ known'[f] < thisDay + 1
    BY <2>2, <2>4, <2>7, <2>8
  <2>10. \A f \in DOMAIN retired' : retired'[f] \in Nat /\ retired'[f] < thisDay + 1
    BY <2>3, <2>5, <2>7, <2>8
  <2> QED BY <1>2, <2>6, <2>8, <2>9, <2>10 DEF DatesAreOver
<1>4. IsSequence(recommended) /\ Len(recommended) \in Nat /\ DOMAIN recommended = 1 .. Len(recommended)
      /\ Len(recommended) < thisDay /\ (thisDay <= MaxDecisions => Len(recommended) = thisDay - 1)
  BY <1>1, AppendedTo DEF ConsensusIInv, DecisionsAreMade
<1>5. \A d \in DOMAIN recommended : Kept(d)
  BY DecisionsAreOver, EndOfDayKeeps DEF ConsensusIInv
<1>6. ASSUME thisDay <= MaxDecisions
      PROVE  /\ IsSequence(recommended') /\ Len(recommended') = thisDay /\ DOMAIN recommended' = 1 .. thisDay
             /\ recommended'[thisDay] = Recommend(thisDay)' /\ DOMAIN recommended = 1 .. thisDay - 1
             /\ \A d \in DOMAIN recommended : recommended'[d] = recommended[d]
  <2>1. PICK e : e = Recommend(thisDay)'
    OBVIOUS
  <2>2. recommended' = Append(recommended, e) /\ Len(recommended) = thisDay - 1
    BY <1>2, <1>4, <1>6, <2>1
  <2>3. /\ IsSequence(Append(recommended, e)) /\ Len(Append(recommended, e)) = Len(recommended) + 1
        /\ DOMAIN Append(recommended, e) = 1 .. Len(recommended) + 1
        /\ Append(recommended, e)[Len(recommended) + 1] = e
        /\ \A d \in DOMAIN recommended : Append(recommended, e)[d] = recommended[d]
    BY <1>4, AppendedTo
  <2>4. Len(recommended) + 1 = thisDay
    BY <2>2
  <2>5. DOMAIN recommended = 1 .. thisDay - 1
    BY <1>4, <2>2
  <2>6. IsSequence(recommended') /\ Len(recommended') = thisDay /\ DOMAIN recommended' = 1 .. thisDay
    BY <2>2, <2>3, <2>4
  <2>7. recommended'[thisDay] = e /\ \A d \in DOMAIN recommended : recommended'[d] = recommended[d]
    BY <2>2, <2>3, <2>4
  <2> QED BY <2>1, <2>5, <2>6, <2>7
<1>7. DecisionsAreMade'
  <2>1. MaxDecisions \in Nat
    BY DEF ConsensusAssumption
  <2>2. CASE thisDay <= MaxDecisions
    BY <1>2, <1>6, <2>1, <2>2 DEF DecisionsAreMade
  <2>3. CASE ~(thisDay <= MaxDecisions)
    <3>1. recommended' = recommended
      BY <1>2, <2>3
    <3>2. ~(thisDay + 1 <= MaxDecisions)
      BY <2>1, <2>3
    <3>3. PICK n \in Nat : n = Len(recommended) /\ n < thisDay
      BY <1>4
    <3>4. n < thisDay + 1
      BY <3>3
    <3>5. IsSequence(recommended') /\ Len(recommended') < date' /\ ~(date' <= MaxDecisions)
      BY <1>2, <1>4, <3>1, <3>2, <3>3, <3>4
    <3> QED BY <3>5 DEF DecisionsAreMade
  <2> QED BY <2>2, <2>3
<1>8. Extended
  <2>1. CASE thisDay <= MaxDecisions
    <3>1. 1 .. thisDay - 1 \subseteq 1 .. thisDay
      OBVIOUS
    <3> QED BY <1>5, <1>6, <2>1, <3>1 DEF Extended
  <2>2. CASE ~(thisDay <= MaxDecisions)
    <3>1. recommended' = recommended
      BY <1>2, <2>2
    <3> QED BY <1>5, <3>1 DEF Extended
  <2> QED BY <2>1, <2>2
<1>9. ASSUME NEW d \in DOMAIN recommended', d \notin DOMAIN recommended
      PROVE  recommended'[d] = Recommend(d)' /\ \E frame \in SUBSET Filing : recommended'[d] = Proposal(frame, d)
  <2>1. thisDay <= MaxDecisions
    BY <1>2, <1>9
  <2>2. d = thisDay
    <3>1. d \in 1 .. thisDay /\ d \notin 1 .. thisDay - 1
      BY <1>6, <1>9, <2>1
    <3> QED BY <3>1
  <2>3. recommended'[d] = Recommend(d)'
    BY <1>6, <2>1, <2>2
  <2>4. Recommend(d)' = Proposal(LiveFrame(d)', d)
    BY DEF Recommend, Proposal
  <2>5. LiveFrame(d)' \in SUBSET Filing
    BY <1>3 DEF DatesAreOver, LiveFrame, Window, ShownOn
  <2> QED BY <2>3, <2>4, <2>5
<1>10. RecommendedIsProposed' /\ RecommendedStands'
  BY <1>8, <1>9, RecommendationsStand
<1>11. BacktestsAreTruthful' /\ FundedIsFinal'
  BY <1>2, <1>8, BacktestsStand
<1> QED BY <1>3, <1>7, <1>10, <1>11 DEF ConsensusIInv

(* A lifted fence and a late quote touch no decision.                      *)
LEMMA DecisionsUntouched ==
  ASSUME ConsensusIInv, \A d : Kept(d),
         known' = known, retired' = retired, date' = date, recommended' = recommended, backtests' = backtests
  PROVE  ConsensusIInv'
<1>1. DatesAreOver'
  BY DEF ConsensusIInv, DatesAreOver
<1>2. DecisionsAreMade'
  BY DEF ConsensusIInv, DecisionsAreMade
<1>3. Extended
  BY DEF Extended
<1>4. RecommendedIsProposed' /\ RecommendedStands'
  BY <1>3, RecommendationsStand
<1>5. BacktestsAreTruthful' /\ FundedIsFinal'
  BY <1>3, BacktestsStand
<1> QED BY <1>1, <1>2, <1>4, <1>5 DEF ConsensusIInv

LEMMA EarlierOfTwo ==
  ASSUME NEW n \in Nat, NEW i \in 1 .. n + 1, NEW j \in 1 .. n + 1, i < j
  PROVE  i \in 1 .. n /\ (j \in 1 .. n \/ j = n + 1)
OBVIOUS

(* A backtest finds what was recommended, and of a date that was funded    *)
(* what an earlier one found.                                              *)
LEMMA RunBacktestIsSound ==
  ASSUME ConsensusAssumption, ConsensusIInv, RunBacktest
  PROVE  ConsensusIInv'
<1>1. PICK run : /\ run = [d \in Decisions |-> Observation(d, TransactionsStart)]
                 /\ backtests' = Append(backtests, run)
                 /\ known' = known /\ retired' = retired /\ released' = released /\ gaps' = gaps /\ date' = date
                 /\ recommended' = recommended
  BY DEF RunBacktest
<1>2. DatesAreOver'
  BY <1>1 DEF ConsensusIInv, DatesAreOver
<1>3. DecisionsAreMade'
  BY <1>1 DEF ConsensusIInv, DecisionsAreMade
<1>4. Extended
  BY <1>1, RestKeeps DEF Extended
<1>5. RecommendedIsProposed' /\ RecommendedStands'
  BY <1>1, <1>4, RecommendationsStand
<1>6. PICK n \in Nat : /\ n = Len(backtests) /\ DOMAIN backtests = 1 .. n /\ DOMAIN backtests' = 1 .. n + 1
                       /\ IsSequence(backtests') /\ backtests'[n + 1] = run
                       /\ \A i \in 1 .. n : backtests'[i] = backtests[i]
  <2>1. IsSequence(backtests)
    BY DEF ConsensusIInv, BacktestsAreTruthful
  <2>2. /\ IsSequence(Append(backtests, run)) /\ Len(backtests) \in Nat /\ DOMAIN backtests = 1 .. Len(backtests)
        /\ DOMAIN Append(backtests, run) = 1 .. Len(backtests) + 1
        /\ Append(backtests, run)[Len(backtests) + 1] = run
        /\ \A i \in DOMAIN backtests : Append(backtests, run)[i] = backtests[i]
    BY <2>1, AppendedTo
  <2> QED BY <1>1, <2>2
<1>7. DOMAIN run = DOMAIN recommended
  BY <1>1 DEF Decisions
<1>8. ASSUME NEW d \in DOMAIN recommended, Unreleased(d)
      PROVE  /\ Truthful(run[d], d)
             /\ Payable(recommended[d], d) => run[d] = Paid(recommended[d])
  <2>1. PICK recs : recs = recommended[d]
    OBVIOUS
  <2>2. d \in Nat \ {0}
    BY DecisionsAreOver DEF ConsensusIInv
  <2>3. recs = Replayed(d, TransactionsStart)
    BY <1>8, <2>1, <2>2, ReplayIsLive DEF ConsensusIInv, RecommendedStands
  <2>4. run[d] = Observation(d, TransactionsStart)
    BY <1>1 DEF Decisions
  <2>5. /\ run[d].status # "skipped" => run[d].recommendations = recs
        /\ Funded(run[d]) => Payable(recs, d)
        /\ Payable(recs, d) => run[d] = Paid(recs)
    BY <2>3, <2>4, ObservationIs
  <2> QED BY <2>1, <2>5 DEF Truthful
<1>9. \A d \in DOMAIN recommended : Unreleased(d)' <=> Unreleased(d)
  BY <1>1 DEF Unreleased, Window, ShownOn
<1>10. ASSUME NEW i \in 1 .. n PROVE DOMAIN backtests[i] \subseteq DOMAIN recommended
  BY <1>6 DEF ConsensusIInv, BacktestsAreTruthful
<1>11. ASSUME NEW i \in 1 .. n, NEW d \in DOMAIN backtests[i], Unreleased(d)
       PROVE  Truthful(backtests[i][d], d)
  BY <1>6, <1>11 DEF ConsensusIInv, BacktestsAreTruthful
<1>12. BacktestsAreTruthful'
  <2>1. ASSUME NEW i \in DOMAIN backtests'
        PROVE  /\ DOMAIN backtests'[i] \subseteq DOMAIN recommended
               /\ \A d \in DOMAIN backtests'[i] : Unreleased(d) => Truthful(backtests[i][d], d)'
    <3>1. i \in 1 .. n \/ i = n + 1
      BY <1>6
    <3>2. PICK found : found = backtests'[i]
      OBVIOUS
    <3>3. DOMAIN found \subseteq DOMAIN recommended
      BY <1>6, <1>7, <1>10, <3>1, <3>2
    <3>4. ASSUME NEW d \in DOMAIN found, Unreleased(d) PROVE Truthful(backtests[i][d], d)'
      <4>1. Truthful(found[d], d)
        BY <1>6, <1>7, <1>8, <1>11, <3>1, <3>2, <3>4
      <4>2. PICK o : o = found[d]
        OBVIOUS
      <4>3. d \in DOMAIN recommended /\ Truthful(o, d)
        BY <3>3, <3>4, <4>1, <4>2
      <4>4. Truthful(o, d)'
        BY <1>4, <4>3, TruthStays
      <4>5. backtests'[i][d] = o
        BY <3>2, <4>2
      <4> QED BY <4>4, <4>5 DEF Truthful
    <3> QED BY <3>2, <3>3, <3>4
  <2>2. \A i \in DOMAIN backtests' : DOMAIN backtests'[i] \subseteq DOMAIN recommended'
    BY <1>1, <2>1
  <2>3. ASSUME NEW i \in DOMAIN backtests', NEW d \in DOMAIN backtests'[i], Unreleased(d)'
        PROVE  Truthful(backtests[i][d], d)'
    <3>1. Unreleased(d)
      BY <1>9, <2>1, <2>3
    <3> QED BY <2>1, <3>1
  <2> QED BY <1>6, <2>2, <2>3 DEF BacktestsAreTruthful
<1>13. FundedIsFinal'
  <2>1. ASSUME NEW i \in 1 .. n + 1, NEW j \in 1 .. n + 1, NEW d \in DOMAIN backtests'[i], i < j,
               Unreleased(d)', Funded(backtests[i][d])'
        PROVE  backtests'[j][d] = backtests'[i][d]
    <3>1. i \in 1 .. n /\ (j \in 1 .. n \/ j = n + 1)
      BY <2>1, EarlierOfTwo
    <3>2. PICK found : found = backtests[i] /\ found = backtests'[i]
      BY <1>6, <3>1
    <3>3. d \in DOMAIN recommended
      BY <1>10, <2>1, <3>1, <3>2
    <3>4. Unreleased(d) /\ Funded(found[d])
      <4>1. Unreleased(d)
        BY <1>9, <2>1, <3>3
      <4>2. Funded(found[d])
        BY <2>1, <3>2 DEF Funded
      <4> QED BY <4>1, <4>2
    <3>5. CASE j \in 1 .. n
      <4>1. FundedIsFinal /\ d \in DOMAIN backtests[i] /\ i \in DOMAIN backtests /\ j \in DOMAIN backtests
        BY <1>6, <2>1, <3>1, <3>2, <3>5 DEF ConsensusIInv
      <4>2. i < j /\ Unreleased(d) /\ Funded(backtests[i][d])
        BY <2>1, <3>2, <3>4
      <4>3. backtests[j][d] = backtests[i][d]
        BY <4>1, <4>2 DEF FundedIsFinal
      <4> QED BY <1>6, <3>2, <3>5, <4>3
    <3>6. CASE j = n + 1
      <4>1. Truthful(found[d], d)
        BY <1>11, <2>1, <3>1, <3>2, <3>4
      <4>2. Payable(recommended[d], d) /\ found[d] = Paid(recommended[d])
        BY <3>4, <4>1 DEF Truthful
      <4>3. run[d] = Paid(recommended[d])
        BY <1>8, <3>3, <3>4, <4>2
      <4> QED BY <1>6, <3>2, <3>6, <4>2, <4>3
    <3> QED BY <3>1, <3>5, <3>6
  <2>2. DOMAIN backtests' = 1 .. n + 1
    BY <1>6
  <2>3. ASSUME NEW i \in DOMAIN backtests', NEW j \in DOMAIN backtests', NEW d \in DOMAIN backtests'[i],
               i < j /\ Unreleased(d)' /\ Funded(backtests[i][d])'
        PROVE  backtests'[j][d] = backtests'[i][d]
    BY <2>1, <2>2, <2>3
  <2> QED BY <2>3 DEF FundedIsFinal
<1> QED BY <1>2, <1>3, <1>5, <1>12, <1>13 DEF ConsensusIInv

LEMMA ConsensusStartsSound == ConsensusInit => ConsensusIInv
<1> SUFFICES ASSUME ConsensusInit PROVE ConsensusIInv
  OBVIOUS
<1>1. IsSequence(<<>>) /\ DOMAIN <<>> = {} /\ Len(<<>>) = 0
  <2>1. <<>> \in Seq({})
    OBVIOUS
  <2> QED BY <2>1 DEF IsSequence
<1>2. known = <<>> /\ retired = <<>> /\ date = 1 /\ recommended = <<>> /\ backtests = <<>>
  BY DEF ConsensusInit, Today0
<1>3. DatesAreOver
  BY <1>1, <1>2 DEF DatesAreOver
<1>4. DecisionsAreMade
  BY <1>1, <1>2 DEF DecisionsAreMade
<1>5. RecommendedIsProposed /\ RecommendedStands
  BY <1>1, <1>2 DEF RecommendedIsProposed, RecommendedStands
<1>6. BacktestsAreTruthful /\ FundedIsFinal
  BY <1>1, <1>2 DEF BacktestsAreTruthful, FundedIsFinal
<1> QED BY <1>3, <1>4, <1>5, <1>6 DEF ConsensusIInv

LEMMA ConsensusStepIsSound ==
  ASSUME ConsensusAssumption, ConsensusIInv, [ConsensusNext]_consensusVars
  PROVE  ConsensusIInv'
<1>1. ASSUME NEW new \in News, NEW gone \in AtMostOne(DOMAIN known), NEW missing \in AtMostOne(Patchy \X {date}),
             EndOfDay(new, gone, missing)
      PROVE  ConsensusIInv'
  <2>1. DOMAIN known \subseteq Filing
    BY DEF ConsensusIInv, DatesAreOver
  <2>2. gone \in SUBSET Filing
    BY <2>1 DEF AtMostOne
  <2>3. missing \in SUBSET (Patchy \X {date})
    BY DEF AtMostOne
  <2>4. Standing \subseteq Filing
    BY DEF ConsensusAssumption
  <2>5. new \in SUBSET Filing
    BY <2>4 DEF News
  <2> QED BY <1>1, <2>2, <2>3, <2>5, EndOfDayIsSound
<1>2. ASSUME NEW f \in Filing, LiftFence(f) PROVE ConsensusIInv'
  <2>1. \A d : Kept(d)
    BY <1>2, LiftFenceKeeps
  <2> QED BY <1>2, <2>1, DecisionsUntouched DEF LiftFence
<1>3. ASSUME NEW gap \in gaps, DeliverQuote(gap) PROVE ConsensusIInv'
  <2>1. \A d : Kept(d)
    BY <1>3, RestKeeps DEF DeliverQuote
  <2> QED BY <1>3, <2>1, DecisionsUntouched DEF DeliverQuote
<1>4. CASE RunBacktest
  BY <1>4, RunBacktestIsSound
<1>5. CASE UNCHANGED consensusVars
  <2>1. /\ known' = known /\ retired' = retired /\ released' = released /\ gaps' = gaps /\ date' = date
        /\ recommended' = recommended /\ backtests' = backtests
    BY <1>5 DEF consensusVars
  <2>2. \A d : Kept(d)
    BY <2>1, RestKeeps
  <2> QED BY <2>1, <2>2, DecisionsUntouched
<1> QED BY <1>1, <1>2, <1>3, <1>4, <1>5 DEF ConsensusNext

-----------------------------------------------------------------------------
LEMMA SoundWhereConsensusHolds ==
  ASSUME ConsensusAssumption, ConsensusIInv
  PROVE  ConsensusIsSound
<1>1. ReplayMatchesLive
  BY DEF ConsensusIInv, BacktestsAreTruthful, Truthful, ReplayMatchesLive, Range
<1>2. FundedIsFinal
  BY DEF ConsensusIInv
<1>3. ASSUME NEW d \in DOMAIN recommended
      PROVE  \E frame \in SUBSET Filing : recommended[d] = Proposal(frame, d)
  BY DEF ConsensusIInv, RecommendedIsProposed
<1>4. ASSUME NEW d \in DOMAIN recommended, NEW i \in DOMAIN recommended[d]
      PROVE  \E frame \in SUBSET Filing : IsProposed(recommended[d][i], frame, d)
  <2>1. PICK frame \in SUBSET Filing : recommended[d] = Proposal(frame, d)
    BY <1>3
  <2>2. d \in Nat \ {0}
    BY DecisionsAreOver DEF ConsensusIInv
  <2> QED BY <2>1, <2>2, ProposedIsTradable
<1>5. ScoresCountPersons
  BY <1>4 DEF ScoresCountPersons, Decisions, IsProposed
<1>6. ASSUME NEW d \in DOMAIN recommended, NEW i \in DOMAIN recommended[d], NEW j \in DOMAIN recommended[d], i # j
      PROVE  TickerFamily(recommended[d][i].ticker) # TickerFamily(recommended[d][j].ticker)
  <2>1. PICK frame \in SUBSET Filing : recommended[d] = Proposal(frame, d)
    BY <1>3
  <2>2. d \in Nat \ {0}
    BY DecisionsAreOver DEF ConsensusIInv
  <2> QED BY <1>6, <2>1, <2>2, ProposedOnce
<1>7. RecommendedIsTradable
  BY <1>4, <1>6 DEF RecommendedIsTradable, Decisions, IsProposed
<1>8. ASSUME NEW d \in DOMAIN recommended, Unreleased(d), NEW i \in DOMAIN recommended[d],
             NEW t \in TickerFamily(recommended[d][i].ticker)
      PROVE  Query(t, d) = {recommended[d][i]}
  <2>1. PICK r : r = recommended[d][i]
    OBVIOUS
  <2>2. d \in Nat \ {0} /\ LiveFrame(d) \in SUBSET Filing
    BY DecisionsAreOver, FramesAreOfFilings DEF ConsensusIInv
  <2>3. recommended[d] = Proposal(LiveFrame(d), d)
    BY <1>8 DEF ConsensusIInv, RecommendedStands, Recommend, Proposal
  <2>4. IsProposed(r, LiveFrame(d), d)
    BY <2>1, <2>2, <2>3, ProposedIsTradable
  <2>5. TickerFamily(t) = TickerFamily(r.ticker)
    BY <1>8, <2>1, FamiliesAreClosed
  <2>6. TradedAs(TickerFamily(t), d) = {r.ticker}
    BY <2>4, <2>5 DEF IsProposed
  <2>7. Query(t, d) = {[ticker |-> s, buyers |-> Score(s, LiveFrame(d), d)] : s \in {r.ticker}}
    BY <2>6 DEF Query
  <2>8. [ticker |-> r.ticker, buyers |-> Score(r.ticker, LiveFrame(d), d)] = r
    BY <2>4 DEF IsProposed
  <2> QED BY <2>1, <2>7, <2>8
<1>9. QueriesAgree
  BY <1>8 DEF QueriesAgree, Decisions, Range
<1> QED BY <1>1, <1>2, <1>5, <1>7, <1>9 DEF ConsensusIsSound

(* What a backtest finds of a day is what was recommended on it, a funded  *)
(* date stays as it was found, no score counts one person twice, and what  *)
(* is recommended can be bought under that one name and be asked about.    *)
THEOREM RecommendationsAreSound == ConsensusSpec => []ConsensusIsSound
<1> USE ConsensusAssumption
<1>1. ConsensusInit => ConsensusIInv
  BY ConsensusStartsSound
<1>2. ConsensusIInv /\ [ConsensusNext]_consensusVars => ConsensusIInv'
  BY ConsensusStepIsSound
<1>3. ConsensusIInv => ConsensusIsSound
  BY SoundWhereConsensusHolds
<1> QED BY <1>1, <1>2, <1>3, PTL DEF ConsensusSpec

-----------------------------------------------------------------------------
(* Sums.                                                                   *)

LEMMA FromZeroOn ==
  ASSUME NEW S \in SUBSET Nat, 0 \in S, \A n \in S : n + 1 \in S
  PROVE  \A n \in Nat : n \in S
<1> DEFINE less == OpToRel(<, Nat)
<1>1. IsWellFoundedOn(less, Nat)
  BY NatLessThanWellFounded
<1>2. \A x, y \in Nat : x < y => <<x, y>> \in less
  BY DEF OpToRel
<1> HIDE DEF less
<1> SUFFICES ASSUME Nat \ S # {} PROVE FALSE
  OBVIOUS
<1>3. PICK x \in Nat \ S : \A y \in Nat \ S : ~(<<y, x>> \in less)
  <2>1. Nat \ S \in SUBSET Nat
    OBVIOUS
  <2> QED BY <1>1, <2>1, WFMin
<1>4. x # 0 /\ x - 1 \in Nat /\ x - 1 < x
  BY <1>3
<1>5. x - 1 \in S
  BY <1>2, <1>3, <1>4
<1>6. (x - 1) + 1 = x
  BY <1>3
<1> QED BY <1>3, <1>5, <1>6

(* The equation of SumTo has one solution on each range.                   *)
Adds(g, f, n) == g = [k \in 0 .. n |-> IF k = 0 THEN 0 ELSE g[k - 1] + f[k]]

Summable(f, n) == \E g \in [0 .. n -> Nat] : Adds(g, f, n)

LEMMA SumExists ==
  ASSUME NEW last \in Nat, NEW f \in [1 .. last -> Nat], NEW n \in 0 .. last
  PROVE  \E g \in [0 .. n -> Nat] : Adds(g, f, n)
<1>1. PICK S : S = {m \in Nat : m <= last => Summable(f, m)}
  OBVIOUS
<1>2. 0 \in S
  <2>1. PICK g : g = [k \in 0 .. 0 |-> 0]
    OBVIOUS
  <2>2. g \in [0 .. 0 -> Nat]
    BY <2>1
  <2>3. \A k \in 0 .. 0 : k = 0
    OBVIOUS
  <2>4. Adds(g, f, 0)
    BY <2>1, <2>3 DEF Adds
  <2> QED BY <1>1, <2>2, <2>4 DEF Summable
<1>3. ASSUME NEW m \in S PROVE m + 1 \in S
  <2>1. m \in Nat
    BY <1>1
  <2>2. SUFFICES ASSUME m + 1 <= last PROVE Summable(f, m + 1)
    BY <1>1, <2>1
  <2>3. PICK g \in [0 .. m -> Nat] : Adds(g, f, m)
    <3>1. m <= last
      BY <2>1, <2>2
    <3> QED BY <1>1, <2>1, <3>1 DEF Summable
  <2>4. PICK h : h = [k \in 0 .. m + 1 |-> IF k = m + 1 THEN g[m] + f[m + 1] ELSE g[k]]
    OBVIOUS
  <2>5. m + 1 \in 1 .. last /\ m \in 0 .. m
    BY <2>1, <2>2
  <2>6. f[m + 1] \in Nat /\ g[m] \in Nat
    BY <2>5
  <2>7. \A k \in 0 .. m + 1 : k = m + 1 \/ k \in 0 .. m
    BY <2>1
  <2>8. h \in [0 .. m + 1 -> Nat]
    <3>1. g[m] + f[m + 1] \in Nat
      BY <2>6
    <3> QED BY <2>4, <2>7, <3>1
  <2>9. \A k \in 0 .. m : h[k] = g[k]
    BY <2>1, <2>4
  <2>10. \A k \in 0 .. m + 1 : h[k] = IF k = 0 THEN 0 ELSE h[k - 1] + f[k]
    <3> SUFFICES ASSUME NEW k \in 0 .. m + 1 PROVE h[k] = IF k = 0 THEN 0 ELSE h[k - 1] + f[k]
      OBVIOUS
    <3>1. CASE k = m + 1
      <4>1. k # 0 /\ k - 1 = m
        BY <2>1, <3>1
      <4>2. h[k] = g[m] + f[k] /\ h[m] = g[m]
        BY <2>4, <2>5, <2>9, <3>1
      <4> QED BY <4>1, <4>2
    <3>2. CASE k \in 0 .. m
      <4>1. g[k] = IF k = 0 THEN 0 ELSE g[k - 1] + f[k]
        BY <2>3, <3>2 DEF Adds
      <4>2. k = 0 \/ k - 1 \in 0 .. m
        BY <2>1, <3>2
      <4> QED BY <2>9, <3>2, <4>1, <4>2
    <3> QED BY <2>7, <3>1, <3>2
  <2>11. Adds(h, f, m + 1)
    BY <2>8, <2>10 DEF Adds
  <2> QED BY <2>8, <2>11 DEF Summable
<1>4. S \in SUBSET Nat
  BY <1>1
<1>5. n \in Nat /\ n <= last
  OBVIOUS
<1>6. n \in S
  BY <1>2, <1>3, <1>4, <1>5, FromZeroOn
<1> QED BY <1>1, <1>5, <1>6 DEF Summable

LEMMA SumIsUnique ==
  ASSUME NEW f, NEW n \in Nat, NEW m \in Nat, NEW g, NEW h, Adds(g, f, n), Adds(h, f, m), NEW k \in Nat, k <= n, k <= m
  PROVE  g[k] = h[k]
<1>1. PICK S : S = {i \in Nat : i <= n /\ i <= m => g[i] = h[i]}
  OBVIOUS
<1>2. /\ \A i \in 0 .. n : g[i] = IF i = 0 THEN 0 ELSE g[i - 1] + f[i]
      /\ \A i \in 0 .. m : h[i] = IF i = 0 THEN 0 ELSE h[i - 1] + f[i]
  BY DEF Adds
<1>3. 0 \in S
  BY <1>1, <1>2
<1>4. ASSUME NEW i \in S PROVE i + 1 \in S
  <2>1. i \in Nat /\ i + 1 # 0 /\ (i + 1) - 1 = i
    BY <1>1
  <2>2. SUFFICES ASSUME i + 1 <= n, i + 1 <= m PROVE g[i + 1] = h[i + 1]
    BY <1>1, <2>1
  <2>3. g[i] = h[i]
    BY <1>1, <2>1, <2>2
  <2>4. i + 1 \in 0 .. n /\ i + 1 \in 0 .. m
    BY <2>1, <2>2
  <2>5. g[i + 1] = g[i] + f[i + 1] /\ h[i + 1] = h[i] + f[i + 1]
    BY <1>2, <2>1, <2>4
  <2> QED BY <2>3, <2>5
<1>5. S \in SUBSET Nat
  BY <1>1
<1>6. k \in S
  BY <1>3, <1>4, <1>5, FromZeroOn
<1> QED BY <1>1, <1>6

LEMMA SumSteps ==
  ASSUME NEW last \in Nat, NEW f \in [1 .. last -> Nat]
  PROVE  /\ SumTo(f, 0) = 0
         /\ \A n \in 0 .. last : SumTo(f, n) \in Nat
         /\ \A n \in 1 .. last : SumTo(f, n) = SumTo(f, n - 1) + f[n]
<1>1. ASSUME NEW n \in 0 .. last
      PROVE  \E g \in [0 .. n -> Nat] : Adds(g, f, n) /\ SumTo(f, n) = g[n]
  <2>1. PICK s : s = CHOOSE g : Adds(g, f, n)
    OBVIOUS
  <2>2. \E g : Adds(g, f, n)
    BY SumExists
  <2>3. Adds(s, f, n)
    BY <2>1, <2>2
  <2>4. SumTo(f, n) = s[n]
    BY <2>1 DEF SumTo, Adds
  <2>5. PICK g \in [0 .. n -> Nat] : Adds(g, f, n)
    BY SumExists
  <2>6. n \in Nat /\ n <= n
    OBVIOUS
  <2>7. s[n] = g[n]
    BY <2>3, <2>5, <2>6, SumIsUnique
  <2> QED BY <2>4, <2>5, <2>7
<1>2. \A n \in 0 .. last : SumTo(f, n) \in Nat
  <2> SUFFICES ASSUME NEW n \in 0 .. last PROVE SumTo(f, n) \in Nat
    OBVIOUS
  <2>1. n \in 0 .. n
    OBVIOUS
  <2>2. PICK g \in [0 .. n -> Nat] : SumTo(f, n) = g[n]
    BY <1>1
  <2> QED BY <2>1, <2>2
<1>3. SumTo(f, 0) = 0
  <2>1. 0 \in 0 .. last /\ 0 \in 0 .. 0
    OBVIOUS
  <2>2. PICK g \in [0 .. 0 -> Nat] : Adds(g, f, 0) /\ SumTo(f, 0) = g[0]
    BY <1>1, <2>1
  <2> QED BY <2>1, <2>2 DEF Adds
<1>4. ASSUME NEW n \in 1 .. last PROVE SumTo(f, n) = SumTo(f, n - 1) + f[n]
  <2>1. n \in 0 .. last /\ n - 1 \in 0 .. last /\ n - 1 \in Nat /\ n - 1 <= n /\ n - 1 <= n - 1 /\ n \in 0 .. n /\ n # 0 /\ n \in Nat
    OBVIOUS
  <2>2. PICK g \in [0 .. n -> Nat] : Adds(g, f, n) /\ SumTo(f, n) = g[n]
    BY <1>1, <2>1
  <2>9. PICK p \in Nat : p = n - 1
    BY <2>1
  <2>3. PICK h \in [0 .. p -> Nat] : Adds(h, f, p) /\ SumTo(f, p) = h[p]
    BY <1>1, <2>1, <2>9
  <2>4. g[n] = g[n - 1] + f[n]
    BY <2>1, <2>2 DEF Adds
  <2>5. g[p] = h[p]
    <3>1. n \in Nat /\ p <= n /\ p <= p
      BY <2>1, <2>9
    <3> QED BY <2>2, <2>3, <3>1, SumIsUnique
  <2> QED BY <2>2, <2>3, <2>4, <2>5, <2>9
<1> QED BY <1>2, <1>3, <1>4

(* What is true of the sums of any number of the terms, by steps.          *)
Terms == [Row -> Nat]

LEMMA RowsAre == PositionsAssumption => MaxTrades \in Nat /\ Row = 1 .. MaxTrades
BY DEF PositionsAssumption, Row

LEMMA SumToIs ==
  ASSUME PositionsAssumption, NEW f \in Terms
  PROVE  /\ SumTo(f, 0) = 0
         /\ \A n \in 0 .. MaxTrades : SumTo(f, n) \in Nat
         /\ \A n \in Nat : n < MaxTrades => /\ n + 1 \in Row /\ f[n + 1] \in Nat /\ SumTo(f, n) \in Nat
                                            /\ SumTo(f, n + 1) = SumTo(f, n) + f[n + 1]
<1>1. MaxTrades \in Nat /\ f \in [1 .. MaxTrades -> Nat]
  BY RowsAre DEF Terms
<1>2. /\ SumTo(f, 0) = 0
      /\ \A n \in 0 .. MaxTrades : SumTo(f, n) \in Nat
      /\ \A n \in 1 .. MaxTrades : SumTo(f, n) = SumTo(f, n - 1) + f[n]
  BY <1>1, SumSteps
<1>3. ASSUME NEW n \in Nat, n < MaxTrades
      PROVE  /\ n + 1 \in Row /\ f[n + 1] \in Nat /\ SumTo(f, n) \in Nat
             /\ SumTo(f, n + 1) = SumTo(f, n) + f[n + 1]
  <2>1. n + 1 \in 1 .. MaxTrades /\ (n + 1) - 1 = n /\ n \in 0 .. MaxTrades
    BY <1>1, <1>3
  <2> QED BY <1>1, <1>2, <2>1, RowsAre
<1> QED BY <1>2, <1>3

LEMMA SumsGrow ==
  ASSUME PositionsAssumption, NEW f \in Terms, NEW g \in Terms, NEW n \in 0 .. MaxTrades,
         \A k \in 1 .. n : f[k] <= g[k]
  PROVE  SumTo(f, n) <= SumTo(g, n)
<1>1. PICK S : S = {m \in Nat : m <= n => SumTo(f, m) <= SumTo(g, m)}
  OBVIOUS
<1>2. MaxTrades \in Nat /\ n \in Nat /\ n <= MaxTrades /\ 0 \in S
  BY <1>1, RowsAre, SumToIs
<1>3. ASSUME NEW m \in S PROVE m + 1 \in S
  <2>1. m \in Nat
    BY <1>1
  <2>2. SUFFICES ASSUME m + 1 <= n PROVE SumTo(f, m + 1) <= SumTo(g, m + 1)
    BY <1>1, <2>1
  <2>3. m < MaxTrades /\ m <= n /\ m + 1 \in 1 .. n
    BY <1>2, <2>1, <2>2
  <2>4. SumTo(f, m) <= SumTo(g, m) /\ f[m + 1] <= g[m + 1]
    BY <1>1, <2>1, <2>3
  <2>5. PICK a \in Nat, b \in Nat : a = SumTo(f, m) /\ b = f[m + 1] /\ SumTo(f, m + 1) = a + b
    BY <2>1, <2>3, SumToIs
  <2>6. PICK c \in Nat, d \in Nat : c = SumTo(g, m) /\ d = g[m + 1] /\ SumTo(g, m + 1) = c + d
    BY <2>1, <2>3, SumToIs
  <2>7. a + b <= c + d
    BY <2>4, <2>5, <2>6
  <2> QED BY <2>5, <2>6, <2>7
<1>4. n \in S
  BY <1>1, <1>2, <1>3, FromZeroOn
<1> QED BY <1>1, <1>2, <1>4

LEMMA SumsAdd ==
  ASSUME PositionsAssumption, NEW f \in Terms, NEW g \in Terms, NEW h \in Terms, NEW n \in 0 .. MaxTrades,
         \A k \in 1 .. n : h[k] = f[k] + g[k]
  PROVE  SumTo(h, n) = SumTo(f, n) + SumTo(g, n)
<1>1. PICK S : S = {m \in Nat : m <= n => SumTo(h, m) = SumTo(f, m) + SumTo(g, m)}
  OBVIOUS
<1>2. MaxTrades \in Nat /\ n \in Nat /\ n <= MaxTrades /\ 0 \in S
  BY <1>1, RowsAre, SumToIs
<1>3. ASSUME NEW m \in S PROVE m + 1 \in S
  <2>1. m \in Nat
    BY <1>1
  <2>2. SUFFICES ASSUME m + 1 <= n PROVE SumTo(h, m + 1) = SumTo(f, m + 1) + SumTo(g, m + 1)
    BY <1>1, <2>1
  <2>3. m < MaxTrades /\ m <= n /\ m + 1 \in 1 .. n
    BY <1>2, <2>1, <2>2
  <2>4. SumTo(h, m) = SumTo(f, m) + SumTo(g, m) /\ h[m + 1] = f[m + 1] + g[m + 1]
    BY <1>1, <2>1, <2>3
  <2>5. PICK a \in Nat, b \in Nat : a = SumTo(f, m) /\ b = f[m + 1] /\ SumTo(f, m + 1) = a + b
    BY <2>1, <2>3, SumToIs
  <2>6. PICK c \in Nat, d \in Nat : c = SumTo(g, m) /\ d = g[m + 1] /\ SumTo(g, m + 1) = c + d
    BY <2>1, <2>3, SumToIs
  <2>7. SumTo(h, m + 1) = (a + c) + (b + d)
    BY <2>1, <2>3, <2>4, <2>5, <2>6, SumToIs
  <2>8. (a + c) + (b + d) = (a + b) + (c + d)
    OBVIOUS
  <2> QED BY <2>5, <2>6, <2>7, <2>8
<1>4. n \in S
  BY <1>1, <1>2, <1>3, FromZeroOn
<1> QED BY <1>1, <1>2, <1>4

(* Terms that are zero beyond the first n.                                 *)
LEMMA SumOfFirst ==
  ASSUME PositionsAssumption, NEW f \in Terms, NEW g \in Terms, NEW n \in 0 .. MaxTrades,
         \A k \in 1 .. n : f[k] = g[k], \A k \in Row : k > n => f[k] = 0
  PROVE  Sum(f) = SumTo(g, n)
<1>1. PICK S : S = {m \in Nat : m <= MaxTrades => SumTo(f, m) = IF m <= n THEN SumTo(g, m) ELSE SumTo(g, n)}
  OBVIOUS
<1>2. MaxTrades \in Nat /\ n \in Nat /\ n <= MaxTrades /\ 0 \in S
  BY <1>1, RowsAre, SumToIs
<1>3. ASSUME NEW m \in S PROVE m + 1 \in S
  <2>1. m \in Nat
    BY <1>1
  <2>2. SUFFICES ASSUME m + 1 <= MaxTrades
                 PROVE  SumTo(f, m + 1) = IF m + 1 <= n THEN SumTo(g, m + 1) ELSE SumTo(g, n)
    BY <1>1, <2>1
  <2>3. m < MaxTrades /\ m + 1 \in Row
    BY <1>2, <2>1, <2>2, RowsAre
  <2>4. SumTo(f, m) = IF m <= n THEN SumTo(g, m) ELSE SumTo(g, n)
    BY <1>1, <2>1, <2>3, <1>2
  <2>5. SumTo(f, m + 1) = SumTo(f, m) + f[m + 1] /\ SumTo(g, m + 1) = SumTo(g, m) + g[m + 1]
        /\ SumTo(f, m) \in Nat
    BY <2>1, <2>3, SumToIs
  <2>6. CASE m + 1 <= n
    <3>1. m <= n /\ m + 1 \in 1 .. n
      BY <1>2, <2>1, <2>6
    <3> QED BY <2>4, <2>5, <2>6, <3>1
  <2>7. CASE ~(m + 1 <= n)
    <3>1. m + 1 > n /\ (m <= n => m = n)
      BY <1>2, <2>1, <2>7
    <3>2. f[m + 1] = 0
      BY <2>3, <3>1
    <3>3. SumTo(f, m) = SumTo(g, n)
      BY <2>4, <3>1
    <3> QED BY <2>5, <2>7, <3>2, <3>3
  <2> QED BY <2>6, <2>7
<1>4. MaxTrades \in S
  BY <1>1, <1>2, <1>3, FromZeroOn
<1>5. MaxTrades <= n => MaxTrades = n
  BY <1>2
<1> QED BY <1>1, <1>2, <1>4, <1>5 DEF Sum

Nothing == [row \in Row |-> 0]
LEMMA SumOfNothing ==
  ASSUME PositionsAssumption, NEW n \in 0 .. MaxTrades
  PROVE  Nothing \in Terms /\ SumTo(Nothing, n) = 0
<1>1. Nothing \in Terms
  BY DEF Nothing, Terms
<1>2. \A k \in 1 .. n : Nothing[k] = Nothing[k] + Nothing[k]
  <2>1. \A k \in 1 .. n : k \in Row
    BY RowsAre
  <2> QED BY <2>1 DEF Nothing
<1>3. PICK x \in Nat : x = SumTo(Nothing, n)
  BY <1>1, SumToIs
<1>4. x = x + x
  BY <1>1, <1>2, <1>3, SumsAdd
<1>5. x = 0
  BY <1>4
<1> QED BY <1>1, <1>3, <1>5

LEMMA SumOfZeros ==
  ASSUME PositionsAssumption, NEW f \in Terms, NEW n \in 0 .. MaxTrades, \A k \in 1 .. n : f[k] = 0
  PROVE  SumTo(f, n) = 0
<1>1. \A k \in 1 .. n : f[k] <= Nothing[k]
  <2>1. \A k \in 1 .. n : k \in Row
    BY RowsAre
  <2> QED BY <2>1 DEF Nothing
<1>2. SumTo(f, n) <= 0
  BY <1>1, SumOfNothing, SumsGrow
<1>3. SumTo(f, n) \in Nat
  BY SumToIs
<1> QED BY <1>2, <1>3

One(at, x) == [row \in Row |-> IF row = at THEN x ELSE 0]
LEMMA SumOfOne ==
  ASSUME PositionsAssumption, NEW at \in Row, NEW x \in Nat
  PROVE  One(at, x) \in Terms /\ Sum(One(at, x)) = x
<1>1. PICK f : f = One(at, x)
  OBVIOUS
<1>2. f \in Terms /\ f[at] = x /\ \A k \in Row : k # at => f[k] = 0
  BY <1>1 DEF One, Terms
<1>3. at \in Nat /\ 1 <= at /\ at <= MaxTrades /\ MaxTrades \in Nat
  BY RowsAre
<1>4. PICK p \in Nat : p = at - 1
  BY <1>3
<1>5. p \in 0 .. MaxTrades /\ at \in 0 .. MaxTrades /\ p + 1 = at /\ p < MaxTrades
  BY <1>3, <1>4
<1>6. SumTo(f, p) = 0
  <2>1. \A k \in 1 .. p : k \in Row /\ k # at
    BY <1>3, <1>4, RowsAre
  <2> QED BY <1>2, <1>5, <2>1, SumOfZeros
<1>7. SumTo(f, at) = x
  <2>1. SumTo(f, p + 1) = SumTo(f, p) + f[p + 1]
    BY <1>2, <1>5, SumToIs
  <2> QED BY <1>2, <1>5, <1>6, <2>1
<1>8. Sum(f) = SumTo(f, at)
  <2>1. \A k \in Row : k > at => f[k] = 0
    BY <1>2, <1>3, RowsAre
  <2> QED BY <1>2, <1>5, <2>1, SumOfFirst
<1> QED BY <1>1, <1>2, <1>7, <1>8

LEMMA WholeSums ==
  ASSUME PositionsAssumption, NEW f \in Terms, NEW g \in Terms
  PROVE  /\ Sum(f) \in Nat
         /\ (\A k \in Row : f[k] <= g[k]) => Sum(f) <= Sum(g)
         /\ (\A k \in Row : f[k] = 0) => Sum(f) = 0
         /\ \A k \in Row : f[k] <= Sum(f)
<1>1. MaxTrades \in 0 .. MaxTrades /\ Row = 1 .. MaxTrades
  BY RowsAre
<1>2. Sum(f) \in Nat
  BY <1>1, SumToIs DEF Sum
<1>3. (\A k \in Row : f[k] <= g[k]) => Sum(f) <= Sum(g)
  BY <1>1, SumsGrow DEF Sum
<1>4. (\A k \in Row : f[k] = 0) => Sum(f) = 0
  BY <1>1, SumOfZeros DEF Sum
<1>5. ASSUME NEW k \in Row PROVE f[k] <= Sum(f)
  <2>1. f[k] \in Nat
    BY DEF Terms
  <2>2. PICK one : one = One(k, f[k]) /\ one \in Terms /\ Sum(one) = f[k]
    BY <2>1, SumOfOne
  <2>3. \A j \in Row : one[j] <= f[j]
    BY <2>1, <2>2 DEF One, Terms
  <2>4. Sum(one) <= Sum(f)
    BY <1>1, <2>2, <2>3, SumsGrow DEF Sum
  <2> QED BY <2>2, <2>4
<1> QED BY <1>2, <1>3, <1>4, <1>5

LEMMA WholeSumsAdd ==
  ASSUME PositionsAssumption, NEW f \in Terms, NEW g \in Terms, NEW h \in Terms, \A k \in Row : h[k] = f[k] + g[k]
  PROVE  Sum(h) = Sum(f) + Sum(g)
<1>1. MaxTrades \in 0 .. MaxTrades /\ Row = 1 .. MaxTrades
  BY RowsAre
<1> QED BY <1>1, SumsAdd DEF Sum

-----------------------------------------------------------------------------
(* Lots and what is held in them.                                          *)

Lot == [shares : Nat \ {0}, price : Price, account : Owner, bought : Nat \ {0}]
IsLots(queue) ==
  /\ DOMAIN queue \subseteq Row /\ queue = [row \in DOMAIN queue |-> queue[row]]
  /\ \A row \in DOMAIN queue : queue[row] \in Lot
SharesIn(queue, set) == [row \in Row |-> IF row \in set THEN queue[row].shares ELSE 0]

LEMMA SharesAre ==
  ASSUME PositionsAssumption, NEW queue, IsLots(queue), NEW set \in SUBSET DOMAIN queue
  PROVE  /\ SharesIn(queue, set) \in Terms /\ Shares(queue, set) = Sum(SharesIn(queue, set))
         /\ Shares(queue, set) \in Nat /\ (set = {} => Shares(queue, set) = 0)
<1>1. \A row \in set : queue[row].shares \in Nat
  BY DEF IsLots, Lot
<1>2. SharesIn(queue, set) \in Terms /\ Shares(queue, set) = Sum(SharesIn(queue, set))
  BY <1>1 DEF SharesIn, Shares, Terms
<1>3. set = {} => \A row \in Row : SharesIn(queue, set)[row] = 0
  BY DEF SharesIn
<1> QED BY <1>2, <1>3, WholeSums

LEMMA SharesGrow ==
  ASSUME PositionsAssumption, NEW queue, IsLots(queue), NEW set \in SUBSET DOMAIN queue,
         NEW other, IsLots(other), NEW larger \in SUBSET DOMAIN other, set \subseteq larger,
         \A row \in set : queue[row].shares <= other[row].shares
  PROVE  Shares(queue, set) <= Shares(other, larger)
<1>1. PICK f \in Terms : f = SharesIn(queue, set) /\ Shares(queue, set) = Sum(f)
  BY SharesAre
<1>2. PICK g \in Terms : g = SharesIn(other, larger) /\ Shares(other, larger) = Sum(g)
  BY SharesAre
<1>3. ASSUME NEW row \in Row PROVE f[row] <= g[row]
  <2>1. g[row] \in Nat
    BY DEF Terms
  <2>2. f[row] = IF row \in set THEN queue[row].shares ELSE 0
    BY <1>1 DEF SharesIn
  <2>3. g[row] = IF row \in larger THEN other[row].shares ELSE 0
    BY <1>2 DEF SharesIn
  <2> QED BY <2>1, <2>2, <2>3
<1>4. Sum(f) <= Sum(g)
  BY <1>3, WholeSums
<1> QED BY <1>1, <1>2, <1>4

(* Lots that are added together, row by row.                               *)
LEMMA SharesSplit ==
  ASSUME PositionsAssumption, NEW queue, IsLots(queue), NEW set \in SUBSET DOMAIN queue,
         NEW other, IsLots(other), NEW smaller \in SUBSET DOMAIN other, NEW g \in Terms,
         \A row \in Row : SharesIn(queue, set)[row] = SharesIn(other, smaller)[row] + g[row]
  PROVE  Shares(queue, set) = Shares(other, smaller) + Sum(g)
<1>1. PICK f \in Terms : f = SharesIn(queue, set) /\ Shares(queue, set) = Sum(f)
  BY SharesAre
<1>2. PICK h \in Terms : h = SharesIn(other, smaller) /\ Shares(other, smaller) = Sum(h)
  BY SharesAre
<1>3. Sum(f) = Sum(h) + Sum(g)
  BY <1>1, <1>2, WholeSumsAdd
<1> QED BY <1>1, <1>2, <1>3

-----------------------------------------------------------------------------
(* What a sale takes of each lot.                                          *)

LEMMA TakenOfOne ==
  ASSUME NEW a \in Nat, NEW b \in Int
  PROVE  Min({a, Max({0, b})}) = IF b <= 0 THEN 0 ELSE IF a <= b THEN a ELSE b
<1>1. PICK c \in Nat : c = IF b <= 0 THEN 0 ELSE b
  OBVIOUS
<1>2. Max({0, b}) = c
  <2>1. c \in {0, b} /\ \A y \in {0, b} : c >= y
    BY <1>1
  <2>2. \A x \in {0, b} : (\A y \in {0, b} : x >= y) => x = c
    BY <1>1
  <2> QED BY <2>1, <2>2 DEF Max
<1>3. PICK d \in Nat : d = IF a <= c THEN a ELSE c
  OBVIOUS
<1>4. Min({a, c}) = d
  <2>1. d \in {a, c} /\ \A y \in {a, c} : d <= y
    BY <1>3
  <2>2. \A x \in {a, c} : (\A y \in {a, c} : x <= y) => x = d
    BY <1>3
  <2> QED BY <2>1, <2>2 DEF Min
<1> QED BY <1>1, <1>2, <1>3, <1>4

Matching(account) == {row \in DOMAIN lots : Matches(account, lots[row])}
Reached(account, row) == SumTo(SharesIn(lots, Matching(account)), row - 1)

LEMMA ReliefIs ==
  ASSUME PositionsAssumption, IsLots(lots), NEW account, NEW sold \in Nat, NEW row \in Matching(account)
  PROVE  /\ Reached(account, row) \in Nat
         /\ Relief(account, sold)[row] =
              IF sold <= Reached(account, row) THEN 0
              ELSE IF lots[row].shares <= sold - Reached(account, row) THEN lots[row].shares
              ELSE sold - Reached(account, row)
<1>1. PICK set : set = Matching(account) /\ set \in SUBSET DOMAIN lots
  BY DEF Matching
<1>2. PICK earlier : earlier = {r \in DOMAIN lots : r < row /\ Matches(account, lots[r])} /\ earlier \in SUBSET DOMAIN lots
  OBVIOUS
<1>3. row \in DOMAIN lots /\ row \in Row /\ MaxTrades \in Nat /\ lots[row].shares \in Nat /\ Matches(account, lots[row])
  BY RowsAre DEF Matching, IsLots, Lot
<1>4. PICK p \in Nat : p = row - 1 /\ p \in 0 .. MaxTrades
  BY <1>3, RowsAre
<1>5. PICK f \in Terms : f = SharesIn(lots, set)
  BY <1>1, SharesAre
<1>6. PICK g \in Terms : g = SharesIn(lots, earlier) /\ Shares(lots, earlier) = Sum(g)
  BY <1>2, SharesAre
<1>7. Sum(g) = SumTo(f, p)
  <2>1. \A k \in 1 .. p : k \in Row /\ (k \in earlier <=> k \in set)
    BY <1>1, <1>2, <1>3, <1>4, RowsAre DEF Matching
  <2>2. \A k \in 1 .. p : g[k] = f[k]
    BY <1>5, <1>6, <2>1 DEF SharesIn
  <2>3. \A k \in Row : k > p => k \notin earlier
    BY <1>2, <1>3, <1>4, RowsAre
  <2>4. \A k \in Row : k > p => g[k] = 0
    BY <1>6, <2>3 DEF SharesIn
  <2> QED BY <1>4, <2>2, <2>4, SumOfFirst
<1>8. PICK reached \in Nat : reached = SumTo(f, p)
  BY <1>4, SumToIs
<1>9. Reached(account, row) = reached
  BY <1>1, <1>4, <1>5, <1>8 DEF Reached
<1>10. Relief(account, sold)[row] = Min({lots[row].shares, Max({0, sold - Shares(lots, earlier)})})
  BY <1>2, <1>3 DEF Relief
<1>11. Relief(account, sold)[row] = Min({lots[row].shares, Max({0, sold - reached})})
  BY <1>6, <1>7, <1>8, <1>10
<1>12. PICK shares \in Nat : shares = lots[row].shares
  BY <1>3
<1>13. Min({shares, Max({0, sold - reached})}) =
         IF sold - reached <= 0 THEN 0 ELSE IF shares <= sold - reached THEN shares ELSE sold - reached
  <2>1. PICK left \in Int : left = sold - reached
    OBVIOUS
  <2> QED BY <2>1, TakenOfOne
<1>14. sold - reached <= 0 <=> sold <= reached
  OBVIOUS
<1> QED BY <1>9, <1>11, <1>12, <1>13, <1>14

TakenBy(account, sold) == [row \in Row |-> IF row \in DOMAIN lots THEN Relief(account, sold)[row] ELSE 0]

LEMMA TakenIs ==
  ASSUME PositionsAssumption, IsLots(lots), NEW account, NEW sold \in Nat
  PROVE  /\ TakenBy(account, sold) \in Terms
         /\ \A row \in DOMAIN lots : /\ Relief(account, sold)[row] \in Nat
                                     /\ Relief(account, sold)[row] <= lots[row].shares
                                     /\ ~Matches(account, lots[row]) => Relief(account, sold)[row] = 0
<1>1. ASSUME NEW row \in DOMAIN lots
      PROVE  /\ Relief(account, sold)[row] \in Nat
             /\ Relief(account, sold)[row] <= lots[row].shares
             /\ ~Matches(account, lots[row]) => Relief(account, sold)[row] = 0
  <2>1. PICK shares \in Nat : shares = lots[row].shares
    BY DEF IsLots, Lot
  <2>2. CASE Matches(account, lots[row])
    <3>1. row \in Matching(account)
      BY <2>2 DEF Matching
    <3>2. PICK reached \in Nat : reached = Reached(account, row)
      BY <3>1, ReliefIs
    <3>3. Relief(account, sold)[row] =
            IF sold <= reached THEN 0 ELSE IF shares <= sold - reached THEN shares ELSE sold - reached
      BY <2>1, <3>1, <3>2, ReliefIs
    <3> QED BY <2>1, <2>2, <3>3
  <2>3. CASE ~Matches(account, lots[row])
    <3>1. Relief(account, sold)[row] = 0
      BY <2>3 DEF Relief
    <3> QED BY <2>1, <3>1
  <2> QED BY <2>2, <2>3
<1>2. TakenBy(account, sold) \in Terms
  BY <1>1 DEF TakenBy, Terms
<1> QED BY <1>1, <1>2

(* A sale takes as many as it names, as long as there are so many.         *)
LEMMA TakenIsNamed ==
  ASSUME PositionsAssumption, IsLots(lots), NEW account, NEW sold \in Nat
  PROVE  Sum(TakenBy(account, sold)) <= sold
<1>1. PICK f \in Terms : f = SharesIn(lots, Matching(account))
  BY SharesAre DEF Matching
<1>2. PICK t \in Terms : t = TakenBy(account, sold)
  BY TakenIs
<1>3. PICK S : S = {m \in Nat : m <= MaxTrades => SumTo(t, m) = IF SumTo(f, m) <= sold THEN SumTo(f, m) ELSE sold}
  OBVIOUS
<1>4. MaxTrades \in Nat /\ 0 \in S
  BY <1>3, RowsAre, SumToIs
<1>5. ASSUME NEW m \in S PROVE m + 1 \in S
  <2>1. m \in Nat
    BY <1>3
  <2>2. SUFFICES ASSUME m + 1 <= MaxTrades
                 PROVE  SumTo(t, m + 1) = IF SumTo(f, m + 1) <= sold THEN SumTo(f, m + 1) ELSE sold
    BY <1>3, <2>1
  <2>3. m < MaxTrades /\ m <= MaxTrades /\ m + 1 \in Row /\ (m + 1) - 1 = m
    BY <1>4, <2>1, <2>2, RowsAre
  <2>4. SumTo(t, m) = IF SumTo(f, m) <= sold THEN SumTo(f, m) ELSE sold
    BY <1>3, <2>1, <2>3
  <2>5. PICK row \in Row : row = m + 1
    BY <2>3
  <2>6. PICK a \in Nat, b \in Nat : a = SumTo(f, m) /\ b = f[row] /\ SumTo(f, m + 1) = a + b
    BY <2>1, <2>3, <2>5, SumToIs
  <2>7. PICK c \in Nat, d \in Nat : c = SumTo(t, m) /\ d = t[row] /\ SumTo(t, m + 1) = c + d
    BY <2>1, <2>3, <2>5, SumToIs
  <2>8. d = IF sold <= a THEN 0 ELSE IF b <= sold - a THEN b ELSE sold - a
    <3>1. CASE row \in Matching(account)
      <4>1. Reached(account, row) = a
        BY <1>1, <2>3, <2>5, <2>6 DEF Reached
      <4>2. lots[row].shares = b /\ d = Relief(account, sold)[row]
        BY <1>1, <1>2, <2>6, <2>7, <3>1 DEF SharesIn, TakenBy, Matching
      <4> QED BY <3>1, <4>1, <4>2, ReliefIs
    <3>2. CASE row \notin Matching(account)
      <4>1. b = 0
        BY <1>1, <2>6, <3>2 DEF SharesIn
      <4>2. d = 0
        <5>1. row \in DOMAIN lots => ~Matches(account, lots[row])
          BY <3>2 DEF Matching
        <5> QED BY <1>2, <2>7, <5>1, TakenIs DEF TakenBy
      <4> QED BY <4>1, <4>2
    <3> QED BY <3>1, <3>2
  <2>9. c = IF a <= sold THEN a ELSE sold
    BY <2>4, <2>6, <2>7
  <2>10. c + d = IF a + b <= sold THEN a + b ELSE sold
    BY <2>8, <2>9
  <2> QED BY <2>6, <2>7, <2>10
<1>6. S \in SUBSET Nat
  BY <1>3
<1>7. MaxTrades \in S
  BY <1>4, <1>5, <1>6, FromZeroOn
<1>8. PICK x \in Nat, y \in Nat : x = SumTo(t, MaxTrades) /\ y = SumTo(f, MaxTrades)
  <2>1. MaxTrades \in 0 .. MaxTrades
    BY <1>4
  <2> QED BY <2>1, SumToIs
<1>9. x = IF y <= sold THEN y ELSE sold
  BY <1>3, <1>4, <1>7, <1>8
<1>10. x <= sold
  BY <1>9
<1> QED BY <1>2, <1>8, <1>10 DEF Sum

(* Of two lots it may take from, the later one is touched only when the    *)
(* earlier one is taken whole.                                             *)
LEMMA EarlierFirst ==
  ASSUME PositionsAssumption, IsLots(lots), NEW account, NEW sold \in Nat,
         NEW first \in Matching(account), NEW row \in Matching(account), first < row,
         Relief(account, sold)[first] < lots[first].shares
  PROVE  Relief(account, sold)[row] = 0
<1>1. PICK f \in Terms : f = SharesIn(lots, Matching(account))
  BY SharesAre DEF Matching
<1>2. first \in DOMAIN lots /\ first \in Row /\ row \in Row /\ MaxTrades \in Nat
  BY RowsAre DEF Matching, IsLots
<1>3. PICK a \in Nat, b \in Nat : a = Reached(account, first) /\ b = Reached(account, row)
  BY ReliefIs
<1>4. PICK s \in Nat : s = lots[first].shares
  BY <1>2 DEF IsLots, Lot
<1>5. a + s <= b
  <2>1. PICK p \in Nat, q \in Nat : p = first - 1 /\ q = row - 1
    BY <1>2, RowsAre
  <2>2. p < MaxTrades /\ p + 1 = first /\ first \in 0 .. MaxTrades /\ q \in 0 .. MaxTrades /\ first <= q
    BY <1>2, <2>1, RowsAre
  <2>3. SumTo(f, first) = a + s
    <3>1. SumTo(f, p + 1) = SumTo(f, p) + f[p + 1]
      BY <2>2, SumToIs
    <3>2. f[first] = s /\ SumTo(f, p) = a
      BY <1>1, <1>2, <1>3, <1>4, <2>1 DEF Reached, SharesIn
    <3> QED BY <2>2, <3>1, <3>2
  <2>4. PICK g : g = [k \in Row |-> IF k <= first THEN f[k] ELSE 0]
    OBVIOUS
  <2>5. g \in Terms
    BY <2>4 DEF Terms
  <2>6. SumTo(g, q) <= SumTo(f, q)
    <3>1. ASSUME NEW k \in 1 .. q PROVE g[k] <= f[k]
      <4>1. k \in Row
        BY <2>2, RowsAre
      <4>2. f[k] \in Nat /\ g[k] = IF k <= first THEN f[k] ELSE 0
        BY <2>4, <4>1 DEF Terms
      <4> QED BY <4>2
    <3> QED BY <2>2, <2>5, <3>1, SumsGrow
  <2>7. SumTo(g, q) = SumTo(f, first)
    <3>1. PICK h : h = [k \in Row |-> IF k <= q THEN g[k] ELSE 0]
      OBVIOUS
    <3>2. h \in Terms
      BY <2>5, <3>1 DEF Terms
    <3>3. Sum(h) = SumTo(g, q)
      <4>1. \A k \in 1 .. q : h[k] = g[k]
        BY <2>2, <3>1, RowsAre
      <4>2. \A k \in Row : k > q => h[k] = 0
        BY <2>1, <3>1, RowsAre
      <4> QED BY <2>2, <2>5, <3>2, <4>1, <4>2, SumOfFirst
    <3>4. Sum(h) = SumTo(f, first)
      <4>1. \A k \in 1 .. first : h[k] = f[k]
        <5>1. \A k \in 1 .. first : k \in Row /\ k <= first /\ k <= q
          BY <1>2, <2>1, <2>2, RowsAre
        <5> QED BY <2>4, <3>1, <5>1
      <4>2. \A k \in Row : k > first => h[k] = 0
        BY <1>2, <2>4, <3>1, RowsAre
      <4> QED BY <2>2, <3>2, <4>1, <4>2, SumOfFirst
    <3> QED BY <3>3, <3>4
  <2>8. SumTo(f, q) = b
    BY <1>1, <1>3, <2>1 DEF Reached
  <2> QED BY <2>3, <2>6, <2>7, <2>8
<1>6. Relief(account, sold)[first] = IF sold <= a THEN 0 ELSE IF s <= sold - a THEN s ELSE sold - a
  BY <1>3, <1>4, ReliefIs
<1>7. sold < a + s
  BY <1>4, <1>6
<1>8. sold <= b
  BY <1>5, <1>7
<1> QED BY <1>3, <1>8, ReliefIs

-----------------------------------------------------------------------------
(* What a sale leaves.                                                     *)

Left(account, sold) == Remaining(Relief(account, sold))

Reduced(left, relief) ==
  /\ DOMAIN left = {row \in DOMAIN lots : relief[row] < lots[row].shares}
  /\ \A row \in DOMAIN left : /\ left[row].shares = lots[row].shares - relief[row]
                              /\ left[row].account = lots[row].account
                              /\ left[row].bought = lots[row].bought

LEMMA LeftIs ==
  ASSUME PositionsAssumption, IsLots(lots), NEW account, NEW sold \in Nat
  PROVE  IsLots(Left(account, sold)) /\ Reduced(Left(account, sold), Relief(account, sold))
<1>1. PICK relief : relief = Relief(account, sold)
  OBVIOUS
<1>2. PICK left : left = Left(account, sold)
  OBVIOUS
<1>3. left = [row \in {r \in DOMAIN lots : lots[r].shares > relief[r]} |->
                [lots[row] EXCEPT !.shares = lots[row].shares - relief[row]]]
  BY <1>1, <1>2 DEF Left, Remaining
<1>4. DOMAIN left = {r \in DOMAIN lots : relief[r] < lots[r].shares}
  <2>1. DOMAIN left = {r \in DOMAIN lots : lots[r].shares > relief[r]}
    BY <1>3
  <2> QED BY <2>1
<1>5. ASSUME NEW row \in DOMAIN left
      PROVE  /\ left[row].shares = lots[row].shares - relief[row] /\ left[row].account = lots[row].account
             /\ left[row].bought = lots[row].bought /\ left[row] \in Lot
  <2>1. lots[row] \in Lot /\ relief[row] \in Nat /\ relief[row] < lots[row].shares
    BY <1>1, <1>4, TakenIs DEF IsLots
  <2>2. left[row] = [lots[row] EXCEPT !.shares = lots[row].shares - relief[row]]
    BY <1>3
  <2>3. lots[row].shares - relief[row] \in Nat \ {0}
    BY <2>1 DEF Lot
  <2> QED BY <2>1, <2>2, <2>3 DEF Lot
<1>6. IsLots(left)
  BY <1>3, <1>4, <1>5 DEF IsLots
<1>7. Reduced(left, relief)
  BY <1>4, <1>5 DEF Reduced
<1> QED BY <1>1, <1>2, <1>6, <1>7

TakenIn(set, account, sold) == [row \in Row |-> IF row \in set THEN Relief(account, sold)[row] ELSE 0]

LEMMA LeftAndTaken ==
  ASSUME PositionsAssumption, IsLots(lots), NEW account, NEW sold \in Nat, NEW set \in SUBSET DOMAIN lots
  PROVE  /\ TakenIn(set, account, sold) \in Terms /\ Sum(TakenIn(set, account, sold)) \in Nat
         /\ Sum(TakenIn(set, account, sold)) <= sold
         /\ Shares(lots, set) = Shares(Left(account, sold), set \intersect DOMAIN Left(account, sold))
                                + Sum(TakenIn(set, account, sold))
<1>1. \A row \in DOMAIN lots : /\ Relief(account, sold)[row] \in Nat
                               /\ Relief(account, sold)[row] <= lots[row].shares
  BY TakenIs
<1>2. PICK g : g = TakenIn(set, account, sold)
  OBVIOUS
<1>3. g \in Terms
  BY <1>1, <1>2 DEF TakenIn, Terms
<1>4. PICK t \in Terms : t = TakenBy(account, sold) /\ Sum(t) <= sold
  BY TakenIs, TakenIsNamed
<1>5. Sum(g) \in Nat /\ Sum(t) \in Nat /\ Sum(g) <= Sum(t)
  <2>1. ASSUME NEW row \in Row PROVE g[row] <= t[row]
    <3>1. t[row] \in Nat
      BY DEF Terms
    <3>2. g[row] = (IF row \in set THEN Relief(account, sold)[row] ELSE 0)
      BY <1>2 DEF TakenIn
    <3>3. t[row] = (IF row \in DOMAIN lots THEN Relief(account, sold)[row] ELSE 0)
      BY <1>4 DEF TakenBy
    <3> QED BY <3>1, <3>2, <3>3
  <2> QED BY <1>3, <2>1, WholeSums
<1>6. PICK left : left = Left(account, sold)
  OBVIOUS
<1>7. /\ IsLots(left) /\ DOMAIN left = {row \in DOMAIN lots : Relief(account, sold)[row] < lots[row].shares}
      /\ \A row \in DOMAIN left : left[row].shares = lots[row].shares - Relief(account, sold)[row]
  <2>1. IsLots(left) /\ Reduced(left, Relief(account, sold))
    BY <1>6, LeftIs
  <2> QED BY <2>1 DEF Reduced
<1>8. PICK stay : stay = set \intersect DOMAIN left /\ stay \in SUBSET DOMAIN left
  OBVIOUS
<1>9. ASSUME NEW row \in Row PROVE SharesIn(lots, set)[row] = SharesIn(left, stay)[row] + g[row]
  <2>1. SharesIn(lots, set)[row] = (IF row \in set THEN lots[row].shares ELSE 0)
    BY DEF SharesIn
  <2>2. SharesIn(left, stay)[row] = (IF row \in stay THEN left[row].shares ELSE 0)
    BY DEF SharesIn
  <2>3. g[row] = (IF row \in set THEN Relief(account, sold)[row] ELSE 0)
    BY <1>2 DEF TakenIn
  <2>4. CASE row \in stay
    <3>1. PICK a \in Nat, b \in Nat : a = lots[row].shares /\ b = Relief(account, sold)[row]
      BY <1>1, <1>8, <2>4 DEF IsLots, Lot
    <3>2. left[row].shares = a - b /\ row \in set
      BY <1>7, <1>8, <2>4, <3>1
    <3> QED BY <2>1, <2>2, <2>3, <2>4, <3>1, <3>2
  <2>5. CASE row \in set /\ row \notin stay
    <3>1. PICK a \in Nat, b \in Nat : a = lots[row].shares /\ b = Relief(account, sold)[row] /\ b <= a
      BY <1>1, <2>5 DEF IsLots, Lot
    <3>2. ~(b < a)
      BY <1>7, <1>8, <2>5, <3>1
    <3>3. a = 0 + b
      BY <3>1, <3>2
    <3> QED BY <2>1, <2>2, <2>3, <2>5, <3>1, <3>3
  <2>6. CASE row \notin set
    <3>1. row \notin stay
      BY <1>8, <2>6
    <3> QED BY <2>1, <2>2, <2>3, <2>6, <3>1
  <2> QED BY <2>4, <2>5, <2>6
<1>10. Shares(lots, set) = Shares(left, stay) + Sum(g)
  BY <1>3, <1>7, <1>8, <1>9, SharesSplit
<1>11. Sum(g) <= sold
  BY <1>4, <1>5
<1> QED BY <1>2, <1>3, <1>5, <1>6, <1>8, <1>10, <1>11

LEMMA OfLeft ==
  ASSUME PositionsAssumption, IsLots(lots), NEW account \in Owner, NEW sold \in Nat, NEW a \in Owner
  PROVE  /\ Of(a, Left(account, sold)) = Of(a, lots) \intersect DOMAIN Left(account, sold)
         /\ Relieved(Relief(account, sold), a) = Sum(TakenIn(Of(a, lots), account, sold))
         /\ Relieved(Relief(account, sold), a) \in Nat /\ Relieved(Relief(account, sold), a) <= sold
         /\ Shares(Left(account, sold), Of(a, Left(account, sold))) \in Nat
         /\ Shares(lots, Of(a, lots)) = Shares(Left(account, sold), Of(a, Left(account, sold)))
                                        + Relieved(Relief(account, sold), a)
         /\ account \notin {NoAccount, a} => Relieved(Relief(account, sold), a) = 0
         /\ Relieved(Relief(account, sold), a) = 0 => Of(a, Left(account, sold)) = Of(a, lots)
<1>1. PICK set : set = Of(a, lots) /\ set \in SUBSET DOMAIN lots
  BY DEF Of
<1>2. PICK left : left = Left(account, sold) /\ IsLots(left)
  BY LeftIs
<1>3. /\ DOMAIN left = {row \in DOMAIN lots : Relief(account, sold)[row] < lots[row].shares}
      /\ \A row \in DOMAIN left : left[row].account = lots[row].account
  <2>1. Reduced(left, Relief(account, sold))
    BY <1>2, LeftIs
  <2> QED BY <2>1 DEF Reduced
<1>4. Of(a, left) = set \intersect DOMAIN left
  BY <1>1, <1>3 DEF Of
<1>5. PICK g \in Terms : g = TakenIn(set, account, sold)
  BY <1>1, LeftAndTaken
<1>6. Relieved(Relief(account, sold), a) = Sum(g)
  BY <1>1, <1>5 DEF Relieved, TakenIn
<1>7. Sum(g) \in Nat /\ Sum(g) <= sold /\ Shares(lots, set) = Shares(left, set \intersect DOMAIN left) + Sum(g)
  BY <1>1, <1>2, <1>5, LeftAndTaken
<1>8. Shares(left, Of(a, left)) \in Nat
  <2>1. Of(a, left) \in SUBSET DOMAIN left
    BY DEF Of
  <2> QED BY <1>2, <2>1, SharesAre
<1>9. ASSUME account \notin {NoAccount, a} PROVE Sum(g) = 0
  <2>1. ASSUME NEW row \in Row PROVE g[row] = 0
    <3>1. row \in set => ~Matches(account, lots[row])
      BY <1>1, <1>9 DEF Of, Matches
    <3> QED BY <1>1, <1>5, <3>1, TakenIs DEF TakenIn
  <2> QED BY <2>1, WholeSums
<1>10. ASSUME Sum(g) = 0 PROVE Of(a, left) = set
  <2>1. ASSUME NEW row \in set PROVE row \in DOMAIN left
    <3>1. row \in Row /\ lots[row].shares \in Nat \ {0}
      BY <1>1, <2>1 DEF IsLots, Lot
    <3>2. g[row] \in Nat /\ g[row] <= Sum(g)
      BY <3>1, WholeSums DEF Terms
    <3>3. g[row] = 0
      BY <1>10, <3>2
    <3>4. Relief(account, sold)[row] = 0
      BY <1>5, <2>1, <3>1, <3>3 DEF TakenIn
    <3> QED BY <1>1, <1>3, <3>1, <3>4
  <2> QED BY <1>4, <2>1
<1> QED BY <1>1, <1>2, <1>4, <1>5, <1>6, <1>7, <1>8, <1>9, <1>10

-----------------------------------------------------------------------------
(* Accounts that are cleared, at once or one set after another.            *)

Estimate == [value : Nat, sold : Nat, shares : Nat]
IsBook(b) == IsLots(b.lots) /\ b.estimates \in [Owner -> Estimate] /\ b.ineligible \subseteq Owner
Cleared(b, c, gone) ==
  /\ gone \subseteq Owner
  /\ c.lots = Only(b.lots, Outside(b.lots, gone))
  /\ c.estimates = [a \in Owner |-> IF a \in gone THEN NoEstimate ELSE b.estimates[a]]
  /\ c.ineligible = b.ineligible \ gone

LEMMA ClearIs ==
  ASSUME NEW b, NEW gone \in SUBSET Owner
  PROVE  Cleared(b, _clear_account(b, gone), gone)
BY DEF Cleared, _clear_account

LEMMA ClearNone ==
  ASSUME NEW b, IsBook(b)
  PROVE  Cleared(b, b, {})
<1>1. b.lots = [row \in DOMAIN b.lots |-> b.lots[row]]
  BY DEF IsBook, IsLots
<1>2. Outside(b.lots, {}) = DOMAIN b.lots
  BY DEF Outside
<1>3. b.lots = Only(b.lots, Outside(b.lots, {}))
  BY <1>1, <1>2 DEF Only
<1>4. b.estimates = [a \in Owner |-> IF a \in {} THEN NoEstimate ELSE b.estimates[a]]
  BY DEF IsBook
<1>5. b.ineligible = b.ineligible \ {}
  OBVIOUS
<1> QED BY <1>3, <1>4, <1>5 DEF Cleared

LEMMA ClearTwice ==
  ASSUME NEW b, NEW c, NEW d, NEW gone, NEW more, Cleared(b, c, gone), Cleared(c, d, more)
  PROVE  Cleared(b, d, gone \cup more)
<1>1. Outside(c.lots, more) = Outside(b.lots, gone \cup more)
  BY DEF Cleared, Outside, Only
<1>2. \A row \in Outside(c.lots, more) : c.lots[row] = b.lots[row]
  BY DEF Cleared, Outside, Only
<1>3. d.lots = Only(b.lots, Outside(b.lots, gone \cup more))
  BY <1>1, <1>2 DEF Cleared, Only
<1>4. d.estimates = [a \in Owner |-> IF a \in gone \cup more THEN NoEstimate ELSE b.estimates[a]]
  BY DEF Cleared
<1>5. d.ineligible = b.ineligible \ (gone \cup more)
  BY DEF Cleared
<1> QED BY <1>3, <1>4, <1>5 DEF Cleared

LEMMA ClearedIs ==
  ASSUME PositionsAssumption, NEW b, IsBook(b), NEW c, NEW gone, Cleared(b, c, gone)
  PROVE  /\ IsBook(c)
         /\ \A a \in Owner : Of(a, c.lots) = IF a \in gone THEN {} ELSE Of(a, b.lots)
         /\ DOMAIN c.lots \subseteq DOMAIN b.lots /\ \A row \in DOMAIN c.lots : c.lots[row] = b.lots[row]
<1>1. /\ DOMAIN c.lots = Outside(b.lots, gone) /\ DOMAIN c.lots \subseteq DOMAIN b.lots
      /\ \A row \in DOMAIN c.lots : c.lots[row] = b.lots[row]
      /\ c.lots = [row \in DOMAIN c.lots |-> c.lots[row]]
  BY DEF Cleared, Only, Outside
<1>2. IsLots(c.lots)
  BY <1>1 DEF IsBook, IsLots
<1>3. NoEstimate \in Estimate
  BY DEF NoEstimate, Estimate
<1>4. c.estimates \in [Owner -> Estimate] /\ c.ineligible \subseteq Owner
  BY <1>3 DEF IsBook, Cleared
<1>5. \A a \in Owner : Of(a, c.lots) = IF a \in gone THEN {} ELSE Of(a, b.lots)
  BY <1>1 DEF Of, Outside
<1> QED BY <1>1, <1>2, <1>4, <1>5 DEF IsBook

-----------------------------------------------------------------------------
(* The book after a sale: what it leaves, and the accounts it clears.      *)

IsSold(b, account, sold) ==
  /\ IsBook(b) /\ b.lots = Left(account, sold)
  /\ \A a \in Owner : /\ b.estimates[a].shares = estimates[a].shares
                      /\ b.estimates[a] # NoEstimate => estimates[a] # NoEstimate
                      /\ a \in ineligible => a \in b.ineligible
                      /\ a \in b.ineligible => \/ a \in ineligible
                                               \/ congress /\ Relieved(Relief(account, sold), a) > 0
                      /\ ~congress => b.estimates[a] = estimates[a]

(* An account that is cleared has no lots left, or dust.                   *)
Clearable(b, gone, partial) ==
  \A a \in gone : \/ Of(a, b.lots) = {}
                  \/ ~partial /\ Shares(b.lots, Of(a, b.lots)) * TolerancePart <= b.estimates[a].shares
EmptiedAreGone(b, gone, account, sold) ==
  \A a \in Owner \ gone : congress /\ Relieved(Relief(account, sold), a) > 0 => Of(a, b.lots) # {}

BookTypes == IsBook(Book) /\ congress \in BOOLEAN

LEMMA BookIs ==
  ASSUME BookTypes
  PROVE  /\ IsLots(lots) /\ estimates \in [Owner -> Estimate] /\ ineligible \subseteq Owner
         /\ Book.lots = lots /\ Book.estimates = estimates /\ Book.ineligible = ineligible
BY DEF BookTypes, IsBook, Book

LEMMA EstimatedIs ==
  ASSUME PositionsAssumption, BookTypes, NEW account \in Owner, NEW sold \in Nat, NEW price \in Nat, NEW band \in BOOLEAN
  PROVE  \E b, gone : /\ IsSold(b, account, sold) /\ Cleared(b, Estimated(Relief(account, sold), price, band), gone)
                      /\ \A a \in gone : Of(a, b.lots) = {}
                      /\ EmptiedAreGone(b, gone, account, sold)
<1>1. PICK relief : relief = Relief(account, sold)
  OBVIOUS
<1>2. PICK left : left = Left(account, sold) /\ left = Remaining(relief) /\ IsLots(left)
  BY <1>1, BookIs, LeftIs DEF Left
<1>9. \A a \in Owner : Relieved(relief, a) \in Nat
  BY <1>1, BookIs, OfLeft
<1>3. PICK out : out = [a \in Owner |-> Relieved(relief, a)]
  OBVIOUS
<1>10. \A a \in Owner : out[a] = Relieved(relief, a) /\ out[a] \in Nat
  BY <1>3, <1>9
<1>4. PICK touched : touched = {a \in Owner : Relieved(relief, a) > 0}
  OBVIOUS
<1>5. PICK emptied : emptied = {a \in touched : Of(a, left) = {}} /\ emptied \in SUBSET Owner
  BY <1>4
<1>6. /\ IsLots(lots) /\ estimates \in [Owner -> Estimate] /\ ineligible \subseteq Owner
      /\ Book.lots = lots /\ Book.estimates = estimates /\ Book.ineligible = ineligible
  BY BookIs
<1>7. CASE congress
  <2>1. PICK weighed : weighed = {a \in touched : band /\ estimates[a] # NoEstimate}
    OBVIOUS
  <2>2. PICK judged : judged = [a \in Owner |-> IF a \in weighed
                                  THEN [estimates[a] EXCEPT !.sold = @ + price * Relieved(relief, a)] ELSE estimates[a]]
    OBVIOUS
  <2>3. PICK b : b = [lots |-> left, estimates |-> judged,
                      ineligible |-> IF band THEN ineligible ELSE ineligible \cup touched]
    OBVIOUS
  <2>4. /\ b.lots = left /\ b.estimates = judged
        /\ b.ineligible = IF band THEN ineligible ELSE ineligible \cup touched
    BY <2>3
  <2>5. Estimated(relief, price, band) = _clear_account(b, emptied)
    <3>1. \A a \in Owner : a \in weighed <=> band /\ a \in touched /\ estimates[a] # NoEstimate
      BY <2>1
    <3>2. judged = [a \in Owner |-> IF band /\ a \in touched /\ estimates[a] # NoEstimate
                      THEN [estimates[a] EXCEPT !.sold = @ + price * Relieved(relief, a)] ELSE estimates[a]]
      BY <2>2, <3>1
    <3> QED BY <1>2, <1>4, <1>5, <1>7, <2>3, <3>2 DEF Estimated
  <2>6. ASSUME NEW a \in Owner
        PROVE  /\ judged[a] \in Estimate /\ judged[a].shares = estimates[a].shares
               /\ judged[a] # NoEstimate => estimates[a] # NoEstimate
    <3>1. estimates[a] \in Estimate
      BY <1>6
    <3>2. CASE a \in weighed
      <4>1. judged[a] = [estimates[a] EXCEPT !.sold = estimates[a].sold + price * out[a]]
        BY <1>10, <2>2, <3>2
      <4>2. price * out[a] \in Nat
        <5>1. PICK n \in Nat : n = out[a]
          BY <1>10
        <5>2. price * n \in Nat
          OBVIOUS
        <5> QED BY <5>1, <5>2
      <4>3. estimates[a].sold \in Nat
        BY <3>1 DEF Estimate
      <4>4. estimates[a].sold + price * out[a] \in Nat
        BY <4>2, <4>3
      <4> QED BY <2>1, <3>1, <3>2, <4>1, <4>4 DEF Estimate
    <3>3. CASE a \notin weighed
      BY <2>2, <3>1, <3>3
    <3> QED BY <3>2, <3>3
  <2>7. touched \subseteq Owner
    BY <1>4
  <2>8. judged \in [Owner -> Estimate]
    BY <2>2, <2>6
  <2>9. IsBook(b)
    BY <1>2, <1>6, <2>4, <2>7, <2>8 DEF IsBook
  <2>10. IsSold(b, account, sold)
    <3>1. ASSUME NEW a \in Owner
          PROVE  /\ b.estimates[a].shares = estimates[a].shares
                 /\ b.estimates[a] # NoEstimate => estimates[a] # NoEstimate
                 /\ a \in ineligible => a \in b.ineligible
                 /\ a \in b.ineligible => a \in ineligible \/ (congress /\ Relieved(relief, a) > 0)
      <4>1. a \in touched => Relieved(relief, a) > 0
        BY <1>4
      <4> QED BY <1>7, <2>4, <2>6, <4>1
    <3> QED BY <1>1, <1>2, <1>7, <2>4, <2>9, <3>1 DEF IsSold
  <2>11. Cleared(b, Estimated(relief, price, band), emptied)
    BY <1>5, <2>5, ClearIs
  <2>12. EmptiedAreGone(b, emptied, account, sold)
    BY <1>1, <1>4, <1>5, <2>4 DEF EmptiedAreGone
  <2>13. \A a \in emptied : Of(a, b.lots) = {}
    BY <1>5, <2>4
  <2> QED BY <1>1, <2>10, <2>11, <2>12, <2>13
<1>8. CASE ~congress
  <2>1. PICK b : b = [Book EXCEPT !.lots = left]
    OBVIOUS
  <2>2. b.lots = left /\ b.estimates = estimates /\ b.ineligible = ineligible
    BY <2>1 DEF Book
  <2>3. Estimated(relief, price, band) = b
    BY <1>2, <1>8, <2>1 DEF Estimated
  <2>4. IsBook(b)
    BY <1>2, <1>6, <2>2 DEF IsBook
  <2>5. IsSold(b, account, sold)
    BY <1>2, <2>2, <2>4 DEF IsSold
  <2>6. Cleared(b, Estimated(relief, price, band), {})
    BY <2>3, <2>4, ClearNone
  <2>7. EmptiedAreGone(b, {}, account, sold)
    BY <1>8 DEF EmptiedAreGone
  <2> QED BY <1>1, <2>5, <2>6, <2>7
<1> QED BY <1>7, <1>8 DEF BookTypes

LEMMA SellIs ==
  ASSUME PositionsAssumption, BookTypes, NEW account \in Owner, NEW sold \in Nat, NEW price \in Nat,
         NEW band \in BOOLEAN, NEW partial \in BOOLEAN, Sell(account, sold, price, band, partial)
  PROVE  \E b, gone : /\ IsSold(b, account, sold) /\ Cleared(b, Book', gone) /\ Clearable(b, gone, partial)
                      /\ EmptiedAreGone(b, gone, account, sold)
<1>1. PICK estimated : estimated = Estimated(Relief(account, sold), price, band)
  OBVIOUS
<1>2. PICK b, gone :
        /\ IsSold(b, account, sold) /\ Cleared(b, estimated, gone)
        /\ \A a \in gone : Of(a, b.lots) = {}
        /\ EmptiedAreGone(b, gone, account, sold)
  BY <1>1, EstimatedIs
<1>3. IsBook(b) /\ gone \subseteq Owner
  BY <1>2 DEF IsSold, Cleared
<1>4. PICK kept : kept = IF partial THEN estimated ELSE Swept(estimated)
  OBVIOUS
<1>5. PICK last : last = IF DOMAIN kept.lots = {} THEN _clear_account(kept, Owner) ELSE kept
  OBVIOUS
<1>6. lots' = last.lots /\ estimates' = last.estimates /\ ineligible' = last.ineligible
  BY <1>1, <1>4, <1>5 DEF Sell, PutBook
<1>7. /\ IsBook(estimated) /\ \A a \in Owner : Of(a, estimated.lots) = IF a \in gone THEN {} ELSE Of(a, b.lots)
      /\ \A row \in DOMAIN estimated.lots : estimated.lots[row] = b.lots[row]
  BY <1>2, <1>3, ClearedIs
<1>8. PICK dust : /\ Cleared(estimated, kept, dust) /\ Clearable(b, dust, partial)
  <2>1. CASE partial
    <3>1. Cleared(estimated, kept, {})
      BY <1>4, <1>7, <2>1, ClearNone
    <3>2. Clearable(b, {}, partial)
      BY DEF Clearable
    <3> QED BY <3>1, <3>2
  <2>2. CASE ~partial
    <3>1. PICK dusty : dusty = {a \in Owner : IsDust(estimated, a)} /\ dusty \in SUBSET Owner
      OBVIOUS
    <3>2. Cleared(estimated, kept, dusty)
      BY <1>4, <2>2, <3>1, ClearIs DEF Swept
    <3>3. ASSUME NEW a \in dusty, Of(a, b.lots) # {}
          PROVE  Shares(b.lots, Of(a, b.lots)) * TolerancePart <= b.estimates[a].shares
      <4>1. IsDust(estimated, a) /\ a \in Owner
        BY <3>1
      <4>2. estimated.estimates[a] = IF a \in gone THEN NoEstimate ELSE b.estimates[a]
        BY <1>2, <4>1 DEF Cleared
      <4>3. a \notin gone
        BY <1>2, <3>3
      <4>4. Of(a, estimated.lots) = Of(a, b.lots) /\ estimated.estimates[a] = b.estimates[a]
        BY <1>7, <4>1, <4>2, <4>3
      <4>5. Shares(estimated.lots, Of(a, b.lots)) = Shares(b.lots, Of(a, b.lots))
        <5>1. \A row \in Of(a, b.lots) : estimated.lots[row] = b.lots[row]
          BY <1>7, <4>4 DEF Of
        <5>2. \A row \in Row : (IF row \in Of(a, b.lots) THEN estimated.lots[row].shares ELSE 0)
                                = (IF row \in Of(a, b.lots) THEN b.lots[row].shares ELSE 0)
          BY <5>1
        <5> QED BY <5>2 DEF Shares
      <4> QED BY <4>1, <4>4, <4>5 DEF IsDust
    <3>4. Clearable(b, dusty, partial)
      BY <2>2, <3>3 DEF Clearable
    <3> QED BY <3>2, <3>4
  <2> QED BY <2>1, <2>2
<1>9. Cleared(b, kept, gone \cup dust)
  BY <1>2, <1>8, ClearTwice
<1>10. \A a \in Owner : Of(a, kept.lots) = IF a \in gone \cup dust THEN {} ELSE Of(a, b.lots)
  BY <1>3, <1>9, ClearedIs
<1>11. IsBook(kept)
  BY <1>3, <1>9, ClearedIs
<1>12. PICK rest : /\ Cleared(kept, last, rest)
                   /\ \A a \in rest : a \notin gone \cup dust => Of(a, b.lots) = {}
  <2>1. CASE DOMAIN kept.lots = {}
    <3>1. Cleared(kept, last, Owner)
      BY <1>5, <2>1, ClearIs
    <3>2. \A a \in Owner : Of(a, kept.lots) = {}
      BY <2>1 DEF Of
    <3> QED BY <1>10, <3>1, <3>2
  <2>2. CASE DOMAIN kept.lots # {}
    <3>1. Cleared(kept, last, {})
      BY <1>5, <1>11, <2>2, ClearNone
    <3> QED BY <3>1
  <2> QED BY <2>1, <2>2
<1>13. PICK all : all = (gone \cup dust) \cup rest
  OBVIOUS
<1>14. Cleared(b, last, all)
  BY <1>9, <1>12, <1>13, ClearTwice
<1>15. Cleared(b, Book', all)
  BY <1>6, <1>14 DEF Cleared, Book
<1>16. Clearable(b, all, partial)
  BY <1>2, <1>8, <1>12, <1>13 DEF Clearable
<1>17. EmptiedAreGone(b, all, account, sold)
  BY <1>2, <1>13 DEF EmptiedAreGone
<1> QED BY <1>2, <1>15, <1>16, <1>17

-----------------------------------------------------------------------------
(* The lots and the estimates beside them agree.                           *)

Ordered(queue) == \A first, row \in DOMAIN queue :
  first < row /\ queue[first].account = queue[row].account => queue[row].shares = queue[row].bought

Fits(b, gone, ofCongress) == \A a \in Owner \ gone :
  /\ b.estimates[a] # NoEstimate \/ a \in b.ineligible => Of(a, b.lots) # {}
  /\ ofCongress /\ a \notin b.ineligible => Shares(b.lots, Of(a, b.lots)) <= b.estimates[a].shares

Unjudged(b) == b.ineligible = {} /\ \A a \in Owner : b.estimates[a] = NoEstimate

IsSound(b, gone, ofCongress) ==
  /\ IsBook(b) /\ Ordered(b.lots) /\ Fits(b, gone, ofCongress)
  /\ ~ofCongress => Unjudged(b)

(* Lots that are the same have the same shares.                            *)
LEMMA SharesSame ==
  ASSUME NEW queue, NEW other, NEW set, \A row \in set : queue[row] = other[row]
  PROVE  Shares(queue, set) = Shares(other, set)
<1>1. \A row \in Row : (IF row \in set THEN queue[row].shares ELSE 0) = (IF row \in set THEN other[row].shares ELSE 0)
  OBVIOUS
<1> QED BY <1>1 DEF Shares

LEMMA ClearedIsSound ==
  ASSUME PositionsAssumption, NEW b, NEW c, NEW gone, NEW ofCongress,
         Cleared(b, c, gone), IsSound(b, gone, ofCongress)
  PROVE  IsSound(c, {}, ofCongress)
<1>1. IsBook(b) /\ gone \subseteq Owner
  BY DEF IsSound, Cleared
<1>2. /\ IsBook(c) /\ \A a \in Owner : Of(a, c.lots) = IF a \in gone THEN {} ELSE Of(a, b.lots)
      /\ DOMAIN c.lots \subseteq DOMAIN b.lots /\ \A row \in DOMAIN c.lots : c.lots[row] = b.lots[row]
  BY <1>1, ClearedIs
<1>3. c.ineligible = b.ineligible \ gone /\ \A a \in Owner : c.estimates[a] = IF a \in gone THEN NoEstimate ELSE b.estimates[a]
  BY DEF Cleared
<1>4. Ordered(c.lots)
  BY <1>2 DEF IsSound, Ordered
<1>5. Fits(c, {}, ofCongress)
  <2> SUFFICES ASSUME NEW a \in Owner
               PROVE  /\ c.estimates[a] # NoEstimate \/ a \in c.ineligible => Of(a, c.lots) # {}
                      /\ ofCongress /\ a \notin c.ineligible => Shares(c.lots, Of(a, c.lots)) <= c.estimates[a].shares
    BY DEF Fits
  <2>1. CASE a \in gone
    <3>1. c.estimates[a] = NoEstimate /\ a \notin c.ineligible /\ Of(a, c.lots) = {}
      BY <1>2, <1>3, <2>1
    <3>2. Shares(c.lots, {}) = 0
      BY <1>2, SharesAre DEF IsBook
    <3> QED BY <3>1, <3>2 DEF NoEstimate
  <2>2. CASE a \notin gone
    <3>1. /\ c.estimates[a] = b.estimates[a] /\ Of(a, c.lots) = Of(a, b.lots)
          /\ a \in c.ineligible <=> a \in b.ineligible
      BY <1>2, <1>3, <2>2
    <3>2. Shares(c.lots, Of(a, c.lots)) = Shares(b.lots, Of(a, b.lots))
      <4>1. \A row \in Of(a, c.lots) : c.lots[row] = b.lots[row]
        BY <1>2 DEF Of
      <4> QED BY <3>1, <4>1, SharesSame
    <3>3. /\ b.estimates[a] # NoEstimate \/ a \in b.ineligible => Of(a, b.lots) # {}
          /\ ofCongress /\ a \notin b.ineligible => Shares(b.lots, Of(a, b.lots)) <= b.estimates[a].shares
      BY <2>2 DEF IsSound, Fits
    <3> QED BY <3>1, <3>2, <3>3
  <2> QED BY <2>1, <2>2
<1>6. ~ofCongress => Unjudged(c)
  BY <1>3 DEF IsSound, Unjudged
<1> QED BY <1>2, <1>4, <1>5, <1>6 DEF IsSound

LEMMA SoldIsSound ==
  ASSUME PositionsAssumption, BookTypes, IsSound(Book, {}, congress), NEW account \in Owner, NEW sold \in Nat, NEW b,
         NEW gone \in SUBSET Owner, IsSold(b, account, sold), EmptiedAreGone(b, gone, account, sold)
  PROVE  IsSound(b, gone, congress)
<1>1. /\ IsLots(lots) /\ Book.lots = lots /\ Book.estimates = estimates /\ Book.ineligible = ineligible
  BY BookIs
<1>2. IsBook(b) /\ b.lots = Left(account, sold)
  BY DEF IsSold
<1>3. /\ \A row \in DOMAIN b.lots : /\ row \in DOMAIN lots /\ Relief(account, sold)[row] < lots[row].shares
                                    /\ b.lots[row].shares = lots[row].shares - Relief(account, sold)[row]
                                    /\ b.lots[row].account = lots[row].account
                                    /\ b.lots[row].bought = lots[row].bought
  <2>1. Reduced(b.lots, Relief(account, sold))
    BY <1>1, <1>2, LeftIs
  <2> QED BY <2>1 DEF Reduced
<1>4. Ordered(b.lots)
  <2> SUFFICES ASSUME NEW first \in DOMAIN b.lots, NEW row \in DOMAIN b.lots, first < row,
                      b.lots[first].account = b.lots[row].account
               PROVE  b.lots[row].shares = b.lots[row].bought
    BY DEF Ordered
  <2>1. lots[row].shares = lots[row].bought /\ lots[row].shares \in Nat
    <3>1. Ordered(lots)
      BY <1>1 DEF IsSound
    <3>2. lots[row] \in Lot
      BY <1>1, <1>3 DEF IsLots
    <3> QED BY <1>3, <3>1, <3>2 DEF Ordered, Lot
  <2>2. Relief(account, sold)[row] = 0
    <3>1. CASE Matches(account, lots[row])
      <4>1. row \in Matching(account) /\ first \in Matching(account)
        BY <1>3, <3>1 DEF Matching, Matches
      <4> QED BY <1>1, <1>3, <4>1, EarlierFirst
    <3>2. CASE ~Matches(account, lots[row])
      BY <1>1, <1>3, <3>2, TakenIs
    <3> QED BY <3>1, <3>2
  <2> QED BY <1>3, <2>1, <2>2
<1>5. Fits(b, gone, congress)
  <2> SUFFICES ASSUME NEW a \in Owner \ gone
               PROVE  /\ b.estimates[a] # NoEstimate \/ a \in b.ineligible => Of(a, b.lots) # {}
                      /\ congress /\ a \notin b.ineligible => Shares(b.lots, Of(a, b.lots)) <= b.estimates[a].shares
    BY DEF Fits
  <2>1. /\ b.estimates[a].shares = estimates[a].shares
        /\ b.estimates[a] # NoEstimate => estimates[a] # NoEstimate
        /\ a \in ineligible => a \in b.ineligible
        /\ a \in b.ineligible => a \in ineligible \/ (congress /\ Relieved(Relief(account, sold), a) > 0)
    BY DEF IsSold
  <2>2. /\ estimates[a] # NoEstimate \/ a \in ineligible => Of(a, lots) # {}
        /\ congress /\ a \notin ineligible => Shares(lots, Of(a, lots)) <= estimates[a].shares
    BY <1>1 DEF IsSound, Fits
  <2>3. ~congress => b.estimates[a] = NoEstimate /\ a \notin b.ineligible
    <3>1. ~congress => ineligible = {} /\ estimates[a] = NoEstimate
      BY <1>1 DEF IsSound, Unjudged
    <3> QED BY <2>1, <3>1
  <2>4. congress /\ Relieved(Relief(account, sold), a) > 0 => Of(a, b.lots) # {}
    BY DEF EmptiedAreGone
  <2>5. PICK out \in Nat, now \in Nat :
          /\ out = Relieved(Relief(account, sold), a) /\ now = Shares(b.lots, Of(a, b.lots))
          /\ Shares(lots, Of(a, lots)) = now + out
          /\ out = 0 => Of(a, b.lots) = Of(a, lots)
    BY <1>1, <1>2, OfLeft
  <2>6. b.estimates[a] # NoEstimate \/ a \in b.ineligible => Of(a, b.lots) # {}
    BY <2>1, <2>2, <2>3, <2>4, <2>5
  <2>7. estimates[a].shares \in Nat
    BY BookIs DEF Estimate
  <2> QED BY <2>1, <2>2, <2>5, <2>6, <2>7
<1>6. ~congress => Unjudged(b)
  <2>1. ~congress => ineligible = {} /\ \A a \in Owner : estimates[a] = NoEstimate
    BY <1>1 DEF IsSound, Unjudged
  <2>2. ~congress => \A a \in Owner : b.estimates[a] = estimates[a] /\ (a \in b.ineligible => a \in ineligible)
    BY DEF IsSold
  <2>3. b.ineligible \subseteq Owner
    BY <1>2 DEF IsBook
  <2> QED BY <2>1, <2>2, <2>3 DEF Unjudged
<1> QED BY <1>2, <1>4, <1>5, <1>6 DEF IsSound

LEMMA BoughtIsSound ==
  ASSUME PositionsAssumption, BookTypes, IsSound(Book, {}, congress), trades \in Nat, DOMAIN lots \subseteq 1 .. trades,
         NEW account \in Owner, NEW shares \in Size, NEW price \in Price, NEW band \in BOOLEAN,
         Buy(account, shares, price, band)
  PROVE  IsSound(Book', {}, congress)
<1>1. /\ IsLots(lots) /\ estimates \in [Owner -> Estimate] /\ ineligible \subseteq Owner
      /\ Book.lots = lots /\ Book.estimates = estimates /\ Book.ineligible = ineligible
  BY BookIs
<1>2. PICK at : at = today /\ at \in Row /\ at \in Nat /\ at \notin DOMAIN lots /\ \A row \in DOMAIN lots : row < at
  <2>1. trades < MaxTrades /\ today = trades + 1 /\ MaxTrades \in Nat
    BY RowsAre DEF Buy, Process, today
  <2>2. today \in Row /\ today \in Nat /\ today \notin DOMAIN lots /\ \A row \in DOMAIN lots : row < today
    BY <2>1, RowsAre
  <2> QED BY <2>2
<1>3. PICK lot : lot = [shares |-> shares, price |-> price, account |-> account, bought |-> shares]
  OBVIOUS
<1>4. shares \in Nat \ {0} /\ price \in Nat /\ lot \in Lot /\ lot.shares = shares /\ lot.bought = shares /\ lot.account = account
  BY <1>3 DEF PositionsAssumption, Lot
<1>5. PICK queue : queue = [row \in DOMAIN lots \cup {at} |-> IF row = at THEN lot ELSE lots[row]]
  OBVIOUS
<1>6. PICK judged : judged = IF congress /\ band
        THEN [estimates EXCEPT ![account] = [value |-> estimates[account].value + shares * price,
                                             sold |-> estimates[account].sold, shares |-> estimates[account].shares + shares]]
        ELSE estimates
  OBVIOUS
<1>7. PICK c : c = Book'
  OBVIOUS
<1>8. c.lots = queue /\ c.estimates = judged
      /\ c.ineligible = IF congress /\ ~band THEN ineligible \cup {account} ELSE ineligible
  BY <1>2, <1>3, <1>5, <1>6, <1>7 DEF Buy, PutBook, Book
<1>9. /\ DOMAIN queue = DOMAIN lots \cup {at} /\ queue[at] = lot /\ \A row \in DOMAIN lots : queue[row] = lots[row]
  BY <1>2, <1>5
<1>10. IsLots(queue)
  <2>1. queue = [row \in DOMAIN queue |-> queue[row]]
    BY <1>5
  <2> QED BY <1>1, <1>2, <1>4, <1>9, <2>1 DEF IsLots
<1>11. \A a \in Owner : Of(a, queue) = IF a = account THEN Of(a, lots) \cup {at} ELSE Of(a, lots)
  BY <1>4, <1>9 DEF Of
<1>12. estimates[account] \in Estimate
  BY <1>1
<1>13. PICK value \in Nat, gone \in Nat, held \in Nat :
         value = estimates[account].value /\ gone = estimates[account].sold /\ held = estimates[account].shares
  BY <1>12 DEF Estimate
<1>14. PICK after : after = [value |-> value + shares * price, sold |-> gone, shares |-> held + shares]
  OBVIOUS
<1>15. after \in Estimate /\ after.shares = held + shares
  <2>1. shares * price \in Nat
    BY <1>4
  <2>2. value + shares * price \in Nat
    BY <2>1
  <2>3. held + shares \in Nat
    BY <1>4
  <2> QED BY <1>14, <2>2, <2>3 DEF Estimate
<1>16. \A a \in Owner : judged[a] = IF congress /\ band /\ a = account THEN after ELSE estimates[a]
  BY <1>1, <1>6, <1>13, <1>14
<1>17. judged \in [Owner -> Estimate]
  <2>1. judged = [a \in Owner |-> judged[a]]
    BY <1>1, <1>6
  <2> QED BY <1>1, <1>15, <1>16, <2>1
<1>18. IsBook(c)
  BY <1>1, <1>8, <1>10, <1>17 DEF IsBook
<1>19. Ordered(queue)
  <2> SUFFICES ASSUME NEW first \in DOMAIN queue, NEW row \in DOMAIN queue, first < row,
                      queue[first].account = queue[row].account
               PROVE  queue[row].shares = queue[row].bought
    BY DEF Ordered
  <2>1. CASE row = at
    BY <1>4, <1>9, <2>1
  <2>2. CASE row # at
    <3>1. row \in DOMAIN lots /\ row < at
      BY <1>2, <1>9, <2>2
    <3>2. row \in Nat /\ (first = at => at < row)
      <4>1. row \in Row
        BY <1>1, <3>1 DEF IsLots
      <4> QED BY <4>1, RowsAre
    <3>3. first # at
      BY <1>2, <3>1, <3>2
    <3>4. first \in DOMAIN lots /\ lots[first].account = lots[row].account
      BY <1>9, <3>1, <3>3
    <3>5. lots[row].shares = lots[row].bought
      BY <1>1, <3>1, <3>4 DEF IsSound, Ordered
    <3> QED BY <1>9, <3>1, <3>5
  <2> QED BY <2>1, <2>2
<1>20. Fits(c, {}, congress)
  <2> SUFFICES ASSUME NEW a \in Owner
               PROVE  /\ c.estimates[a] # NoEstimate \/ a \in c.ineligible => Of(a, c.lots) # {}
                      /\ congress /\ a \notin c.ineligible => Shares(c.lots, Of(a, c.lots)) <= c.estimates[a].shares
    BY DEF Fits
  <2>1. /\ estimates[a] # NoEstimate \/ a \in ineligible => Of(a, lots) # {}
        /\ congress /\ a \notin ineligible => Shares(lots, Of(a, lots)) <= estimates[a].shares
    BY <1>1 DEF IsSound, Fits
  <2>2. /\ Of(a, lots) \in SUBSET DOMAIN lots /\ Of(a, queue) \in SUBSET DOMAIN queue
        /\ \A row \in Of(a, lots) : queue[row] = lots[row]
    BY <1>9 DEF Of
  <2>3. CASE a = account
    <3>1. Of(a, queue) = Of(a, lots) \cup {at}
      BY <1>11, <2>3
    <3>2. ASSUME congress, a \notin c.ineligible PROVE Shares(queue, Of(a, queue)) <= judged[a].shares
      <4>1. band /\ a \notin ineligible
        BY <1>8, <2>3, <3>2
      <4>2. judged[a].shares = held + shares
        BY <1>15, <1>16, <2>3, <3>2, <4>1
      <4>3. PICK g : g = One(at, shares) /\ g \in Terms /\ Sum(g) = shares
        BY <1>2, <1>4, SumOfOne
      <4>4. ASSUME NEW row \in Row
            PROVE  SharesIn(queue, Of(a, queue))[row] = SharesIn(lots, Of(a, lots))[row] + g[row]
        <5>1. SharesIn(queue, Of(a, queue))[row] = IF row \in Of(a, queue) THEN queue[row].shares ELSE 0
          BY DEF SharesIn
        <5>2. SharesIn(lots, Of(a, lots))[row] = IF row \in Of(a, lots) THEN lots[row].shares ELSE 0
          BY DEF SharesIn
        <5>3. g[row] = IF row = at THEN shares ELSE 0
          BY <4>3 DEF One
        <5>4. row \in Of(a, lots) => queue[row] = lots[row] /\ lots[row].shares \in Nat
          BY <1>1, <2>2 DEF IsLots, Lot
        <5>5. at \notin Of(a, lots)
          BY <1>2, <2>2
        <5>6. CASE row = at
          <6>1. SharesIn(queue, Of(a, queue))[row] = shares
            BY <1>4, <1>9, <3>1, <5>1, <5>6
          <6>2. SharesIn(lots, Of(a, lots))[row] = 0
            BY <5>2, <5>5, <5>6
          <6> QED BY <1>4, <5>3, <5>6, <6>1, <6>2
        <5>7. CASE row # at
          <6>1. SharesIn(queue, Of(a, queue))[row] = SharesIn(lots, Of(a, lots))[row]
            BY <3>1, <5>1, <5>2, <5>4, <5>7
          <6>2. SharesIn(lots, Of(a, lots))[row] \in Nat
            BY <5>2, <5>4
          <6>3. g[row] = 0
            BY <5>3, <5>7
          <6> QED BY <6>1, <6>2, <6>3
        <5> QED BY <5>6, <5>7
      <4>5. Shares(queue, Of(a, queue)) = Shares(lots, Of(a, lots)) + shares
        BY <1>1, <1>10, <2>2, <4>3, <4>4, SharesSplit
      <4>6. PICK s \in Nat : s = Shares(lots, Of(a, lots))
        BY <1>1, <2>2, SharesAre
      <4>7. s <= held
        BY <1>13, <2>1, <2>3, <3>2, <4>1, <4>6
      <4>8. s + shares <= held + shares
        BY <1>4, <4>7
      <4> QED BY <4>2, <4>5, <4>6, <4>8
    <3> QED BY <1>8, <3>1, <3>2
  <2>4. CASE a # account
    <3>1. Of(a, queue) = Of(a, lots) /\ judged[a] = estimates[a] /\ (a \in c.ineligible <=> a \in ineligible)
      BY <1>8, <1>11, <1>16, <2>4
    <3>2. Shares(queue, Of(a, queue)) = Shares(lots, Of(a, lots))
      BY <2>2, <3>1, SharesSame
    <3> QED BY <1>8, <2>1, <3>1, <3>2
  <2> QED BY <2>3, <2>4
<1>21. ~congress => Unjudged(c)
  <2>1. ~congress => ineligible = {} /\ \A a \in Owner : estimates[a] = NoEstimate
    BY <1>1 DEF IsSound, Unjudged
  <2> QED BY <1>8, <1>16, <2>1 DEF Unjudged
<1>22. IsSound(c, {}, congress)
  BY <1>8, <1>18, <1>19, <1>20, <1>21 DEF IsSound
<1> QED BY <1>7, <1>22

-----------------------------------------------------------------------------
(* The invariant.                                                          *)

PositionInv ==
  /\ congress \in BOOLEAN /\ IsSound(Book, {}, congress)
  /\ trades \in 0 .. MaxTrades /\ DOMAIN lots \subseteq 1 .. trades
  /\ buyDays \subseteq 1 .. trades /\ closedOn \in 0 .. trades
  /\ \A row \in DOMAIN lots : closedOn < row

LEMMA SoundStart == PositionsAssumption /\ PositionsInit => PositionInv
<1> SUFFICES ASSUME PositionsAssumption, PositionsInit PROVE PositionInv
  OBVIOUS
<1>1. DOMAIN lots = {} /\ lots = [row \in DOMAIN lots |-> lots[row]] /\ IsLots(lots)
  BY DEF PositionsInit, IsLots
<1>2. Book.lots = lots /\ Book.estimates = estimates /\ Book.ineligible = {}
  BY DEF PositionsInit, Book
<1>3. NoEstimate \in Estimate /\ NoEstimate.shares = 0
  BY DEF NoEstimate, Estimate
<1>4. \A a \in Owner : estimates[a] = NoEstimate
  BY DEF PositionsInit
<1>5. IsBook(Book)
  BY <1>1, <1>2, <1>3 DEF IsBook, PositionsInit
<1>6. Ordered(lots)
  BY <1>1 DEF Ordered
<1>7. Fits(Book, {}, congress)
  <2>1. \A a \in Owner : Of(a, lots) = {}
    BY <1>1 DEF Of
  <2>2. Shares(lots, {}) = 0
    BY <1>1, SharesAre
  <2> QED BY <1>2, <1>3, <1>4, <2>1, <2>2 DEF Fits
<1>8. Unjudged(Book)
  BY <1>2, <1>4 DEF Unjudged
<1>9. IsSound(Book, {}, congress)
  BY <1>2, <1>5, <1>6, <1>7, <1>8 DEF IsSound
<1> QED BY <1>1, <1>9, RowsAre DEF PositionInv, PositionsInit

LEMMA SoundStep ==
  ASSUME PositionsAssumption, PositionInv, [PositionsNext]_positionVars
  PROVE  PositionInv'
<1>1. BookTypes /\ IsSound(Book, {}, congress) /\ congress \in BOOLEAN /\ IsBook(Book)
  BY DEF PositionInv, BookTypes, IsSound
<1>2. /\ IsLots(lots) /\ Book.lots = lots
  BY <1>1, BookIs
<1>3. MaxTrades \in Nat
  BY RowsAre
<1>4. CASE UNCHANGED positionVars
  <2>1. Book' = Book
    BY <1>4 DEF positionVars, Book
  <2> QED BY <1>4, <2>1 DEF PositionInv, positionVars
<1>5. ASSUME NEW account \in Owner, FullSale(account) PROVE PositionInv'
  <2>1. PICK gone \in SUBSET Owner : gone = IF account = NoAccount THEN Owner ELSE {account}
    OBVIOUS
  <2>2. PICK b, c : b = Book /\ c = Book'
    OBVIOUS
  <2>3. Cleared(b, c, gone)
    <3>1. PICK d : d = _clear_account(b, gone)
      OBVIOUS
    <3>2. c.lots = d.lots /\ c.estimates = d.estimates /\ c.ineligible = d.ineligible
      BY <1>5, <2>1, <2>2, <3>1 DEF FullSale, PutBook, Book
    <3>3. Cleared(b, d, gone)
      BY <3>1, ClearIs
    <3> QED BY <3>2, <3>3 DEF Cleared
  <2>4. IsSound(b, gone, congress)
    BY <1>1, <2>2 DEF IsSound, Fits
  <2>5. IsSound(c, {}, congress)
    BY <2>3, <2>4, ClearedIsSound
  <2>6. DOMAIN c.lots \subseteq DOMAIN b.lots
    BY <1>1, <2>2, <2>3, ClearedIs
  <2>7. DOMAIN lots' \subseteq DOMAIN lots
    BY <2>2, <2>6 DEF Book
  <2>8. /\ trades' = trades + 1 /\ trades < MaxTrades /\ congress' = congress /\ buyDays' = buyDays
        /\ closedOn' = closedOn \/ (closedOn' = trades + 1 /\ DOMAIN lots' = {})
    BY <1>5 DEF FullSale, Process, Closing, Held, today
  <2>9. IsSound(Book', {}, congress')
    BY <2>2, <2>5, <2>8
  <2> QED BY <1>3, <2>7, <2>8, <2>9 DEF PositionInv
<1>6. ASSUME NEW account \in Owner, NEW sold \in Size, NEW price \in Price, NEW band \in BOOLEAN, NEW partial \in BOOLEAN,
             Sell(account, sold, price, band, partial)
      PROVE  PositionInv'
  <2>1. sold \in Nat /\ price \in Nat
    BY DEF PositionsAssumption
  <2>2. PICK b, gone :
          /\ IsSold(b, account, sold) /\ Cleared(b, Book', gone) /\ EmptiedAreGone(b, gone, account, sold)
    BY <1>1, <1>6, <2>1, SellIs
  <2>3. PICK c : c = Book'
    OBVIOUS
  <2>4. gone \in SUBSET Owner /\ IsBook(b) /\ b.lots = Left(account, sold)
    BY <2>2 DEF Cleared, IsSold
  <2>5. IsSound(b, gone, congress)
    BY <1>1, <2>1, <2>2, <2>4, SoldIsSound
  <2>6. IsSound(c, {}, congress)
    BY <2>2, <2>3, <2>5, ClearedIsSound
  <2>7. DOMAIN c.lots \subseteq DOMAIN b.lots
    BY <2>2, <2>3, <2>4, ClearedIs
  <2>8. DOMAIN lots' \subseteq DOMAIN lots
    <3>1. Reduced(b.lots, Relief(account, sold))
      BY <1>2, <2>1, <2>4, LeftIs
    <3>2. DOMAIN b.lots \subseteq DOMAIN lots
      BY <3>1 DEF Reduced
    <3> QED BY <2>3, <2>7, <3>2 DEF Book
  <2>9. /\ trades' = trades + 1 /\ trades < MaxTrades /\ congress' = congress /\ buyDays' = buyDays
        /\ closedOn' = closedOn \/ (closedOn' = trades + 1 /\ DOMAIN lots' = {})
    BY <1>6 DEF Sell, Process, Closing, Held, today
  <2>10. IsSound(Book', {}, congress')
    BY <2>3, <2>6, <2>9
  <2> QED BY <1>3, <2>8, <2>9, <2>10 DEF PositionInv
<1>7. ASSUME NEW account \in Owner, NEW shares \in Size, NEW price \in Price, NEW band \in BOOLEAN,
             Buy(account, shares, price, band)
      PROVE  PositionInv'
  <2>1. trades \in Nat /\ DOMAIN lots \subseteq 1 .. trades
    BY DEF PositionInv
  <2>2. IsSound(Book', {}, congress)
    BY <1>1, <1>7, <2>1, BoughtIsSound
  <2>3. /\ trades' = trades + 1 /\ trades < MaxTrades /\ congress' = congress /\ closedOn' = closedOn
        /\ buyDays' = buyDays \cup {trades + 1} /\ DOMAIN lots' = DOMAIN lots \cup {trades + 1}
    BY <1>7 DEF Buy, Process, PutBook, today
  <2>4. IsSound(Book', {}, congress')
    BY <2>2, <2>3
  <2> QED BY <1>3, <2>3, <2>4 DEF PositionInv
<1> QED BY <1>4, <1>5, <1>6, <1>7 DEF PositionsNext

LEMMA InvIsSound == ASSUME PositionsAssumption, PositionInv PROVE PositionsAreSound
<1>1. /\ IsLots(lots) /\ Book.lots = lots /\ Book.estimates = estimates /\ Book.ineligible = ineligible
  <2>1. BookTypes
    BY DEF PositionInv, BookTypes, IsSound
  <2> QED BY <2>1, BookIs
<1>2. OldestFirst
  BY <1>1 DEF PositionInv, IsSound, Ordered, OldestFirst
<1>3. EstimatesFitLots
  BY <1>1 DEF PositionInv, IsSound, Fits, EstimatesFitLots
<1>4. ClosedIsBlocked
  <2>1. /\ DOMAIN lots \subseteq 1 .. trades /\ buyDays \subseteq 1 .. trades /\ trades \in Nat /\ closedOn \in Nat
        /\ \A row \in DOMAIN lots : closedOn < row
    BY RowsAre DEF PositionInv
  <2>2. DOMAIN lots \in SUBSET Nat
    BY <2>1
  <2>3. Held => FirstBuy \in DOMAIN lots /\ \A row \in DOMAIN lots : FirstBuy <= row
    BY <2>2, FirstOf DEF Held, FirstBuy
  <2>4. ASSUME NEW day \in buyDays, day < closedOn, Held PROVE day < FirstBuy
    <3>1. day \in Nat /\ FirstBuy \in Nat /\ closedOn < FirstBuy
      BY <2>1, <2>2, <2>3, <2>4
    <3> QED BY <2>1, <2>4, <3>1
  <2>5. ASSUME NEW row \in DOMAIN lots PROVE Held /\ ~(row < FirstBuy)
    <3>1. Held
      BY <2>5 DEF Held
    <3>2. row \in Nat /\ FirstBuy \in Nat /\ FirstBuy <= row
      BY <2>2, <2>3, <3>1
    <3> QED BY <3>1, <3>2
  <2> QED BY <2>4, <2>5 DEF ClosedIsBlocked, Stale
<1> QED BY <1>2, <1>3, <1>4 DEF PositionsAreSound

LEMMA PositionInvHolds == PositionsSpec => []PositionInv
<1>1. PositionsInit => PositionInv
  BY SoundStart, PositionsAssumption
<1>2. PositionInv /\ [PositionsNext]_positionVars => PositionInv'
  BY SoundStep, PositionsAssumption
<1> QED BY <1>1, <1>2, PTL DEF PositionsSpec

(* The lots, the estimates beside them and what is decided from them       *)
(* (build_positions, gate_closed_events) agree after any sequence of       *)
(* purchases and sales of any accounts, sizes and prices: the oldest lot   *)
(* of an account is sold first, an account without lots keeps no estimate, *)
(* and of a closed position no purchase made before is followed.           *)
THEOREM PositionsHold == PositionsSpec => []PositionsAreSound
<1>1. PositionInv => PositionsAreSound
  BY InvIsSound, PositionsAssumption
<1> QED BY <1>1, PositionInvHolds, PTL

-----------------------------------------------------------------------------
(* What a sale takes.                                                      *)

LEMMA DustAdds ==
  ASSUME NEW left \in Nat, NEW out \in Nat, NEW n \in Nat, NEW part \in Nat, NEW dust \in Nat,
         out <= n, left * part <= dust
  PROVE  (left + out) * part <= n * part + dust
<1>1. PICK more \in Nat : n = out + more
  <2>1. n - out \in Nat /\ n = out + (n - out)
    OBVIOUS
  <2> QED BY <2>1
<1>2. n * part = out * part + more * part
  BY <1>1
<1>3. (left + out) * part = left * part + out * part
  OBVIOUS
<1>4. more * part \in Nat /\ left * part \in Nat /\ out * part \in Nat
  OBVIOUS
<1>5. \A x, y, z \in Nat : x <= dust => x + y <= (y + z) + dust
  OBVIOUS
<1> QED BY <1>2, <1>3, <1>4, <1>5

LEMMA NothingTaken ==
  ASSUME NEW part \in Nat, NEW dust \in Nat, NEW n \in Nat
  PROVE  0 * part <= n * part + dust
<1>1. n * part \in Nat
  OBVIOUS
<1> QED BY <1>1

LEMMA SellTakes ==
  ASSUME PositionsAssumption, BookTypes, NEW account \in Owner, NEW sold \in Nat, NEW price \in Nat,
         NEW band \in BOOLEAN, NEW partial \in BOOLEAN, Sell(account, sold, price, band, partial)
  PROVE  SaleTakesWhatItNames
<1>1. /\ IsLots(lots) /\ estimates \in [Owner -> Estimate] /\ TolerancePart \in Nat
  BY BookIs DEF PositionsAssumption
<1>2. PICK b, gone :
        /\ IsSold(b, account, sold) /\ Cleared(b, Book', gone) /\ Clearable(b, gone, partial)
  BY SellIs
<1>3. PICK c : c = Book'
  OBVIOUS
<1>4. c.lots = lots'
  BY <1>3 DEF Book
<1>5. IsBook(b) /\ b.lots = Left(account, sold) /\ gone \subseteq Owner
  BY <1>2 DEF IsSold, Cleared
<1>6. /\ IsLots(c.lots) /\ \A a \in Owner : Of(a, c.lots) = IF a \in gone THEN {} ELSE Of(a, b.lots)
      /\ \A row \in DOMAIN c.lots : c.lots[row] = b.lots[row]
  <2>1. IsBook(c) /\ \A a \in Owner : Of(a, c.lots) = IF a \in gone THEN {} ELSE Of(a, b.lots)
    BY <1>2, <1>3, <1>5, ClearedIs
  <2>2. \A row \in DOMAIN c.lots : c.lots[row] = b.lots[row]
    BY <1>2, <1>3, <1>5, ClearedIs
  <2> QED BY <2>1, <2>2 DEF IsBook
<1>7. named'.account = account /\ named'.shares = sold /\ named'.partial = partial
  BY DEF Sell
<1>8. ASSUME NEW a \in Owner
      PROVE  Fall(a) * TolerancePart <=
               (IF Matches(named'.account, [account |-> a]) THEN named'.shares ELSE 0) * TolerancePart
               + (IF named'.partial THEN 0 ELSE estimates[a].shares)
  <2>1. PICK n \in Nat : n = IF account \in {NoAccount, a} THEN sold ELSE 0
    OBVIOUS
  <2>2. PICK out \in Nat, left \in Nat :
          /\ out = Relieved(Relief(account, sold), a) /\ left = Shares(b.lots, Of(a, b.lots))
          /\ Shares(lots, Of(a, lots)) = left + out /\ out <= sold
          /\ account \notin {NoAccount, a} => out = 0
    BY <1>1, <1>5, OfLeft
  <2>3. out <= n
    BY <2>1, <2>2
  <2>4. PICK dust \in Nat : dust = IF partial THEN 0 ELSE estimates[a].shares
    <3>1. estimates[a].shares \in Nat
      BY <1>1 DEF Estimate
    <3> QED BY <3>1
  <2>5. estimates[a].shares = b.estimates[a].shares
    BY <1>2 DEF IsSold
  <2>6. Fall(a) * TolerancePart <= n * TolerancePart + dust
    <3>1. CASE a \in gone
      <4>1. Shares(lots', Of(a, lots')) = 0
        <5>1. Shares(c.lots, Of(a, c.lots)) = 0
          <6>1. Of(a, c.lots) = {}
            BY <1>6, <3>1
          <6> QED BY <1>6, <6>1, SharesAre
        <5> QED BY <1>4, <5>1
      <4>2. Fall(a) = left + out
        BY <2>2, <4>1 DEF Fall
      <4>3. left * TolerancePart <= dust
        <5>1. CASE Of(a, b.lots) = {}
          <6>1. left = 0
            BY <1>5, <2>2, <5>1, SharesAre DEF IsBook
          <6>2. 0 * TolerancePart = 0
            BY <1>1
          <6> QED BY <6>1, <6>2
        <5>2. CASE ~partial /\ left * TolerancePart <= b.estimates[a].shares
          BY <2>4, <2>5, <5>2
        <5> QED BY <1>2, <2>2, <3>1, <5>1, <5>2 DEF Clearable
      <4>4. (left + out) * TolerancePart <= n * TolerancePart + dust
        BY <1>1, <2>3, <4>3, DustAdds
      <4> QED BY <4>2, <4>4
    <3>2. CASE a \notin gone
      <4>1. Shares(lots', Of(a, lots')) = left
        <5>1. Of(a, c.lots) = Of(a, b.lots)
          BY <1>6, <3>2
        <5>2. \A row \in Of(a, c.lots) : c.lots[row] = b.lots[row]
          BY <1>6 DEF Of
        <5>3. Shares(c.lots, Of(a, c.lots)) = left
          BY <2>2, <5>1, <5>2, SharesSame
        <5> QED BY <1>4, <5>3
      <4>2. Fall(a) = 0 + out
        BY <2>2, <4>1 DEF Fall
      <4>3. (0 + out) * TolerancePart <= n * TolerancePart + dust
        <5>1. 0 * TolerancePart <= dust
          BY <1>1, <2>4
        <5> QED BY <1>1, <2>3, <5>1, DustAdds
      <4> QED BY <4>2, <4>3
    <3> QED BY <3>1, <3>2
  <2>7. (IF Matches(named'.account, [account |-> a]) THEN named'.shares ELSE 0) = n
    BY <1>7, <2>1 DEF Matches
  <2>8. (IF named'.partial THEN 0 ELSE estimates[a].shares) = dust
    BY <1>7, <2>4
  <2> QED BY <2>6, <2>7, <2>8
<1>9. ASSUME partial PROVE Shares(lots, DOMAIN lots) - Shares(lots', DOMAIN lots') <= sold
  <2>1. b.lots = c.lots
    <3>1. Outside(b.lots, gone) = DOMAIN b.lots
      <4>1. ASSUME NEW row \in DOMAIN b.lots PROVE b.lots[row].account \notin gone
        <5>1. row \in Of(b.lots[row].account, b.lots)
          BY DEF Of
        <5> QED BY <1>2, <1>9, <5>1 DEF Clearable
      <4> QED BY <4>1 DEF Outside
    <3>2. b.lots = Only(b.lots, DOMAIN b.lots)
      BY <1>5 DEF IsBook, IsLots, Only
    <3> QED BY <1>2, <1>3, <3>1, <3>2 DEF Cleared
  <2>2. PICK out \in Nat : out <= sold /\ out = Sum(TakenIn(DOMAIN lots, account, sold))
    BY <1>1, LeftAndTaken
  <2>3. Shares(lots, DOMAIN lots) = Shares(b.lots, DOMAIN lots \intersect DOMAIN b.lots) + out
    BY <1>1, <1>5, <2>2, LeftAndTaken
  <2>4. DOMAIN lots \intersect DOMAIN b.lots = DOMAIN b.lots
    <3>1. Reduced(b.lots, Relief(account, sold))
      BY <1>1, <1>5, LeftIs
    <3> QED BY <3>1 DEF Reduced
  <2>5. PICK left \in Nat : left = Shares(b.lots, DOMAIN b.lots)
    BY <1>5, SharesAre DEF IsBook
  <2>6. Shares(lots', DOMAIN lots') = left
    BY <1>4, <2>1, <2>5
  <2>7. Shares(lots, DOMAIN lots) = left + out
    BY <2>3, <2>4, <2>5
  <2>8. (left + out) - left <= sold
    BY <2>2
  <2> QED BY <2>6, <2>7, <2>8
<1> QED BY <1>7, <1>8, <1>9 DEF SaleTakesWhatItNames

(* What a sale (SELL rows of build_positions, _close_dust) takes of an     *)
(* account beyond the shares it names is at most the tolerated part of     *)
(* what the account had bought, and only when it is filed as a full sale.  *)
THEOREM SalesTakeNoMore == PositionsSpec => SalesTakeWhatTheyName
<1>1. PositionInv /\ [PositionsNext]_positionVars => [SaleTakesWhatItNames]_positionVars
  <2> SUFFICES ASSUME PositionInv, PositionsNext PROVE SaleTakesWhatItNames
    BY DEF SaleTakesWhatItNames
  <2>1. BookTypes
    BY DEF PositionInv, IsSound, BookTypes
  <2>2. ASSUME NEW account \in Owner, FullSale(account) PROVE SaleTakesWhatItNames
    BY <2>2 DEF FullSale, NoSale, SaleTakesWhatItNames
  <2>3. ASSUME NEW account \in Owner, NEW shares \in Size, NEW price \in Price, NEW band \in BOOLEAN,
               Buy(account, shares, price, band)
        PROVE  SaleTakesWhatItNames
    BY <2>3 DEF Buy, NoSale, SaleTakesWhatItNames
  <2>4. ASSUME NEW account \in Owner, NEW sold \in Size, NEW price \in Price, NEW band \in BOOLEAN, NEW partial \in BOOLEAN,
               Sell(account, sold, price, band, partial)
        PROVE  SaleTakesWhatItNames
    <3>1. sold \in Nat /\ price \in Nat
      BY PositionsAssumption DEF PositionsAssumption
    <3> QED BY <2>1, <2>4, <3>1, SellTakes, PositionsAssumption
  <2> QED BY <2>2, <2>3, <2>4 DEF PositionsNext
<1> QED BY <1>1, PositionInvHolds, PTL DEF PositionsSpec, SalesTakeWhatTheyName
=============================================================================
