---------------------------- MODULE HouseArchive ----------------------------
(***************************************************************************)
(* Generations of one year's House archive (download.py, house_refresh.py, *)
(* persistence/database.py, persistence/parse_run_repository.py).          *)
(*                                                                         *)
(* A refresh downloads what the Clerk lists, swaps the directory of PDFs   *)
(* and promotes a new generation; results of parsers then settle its       *)
(* documents, and the generation is completed.  The working database has   *)
(* one owner, so one refresh or one run works on it at a time, but either  *)
(* may be killed between two of its steps.  Generations are numbered in    *)
(* the order of promoted_at.  Every row bears the digest of its document   *)
(* in its generation and passes the screens of the writers, so a set of    *)
(* rows is its size; rows older than generations are left out.             *)
(***************************************************************************)
EXTENDS Naturals, Sequences

CONSTANTS
  Doc, Sha, Meta,       (* filings, contents of a PDF, names and dates     *)
  Absent,
  LocalRecipe,          (* parser versions of the deterministic cascade    *)
  OcrRecipe,            (* parser versions of the paid readers             *)
  ManualReview,         (* the parser version a person signs with          *)
  MaxGenerations,       (* bound on the promotions of an instance          *)
  MaxRows               (* bound on the rows of one document               *)

ASSUME ArchiveAssumption ==
  /\ MaxGenerations \in Nat /\ MaxRows \in Nat
  /\ Absent \notin Sha /\ Absent \notin [sha : Sha, meta : Meta]
  /\ LocalRecipe \intersect OcrRecipe = {}
  /\ ManualReview \notin LocalRecipe \union OcrRecipe

VARIABLES
  generations,  (* house_archive_generations with metadata and artifacts   *)
  rows,         (* transactions: rows per document, source and generation  *)
  runs,         (* pdf_parse_runs, by document, recipe and generation      *)
  files,        (* the year's directory of PDFs                            *)
  fetch,        (* the refresh under way, with its staging directory       *)
  torn          (* history: a refresh was killed after it touched files    *)

vars == <<generations, rows, runs, files, fetch, torn>>
tables == <<generations, rows, runs>>
disk == <<files, fetch, torn>>

Generation == 1 .. MaxGenerations
Source == {"house_pdf", "gemini_ocr"}
Recipe == LocalRecipe \union OcrRecipe \union {ManualReview}
Listing == [Doc -> [sha : Sha, meta : Meta] \union {Absent}]
Archived == [listing : Listing, complete : BOOLEAN, removed : SUBSET Doc]
Pdfs == [Doc -> Sha \union {Absent}]
NoRun == [status |-> "none", count |-> 0]
Run == [status : {"none", "success", "no_txs", "invalid", "failed"}, count : 0 .. MaxRows]
Phase == {"idle", "swapped_out", "swapped_in", "quarantined"}
NoPdfs == [d \in Doc |-> Absent]

TypeOK ==
  /\ generations \in Seq(Archived)
  /\ Len(generations) <= MaxGenerations
  /\ rows \in [Doc -> [Source -> [Generation -> 0 .. MaxRows]]]
  /\ runs \in [Doc -> [Recipe -> [Generation -> Run]]]
  /\ files \in Pdfs
  /\ fetch \in [phase : Phase, listing : Listing, backup : Pdfs, orphans : Pdfs]
  /\ torn \in BOOLEAN

Latest == Len(generations)
ListedIn(listing) == {d \in Doc : listing[d] # Absent}
Artifacts(listing) == [d \in Doc |-> IF listing[d] = Absent THEN Absent ELSE listing[d].sha]
Current == IF Latest = 0 THEN NoPdfs ELSE generations[Latest].listing

-----------------------------------------------------------------------------
(* What a parse run settles.                                               *)

FamilyOf(r) == IF r \in OcrRecipe THEN "gemini_ocr" ELSE "house_pdf"

(* A terminal run speaks for exactly the live rows of its own source.      *)
Settles(d, r, g) ==
  LET run == runs[d][r][g] IN
  /\ run.count = rows[d][FamilyOf(r)][g]
  /\ \/ run.status = "success" /\ run.count > 0
     \/ run.status = "no_txs" /\ run.count = 0
     \/ run.status = "invalid" /\ \A s \in Source : rows[d][s][g] = 0

Accepted(d, g) ==
  /\ g <= Latest /\ d \in ListedIn(generations[g].listing)
  /\ \E r \in Recipe : Settles(d, r, g)

Unresolved(g) == {d \in ListedIn(generations[g].listing) : ~Accepted(d, g)}

(* canonical_transactions: per filing the latest accepted generation, with *)
(* the rows of each source that has an accepted run of its own, and paid   *)
(* readings before deterministic ones.                                     *)
Shown(d) ==
  LET accepted == {g \in 1 .. Latest : Accepted(d, g)}
  IN  IF accepted = {} THEN 0 ELSE CHOOSE g \in accepted : \A h \in accepted : h <= g

Admitted(d, s) ==
  /\ Shown(d) # 0 /\ rows[d][s][Shown(d)] > 0
  /\ \E r \in Recipe : /\ FamilyOf(r) = s
                       /\ runs[d][r][Shown(d)].status = "success"
                       /\ runs[d][r][Shown(d)].count = rows[d][s][Shown(d)]

Canonical(d) ==
  {s \in Source : Admitted(d, s) /\ (s = "house_pdf" => ~Admitted(d, "gemini_ocr"))}

-----------------------------------------------------------------------------
(* The refresh.                                                            *)

Idle == fetch.phase = "idle"
NoFetch == [phase |-> "idle", listing |-> NoPdfs, backup |-> NoPdfs, orphans |-> NoPdfs]

(* _archive_unchanged: the listing is the stored one, no file is left over *)
(* and every file has the recorded digest, in the directory and as staged. *)
Unchanged(listing) == Latest > 0 /\ listing = Current /\ files = Artifacts(listing)

KeepUnchanged(listing) ==
  /\ Idle /\ Unchanged(listing)
  /\ torn' = FALSE
  /\ UNCHANGED <<generations, rows, runs, files, fetch>>

(* Everything is staged; the old directory becomes the backup.             *)
SwapOut(listing) ==
  /\ Idle /\ ~Unchanged(listing)
  /\ Latest < MaxGenerations
  /\ fetch' = [NoFetch EXCEPT !.phase = "swapped_out", !.listing = listing, !.backup = files]
  /\ files' = NoPdfs
  /\ UNCHANGED <<generations, rows, runs, torn>>

SwapIn ==
  /\ fetch.phase = "swapped_out"
  /\ fetch' = [fetch EXCEPT !.phase = "swapped_in"]
  /\ files' = Artifacts(fetch.listing)
  /\ UNCHANGED <<generations, rows, runs, torn>>

(* PDFs that are no longer listed leave the backup for the quarantine.     *)
Quarantine ==
  /\ fetch.phase = "swapped_in"
  /\ LET listed == ListedIn(fetch.listing)
     IN  fetch' = [fetch EXCEPT !.phase = "quarantined",
                     !.orphans = [d \in Doc |-> IF d \in listed THEN Absent ELSE fetch.backup[d]],
                     !.backup = [d \in Doc |-> IF d \in listed THEN fetch.backup[d] ELSE Absent]]
  /\ UNCHANGED <<generations, rows, runs, files, torn>>

Completed == {g \in 1 .. Latest : generations[g].complete}
LastCompleted == CHOOSE g \in Completed : \A h \in Completed : h <= g

(* Documents whose content and metadata are those of the last generation   *)
(* that was completed.                                                     *)
CarriedFrom(g, listing) == {d \in ListedIn(listing) : generations[g].listing[d] = listing[d]}
Carried(listing) == IF Completed = {} THEN {} ELSE CarriedFrom(LastCompleted, listing)

(* A copy of a document's entries for one generation, in another.          *)
Copied(table, carried, from, to) ==
  [d \in Doc |->
    IF d \in carried
    THEN [x \in DOMAIN table[d] |-> [table[d][x] EXCEPT ![to] = table[d][x][from]]]
    ELSE table[d]]

Successor ==
  [listing |-> fetch.listing, complete |-> FALSE,
   removed |-> ListedIn(Current) \ ListedIn(fetch.listing)]

(* Mutant: runs are carried without the rows they speak for.               *)
PromoteWithoutRows ==
  /\ fetch.phase = "quarantined"
  /\ generations' = Append(generations, Successor)
  /\ runs' = Copied(runs, Carried(fetch.listing), LastCompleted, Latest + 1)
  /\ fetch' = NoFetch /\ torn' = FALSE
  /\ UNCHANGED <<rows, files>>

(* promote_house_archive: one transaction.                                 *)
Promote ==
  /\ fetch.phase = "quarantined"
  /\ generations' = Append(generations, Successor)
  /\ rows' = Copied(rows, Carried(fetch.listing), LastCompleted, Latest + 1)
  /\ runs' = Copied(runs, Carried(fetch.listing), LastCompleted, Latest + 1)
  /\ fetch' = NoFetch /\ torn' = FALSE
  /\ UNCHANGED files

(* Mutant: the backup is put back without what went to the quarantine.     *)
UndoKeepsQuarantine ==
  /\ ~Idle
  /\ files' = fetch.backup
  /\ fetch' = NoFetch
  /\ UNCHANGED <<generations, rows, runs, torn>>

(* An exception before or in the transaction moves everything back.        *)
Undo ==
  /\ ~Idle
  /\ files' = [d \in Doc |-> IF fetch.orphans[d] # Absent THEN fetch.orphans[d]
                             ELSE fetch.backup[d]]
  /\ fetch' = NoFetch
  /\ UNCHANGED <<generations, rows, runs, torn>>

(* The process dies; nothing moves back, and no later refresh looks into   *)
(* the staging directory.                                                  *)
Kill ==
  /\ ~Idle
  /\ fetch' = NoFetch /\ torn' = TRUE
  /\ UNCHANGED <<generations, rows, runs, files>>

-----------------------------------------------------------------------------
(* Results of parsers, on the latest generation only: a result of another  *)
(* is blocked before it reaches these tables (_current_binding).           *)

Bound(d, g) == g = Latest /\ g > 0 /\ d \in ListedIn(Current)

RecordRun(d, r, g, status, count) ==
  runs' = [runs EXCEPT ![d][r][g] = [status |-> status, count |-> count]]

(* A parse replaces the rows of its source and generation, no other's.     *)
SaveRows(d, g, r, n) ==
  /\ Idle /\ Bound(d, g)
  /\ rows' = [rows EXCEPT ![d]["house_pdf"][g] = n]
  /\ RecordRun(d, r, g, "success", n)
  /\ UNCHANGED <<generations, files, fetch, torn>>

(* Mutant: a failed reparse replaces what the recipe had settled.          *)
SaveFailureOver(d, g, r) ==
  /\ Idle /\ Bound(d, g)
  /\ RecordRun(d, r, g, "failed", 0)
  /\ UNCHANGED <<generations, rows, files, fetch, torn>>

(* No rows, or rows lost in consolidation: a terminal run is kept.         *)
SaveFailure(d, g, r) ==
  /\ Idle /\ Bound(d, g)
  /\ runs[d][r][g].status \notin {"success", "no_txs"}
  /\ RecordRun(d, r, g, "failed", 0)
  /\ UNCHANGED <<generations, rows, files, fetch, torn>>

(* Mutant: earlier readings stay, so that two versions count.              *)
AdmitBeside(d, g, r, n) ==
  /\ Idle /\ Bound(d, g)
  /\ rows' = [rows EXCEPT ![d]["gemini_ocr"][g] = n]
  /\ RecordRun(d, r, g, IF n = 0 THEN "no_txs" ELSE "success", n)
  /\ UNCHANGED <<generations, files, fetch, torn>>

(* A reviewed reading replaces the paid rows of every generation; an empty *)
(* one deletes them.                                                       *)
Admit(d, g, r, n) ==
  /\ Idle /\ Bound(d, g)
  /\ rows' = [rows EXCEPT ![d]["gemini_ocr"] = [h \in Generation |-> IF h = g THEN n ELSE 0]]
  /\ RecordRun(d, r, g, IF n = 0 THEN "no_txs" ELSE "success", n)
  /\ UNCHANGED <<generations, files, fetch, torn>>

(* mark_house_doc_invalid inserts a run whatever else is recorded.         *)
MarkInvalid(d, g) ==
  /\ Idle
  /\ g <= Latest /\ d \in ListedIn(generations[g].listing)
  /\ RecordRun(d, ManualReview, g, "invalid", 0)
  /\ UNCHANGED <<generations, rows, files, fetch, torn>>

(* mark_house_generation_parse_complete: every listed document is settled; *)
(* rows of the documents this generation removed are deleted.              *)
Complete ==
  /\ Idle /\ Latest > 0 /\ Unresolved(Latest) = {}
  /\ generations' = [generations EXCEPT ![Latest].complete = TRUE]
  /\ rows' = [d \in Doc |->
               IF d \in generations[Latest].removed
               THEN [s \in Source |->
                      [g \in Generation |-> IF g = Latest THEN rows[d][s][g] ELSE 0]]
               ELSE rows[d]]
  /\ UNCHANGED <<runs, files, fetch, torn>>

Init ==
  /\ generations = <<>>
  /\ rows = [d \in Doc |-> [s \in Source |-> [g \in Generation |-> 0]]]
  /\ runs = [d \in Doc |-> [r \in Recipe |-> [g \in Generation |-> NoRun]]]
  /\ files = NoPdfs
  /\ fetch = NoFetch
  /\ torn = FALSE

Refresh ==
  \/ \E listing \in Listing : KeepUnchanged(listing) \/ SwapOut(listing)
  \/ SwapIn \/ Quarantine \/ Promote \/ Undo \/ Kill

Settle ==
  \/ \E d \in Doc, g \in Generation :
       \/ \E r \in LocalRecipe : SaveFailure(d, g, r) \/ \E n \in 1 .. MaxRows : SaveRows(d, g, r, n)
       \/ \E r \in OcrRecipe, n \in 0 .. MaxRows : Admit(d, g, r, n)
       \/ MarkInvalid(d, g)
  \/ Complete

Next == Refresh \/ Settle

Spec == Init /\ [][Next]_vars

-----------------------------------------------------------------------------
(* Safety.                                                                 *)

(* After a refresh that ended by itself, whether it promoted, found nothing*)
(* new or failed half way, the directory holds exactly the PDFs recorded   *)
(* for the latest generation; after a kill the next refresh restores that. *)
InSync == Idle /\ ~torn => files = Artifacts(Current)

(* What the latest generation was completed on stays true: reparses,       *)
(* admissions and reviews of its documents leave every one of them settled.*)
CompletedStaysSettled == Latest \in Completed => Unresolved(Latest) = {}

(* A completed removal is final: no late result and no carried row brings  *)
(* back what the document had in earlier generations.                      *)
RemovalsAreFinal ==
  \A g \in Completed, d \in Doc, s \in Source :
    d \in generations[g].removed => \A h \in 1 .. g : rows[d][s][h] = 0

(* Paid readings of one filing that the database holds at the same time    *)
(* are one reading: generations with paid rows of it agree on its PDF, its *)
(* metadata and its rows.                                                  *)
OnePaidReading ==
  \A d \in Doc, g, h \in 1 .. Latest :
    rows[d]["gemini_ocr"][g] > 0 /\ rows[d]["gemini_ocr"][h] > 0 =>
      /\ rows[d]["gemini_ocr"][g] = rows[d]["gemini_ocr"][h]
      /\ generations[g].listing[d] = generations[h].listing[d]

(* The tables of all generations agree about every filing.                 *)
FilingsAreConsistent ==
  TypeOK /\ CompletedStaysSettled /\ RemovalsAreFinal /\ OnePaidReading

(* The version of a filing that the canonical view shows only moves to     *)
(* later generations: no refresh, failed parse or reading withdraws it     *)
(* before a generation without that filing is complete.                    *)
ShownOnlyAdvances ==
  [][\A d \in Doc : \A g \in 1 .. Latest :
       Accepted(d, g) =>
         \/ \E h \in g .. Latest' : Accepted(d, h)'
         \/ Latest' \in Completed' /\ d \in generations'[Latest'].removed]_tables

(* A refresh asks for nothing twice: what the last completed generation    *)
(* settled and the Clerk did not change is settled in the new one.         *)
SettledIsCarried ==
  [][Latest' > Latest =>
       \A d \in Carried(generations'[Latest'].listing) :
         Accepted(d, LastCompleted) => Accepted(d, Latest)']_vars

-----------------------------------------------------------------------------
(* What a test's name and the documentation say, and this run refutes.     *)

(* The rows of a removed filing remain only until a new generation is      *)
(* complete.                                                               *)
RemovedRowsGo ==
  Latest \in Completed => \A d \in Doc \ ListedIn(Current) : Canonical(d) = {}
=============================================================================
