----------------------------- MODULE LocalSweep -----------------------------
(***************************************************************************)
(* The staging root of local OCR: the local sweep and scan_ocr publish     *)
(* documents into it, the reclassification edits them, and consume         *)
(* (rebuild_staged.py) brings the resolved ones into the staged database.  *)
(* Reading a document takes no lock; everything that touches the root      *)
(* does.  A document is an envelope that names an immutable file of rows.  *)
(***************************************************************************)
EXTENDS Naturals, FiniteSets

CONSTANTS
  Scan,         (* documents                                               *)
  Page,         (* pages of a document                                     *)
  Runner,       (* processes that sweep, scan or reclassify                *)
  Nil,          (* no envelope, no manifest, nobody                        *)
  MaxPdf,       (* bound on the versions of a document's PDF               *)
  MaxPublished  (* bound on the envelopes that are published               *)

ASSUME SweepAssumption ==
  /\ IsFiniteSet(Page) /\ Page # {}
  /\ MaxPdf \in Nat \ {0} /\ MaxPublished \in Nat \ {0}

VARIABLES
  pdf,        (* the PDF of each document in the staged database           *)
  rowsFiles,  (* files under rows/                                         *)
  envelopes,  (* files under docs/                                         *)
  attempts,   (* files under attempts/                                     *)
  listing,    (* the envelopes that manifest.json lists, or Nil            *)
  marker,     (* the producer named in the lock file                       *)
  holder,     (* who holds the lock of the root                            *)
  runner,     (* what each process is doing                                *)
  consumer,   (* the listing that consume has read, or Nil                 *)
  ingested,   (* the envelope each document was ingested from              *)
  published   (* history: every envelope there ever was                    *)

rootVars == <<rowsFiles, envelopes, attempts, listing, marker, published>>
sweepVars == <<pdf, rootVars, holder, runner, consumer, ingested>>

Script == {"local", "scan"}
Status == {"resolved", "unresolved", "no_txs", "no_transactions"}

(* What is staged of a reading: whether it has rows, whether every page    *)
(* reports that there is nothing, whether the pages bear the status out,   *)
(* and whether a reclassification has marked it.                           *)
Envelope == [by : Script, status : Status, rows : BOOLEAN, pdf : 1 .. MaxPdf,
             nothing : BOOLEAN, evident : BOOLEAN, marked : BOOLEAN]

(* What a manifest lists.                                                  *)
Manifest == [by : Script, of : [Scan -> Envelope \union {Nil}]]

(* Whatever stands for nothing is none of these.                           *)
ASSUME NilAssumption == Nil \notin Scan \union Runner \union Script \union Envelope \union Manifest

(* The rows file is named for the document and for what it contains.       *)
RowsFile(d, e) == [doc |-> d, by |-> e.by, pdf |-> e.pdf, rows |-> e.rows]

-----------------------------------------------------------------------------
(* What one reading decides.  Of each page the engines return rows, rows   *)
(* that name no asset, nothing to report, a cover, or nothing readable.    *)

Kind == {"rows", "void", "nothing", "cover", "unread"}

Of(kind, pages) == {p \in Page : pages[p] = kind}

(* The pages that bear a status out.                                       *)
Evident(status, pages, dated) ==
  CASE status = "resolved" -> Of("unread", pages) = {} /\ Of("rows", pages) # {} /\ dated
    [] status = "no_txs" -> \A p \in Page : pages[p] = "nothing"
    [] status = "no_transactions" -> \A p \in Page : pages[p] \in {"nothing", "cover"}
    [] OTHER -> TRUE

(* Rows of the text cascade are staged when no page has any, but they      *)
(* cover no page.  A page of rows without asset is covered, and has none.  *)
LocalStatus(pages, dated, member, cascade) ==
  CASE Of("unread", pages) = {} /\ Of("rows", pages) # {} /\ dated /\ member -> "resolved"
    [] Of("nothing", pages) = Page -> "no_txs"
    [] OTHER -> "unresolved"

LocalRows(pages, cascade) ==
  \/ Of("rows", pages) # {}
  \/ cascade /\ Of("unread", pages) # {} /\ Of("void", pages) = {}

ScanStatus(pages, dated, missed) ==
  CASE missed -> "unresolved"
    [] Of("unread", pages) = {} /\ Of("rows", pages) # {} /\ dated -> "resolved"
    [] Of("unread", pages) = {} /\ Of("rows", pages) = {} /\ Of("nothing", pages) # {} -> "no_transactions"
    [] OTHER -> "unresolved"

Staged(script, status, rows, pages, dated, version) ==
  [by |-> script, status |-> status, rows |-> rows, pdf |-> version,
   nothing |-> script = "local" /\ Of("nothing", pages) = Page, evident |-> Evident(status, pages, dated), marked |-> FALSE]

Read(script, version) ==
  IF script = "local"
  THEN {Staged("local", LocalStatus(pages, dated, member, cascade), LocalRows(pages, cascade), pages, dated, version) :
          pages \in [Page -> Kind], dated \in BOOLEAN, member \in BOOLEAN, cascade \in BOOLEAN}
  ELSE {Staged("scan", ScanStatus(pages, dated, missed), Of("rows", pages) # {}, pages, dated, version) :
          pages \in [Page -> Kind \ {"void"}], dated \in BOOLEAN, missed \in BOOLEAN}

-----------------------------------------------------------------------------
(* The root.                                                               *)

Paired(d, e) == RowsFile(d, e) \in rowsFiles
AllPaired == \A d \in Scan : envelopes[d] # Nil => Paired(d, envelopes[d])

(* A root belongs to the producer that its manifest names, or its          *)
(* documents, or its lock file.                                            *)
Owner ==
  LET named == IF listing # Nil THEN {listing.by} ELSE {envelopes[d].by : d \in {c \in Scan : envelopes[c] # Nil}}
  IN IF named # {} THEN named ELSE {marker} \ {Nil}

Mine(script) ==
  IF Owner = {} THEN rowsFiles = {} /\ attempts = {}
  ELSE Owner = {script} /\ marker \in {Nil, script}

Resting == [at |-> "idle", script |-> Nil, doc |-> Nil, of |-> 0, result |-> Nil]

(* A reading, of the PDF as it is now and without any lock.  What it found *)
(* shows when it is staged.                                                *)
ProcessDocument(r, script, d) ==
  /\ runner[r].at = "idle"
  /\ Cardinality(published) + Cardinality({q \in Runner : runner[q].at \in {"read", "owner", "rows", "archived"}}) < MaxPublished
  /\ runner' = [runner EXCEPT ![r] = [at |-> "read", script |-> script, doc |-> d, of |-> pdf[d], result |-> Nil]]
  /\ UNCHANGED <<pdf, rootVars, holder, consumer, ingested>>

(* Mutant: the lock file is not marked before the first rows are there.    *)
EnterRootUnmarked(r) ==
  /\ runner[r].at = "read" /\ holder = Nil
  /\ IF Mine(runner[r].script)
     THEN /\ holder' = r
          /\ \E e \in Read(runner[r].script, runner[r].of) :
               runner' = [runner EXCEPT ![r].at = "owner", ![r].result = e]
     ELSE holder' = Nil /\ runner' = [runner EXCEPT ![r] = Resting]
  /\ UNCHANGED <<pdf, rowsFiles, envelopes, attempts, listing, marker, published, consumer, ingested>>

(* The lock of the root, the refusal of another producer, and the marker.  *)
EnterRoot(r) ==
  /\ runner[r].at = "read" /\ holder = Nil
  /\ IF Mine(runner[r].script)
     THEN /\ holder' = r /\ marker' = runner[r].script
          /\ \E e \in Read(runner[r].script, runner[r].of) :
               runner' = [runner EXCEPT ![r].at = "owner", ![r].result = e]
     ELSE holder' = Nil /\ marker' = marker /\ runner' = [runner EXCEPT ![r] = Resting]
  /\ UNCHANGED <<pdf, rowsFiles, envelopes, attempts, listing, published, consumer, ingested>>

(* The rows file is there before anything names it.                        *)
PublishRows(r) ==
  /\ runner[r].at = "owner"
  /\ envelopes[runner[r].doc] # Nil => Paired(runner[r].doc, envelopes[runner[r].doc])
  /\ rowsFiles' = rowsFiles \union {RowsFile(runner[r].doc, runner[r].result)}
  /\ runner' = [runner EXCEPT ![r].at = "rows"]
  /\ UNCHANGED <<pdf, envelopes, attempts, listing, marker, published, holder, consumer, ingested>>

ArchiveEnvelope(r) ==
  /\ runner[r].at = "rows"
  /\ attempts' = attempts \union ({[doc |-> runner[r].doc, was |-> envelopes[runner[r].doc]]} \ {[doc |-> runner[r].doc, was |-> Nil]})
  /\ runner' = [runner EXCEPT ![r].at = "archived"]
  /\ UNCHANGED <<pdf, rowsFiles, envelopes, listing, marker, published, holder, consumer, ingested>>

(* scan_ocr keeps the lock until its manifest is written; the local sweep  *)
(* lets others in before.                                                  *)
ReplaceEnvelope(r) ==
  /\ runner[r].at = "archived"
  /\ envelopes' = [envelopes EXCEPT ![runner[r].doc] = runner[r].result]
  /\ published' = published \union {[doc |-> runner[r].doc, was |-> runner[r].result]}
  /\ runner' = [runner EXCEPT ![r].at = "staged", ![r].result = Nil, ![r].of = 0]
  /\ holder' = IF runner[r].script = "scan" THEN r ELSE Nil
  /\ UNCHANGED <<pdf, rowsFiles, attempts, listing, marker, consumer, ingested>>

WriteListing(script) ==
  AllPaired /\ listing' = [by |-> script, of |-> envelopes]

(* A manifest of every envelope; the local sweep writes one for every      *)
(* tenth document only.                                                    *)
WriteManifest(r) ==
  /\ runner[r].at = "staged" /\ holder \in {Nil, r}
  /\ \/ WriteListing(runner[r].script)
     \/ runner[r].script = "local" /\ UNCHANGED listing
  /\ holder' = Nil /\ runner' = [runner EXCEPT ![r] = Resting]
  /\ UNCHANGED <<pdf, rowsFiles, envelopes, attempts, marker, published, consumer, ingested>>

(* The rule for documents without transactions became stricter: documents  *)
(* staged before are demoted, documents demoted wrongly restored.          *)
Reclassified(e) ==
  CASE e.status = "no_txs" /\ ~e.nothing -> [e EXCEPT !.status = "unresolved", !.marked = TRUE, !.evident = TRUE]
    [] e.status = "unresolved" /\ e.marked /\ e.nothing -> [e EXCEPT !.status = "no_txs", !.marked = FALSE]
    [] OTHER -> e

Reclassify(d) ==
  /\ envelopes[d] # Nil /\ Reclassified(envelopes[d]) # envelopes[d]
  /\ attempts' = attempts \union {[doc |-> d, was |-> envelopes[d]]}
  /\ envelopes' = [envelopes EXCEPT ![d] = Reclassified(@)]
  /\ published' = published \union {[doc |-> d, was |-> Reclassified(envelopes[d])]}
  /\ UNCHANGED <<rowsFiles, marker, listing>>

(* The reclassification enters as the local sweep does, edits document by  *)
(* document, and writes the manifest.                                      *)
StartReclassify(r) ==
  /\ runner[r].at = "idle" /\ holder = Nil /\ Mine("local")
  /\ listing # Nil => AllPaired
  /\ holder' = r /\ marker' = "local"
  /\ runner' = [runner EXCEPT ![r] = [Resting EXCEPT !.at = "editing", !.script = "local"]]
  /\ UNCHANGED <<pdf, rowsFiles, envelopes, attempts, listing, published, consumer, ingested>>

EditEnvelope(r, d) ==
  /\ runner[r].at = "editing" /\ Reclassify(d)
  /\ UNCHANGED <<pdf, holder, runner, consumer, ingested>>

EndReclassify(r) ==
  /\ runner[r].at = "editing"
  /\ \A d \in Scan : envelopes[d] # Nil => Reclassified(envelopes[d]) = envelopes[d]
  /\ WriteListing("local")
  /\ holder' = Nil /\ runner' = [runner EXCEPT ![r] = Resting]
  /\ UNCHANGED <<pdf, rowsFiles, envelopes, attempts, marker, published, consumer, ingested>>

(* A process dies wherever it is; the lock goes with it.                   *)
RunnerDies(r) ==
  /\ runner[r].at # "idle"
  /\ holder' = IF holder = r THEN Nil ELSE holder
  /\ runner' = [runner EXCEPT ![r] = Resting]
  /\ UNCHANGED <<pdf, rootVars, consumer, ingested>>

-----------------------------------------------------------------------------
(* The staged database.                                                    *)

(* The manifest is read before the lock of the root is taken.              *)
ReadListing ==
  /\ consumer = Nil /\ listing # Nil
  /\ consumer' = listing
  /\ UNCHANGED <<pdf, rootVars, holder, runner, ingested>>

(* Every envelope of the root, and no other, is in the listing, and every  *)
(* resolved one is of the PDF that the database has.                       *)
Matches(list) ==
  /\ Owner = {list.by} /\ AllPaired
  /\ list.of = envelopes
  /\ \A d \in Scan : envelopes[d] # Nil /\ envelopes[d].status = "resolved" =>
       envelopes[d].rows /\ envelopes[d].pdf = pdf[d]

(* Under the lock: the resolved documents that have no terminal run yet,   *)
(* each in a transaction of its own.  One with a row without a date, or    *)
(* dated after the filing, is skipped; the consumer may die between two.   *)
Ingest(some) ==
  /\ consumer # Nil /\ holder = Nil /\ Matches(consumer)
  /\ some \subseteq {d \in Scan : ingested[d] = Nil /\ envelopes[d] # Nil /\ envelopes[d].status = "resolved"}
  /\ ingested' = [d \in Scan |-> IF d \in some THEN envelopes[d] ELSE ingested[d]]
  /\ consumer' = Nil
  /\ UNCHANGED <<pdf, rootVars, holder, runner>>

(* The track is quarantined.                                               *)
IngestRefused ==
  /\ consumer # Nil /\ holder = Nil /\ ~Matches(consumer)
  /\ consumer' = Nil
  /\ UNCHANGED <<pdf, rootVars, holder, runner, ingested>>

(* A new archive generation, with another PDF and no run of it.            *)
ReplacePdf(d) ==
  /\ pdf[d] < MaxPdf
  /\ pdf' = [pdf EXCEPT ![d] = @ + 1] /\ ingested' = [ingested EXCEPT ![d] = Nil]
  /\ UNCHANGED <<rootVars, holder, runner, consumer>>

-----------------------------------------------------------------------------
(* Documents of the root may have been staged before the rule for          *)
(* documents without transactions became stricter, or demoted too eagerly. *)
Legacy(nothing) ==
  [by |-> "local", status |-> IF nothing THEN "unresolved" ELSE "no_txs", rows |-> FALSE, pdf |-> 1,
   nothing |-> nothing, evident |-> nothing, marked |-> nothing]

SweepInit ==
  /\ pdf = [d \in Scan |-> 1]
  /\ envelopes \in [Scan -> {Nil, Legacy(TRUE), Legacy(FALSE)}]
  /\ published = {[doc |-> d, was |-> envelopes[d]] : d \in {c \in Scan : envelopes[c] # Nil}}
  /\ rowsFiles = {RowsFile(e.doc, e.was) : e \in published}
  /\ attempts = {} /\ listing = Nil /\ marker = Nil /\ holder = Nil /\ consumer = Nil
  /\ runner = [r \in Runner |-> Resting] /\ ingested = [d \in Scan |-> Nil]

RunnerStep(r) ==
  \/ \E script \in Script, d \in Scan : ProcessDocument(r, script, d)
  \/ EnterRoot(r) \/ PublishRows(r) \/ ArchiveEnvelope(r) \/ ReplaceEnvelope(r) \/ WriteManifest(r)
  \/ StartReclassify(r) \/ (\E d \in Scan : EditEnvelope(r, d)) \/ EndReclassify(r)
  \/ RunnerDies(r)

SweepNext ==
  \/ \E r \in Runner : RunnerStep(r)
  \/ ReadListing \/ (\E some \in SUBSET Scan : Ingest(some)) \/ IngestRefused
  \/ \E d \in Scan : ReplacePdf(d)

SweepSpec == SweepInit /\ [][SweepNext]_sweepVars

-----------------------------------------------------------------------------
SweepTypeOK ==
  /\ pdf \in [Scan -> 1 .. MaxPdf] /\ marker \in Script \union {Nil} /\ holder \in Runner \union {Nil}
  /\ envelopes \in [Scan -> Envelope \union {Nil}] /\ ingested \in [Scan -> Envelope \union {Nil}]
  /\ \A r \in Runner : (holder = r) => runner[r].at \notin {"idle", "read"}

(* Whatever dies when, every envelope has its rows, and no envelope that   *)
(* was ever published is lost.                                             *)
EnvelopesAreWhole ==
  /\ AllPaired
  /\ \A e \in published : envelopes[e.doc] = e.was \/ e \in attempts

(* One producer has the root, and files without an owner, which would make *)
(* the root unusable to everybody, are never left behind.                  *)
RootHasOneOwner ==
  /\ Cardinality({envelopes[d].by : d \in {c \in Scan : envelopes[c] # Nil}}) <= 1
  /\ rowsFiles # {} => \E script \in Script : Mine(script)

(* Documents are settled by what was read on their pages, but for those    *)
(* of the older rule, and only until they are reclassified.                *)
StatusIsEvident ==
  \A d \in Scan : envelopes[d] # Nil =>
    \/ envelopes[d].evident
    \/ envelopes[d] = Legacy(FALSE)

(* The database holds resolved readings of the PDF it holds.               *)
IngestedIsResolved ==
  \A d \in Scan : ingested[d] # Nil =>
    /\ ingested[d].status = "resolved" /\ ingested[d].evident /\ ingested[d].rows
    /\ ingested[d].pdf = pdf[d]

(* A manifest is a state that the root has been in.                        *)
ListedWasPublished ==
  listing # Nil => \A d \in Scan : listing.of[d] # Nil => [doc |-> d, was |-> listing.of[d]] \in published

SweepIsSound ==
  SweepTypeOK /\ EnvelopesAreWhole /\ RootHasOneOwner /\ StatusIsEvident /\ IngestedIsResolved /\ ListedWasPublished
=============================================================================
