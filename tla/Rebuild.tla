------------------------------ MODULE Rebuild -------------------------------
(***************************************************************************)
(* The staged rebuild of one year (scripts/rebuild_staged.py): stages that *)
(* write the staged database and a manifest beside it, and the promotion   *)
(* that audits the staged database and installs its file.  A stage holds   *)
(* the lease of the database while it is connected, not while it reads the *)
(* manifest; the audit only reads, and holds no lease.                     *)
(***************************************************************************)
EXTENDS Naturals, FiniteSets, FiniteSetsExt

CONSTANTS
  Filing,          (* documents of the year                                *)
  Worker,          (* processes that run a stage                           *)
  MaxGeneration,   (* bound on the archive generations that are fetched    *)
  MaxMended        (* bound on the repairs                                 *)

ASSUME RebuildAssumption == MaxGeneration \in Nat \ {0} /\ MaxMended \in Nat

VARIABLES
  staged,     (* what the staged database has committed                    *)
  file,       (* what its main file holds, without the write-ahead log     *)
  manifest,   (* manifest.json                                             *)
  stage,      (* what each stage is doing, and the manifest it has read    *)
  promoter,   (* what the promotion is doing                               *)
  audited,    (* the database the last audit read, and its verdict         *)
  installed,  (* the live database file                                    *)
  mended,     (* number of repairs                                         *)
  unsettled,  (* history: batches were stored since the last completion    *)
  quiet       (* history: no stage took the lease during the promotion     *)

rebuildVars == <<staged, file, manifest, stage, promoter, audited, installed, mended, unsettled, quiet>>

Command == {"fetch", "parse", "repair", "other"}
Count == 0 .. 2
NoReport == 3
Run == {"none", "success", "zero_rows"}

(* A document of the staged database: its parse run (zero_rows stands for  *)
(* every outcome that is not terminal), the rows of it that are stored,    *)
(* odd of them outside the date domain, and the number of rows its source  *)
(* report accepts.                                                         *)
Document == [run : Run, raw : Count, count : Count, rows : Count, odd : Count,
             report : Count \union {NoReport}]

Unseen == [run |-> "none", raw |-> 0, count |-> 0, rows |-> 0, odd |-> 0, report |-> NoReport]

StagedYear == [gen : 0 .. MaxGeneration, complete : BOOLEAN, docs : [Filing -> Document]]
House == [gen : 0 .. MaxGeneration, complete : BOOLEAN]
NothingStaged == [gen |-> 0, complete |-> FALSE, docs |-> [d \in Filing |-> Unseen]]
Blank == [gen |-> 0, complete |-> FALSE]

NoAudit == [of |-> NothingStaged, passed |-> FALSE, file |-> NothingStaged, manifest |-> Blank, unsettled |-> FALSE]
AtRest == [at |-> "idle", cmd |-> "none", copy |-> Blank, todo |-> {}]

RebuildTypeOK ==
  /\ {staged, file, installed} \subseteq StagedYear /\ manifest \in House
  /\ mended \in 0 .. MaxMended /\ {unsettled, quiet} \subseteq BOOLEAN
  /\ stage \in [Worker -> [at : {"idle", "loaded", "owner", "done"},
                          cmd : Command \union {"none"},
                          copy : House, todo : SUBSET Filing]]
  /\ promoter \in {"idle", "ready", "reading", "read", "verified", "installed"}

-----------------------------------------------------------------------------
(* What the database and the manifest are asked.                           *)

Terminal(doc) == doc.run = "success" /\ doc.count = doc.rows /\ doc.rows > 0

Unresolved(db) == {d \in Filing : ~Terminal(db.docs[d])}

(* The inventory of reports can be written: the one terminal run of every  *)
(* document accepted every row it read, and they are all there.            *)
Inventoried(doc) == Terminal(doc) /\ doc.raw = doc.count

(* Mutant: the accepted rows of a report are not compared with the stored. *)
CountReports(db) == \A d \in Filing : db.docs[d].run = "success" /\ db.docs[d].report # NoReport

(* The audits that staged verification shares with the generation audit:   *)
(* every run counts the rows that are stored, and every report too.        *)
ReconcileReports(db) ==
  \A d \in Filing : db.docs[d].run = "success" /\ db.docs[d].report = db.docs[d].rows

ReconcileRuns(db) ==
  \A d \in Filing : LET doc == db.docs[d] IN
    /\ doc.count = IF doc.run = "success" THEN doc.rows ELSE 0
    /\ doc.run = "success" => doc.raw > 0 /\ doc.count > 0
    /\ doc.run = "zero_rows" => doc.rows = 0

VerifyHouse(db, m) ==
  /\ m.gen = db.gen /\ db.gen > 0 /\ Unresolved(db) = {}
  /\ m.complete /\ db.complete

Verify(db, m) ==
  VerifyHouse(db, m) /\ ReconcileRuns(db) /\ ReconcileReports(db)

-----------------------------------------------------------------------------
(* The stages.                                                             *)

Owned == \E s \in Worker : stage[s].at \in {"owner", "done"}

LoadManifest(s) ==
  /\ stage[s].at \in {"idle", "loaded"}
  /\ stage' = [stage EXCEPT ![s] = [AtRest EXCEPT !.at = "loaded", !.copy = manifest]]
  /\ UNCHANGED <<staged, file, manifest, promoter, audited, installed, mended, unsettled, quiet>>

(* The lease is not waited for, and the database does not open for writing *)
(* while the audit has it open.  A year whose manifest says complete is    *)
(* parsed again only when forced.                                          *)
TakeLease(s, cmd, force) ==
  /\ stage[s].at = "loaded" /\ ~Owned /\ promoter # "reading"
  /\ cmd = "parse" => stage[s].copy.gen > 0 /\ (force \/ ~stage[s].copy.complete)
  /\ cmd = "fetch" => force \/ stage[s].copy.gen = 0
  /\ stage' = [stage EXCEPT ![s].at = "owner", ![s].cmd = cmd,
                            ![s].todo = IF cmd = "parse" THEN Unresolved(staged) ELSE {}]
  /\ quiet' = (promoter = "idle")
  /\ UNCHANGED <<staged, file, manifest, promoter, audited, installed, mended, unsettled>>

Finish(s, copy) == stage' = [stage EXCEPT ![s].at = "done", ![s].copy = copy]

(* A new archive generation; settled documents that did not change keep    *)
(* their runs and rows under it.                                           *)
FetchHouse(s, kept) ==
  /\ stage[s].at = "owner" /\ stage[s].cmd = "fetch" /\ staged.gen < MaxGeneration
  /\ kept \cap Unresolved(staged) = {}
  /\ staged' = [staged EXCEPT
       !.gen = @ + 1, !.complete = FALSE,
       !.docs = [d \in Filing |-> IF d \in kept THEN [@[d] EXCEPT !.report = NoReport] ELSE Unseen]]
  /\ Finish(s, [gen |-> staged.gen + 1, complete |-> FALSE])
  /\ unsettled' = FALSE /\ UNCHANGED <<file, manifest, promoter, audited, installed, mended, quiet>>

(* One parsed batch, in one transaction.  The rows of a document are       *)
(* replaced only when the new reading has rows; rows that repeat a source  *)
(* identity are stored once.                                               *)
PersistBatch(s, d, run, raw, kept, odd) ==
  /\ stage[s].at = "owner" /\ stage[s].cmd = "parse" /\ d \in stage[s].todo
  /\ kept <= raw /\ odd <= kept /\ odd <= 1
  /\ IF run = "success" THEN kept > 0 ELSE raw = 0
  /\ staged' = [staged EXCEPT !.docs[d] =
       IF run = "success"
       THEN [run |-> run, raw |-> raw, count |-> kept, rows |-> kept, odd |-> odd, report |-> @.report]
       ELSE [@ EXCEPT !.run = run, !.raw = raw, !.count = 0]]
  /\ stage' = [stage EXCEPT ![s].todo = @ \ {d}] /\ unsettled' = TRUE
  /\ UNCHANGED <<file, manifest, promoter, audited, installed, mended, quiet>>

(* A year with unresolved documents has no reports and is incomplete; else *)
(* its reports are written anew and it is complete, in one transaction     *)
(* that fails as a whole when a document cannot be inventoried.            *)
RefreshCompletion(s) ==
  /\ stage[s].at = "owner" /\ stage[s].cmd = "parse" /\ stage[s].todo = {}
  /\ stage[s].copy.gen = staged.gen
  /\ LET done == Unresolved(staged) = {} IN
       /\ done => \A d \in Filing : Inventoried(staged.docs[d])
       /\ staged' = [staged EXCEPT !.complete = done,
            !.docs = [d \in Filing |-> [@[d] EXCEPT !.report = IF done THEN staged.docs[d].count ELSE NoReport]]]
       /\ Finish(s, [stage[s].copy EXCEPT !.complete = done])
  /\ unsettled' = FALSE /\ UNCHANGED <<file, manifest, promoter, audited, installed, mended, quiet>>

(* Senate reports and prices go to other tables; all their stage changes   *)
(* here is the manifest, which it saves as it read it.                     *)
FetchOther(s) ==
  /\ stage[s].at = "owner" /\ stage[s].cmd = "other" /\ Finish(s, stage[s].copy)
  /\ UNCHANGED <<staged, file, manifest, promoter, audited, installed, mended, unsettled, quiet>>

(* Rows outside the date domain go to quarantine, rows without a success   *)
(* run go, and the runs count what is left; reports and completion stay.   *)
RepairAuditGaps(s) ==
  /\ stage[s].at = "owner" /\ stage[s].cmd = "repair" /\ mended < MaxMended
  /\ staged' = [staged EXCEPT !.docs = [d \in Filing |->
       LET doc == @[d]
           left == IF doc.run = "success" THEN doc.rows - doc.odd ELSE 0
       IN [doc EXCEPT !.rows = left, !.odd = 0,
             !.count = IF doc.run = "success" THEN left ELSE @,
             !.run = IF doc.run = "success" /\ left = 0 THEN "zero_rows" ELSE @]]]
  /\ mended' = mended + 1
  /\ Finish(s, stage[s].copy)
  /\ UNCHANGED <<file, manifest, promoter, audited, installed, unsettled, quiet>>

(* The stage saves the manifest it read and changed, whatever others saved *)
(* since, and closes the database, which empties the write-ahead log.      *)
SaveAndClose(s) ==
  /\ stage[s].at = "done"
  /\ manifest' = stage[s].copy /\ file' = staged
  /\ stage' = [stage EXCEPT ![s] = AtRest]
  /\ UNCHANGED <<staged, promoter, audited, installed, mended, unsettled, quiet>>

(* An exception closes the database; the manifest is not saved.            *)
StageFails(s) ==
  /\ stage[s].at = "owner"
  /\ file' = staged
  /\ stage' = [stage EXCEPT ![s] = AtRest]
  /\ UNCHANGED <<staged, manifest, promoter, audited, installed, mended, unsettled, quiet>>

(* A killed stage leaves its commits in the write-ahead log.               *)
StageDies(s) ==
  /\ stage[s].at \in {"owner", "done"}
  /\ stage' = [stage EXCEPT ![s] = AtRest]
  /\ UNCHANGED <<staged, file, manifest, promoter, audited, installed, mended, unsettled, quiet>>

-----------------------------------------------------------------------------
(* The promotion, under the lease of the live database.                    *)

Checkpoint ==
  /\ promoter = "idle" /\ ~Owned /\ installed.gen = 0
  /\ promoter' = "ready" /\ file' = staged
  /\ quiet' = TRUE
  /\ UNCHANGED <<staged, manifest, stage, audited, installed, mended, unsettled>>

OpenAudit ==
  /\ promoter = "ready" /\ ~Owned
  /\ promoter' = "reading"
  /\ audited' = [of |-> staged, passed |-> Verify(staged, manifest), file |-> NothingStaged,
                 manifest |-> manifest, unsettled |-> unsettled]
  /\ UNCHANGED <<staged, file, manifest, stage, installed, mended, unsettled, quiet>>

CloseAudit ==
  /\ promoter = "reading"
  /\ promoter' = "read"
  /\ UNCHANGED <<staged, file, manifest, stage, audited, installed, mended, unsettled, quiet>>

(* Only now, with the database closed, its file is fingerprinted.  The     *)
(* manifest is saved as it was read before the audit.                      *)
Fingerprint ==
  /\ promoter = "read"
  /\ manifest' = audited.manifest
  /\ IF audited.passed THEN promoter' = "verified" /\ audited' = [audited EXCEPT !.file = file]
     ELSE promoter' = "idle" /\ audited' = NoAudit
  /\ UNCHANGED <<staged, file, stage, installed, mended, unsettled, quiet>>

(* Under the lease of the staged database: the file is the one that was    *)
(* fingerprinted, and replaces the live one.                               *)
Install ==
  /\ promoter = "verified" /\ ~Owned
  /\ file = audited.file
  /\ promoter' = "installed" /\ installed' = file
  /\ UNCHANGED <<staged, file, manifest, stage, audited, mended, unsettled, quiet>>

(* The promotion is refused, for a changed file or a manifest without its  *)
(* verdict that a stage saved over it, or it is killed.                    *)
PromotionFails ==
  /\ promoter \in {"ready", "reading", "read", "verified"}
  /\ promoter' = "idle" /\ audited' = NoAudit
  /\ UNCHANGED <<staged, file, manifest, stage, installed, mended, unsettled, quiet>>

RebuildInit ==
  /\ staged = NothingStaged /\ file = NothingStaged /\ installed = NothingStaged
  /\ manifest = Blank /\ mended = 0 /\ unsettled = FALSE /\ quiet = TRUE
  /\ stage = [s \in Worker |-> AtRest] /\ promoter = "idle"
  /\ audited = NoAudit

StageStep(s) ==
  \/ LoadManifest(s)
  \/ \E cmd \in Command, force \in BOOLEAN : TakeLease(s, cmd, force)
  \/ \E kept \in SUBSET Filing : FetchHouse(s, kept)
  \/ \E d \in Filing, run \in Run \ {"none"}, raw, kept, odd \in Count : PersistBatch(s, d, run, raw, kept, odd)
  \/ RefreshCompletion(s) \/ RepairAuditGaps(s)
  \/ FetchOther(s) \/ SaveAndClose(s) \/ StageFails(s) \/ StageDies(s)

RebuildNext ==
  \/ promoter # "installed" /\ \E s \in Worker : StageStep(s)
  \/ Checkpoint \/ OpenAudit \/ CloseAudit \/ Fingerprint \/ Install \/ PromotionFails

RebuildSpec == RebuildInit /\ [][RebuildNext]_rebuildVars

-----------------------------------------------------------------------------
(* What passes the audit is what the stages would build again: every       *)
(* document could be inventoried now, and its report says just that.  A    *)
(* repair that takes rows from a completed year must not get through; a    *)
(* batch stored by a stage that did not come to refresh completion can.    *)
VerifiedIsRebuildable ==
  audited.passed =>
    /\ audited.of.complete
    /\ \A d \in Filing : LET doc == audited.of.docs[d] IN
         Terminal(doc) /\ doc.report = doc.count /\ (audited.unsettled \/ Inventoried(doc))

(* An incomplete year has no reports, so that nothing takes it for whole.  *)
IncompleteIsSilent ==
  staged.complete \/ \A d \in Filing : staged.docs[d].report = NoReport

(* What is installed is what the audit read, when no stage worked on the   *)
(* staged database meanwhile: the fingerprint is taken after the audit has *)
(* closed the database, and of the main file alone.                        *)
InstalledIsAudited == promoter = "installed" /\ quiet => installed = audited.of

(* The reports of the staged year, the verdicts on it and what is          *)
(* installed upon them are sound.                                          *)
RebuildIsSound ==
  RebuildTypeOK /\ VerifiedIsRebuildable /\ IncompleteIsSilent /\ InstalledIsAudited
=============================================================================
