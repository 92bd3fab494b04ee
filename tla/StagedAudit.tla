---------------------------- MODULE StagedAudit ----------------------------
(***************************************************************************)
(* Staged readings of documents and the audit that guards their promotion  *)
(* (scripts/glm_stage.py, scripts/audit_sample.py and the staging records  *)
(* of analyzer/ocr/ingestion.py).                                          *)
(*                                                                         *)
(* Stagers publish readings meanwhile, as StagedRecord allows them to.     *)
(* Sampling, verdicts, reports and promotion run one at a time under the   *)
(* audit lock, so one variable says which of them is under way and how far *)
(* it is.  Every file is replaced as a whole, hence a crash falls between  *)
(* writes.  A hash stands here as the value it is the hash of; the         *)
(* documents are of one year, and ground truth for omissions is left out.  *)
(***************************************************************************)
EXTENDS AuditBound, StagedRecord, Sequences, SequencesExt

CONSTANTS
  Nothing,
  Flagged,       (* the documents stamped asset_review                     *)
  Seed,          (* seeds of samples                                       *)
  Sizes,         (* how many documents a sample asks for                   *)
  RateLimit,     (* an accepted error rate is at most 1 / RateLimit        *)
  MaxVerdicts    (* bound on the audit history                             *)

ASSUME AuditAssumption ==
  /\ IsFiniteSet(Doc) /\ Flagged \subseteq Doc
  /\ Nothing \notin Doc \union Seed \union Nat
  /\ Cell = {"flagged", "unflagged"}
  /\ Sizes \subseteq Nat /\ {RateLimit, MaxVerdicts} \subseteq Nat

VARIABLES
  parsed,     (* documents whose live record is not that of an error       *)
  stamp,      (* the verdict written into the live record                  *)
  history,    (* audit-results.json                                        *)
  lots,       (* the frozen samples                                        *)
  bundle,     (* review bundles: a reading, or 0 for a bare directory      *)
  report,     (* audit-report-state.json                                   *)
  audit       (* the operation that holds the audit lock                   *)

records == <<recordVars, parsed>>
auditVars == <<records, stamp, history, lots, bundle, report, audit, design>>

Verdict == [doc : Doc, pass : BOOLEAN, critical : BOOLEAN, attempt : 0 .. MaxReadings]
Lot ==
  {lot \in [docs : SUBSET Doc, attempt : [Doc -> 0 .. MaxReadings], frame : SUBSET Doc] :
     lot.docs \subseteq lot.frame}
Report == [complete : BOOLEAN, met : BOOLEAN, of : Seq(Verdict), seed : Seed \union {Nothing}]
Void == [complete |-> FALSE, met |-> FALSE, of |-> <<>>, seed |-> Nothing]
Free == [is |-> "free"]

(* A seed without a sample is none of these.                               *)
ASSUME LotAssumption == Nothing \notin Lot

AuditTypeOK ==
  /\ RecordTypeOK
  /\ parsed \subseteq {d \in Doc : live[d] # 0}
  /\ stamp \in [Doc -> {"none", "pass", "fail"}]
  /\ \A d \in Doc : live[d] = 0 => stamp[d] = "none"
  /\ history \in Seq(Verdict) /\ Len(history) <= MaxVerdicts
  /\ \A s \in Seed : lots[s] = Nothing \/ lots[s] \in Lot
  /\ bundle \in [Doc -> {Nothing} \union (0 .. MaxReadings)]
  /\ report \in Report

-----------------------------------------------------------------------------
(* Stagers.  A sampler has the locks of all live records, a verdict and a  *)
(* promotion that of their document.                                       *)

AuditHolds(d) ==
  \/ audit.is \in {"sampling", "bundling", "writing"} /\ d \in audit.held
  \/ audit.is \in {"deciding", "voided", "stamped", "offering"} /\ d = audit.doc

StagerStep(d) ==
  /\ \/ Seize(d) /\ ~AuditHolds(d) /\ UNCHANGED <<parsed, stamp>>
     \/ Clear(d) /\ parsed' = parsed \ {d} /\ stamp' = [stamp EXCEPT ![d] = "none"]
     \/ Write(d) /\ parsed' \in {parsed, parsed \union {d}} /\ UNCHANGED stamp
     \/ Release(d) /\ UNCHANGED <<parsed, stamp>>
  /\ UNCHANGED <<history, lots, bundle, report, audit>>

-----------------------------------------------------------------------------
(* Sampling.                                                               *)

Group(docs) == [c \in Cell |-> IF c = "flagged" THEN docs \intersect Flagged ELSE docs \ Flagged]

(* Flagged documents are drawn first, the others fill the sample.          *)
Samples(frame, size) ==
  LET risky == Group(frame)["flagged"] IN
  {docs \in SUBSET frame :
     /\ Cardinality(docs) = Min({size, Cardinality(frame)})
     /\ Group(docs)["unflagged"] # {} => risky \subseteq docs}

FrozenLot(docs, frame) ==
  [docs |-> docs, attempt |-> [d \in Doc |-> IF d \in docs THEN live[d] ELSE 0], frame |-> frame]

(* A new sample voids the report before it is written; the sample of a     *)
(* seed is never replaced, and a different one under its seed is refused.  *)
BeginSample(seed, size) ==
  /\ audit = Free
  /\ LET known == {d \in Doc : live[d] # 0} IN
     /\ known \intersect busy = {}
     /\ \E docs \in Samples(parsed, size) :
          LET lot == FrozenLot(docs, parsed) IN
          IF lots[seed] \in {Nothing, lot}
          THEN /\ audit' = [is |-> "sampling", held |-> known, seed |-> seed, lot |-> lot]
               /\ report' = IF lots[seed] = Nothing THEN Void ELSE report
          ELSE audit' = Free /\ report' = Void
  /\ UNCHANGED <<records, stamp, history, lots, bundle>>

FreezeLot ==
  /\ audit.is = "sampling"
  /\ lots' = [lots EXCEPT ![audit.seed] = audit.lot]
  /\ audit' = [is |-> "bundling", held |-> audit.held, left |-> audit.lot.docs]
  /\ UNCHANGED <<records, stamp, history, bundle, report>>

(* A bundle is a directory first; one that exists is never touched again.  *)
MakeBundle ==
  /\ audit.is = "bundling" /\ audit.left # {}
  /\ LET d == CHOOSE x \in audit.left : TRUE IN
       /\ audit' = [is |-> IF bundle[d] = Nothing THEN "writing" ELSE "bundling",
                    held |-> audit.held, left |-> audit.left \ {d}, doc |-> d]
       /\ bundle' = IF bundle[d] = Nothing THEN [bundle EXCEPT ![d] = 0] ELSE bundle
  /\ UNCHANGED <<records, stamp, history, lots, report>>

FillBundle ==
  /\ audit.is = "writing"
  /\ bundle' = [bundle EXCEPT ![audit.doc] = live[audit.doc]]
  /\ audit' = [is |-> "bundling", held |-> audit.held, left |-> audit.left]
  /\ UNCHANGED <<records, stamp, history, lots, report>>

EndSample ==
  /\ audit.is = "bundling" /\ audit.left = {}
  /\ audit' = Free
  /\ UNCHANGED <<records, stamp, history, lots, bundle, report>>

-----------------------------------------------------------------------------
(* Verdicts.                                                               *)

BundleMatches(d) == bundle[d] \in {Nothing, 0, live[d]}

(* A verdict on a live record is bound to its reading; one on a document   *)
(* without a live record only enters the history.                          *)
BeginVerdict(d, pass, critical) ==
  /\ audit = Free /\ Len(history) < MaxVerdicts
  /\ live[d] # 0 => BundleMatches(d)
  /\ audit' = [is |-> IF live[d] = 0 THEN "deciding" ELSE "reviewing", doc |-> d,
               attempt |-> live[d], pass |-> pass, critical |-> critical]
  /\ UNCHANGED <<records, stamp, history, lots, bundle, report>>

(* Mutant: the record is not read again under its lock.                    *)
LockVerdictOnly ==
  /\ audit.is = "reviewing" /\ audit.doc \notin busy
  /\ audit' = [audit EXCEPT !.is = "deciding"]
  /\ UNCHANGED <<records, stamp, history, lots, bundle, report>>

LockVerdict ==
  /\ audit.is = "reviewing" /\ audit.doc \notin busy
  /\ audit' = IF live[audit.doc] = audit.attempt THEN [audit EXCEPT !.is = "deciding"] ELSE Free
  /\ UNCHANGED <<records, stamp, history, lots, bundle, report>>

(* The report is voided before anything a verdict changes.                 *)
VoidReport ==
  /\ audit.is = "deciding"
  /\ report' = Void
  /\ audit' = [audit EXCEPT !.is = IF audit.attempt = 0 THEN "stamped" ELSE "voided"]
  /\ UNCHANGED <<records, stamp, history, lots, bundle>>

StampRecord ==
  /\ audit.is = "voided"
  /\ stamp' = [stamp EXCEPT ![audit.doc] = IF audit.pass THEN "pass" ELSE "fail"]
  /\ audit' = [audit EXCEPT !.is = "stamped"]
  /\ UNCHANGED <<records, history, lots, bundle, report>>

AppendVerdict ==
  /\ audit.is = "stamped"
  /\ history' = Append(history, [doc |-> audit.doc, pass |-> audit.pass,
                                 critical |-> audit.critical, attempt |-> audit.attempt])
  /\ audit' = Free
  /\ UNCHANGED <<records, stamp, lots, bundle, report>>

-----------------------------------------------------------------------------
(* Reports and promotion.                                                  *)

(* The verdicts on a document.                                             *)
On(d) == {e \in Range(history) : e.doc = d}
Failed(d) == \E e \in On(d) : ~e.pass

(* Mutant: the last verdict on a document counts.                          *)
CriticalAtLast(d) ==
  \E i \in DOMAIN history :
    /\ history[i].doc = d /\ ~history[i].pass /\ history[i].critical
    /\ \A j \in DOMAIN history : j > i => history[j].doc # d

(* A failure is never undone, and a critical one never becomes cosmetic.   *)
Critical(d) == \E e \in On(d) : ~e.pass /\ e.critical

(* A document is settled by a failure, or by passes on the frozen reading. *)
Settled(d, lot) == Failed(d) \/ (On(d) # {} /\ live[d] = lot.attempt[d])

DesignOf(lot) ==
  [c \in Cell |-> [population |-> Cardinality(Group(lot.frame)[c]),
                   draws |-> Cardinality(Group(lot.docs)[c])]]

Assess(seed) ==
  LET lot == lots[seed]
      complete == lot.docs # {} /\ \A d \in lot.docs : Settled(d, lot)
      found == [c \in Cell |-> Cardinality({d \in Group(lot.docs)[c] : Critical(d)})]
  IN [complete |-> complete, of |-> history, seed |-> seed,
      met |-> complete /\ RateLimit * UpperTotal(DesignOf(lot), found) <= Cardinality(lot.frame)]

(* Stagers go on while the report is made: it takes no document's lock.    *)
BeginReport(seed) ==
  /\ audit = Free
  /\ audit' = [is |-> "reporting", result |-> IF lots[seed] = Nothing THEN Void ELSE Assess(seed)]
  /\ UNCHANGED <<records, stamp, history, lots, bundle, report>>

WriteReport ==
  /\ audit.is = "reporting"
  /\ report' = audit.result
  /\ audit' = Free
  /\ UNCHANGED <<records, stamp, history, lots, bundle>>

GateOpen == report.complete /\ report.met /\ report.of = history /\ lots[report.seed] # Nothing

BoundByVerdict(d) == \E e \in On(d) : e.pass /\ e.attempt = live[d]

(* A record that passed is offered to the canonical database ...           *)
Offer(d) ==
  /\ audit = Free /\ GateOpen /\ d \notin busy
  /\ d \in parsed /\ stamp[d] = "pass" /\ BoundByVerdict(d)
  /\ audit' = [is |-> "offering", doc |-> d, attempt |-> live[d]]
  /\ UNCHANGED <<records, stamp, history, lots, bundle, report>>

(* ... which refuses it: staged records have no grounded review.           *)
InsertRefused ==
  /\ audit.is = "offering"
  /\ audit' = Free
  /\ UNCHANGED <<records, stamp, history, lots, bundle, report>>

AuditDies ==
  /\ audit # Free
  /\ audit' = Free
  /\ UNCHANGED <<records, stamp, history, lots, bundle, report>>

-----------------------------------------------------------------------------
AuditInit ==
  /\ RecordInit /\ parsed = {}
  /\ stamp = [d \in Doc |-> "none"]
  /\ history = <<>> /\ report = Void /\ audit = Free
  /\ lots = [s \in Seed |-> Nothing] /\ bundle = [d \in Doc |-> Nothing]

AuditStep ==
  \/ \E seed \in Seed, size \in Sizes : BeginSample(seed, size)
  \/ FreezeLot \/ MakeBundle \/ FillBundle \/ EndSample
  \/ \E d \in Doc : Offer(d)
  \/ \E d \in Doc, pass, critical \in BOOLEAN : (pass => critical) /\ BeginVerdict(d, pass, critical)
  \/ LockVerdict \/ VoidReport \/ StampRecord \/ AppendVerdict
  \/ \E seed \in Seed : BeginReport(seed)
  \/ WriteReport \/ InsertRefused \/ AuditDies

AuditNext == (\E d \in Doc : StagerStep(d)) \/ AuditStep

AuditSpec == AuditInit /\ [][AuditNext]_<<records, stamp, history, lots, bundle, report, audit>>

-----------------------------------------------------------------------------
(* A complete report in force is about the whole history: verdicts void it *)
(* first, so no crash leaves an acceptance that a verdict has overtaken.   *)
ReportIsCurrent == report.complete => report.of = history /\ lots[report.seed] # Nothing

(* A verdict is stamped on the reading the reviewer gave it on, though the *)
(* document may have been read again meanwhile.                            *)
StampsWereReviewed ==
  [][\A d \in Doc : stamp'[d] \notin {stamp[d], "none"} => audit.attempt = live'[d]]_auditVars

(* What promotion offers has a pass of its own, and every document of the  *)
(* sample was judged ...                                                   *)
OfferedIsJudged ==
  audit.is = "offering" =>
    LET lot == lots[report.seed] IN
    /\ \E e \in Range(history) : e.doc = audit.doc /\ e.pass /\ e.attempt = live[audit.doc]
    /\ lot.docs # {} /\ \A d \in lot.docs : \E e \in Range(history) : e.doc = d

(* ... which ever failed at most the accepted rate.                        *)
RateIsKept ==
  audit.is = "offering" =>
    LET lot == lots[report.seed] IN
    RateLimit * Cardinality({d \in lot.docs : \E e \in Range(history) :
         e.doc = d /\ ~e.pass /\ e.critical}) <= Cardinality(lot.frame)

(* A frozen sample stays what it is.                                       *)
LotsAreFrozen == [][\A s \in Seed : lots[s] # Nothing => lots'[s] = lots[s]]_auditVars

(* A verdict bound to a reading is never given on the pixels of another.   *)
VerdictsAreOnThePixels ==
  [][Len(history') > Len(history) =>
       LET e == Last(history') IN
       e.attempt = 0 \/ bundle[e.doc] \in {Nothing, 0, e.attempt}]_auditVars

(* The gate of promotion: a report in force covers the history, and what   *)
(* passes the gate earned it.                                              *)
GateIsSound == AuditTypeOK /\ ReportIsCurrent /\ OfferedIsJudged /\ RateIsKept

(* What reviewers did stays bound to what they saw.                        *)
VerdictsAreBound == StampsWereReviewed /\ LotsAreFrozen /\ VerdictsAreOnThePixels
=============================================================================
