----------------------------- MODULE MCBacklog -----------------------------
(* Small instances of work staged outside the database: the audit that     *)
(* gates promotion, the bound it computes, a batch of readings, and the    *)
(* staging root of local OCR.  They share no state in the model: a         *)
(* behaviour moves one of them.                                            *)
EXTENDS StagedAudit, StageBatch, LocalSweep

Init == AuditInit /\ BoundInit /\ BatchInit /\ SweepInit

Untouched(work) ==
  /\ work # "audit" => AuditInit /\ UNCHANGED <<records, stamp, history, lots, bundle, report, audit>>
  /\ work # "bound" => BoundInit /\ UNCHANGED design
  /\ work # "batch" => BatchInit /\ UNCHANGED batchVars
  /\ work # "sweep" => SweepInit /\ published = {} /\ UNCHANGED sweepVars

Next ==
  \/ Untouched("audit") /\ AuditNext
  \/ Untouched("bound") /\ FreezeDesign
  \/ Untouched("batch") /\ BatchNext
  \/ Untouched("sweep") /\ SweepNext

Spec == Init /\ [][Next]_<<auditVars, batchVars, sweepVars>>
=============================================================================
