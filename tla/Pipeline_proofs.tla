-------------------------- MODULE Pipeline_proofs --------------------------
(***************************************************************************)
(* Proofs about the extraction queue, for every set of bindings, lanes,    *)
(* attempts and bundles: QueueInv strengthens the invariants of WorkQueue  *)
(* with the facts that carry them from step to step.  Then proofs about    *)
(* the coordinator, for any documents, runs and number of faults: it       *)
(* drives the queue through legal calls only, so that everything proved of *)
(* the queue holds of the pipeline, and it never pays for two extractions  *)
(* of one binding at once.                                                 *)
(***************************************************************************)
EXTENDS Pipeline, TLAPS

-----------------------------------------------------------------------------
(* The extraction queue.                                                   *)

(* The current attempt of a row was drawn for that row.                    *)
RowOwnsItsAttempt ==
  \A t \in Task : work[t].attempt # NoAttempt => attempts[work[t].attempt] = t

DeliveredWasDrawn ==
  \A b \in Bundle : Delivered(b) => attempts[b.attempt] # NoTask

OnlyVerdictsDecide ==
  \A b \in Bundle : results[b].state \notin Verdict => results[b].pred = NoBundle

(* A task that is queued afresh or running has no verdict on its attempt.  *)
QueuedIsUnjudged ==
  \A t \in Task : work[t].status \in {"absent", "pending", "running"} =>
    \A b \in Bundle : b.attempt = work[t].attempt => results[b].state \notin Verdict

QueueInv ==
  /\ QueueTypeOK
  /\ RowOwnsItsAttempt
  /\ DeliveredWasDrawn
  /\ OnlyVerdictsDecide
  /\ QueuedIsUnjudged
  /\ OneVerdictPerAttempt
  /\ DeliveriesAccounted
  /\ RowNamesItsDecision
  /\ AtMostOneSuccessor
  /\ DecisionsFollowReceipts
  /\ DecisionsWellFounded
  /\ EffectiveDecisionIsCurrent

-----------------------------------------------------------------------------
(* What a bundle and a row are.                                            *)

LEMMA BundleAttempt ==
  ASSUME NEW b \in Bundle PROVE b.attempt \in Attempt /\ b.attempt # NoAttempt
  BY QueueAssumption DEF Bundle

LEMMA RowTypes ==
  ASSUME QueueTypeOK
  PROVE  /\ \A t \in Task : /\ work[t] \in WorkRow
                            /\ work[t].status \in Statuses
                            /\ work[t].attempt \in Attempt \union {NoAttempt}
                            /\ work[t].result \in Bundle \union {NoBundle}
                            /\ work[t].due \in BOOLEAN
         /\ \A b \in Bundle : /\ results[b] \in ResultRow
                              /\ results[b].state \in {"absent", "extracted"} \union Dispositions
                              /\ results[b].pred \in Bundle \union {NoBundle}
  BY DEF QueueTypeOK, WorkRow, ResultRow

-----------------------------------------------------------------------------
(* Type correctness.                                                       *)

LEMMA TypeInit == QueueInit => QueueTypeOK
  BY DEF QueueInit, QueueTypeOK, Unregistered, NoResult, WorkRow, ResultRow, Statuses

LEMMA TypeStep == QueueTypeOK /\ [QueueNext]_queueVars => QueueTypeOK'
<1> SUFFICES ASSUME QueueTypeOK, [QueueNext]_queueVars PROVE QueueTypeOK'
  OBVIOUS
<1> USE DEF QueueTypeOK
<1>1. ASSUME NEW t \in Task, Register(t) PROVE QueueTypeOK'
  BY <1>1 DEF Register, WorkRow, Statuses
<1>2. ASSUME NEW t \in Task, RegisterBlocked(t) PROVE QueueTypeOK'
  BY <1>2 DEF RegisterBlocked, WorkRow, Statuses, Dispositions
<1>3. ASSUME NEW t \in Task, TimePasses(t) PROVE QueueTypeOK'
  BY <1>3 DEF TimePasses, WorkRow
<1>4. ASSUME NEW X, NEW L, SupersedePending(X, L) PROVE QueueTypeOK'
  BY <1>4 DEF SupersedePending, WorkRow, Statuses, Dispositions
<1>5. ASSUME NEW t \in Task, NEW a \in Attempt, Claim(t, a) PROVE QueueTypeOK'
  BY <1>5 DEF Claim, WorkRow, Statuses
<1>6. ASSUME NEW R, Recover(R) PROVE QueueTypeOK'
  BY <1>6 DEF Recover, WorkRow, Statuses
<1>7. ASSUME NEW b \in Bundle, RegisterResult(b) PROVE QueueTypeOK'
  BY <1>7 DEF RegisterResult, ResultRow, Dispositions
<1>8. ASSUME NEW b \in Bundle, NEW s \in Verdict, Finish(b, s) PROVE QueueTypeOK'
  BY <1>8 DEF Finish, Verdict, ResultRow, WorkRow, Statuses
<1>9. ASSUME NEW p \in Bundle, NEW d \in Bundle, NEW s \in DOMAIN DecisionOutcome,
             AppendDecision(p, d, s)
      PROVE  QueueTypeOK'
  <2>1. s \in Dispositions /\ s \in Statuses
    BY <1>9 DEF DecisionOutcome, Dispositions, Statuses
  <2>2. [state |-> s, pred |-> p] \in ResultRow
    BY <2>1 DEF ResultRow
  <2>3. results' \in [Bundle -> ResultRow] /\ attempts' = attempts
    BY <1>9, <2>2 DEF AppendDecision
  <2>4. \A t \in Task : [work[t] EXCEPT !.status = s, !.result = d, !.due = FALSE] \in WorkRow
    BY <2>1 DEF WorkRow
  <2>5. work' \in [Task -> WorkRow]
    BY <1>9, <2>4 DEF AppendDecision
  <2> QED BY <2>3, <2>5
<1>10. CASE UNCHANGED queueVars
  BY <1>10 DEF queueVars
<1> QED
  BY <1>1, <1>2, <1>3, <1>4, <1>5, <1>6, <1>7, <1>8, <1>9, <1>10 DEF QueueNext

(* Every reachable queue is well typed: rows hold known statuses, attempts *)
(* and receipts.                                                           *)
THEOREM QueueTypeCorrect == QueueSpec => []QueueTypeOK
  BY TypeInit, TypeStep, PTL DEF QueueSpec

-----------------------------------------------------------------------------
(* The inductive invariant.                                                *)

LEMMA InvInit == QueueInit => QueueInv
<1> SUFFICES ASSUME QueueInit PROVE QueueInv
  OBVIOUS
<1>1. QueueTypeOK
  BY TypeInit
<1>2. /\ \A t \in Task : work[t] = Unregistered
      /\ \A a \in Attempt : attempts[a] = NoTask
      /\ \A b \in Bundle : results[b] = NoResult
  BY DEF QueueInit
<1>3. \A b \in Bundle : results[b].state = "absent" /\ results[b].pred = NoBundle
  BY <1>2 DEF NoResult
<1>4. \A t \in Task : work[t].status = "absent" /\ work[t].attempt = NoAttempt
  BY <1>2 DEF Unregistered
<1> USE <1>3, <1>4, QueueAssumption DEF Verdict, Dispositions
<1>5. RowOwnsItsAttempt /\ DeliveredWasDrawn /\ OnlyVerdictsDecide /\ QueuedIsUnjudged
  BY DEF RowOwnsItsAttempt, DeliveredWasDrawn, OnlyVerdictsDecide, QueuedIsUnjudged, Delivered
<1>6. OneVerdictPerAttempt /\ DeliveriesAccounted /\ RowNamesItsDecision
  BY DEF OneVerdictPerAttempt, DeliveriesAccounted, RowNamesItsDecision, RootVerdict, Unfinished
<1>7. AtMostOneSuccessor /\ DecisionsFollowReceipts /\ DecisionsWellFounded
         /\ EffectiveDecisionIsCurrent
  BY DEF AtMostOneSuccessor, DecisionsFollowReceipts, DecisionsWellFounded,
         EffectiveDecisionIsCurrent, Successors, Delivered
<1> QED
  BY <1>1, <1>5, <1>6, <1>7 DEF QueueInv

(* The part of the invariant that only the receipts decide.                *)
ReceiptInv ==
  /\ OnlyVerdictsDecide
  /\ OneVerdictPerAttempt
  /\ AtMostOneSuccessor
  /\ DecisionsFollowReceipts
  /\ DecisionsWellFounded

LEMMA ReceiptsUnchanged ==
  ASSUME ReceiptInv, results' = results PROVE ReceiptInv'
<1> USE DEF ReceiptInv, Successors, Delivered, Finished, Unfinished
<1>1. OnlyVerdictsDecide' /\ OneVerdictPerAttempt'
  BY DEF OnlyVerdictsDecide, OneVerdictPerAttempt, RootVerdict
<1>2. AtMostOneSuccessor' /\ DecisionsFollowReceipts'
  BY DEF AtMostOneSuccessor, DecisionsFollowReceipts
<1>3. DecisionsWellFounded'
  BY DEF DecisionsWellFounded
<1> QED BY <1>1, <1>2, <1>3

(* Operations that write neither a receipt nor a row's attempt or result,  *)
(* and leave a running row running unless it has no undecided delivery,    *)
(* keep the invariant.                                                     *)
LEMMA StatusOnly ==
  ASSUME QueueInv, QueueTypeOK',
         results' = results, attempts' = attempts,
         \A t \in Task : /\ work'[t].attempt = work[t].attempt
                         /\ work'[t].result = work[t].result
                         /\ \/ work'[t].status = work[t].status
                            \/ work'[t].status = "superseded"
                               /\ work[t].status # "running"
                            \/ work'[t].status = "pending"
                               /\ work[t].status \in {"absent", "running"}
                               /\ (work[t].status = "running" => Undecided(t) = {})
                            \/ work'[t].status = "blocked" /\ t.lane = NoLane
                               /\ work[t].status = "absent"
  PROVE  QueueInv'
<1> USE DEF QueueInv
<1>1. ReceiptInv'
  BY ReceiptsUnchanged DEF ReceiptInv
<1>2. RowOwnsItsAttempt' /\ DeliveredWasDrawn'
  BY DEF RowOwnsItsAttempt, DeliveredWasDrawn, Delivered
<1>3. QueuedIsUnjudged'
  BY DEF QueuedIsUnjudged
<1>4. DeliveriesAccounted'
  <2> SUFFICES ASSUME NEW b \in Bundle, Unfinished(b), Active(b.attempt), ~Active(b.attempt)'
               PROVE FALSE
    BY DEF DeliveriesAccounted, Unfinished, RootVerdict
  <2> DEFINE t == attempts[b.attempt]
  <2>1. t \in Task
    BY BundleAttempt DEF DeliveredWasDrawn, Delivered, Unfinished, QueueTypeOK
  <2>2. work[t].attempt = b.attempt /\ work[t].status = "running"
    BY DEF Active
  <2>3. work'[t].status # "running"
    BY <2>1, <2>2 DEF Active
  <2>4. Undecided(t) = {}
    BY <2>1, <2>2, <2>3
  <2> QED BY <2>2, <2>4 DEF Undecided
<1>5. RowNamesItsDecision'
  BY DEF RowNamesItsDecision, Successors, Delivered, Verdict, Dispositions
<1>6. EffectiveDecisionIsCurrent'
  <2> SUFFICES ASSUME NEW b \in Bundle, results[b].state \in Verdict, Successors(b) = {},
                      work'[attempts[b.attempt]].attempt = b.attempt
               PROVE work'[attempts[b.attempt]].result = b
    BY DEF EffectiveDecisionIsCurrent, Successors, Delivered
  <2>1. attempts[b.attempt] \in Task
    BY BundleAttempt DEF DeliveredWasDrawn, Delivered, QueueTypeOK, Verdict, Dispositions
  <2> QED BY <2>1 DEF EffectiveDecisionIsCurrent
<1> QED
  BY <1>1, <1>2, <1>3, <1>4, <1>5, <1>6 DEF ReceiptInv

LEMMA StatusOnlySteps ==
  ASSUME QueueInv, QueueTypeOK',
         \/ \E t \in Task : Register(t) \/ RegisterBlocked(t) \/ TimePasses(t)
         \/ \E X, L : SupersedePending(X, L)
         \/ \E R : Recover(R)
         \/ UNCHANGED queueVars
  PROVE  QueueInv'
<1> USE RowTypes DEF QueueInv
<1>1. ASSUME NEW t \in Task, Register(t) PROVE QueueInv'
  BY <1>1, StatusOnly DEF Register, QueueTypeOK
<1>2. ASSUME NEW t \in Task, RegisterBlocked(t) PROVE QueueInv'
  BY <1>2, StatusOnly DEF RegisterBlocked, QueueTypeOK
<1>3. ASSUME NEW t \in Task, TimePasses(t) PROVE QueueInv'
  BY <1>3, StatusOnly DEF TimePasses, QueueTypeOK
<1>4. ASSUME NEW X, NEW L, SupersedePending(X, L) PROVE QueueInv'
  <2>1. \A t \in Task : \/ work'[t] = work[t]
                       \/ /\ work'[t] = [work[t] EXCEPT !.status = "superseded", !.due = FALSE]
                          /\ work[t].status # "running"
    BY <1>4 DEF SupersedePending, Cancellable
  <2>2. ASSUME NEW t \in Task,
               work'[t] = [work[t] EXCEPT !.status = "superseded", !.due = FALSE]
        PROVE  /\ work'[t].status = "superseded"
               /\ work'[t].attempt = work[t].attempt
               /\ work'[t].result = work[t].result
    <3>1. work[t] \in WorkRow
      BY DEF QueueTypeOK
    <3> QED BY <2>2, <3>1 DEF WorkRow
  <2> QED BY <1>4, <2>1, <2>2, StatusOnly DEF SupersedePending
<1>5. ASSUME NEW R, Recover(R) PROVE QueueInv'
  <2>1. \A t \in Task : \/ work'[t] = work[t]
                       \/ /\ work'[t] = [work[t] EXCEPT !.status = "pending", !.due = FALSE]
                          /\ work[t].status = "running" /\ Undecided(t) = {}
    BY <1>5 DEF Recover, Recoverable
  <2>2. ASSUME NEW t \in Task,
               work'[t] = [work[t] EXCEPT !.status = "pending", !.due = FALSE]
        PROVE  /\ work'[t].status = "pending"
               /\ work'[t].attempt = work[t].attempt
               /\ work'[t].result = work[t].result
    <3>1. work[t] \in WorkRow
      BY DEF QueueTypeOK
    <3> QED BY <2>2, <3>1 DEF WorkRow
  <2> QED BY <1>5, <2>1, <2>2, StatusOnly DEF Recover
<1>6. CASE UNCHANGED queueVars
  BY <1>6, StatusOnly DEF queueVars
<1> QED
  BY <1>1, <1>2, <1>3, <1>4, <1>5, <1>6

LEMMA ClaimStep ==
  ASSUME QueueInv, QueueTypeOK', NEW t \in Task, NEW a \in Attempt, Claim(t, a)
  PROVE  QueueInv'
<1> USE BundleAttempt DEF QueueInv
<1>1. ReceiptInv'
  BY ReceiptsUnchanged DEF ReceiptInv, Claim
<1>2. /\ results' = results
      /\ attempts[a] = NoTask /\ attempts'[a] = t
      /\ \A c \in Attempt : c # a => attempts'[c] = attempts[c]
      /\ work'[t].attempt = a /\ work'[t].status = "running" /\ work'[t].result = work[t].result
      /\ \A u \in Task : u # t => work'[u] = work[u]
  BY RowTypes DEF Claim, QueueTypeOK, WorkRow
<1>3. \A b \in Bundle : b.attempt = a => ~Delivered(b)
  BY <1>2 DEF DeliveredWasDrawn
<1>4. RowOwnsItsAttempt' /\ DeliveredWasDrawn'
  BY <1>2, QueueAssumption DEF RowOwnsItsAttempt, DeliveredWasDrawn, Delivered, QueueTypeOK, WorkRow
<1>5. QueuedIsUnjudged'
  BY <1>2, <1>3 DEF QueuedIsUnjudged, Delivered, Verdict, Dispositions
<1>6. DeliveriesAccounted'
  <2> SUFFICES ASSUME NEW b \in Bundle, Unfinished(b)
               PROVE \/ \E c \in Bundle : RootVerdict(c) /\ c.attempt = b.attempt
                     \/ Active(b.attempt)'
    BY <1>2 DEF DeliveriesAccounted, Unfinished, RootVerdict
  <2>1. b.attempt # a
    BY <1>3 DEF Delivered, Unfinished
  <2>2. attempts[b.attempt] \in Task /\ attempts'[b.attempt] = attempts[b.attempt]
    BY <1>2, <2>1 DEF DeliveredWasDrawn, Delivered, Unfinished, QueueTypeOK
  <2>3. CASE attempts[b.attempt] = t
    <3>1. ~Active(b.attempt)
      BY <2>3 DEF Active, Claim, Claimable
    <3> QED BY <3>1 DEF DeliveriesAccounted
  <2>4. CASE attempts[b.attempt] # t
    BY <1>2, <2>2, <2>4 DEF DeliveriesAccounted, Active
  <2> QED BY <2>3, <2>4
<1>7. RowNamesItsDecision'
  BY <1>2 DEF RowNamesItsDecision, Successors, Delivered, Verdict, Dispositions
<1>8. EffectiveDecisionIsCurrent'
  <2> SUFFICES ASSUME NEW b \in Bundle, results[b].state \in Verdict, Successors(b) = {},
                      work'[attempts'[b.attempt]].attempt = b.attempt
               PROVE work'[attempts'[b.attempt]].result = b
    BY <1>2 DEF EffectiveDecisionIsCurrent, Successors, Delivered
  <2>1. b.attempt # a
    BY <1>3 DEF Delivered, Verdict, Dispositions
  <2>2. attempts[b.attempt] \in Task /\ attempts'[b.attempt] = attempts[b.attempt]
    BY <1>2, <2>1 DEF DeliveredWasDrawn, Delivered, QueueTypeOK, Verdict, Dispositions
  <2>3. attempts[b.attempt] # t
    BY <1>2, <2>1, <2>2
  <2> QED BY <1>2, <2>2, <2>3 DEF EffectiveDecisionIsCurrent
<1> QED
  BY <1>1, <1>4, <1>5, <1>6, <1>7, <1>8 DEF ReceiptInv

LEMMA RegisterResultStep ==
  ASSUME QueueInv, QueueTypeOK', NEW b \in Bundle, RegisterResult(b)
  PROVE  QueueInv'
<1>0. /\ RowOwnsItsAttempt /\ DeliveredWasDrawn /\ OnlyVerdictsDecide /\ QueuedIsUnjudged
      /\ OneVerdictPerAttempt /\ DeliveriesAccounted /\ RowNamesItsDecision
      /\ AtMostOneSuccessor /\ DecisionsFollowReceipts /\ DecisionsWellFounded
      /\ EffectiveDecisionIsCurrent /\ QueueTypeOK
  BY DEF QueueInv
<1>1. /\ work' = work /\ attempts' = attempts
      /\ attempts[b.attempt] \in Task
      /\ results[b].state \in {"absent", "extracted"}
      /\ results'[b].state \in {"extracted", "superseded"}
      /\ results'[b].state = "extracted" => Active(b.attempt)
      /\ results'[b].pred = NoBundle /\ results[b].pred = NoBundle
      /\ \A c \in Bundle : c # b => results'[c] = results[c]
  BY <1>0, RowTypes, BundleAttempt
     DEF RegisterResult, QueueTypeOK, Finished, Delivered, Unfinished, ResultRow,
         OnlyVerdictsDecide, Verdict, Dispositions
<1>2. \A c \in Bundle : results'[c].pred = results[c].pred
  BY <1>1
<1>3. \A c \in Bundle : results'[c].state \in Verdict => results'[c] = results[c]
  BY <1>1 DEF Verdict, Dispositions
<1>4. \A c \in Bundle : results[c].state \in Verdict => results'[c] = results[c]
  BY <1>1 DEF Verdict, Dispositions
<1>5. \A c \in Bundle : Finished(c) => Finished(c)'
  BY <1>1 DEF Finished, Delivered, Unfinished
<1>6. \A c \in Bundle : Successors(c)' = Successors(c)
  <2> SUFFICES ASSUME NEW c \in Bundle, NEW d \in Bundle
               PROVE (Delivered(d) /\ results[d].pred = c)' <=> Delivered(d) /\ results[d].pred = c
    BY DEF Successors
  <2>1. CASE d = b
    BY <1>1, <2>1, QueueAssumption
  <2>2. CASE d # b
    BY <1>1, <2>2 DEF Delivered
  <2> QED BY <2>1, <2>2
<1>7. RowOwnsItsAttempt'
  BY <1>0, <1>1 DEF RowOwnsItsAttempt
<1>8. DeliveredWasDrawn'
  <2> SUFFICES ASSUME NEW c \in Bundle, Delivered(c)' PROVE attempts[c.attempt] # NoTask
    BY <1>1 DEF DeliveredWasDrawn
  <2>1. CASE c = b
    BY <1>1, <2>1, QueueAssumption
  <2>2. CASE c # b
    BY <1>0, <1>1, <2>2 DEF DeliveredWasDrawn, Delivered
  <2> QED BY <2>1, <2>2
<1>9. OnlyVerdictsDecide'
  BY <1>0, <1>1, <1>2, <1>3, <1>4 DEF OnlyVerdictsDecide
<1>10. QueuedIsUnjudged'
  BY <1>0, <1>1, <1>3 DEF QueuedIsUnjudged
<1>11. OneVerdictPerAttempt'
  BY <1>0, <1>3 DEF OneVerdictPerAttempt, RootVerdict
<1>12. DeliveriesAccounted'
  <2> SUFFICES ASSUME NEW c \in Bundle, Unfinished(c)', ~Active(c.attempt)
               PROVE \E d \in Bundle : RootVerdict(d)' /\ d.attempt = c.attempt
    BY <1>1 DEF DeliveriesAccounted, Active
  <2>1. c # b /\ Unfinished(c)
    BY <1>1 DEF Unfinished
  <2>2. PICK d \in Bundle : RootVerdict(d) /\ d.attempt = c.attempt
    BY <1>0, <2>1 DEF DeliveriesAccounted
  <2>3. RootVerdict(d)'
    BY <1>4, <2>2 DEF RootVerdict
  <2> QED BY <2>2, <2>3
<1>13. RowNamesItsDecision'
  <2>1. ASSUME NEW t \in Task, work[t].status \in Verdict, t.lane # NoLane,
               NEW r \in Bundle, r = work[t].result
        PROVE  /\ r.attempt = work[t].attempt
               /\ results'[r].state = work[t].status
               /\ Successors(r)' = {}
    BY <1>0, <1>4, <1>6, <2>1 DEF RowNamesItsDecision
  <2>2. \A t \in Task : work[t].status \in Verdict /\ t.lane # NoLane =>
                         work[t].result \in Bundle
    BY <1>0, RowTypes DEF RowNamesItsDecision
  <2> QED BY <1>1, <2>1, <2>2, QueueAssumption DEF RowNamesItsDecision
<1>14. AtMostOneSuccessor'
  BY <1>0, <1>6 DEF AtMostOneSuccessor
<1>15. DecisionsFollowReceipts'
  <2>1. ASSUME NEW d \in Bundle, NEW p \in Bundle, results[d].pred = p
        PROVE  Finished(d)' /\ Finished(p)' /\ p.attempt = d.attempt
    BY <1>0, <1>5, <2>1, QueueAssumption DEF DecisionsFollowReceipts
  <2>2. \A d \in Bundle : results[d].pred # NoBundle => results[d].pred \in Bundle
    BY <1>0, RowTypes
  <2> QED BY <1>2, <2>1, <2>2 DEF DecisionsFollowReceipts, Finished, Delivered, Unfinished
<1>16. DecisionsWellFounded'
  <2>1. {d \in Bundle : results'[d].pred # NoBundle} = {d \in Bundle : results[d].pred # NoBundle}
    BY <1>2
  <2> QED BY <1>0, <1>2, <2>1 DEF DecisionsWellFounded
<1>17. EffectiveDecisionIsCurrent'
  BY <1>0, <1>1, <1>3, <1>6 DEF EffectiveDecisionIsCurrent
<1> QED
  BY <1>7, <1>8, <1>9, <1>10, <1>11, <1>12, <1>13, <1>14, <1>15, <1>16, <1>17 DEF QueueInv

(* The facts of QueueInv one by one, for the two operations that decide.   *)
LEMMA FinishStep ==
  ASSUME QueueInv, QueueTypeOK', NEW b \in Bundle, NEW s \in Verdict, Finish(b, s)
  PROVE  QueueInv'
<1> DEFINE u == attempts[b.attempt]
<1>0. /\ RowOwnsItsAttempt /\ DeliveredWasDrawn /\ OnlyVerdictsDecide /\ QueuedIsUnjudged
      /\ OneVerdictPerAttempt /\ DeliveriesAccounted /\ RowNamesItsDecision
      /\ AtMostOneSuccessor /\ DecisionsFollowReceipts /\ DecisionsWellFounded
      /\ EffectiveDecisionIsCurrent /\ QueueTypeOK
  BY DEF QueueInv
<1>1. u \in Task /\ work[u].attempt = b.attempt /\ work[u].status = "running"
  BY <1>0, BundleAttempt DEF Finish, Active, Unfinished, DeliveredWasDrawn, Delivered, QueueTypeOK
<1>2. /\ results[b].state = "extracted" /\ results[b].pred = NoBundle
      /\ attempts' = attempts
      /\ results'[b].state = s /\ results'[b].pred = NoBundle
      /\ \A c \in Bundle : c # b => results'[c] = results[c]
      /\ s # "absent" /\ s # "extracted" /\ s # "pending" /\ s # "running"
  BY <1>0, RowTypes DEF Finish, Unfinished, OnlyVerdictsDecide, Verdict, Dispositions,
                        QueueTypeOK, ResultRow
<1>3. work[u] \in WorkRow
  BY <1>0, <1>1 DEF QueueTypeOK
<1>4. /\ work'[u].status = s /\ work'[u].attempt = b.attempt /\ work'[u].result = b
      /\ \A t \in Task : t # u => work'[t] = work[t]
  BY <1>0, <1>1, <1>3 DEF Finish, QueueTypeOK, WorkRow
<1>5. \A c \in Bundle : c.attempt = b.attempt => results[c].state \notin Verdict
  BY <1>0, <1>1 DEF QueuedIsUnjudged
<1>6. \A c \in Bundle : results[c].state \in Verdict => results'[c] = results[c]
  BY <1>2 DEF Verdict, Dispositions
<1>7. \A c \in Bundle : results'[c].pred = results[c].pred
  BY <1>2
<1>8. \A c \in Bundle : Finished(c) => Finished(c)'
  BY <1>2 DEF Finished, Delivered, Unfinished
<1>9. \A c \in Bundle : Successors(c)' = Successors(c)
  <2> SUFFICES ASSUME NEW c \in Bundle, NEW d \in Bundle
               PROVE (Delivered(d) /\ results[d].pred = c)' <=> Delivered(d) /\ results[d].pred = c
    BY DEF Successors
  <2>1. CASE d = b
    BY <1>2, <2>1, QueueAssumption
  <2>2. CASE d # b
    BY <1>2, <2>2 DEF Delivered
  <2> QED BY <2>1, <2>2
<1>10. \A t \in Task : t # u => work[t].attempt # b.attempt
  BY <1>0, BundleAttempt DEF RowOwnsItsAttempt
<1>11. Successors(b) = {}
  <2> SUFFICES ASSUME NEW d \in Bundle, results[d].pred = b PROVE FALSE
    BY DEF Successors
  <2> QED BY <1>0, <1>2, QueueAssumption DEF DecisionsFollowReceipts, Finished, Unfinished
<1>12. RowOwnsItsAttempt'
  BY <1>0, <1>1, <1>2, <1>4 DEF RowOwnsItsAttempt
<1>13. DeliveredWasDrawn'
  <2> SUFFICES ASSUME NEW c \in Bundle, Delivered(c)' PROVE attempts[c.attempt] # NoTask
    BY <1>2 DEF DeliveredWasDrawn
  <2>1. CASE c = b
    BY <1>1, <2>1, QueueAssumption
  <2>2. CASE c # b
    BY <1>0, <1>2, <2>2 DEF DeliveredWasDrawn, Delivered
  <2> QED BY <2>1, <2>2
<1>14. OnlyVerdictsDecide'
  BY <1>0, <1>2 DEF OnlyVerdictsDecide
<1>15. QueuedIsUnjudged'
  BY <1>0, <1>2, <1>4, <1>10 DEF QueuedIsUnjudged
<1>16. OneVerdictPerAttempt'
  BY <1>0, <1>2, <1>5 DEF OneVerdictPerAttempt, RootVerdict
<1>17. DeliveriesAccounted'
  <2>1. RootVerdict(b)'
    BY <1>2 DEF RootVerdict
  <2> SUFFICES ASSUME NEW c \in Bundle, Unfinished(c)', ~Active(c.attempt)'
               PROVE \E d \in Bundle : RootVerdict(d)' /\ d.attempt = c.attempt
    BY DEF DeliveriesAccounted
  <2>2. c # b /\ Unfinished(c)
    BY <1>2 DEF Unfinished
  <2>3. CASE c.attempt = b.attempt
    BY <2>1, <2>3
  <2>4. CASE c.attempt # b.attempt
    <3>1. attempts[c.attempt] \in Task
      BY <1>0, <2>2, BundleAttempt DEF DeliveredWasDrawn, Delivered, Unfinished, QueueTypeOK
    <3>2. ~Active(c.attempt)
      BY <1>1, <1>2, <1>4, <2>4, <3>1 DEF Active
    <3>3. PICK d \in Bundle : RootVerdict(d) /\ d.attempt = c.attempt
      BY <1>0, <2>2, <3>2 DEF DeliveriesAccounted
    <3> QED BY <1>6, <3>3 DEF RootVerdict
  <2> QED BY <2>3, <2>4
<1>18. RowNamesItsDecision'
  <2>1. ASSUME NEW t \in Task, t # u, work[t].status \in Verdict, t.lane # NoLane,
               NEW r \in Bundle, r = work[t].result
        PROVE  /\ r.attempt = work[t].attempt
               /\ results'[r].state = work[t].status
               /\ Successors(r)' = {}
    BY <1>0, <1>6, <1>9, <2>1 DEF RowNamesItsDecision
  <2>2. \A t \in Task : work[t].status \in Verdict /\ t.lane # NoLane =>
                         work[t].result \in Bundle
    BY <1>0, RowTypes DEF RowNamesItsDecision
  <2>3. Successors(b)' = {}
    BY <1>9, <1>11
  <2> SUFFICES ASSUME NEW t \in Task, work'[t].status \in Verdict, t.lane # NoLane
               PROVE  \E r \in Bundle : /\ work'[t].result = r
                                        /\ r.attempt = work'[t].attempt
                                        /\ results'[r].state = work'[t].status
                                        /\ Successors(r)' = {}
    BY QueueAssumption DEF RowNamesItsDecision
  <2>4. CASE t = u
    BY <1>2, <1>4, <2>3, <2>4
  <2>5. CASE t # u
    BY <1>4, <2>1, <2>2, <2>5
  <2> QED BY <2>4, <2>5
<1>19. AtMostOneSuccessor'
  BY <1>0, <1>9 DEF AtMostOneSuccessor
<1>20. DecisionsFollowReceipts'
  <2>1. ASSUME NEW d \in Bundle, NEW p \in Bundle, results[d].pred = p
        PROVE  Finished(d)' /\ Finished(p)' /\ p.attempt = d.attempt
    BY <1>0, <1>8, <2>1, QueueAssumption DEF DecisionsFollowReceipts
  <2>2. \A d \in Bundle : results[d].pred # NoBundle => results[d].pred \in Bundle
    BY <1>0, RowTypes
  <2> QED BY <1>7, <2>1, <2>2 DEF DecisionsFollowReceipts, Finished, Delivered, Unfinished
<1>21. DecisionsWellFounded'
  <2>1. {d \in Bundle : results'[d].pred # NoBundle} = {d \in Bundle : results[d].pred # NoBundle}
    BY <1>7
  <2> QED BY <1>0, <1>7, <2>1 DEF DecisionsWellFounded
<1>22. EffectiveDecisionIsCurrent'
  <2> SUFFICES ASSUME NEW c \in Bundle, results'[c].state \in Verdict, Successors(c)' = {},
                      work'[attempts[c.attempt]].attempt = c.attempt
               PROVE  work'[attempts[c.attempt]].result = c
    BY <1>2 DEF EffectiveDecisionIsCurrent
  <2>1. CASE c = b
    BY <1>4, <2>1
  <2>2. CASE c # b
    <3>1. c.attempt # b.attempt /\ results[c].state \in Verdict
      BY <1>2, <1>5, <2>2
    <3>2. attempts[c.attempt] \in Task
      BY <1>0, <3>1, BundleAttempt DEF DeliveredWasDrawn, Delivered, QueueTypeOK, Verdict, Dispositions
    <3>3. attempts[c.attempt] # u
      BY <1>4, <3>1
    <3> QED BY <1>0, <1>4, <1>9, <3>1, <3>2, <3>3 DEF EffectiveDecisionIsCurrent
  <2> QED BY <2>1, <2>2
<1> QED
  BY <1>0, <1>12, <1>13, <1>14, <1>15, <1>16, <1>17, <1>18, <1>19, <1>20, <1>21, <1>22 DEF QueueInv

LEMMA AppendStep ==
  ASSUME QueueInv, QueueTypeOK', NEW p \in Bundle, NEW d \in Bundle,
         NEW s \in DOMAIN DecisionOutcome, AppendDecision(p, d, s)
  PROVE  QueueInv'
<1> DEFINE u == attempts[p.attempt]
<1>0. /\ RowOwnsItsAttempt /\ DeliveredWasDrawn /\ OnlyVerdictsDecide /\ QueuedIsUnjudged
      /\ OneVerdictPerAttempt /\ DeliveriesAccounted /\ RowNamesItsDecision
      /\ AtMostOneSuccessor /\ DecisionsFollowReceipts /\ DecisionsWellFounded
      /\ EffectiveDecisionIsCurrent /\ QueueTypeOK
  BY DEF QueueInv
<1>1. /\ Finished(p) /\ Delivered(p) /\ Successors(p) = {} /\ d.attempt = p.attempt
      /\ results[d].state = "absent" /\ d # p
      /\ attempts' = attempts
      /\ s \in Verdict /\ s \notin {"absent", "extracted", "pending", "running"}
  BY DEF AppendDecision, Finished, Delivered, DecisionOutcome, Verdict, Dispositions
<1>2. /\ u \in Task /\ work[u].attempt = p.attempt /\ work[u].result = p
      /\ work[u].status \notin {"absent", "pending", "running"}
  <2>1. u \in Task
    BY <1>0, <1>1, BundleAttempt DEF DeliveredWasDrawn, QueueTypeOK
  <2>2. results[p].state \in Dispositions
    BY <1>0, <1>1, RowTypes DEF Finished, Unfinished, Delivered
  <2> QED BY <2>1, <2>2 DEF AppendDecision, Dispositions
<1>3. /\ results'[d].state = s /\ results'[d].pred = p
      /\ \A c \in Bundle : c # d => results'[c] = results[c]
  BY <1>0 DEF AppendDecision, QueueTypeOK
<1>4. /\ work'[u].status = s /\ work'[u].attempt = p.attempt /\ work'[u].result = d
      /\ \A t \in Task : t # u => work'[t] = work[t]
  <2>1. work[u] \in WorkRow
    BY <1>0, <1>2 DEF QueueTypeOK
  <2> QED BY <1>0, <1>2, <2>1 DEF AppendDecision, QueueTypeOK, WorkRow
<1>5. results[d].pred = NoBundle /\ \A c \in Bundle : results[c].pred # d
  <2>1. results[d].pred = NoBundle
    BY <1>0, <1>1 DEF OnlyVerdictsDecide, Verdict, Dispositions
  <2> SUFFICES ASSUME NEW c \in Bundle, results[c].pred = d PROVE FALSE
    BY <2>1
  <2> QED BY <1>0, <1>1, QueueAssumption DEF DecisionsFollowReceipts, Finished, Delivered
<1>6. \A c \in Bundle : results[c].state # "absent" => results'[c] = results[c]
  BY <1>1, <1>3
<1>7. \A c \in Bundle : Finished(c) => Finished(c)'
  BY <1>6 DEF Finished, Delivered, Unfinished
<1>8. /\ Successors(p)' = {d}
      /\ \A c \in Bundle : c # p => Successors(c)' = Successors(c)
  <2>1. \A c, e \in Bundle : e # d =>
          ((Delivered(e) /\ results[e].pred = c)' <=> Delivered(e) /\ results[e].pred = c)
    BY <1>3 DEF Delivered
  <2>2. \A c \in Bundle : (Delivered(d) /\ results[d].pred = c)' <=> c = p
    BY <1>1, <1>3 DEF Delivered
  <2>3. \A c \in Bundle : ~(Delivered(d) /\ results[d].pred = c)
    BY <1>1 DEF Delivered
  <2>4. Successors(p)' = {d}
    BY <1>1, <2>1, <2>2 DEF Successors
  <2>5. ASSUME NEW c \in Bundle, c # p PROVE Successors(c)' = Successors(c)
    BY <2>1, <2>2, <2>3, <2>5 DEF Successors
  <2> QED BY <2>4, <2>5
<1>9. Successors(d)' = {} /\ Successors(d) = {}
  BY <1>1, <1>5, <1>8 DEF Successors
<1>10. \A t \in Task : t # u => work[t].attempt # p.attempt
  BY <1>0, BundleAttempt DEF RowOwnsItsAttempt
<1>12. RowOwnsItsAttempt'
  BY <1>0, <1>1, <1>2, <1>4 DEF RowOwnsItsAttempt
<1>13. DeliveredWasDrawn'
  <2> SUFFICES ASSUME NEW c \in Bundle, Delivered(c)' PROVE attempts[c.attempt] # NoTask
    BY <1>1 DEF DeliveredWasDrawn
  <2>1. CASE c = d
    BY <1>1, <1>2, <2>1, QueueAssumption
  <2>2. CASE c # d
    BY <1>0, <1>3, <2>2 DEF DeliveredWasDrawn, Delivered
  <2> QED BY <2>1, <2>2
<1>14. OnlyVerdictsDecide'
  BY <1>0, <1>1, <1>3 DEF OnlyVerdictsDecide
<1>15. QueuedIsUnjudged'
  BY <1>0, <1>1, <1>3, <1>4, <1>10 DEF QueuedIsUnjudged
<1>16. OneVerdictPerAttempt'
  BY <1>0, <1>3, QueueAssumption DEF OneVerdictPerAttempt, RootVerdict
<1>17. DeliveriesAccounted'
  <2> SUFFICES ASSUME NEW c \in Bundle, Unfinished(c)', ~Active(c.attempt)'
               PROVE \E e \in Bundle : RootVerdict(e)' /\ e.attempt = c.attempt
    BY DEF DeliveriesAccounted
  <2>1. c # d /\ Unfinished(c)
    BY <1>1, <1>3 DEF Unfinished
  <2>2. attempts[c.attempt] \in Task
    BY <1>0, <2>1, BundleAttempt DEF DeliveredWasDrawn, Delivered, Unfinished, QueueTypeOK
  <2>3. ~Active(c.attempt)
    BY <1>1, <1>2, <1>4, <2>2 DEF Active
  <2>4. PICK e \in Bundle : RootVerdict(e) /\ e.attempt = c.attempt
    BY <1>0, <2>1, <2>3 DEF DeliveriesAccounted
  <2>5. RootVerdict(e)'
    BY <1>1, <1>6, <2>4 DEF RootVerdict, Verdict, Dispositions
  <2> QED BY <2>4, <2>5
<1>18. RowNamesItsDecision'
  <2>1. \A t \in Task : work[t].status \in Verdict /\ t.lane # NoLane =>
                         work[t].result \in Bundle
    BY <1>0, RowTypes DEF RowNamesItsDecision
  <2>2. ASSUME NEW t \in Task, t # u, work[t].status \in Verdict, t.lane # NoLane,
               NEW r \in Bundle, r = work[t].result
        PROVE  /\ r.attempt = work[t].attempt
               /\ results'[r].state = work[t].status
               /\ Successors(r)' = {}
    <3>1. r.attempt = work[t].attempt /\ results[r].state = work[t].status /\ Successors(r) = {}
      BY <1>0, <2>2 DEF RowNamesItsDecision
    <3>2. r # p
      BY <1>10, <2>2, <3>1
    <3>3. results'[r] = results[r]
      BY <1>6, <2>2, <3>1 DEF Verdict, Dispositions
    <3> QED BY <1>8, <3>1, <3>2, <3>3
  <2> SUFFICES ASSUME NEW t \in Task, work'[t].status \in Verdict, t.lane # NoLane
               PROVE  \E r \in Bundle : /\ work'[t].result = r
                                        /\ r.attempt = work'[t].attempt
                                        /\ results'[r].state = work'[t].status
                                        /\ Successors(r)' = {}
    BY QueueAssumption DEF RowNamesItsDecision
  <2>3. CASE t = u
    BY <1>1, <1>3, <1>4, <1>9, <2>3
  <2>4. CASE t # u
    BY <1>4, <2>1, <2>2, <2>4
  <2> QED BY <2>3, <2>4
<1>19. AtMostOneSuccessor'
  BY <1>0, <1>8 DEF AtMostOneSuccessor
<1>20. DecisionsFollowReceipts'
  <2>1. ASSUME NEW e \in Bundle, e # d, NEW q \in Bundle, results[e].pred = q
        PROVE  Finished(e)' /\ Finished(q)' /\ q.attempt = e.attempt
    BY <1>0, <1>7, <2>1, QueueAssumption DEF DecisionsFollowReceipts
  <2>2. \A e \in Bundle : results[e].pred # NoBundle => results[e].pred \in Bundle
    BY <1>0, RowTypes
  <2>3. Finished(d)' /\ Finished(p)' /\ p.attempt = d.attempt
    BY <1>1, <1>3, <1>7 DEF Finished, Delivered, Unfinished
  <2> SUFFICES ASSUME NEW e \in Bundle, results'[e].pred # NoBundle
               PROVE  \E q \in Bundle : /\ results'[e].pred = q /\ Finished(e)' /\ Finished(q)'
                                        /\ q.attempt = e.attempt
    BY DEF DecisionsFollowReceipts, Finished, Delivered, Unfinished
  <2>4. CASE e = d
    BY <1>3, <2>3, <2>4
  <2>5. CASE e # d
    BY <1>3, <2>1, <2>2, <2>5
  <2> QED BY <2>4, <2>5
<1>21. DecisionsWellFounded'
  <2> SUFFICES ASSUME NEW S \in SUBSET {e \in Bundle : results'[e].pred # NoBundle}, S # {}
               PROVE  \E e \in S : results'[e].pred \notin S
    BY DEF DecisionsWellFounded
  <2>1. S \ {d} \in SUBSET {e \in Bundle : results[e].pred # NoBundle}
    BY <1>3
  <2>2. CASE S \ {d} # {}
    <3>1. PICK e \in S \ {d} : results[e].pred \notin S \ {d}
      BY <1>0, <2>1, <2>2 DEF DecisionsWellFounded
    <3>2. e \in Bundle /\ results'[e].pred = results[e].pred /\ results[e].pred # d
      BY <1>3, <1>5, <3>1
    <3> QED BY <3>1, <3>2
  <2>3. CASE S \ {d} = {}
    BY <1>1, <1>3, <2>3
  <2> QED BY <2>2, <2>3
<1>22. EffectiveDecisionIsCurrent'
  <2> SUFFICES ASSUME NEW c \in Bundle, results'[c].state \in Verdict, Successors(c)' = {},
                      work'[attempts[c.attempt]].attempt = c.attempt
               PROVE  work'[attempts[c.attempt]].result = c
    BY <1>1 DEF EffectiveDecisionIsCurrent
  <2>1. CASE c = d
    BY <1>1, <1>4, <2>1
  <2>2. CASE c # d
    <3>1. c # p /\ results[c].state \in Verdict /\ Successors(c) = {}
      BY <1>3, <1>8, <2>2
    <3>2. attempts[c.attempt] \in Task
      BY <1>0, <3>1, BundleAttempt DEF DeliveredWasDrawn, Delivered, QueueTypeOK, Verdict, Dispositions
    <3>3. CASE attempts[c.attempt] = u
      BY <1>0, <1>2, <1>4, <3>1, <3>3 DEF EffectiveDecisionIsCurrent
    <3>4. CASE attempts[c.attempt] # u
      BY <1>0, <1>4, <3>1, <3>2, <3>4 DEF EffectiveDecisionIsCurrent
    <3> QED BY <3>3, <3>4
  <2> QED BY <2>1, <2>2
<1> QED
  BY <1>0, <1>12, <1>13, <1>14, <1>15, <1>16, <1>17, <1>18, <1>19, <1>20, <1>21, <1>22 DEF QueueInv

LEMMA InvStep == QueueInv /\ [QueueNext]_queueVars => QueueInv'
<1> SUFFICES ASSUME QueueInv, [QueueNext]_queueVars PROVE QueueInv'
  OBVIOUS
<1>1. QueueTypeOK'
  BY TypeStep DEF QueueInv
<1>2. CASE \/ \E t \in Task : Register(t) \/ RegisterBlocked(t) \/ TimePasses(t)
           \/ \E X, L : SupersedePending(X, L)
           \/ \E R : Recover(R)
           \/ UNCHANGED queueVars
  BY <1>1, <1>2, StatusOnlySteps
<1>3. ASSUME NEW t \in Task, NEW a \in Attempt, Claim(t, a) PROVE QueueInv'
  BY <1>1, <1>3, ClaimStep
<1>4. ASSUME NEW b \in Bundle, RegisterResult(b) PROVE QueueInv'
  BY <1>1, <1>4, RegisterResultStep
<1>5. ASSUME NEW b \in Bundle, NEW s \in Verdict, Finish(b, s) PROVE QueueInv'
  BY <1>1, <1>5, FinishStep
<1>6. ASSUME NEW p \in Bundle, NEW d \in Bundle, NEW s \in DOMAIN DecisionOutcome,
             AppendDecision(p, d, s)
      PROVE  QueueInv'
  BY <1>1, <1>6, AppendStep
<1> QED
  BY <1>2, <1>3, <1>4, <1>5, <1>6 DEF QueueNext

(* QueueInv holds in every reachable state of the queue.                   *)
THEOREM QueueInvariant == QueueSpec => []QueueInv
  BY InvInit, InvStep, PTL DEF QueueSpec

(* Of all deliveries for one attempt at most one carries its verdict.      *)
THEOREM OneVerdict == QueueSpec => []OneVerdictPerAttempt
<1>1. QueueInv => OneVerdictPerAttempt
  BY DEF QueueInv
<1> QED BY <1>1, QueueInvariant, PTL

(* An unfinished delivery is the running attempt's or was beaten by a      *)
(* sibling delivery of the same attempt: none is ever lost.                *)
THEOREM NoDeliveryLost == QueueSpec => []DeliveriesAccounted
<1>1. QueueInv => DeliveriesAccounted
  BY DEF QueueInv
<1> QED BY <1>1, QueueInvariant, PTL

(* The admission decisions on a receipt form one finite path, and a task's *)
(* row names the end of the path and agrees with it.                       *)
THEOREM DecisionsAgree ==
  QueueSpec => [](RowNamesItsDecision /\ DecisionsFormAPath /\ EffectiveDecisionIsCurrent)
<1>1. QueueInv => RowNamesItsDecision /\ DecisionsFormAPath /\ EffectiveDecisionIsCurrent
  BY DEF QueueInv, DecisionsFormAPath
<1> QED BY <1>1, QueueInvariant, PTL

-----------------------------------------------------------------------------
(* Steps that a queue never takes.                                         *)

LEMMA ReceiptStep ==
  QueueInv /\ [QueueNext]_queueVars =>
    [\A b \in Bundle : Finished(b) => results'[b] = results[b]]_queueVars
<1> SUFFICES ASSUME QueueTypeOK, QueueNext, NEW b \in Bundle, Finished(b)
             PROVE  results'[b] = results[b]
  BY DEF QueueInv
<1> USE DEF QueueTypeOK
<1>1. ASSUME NEW t \in Task, Register(t) \/ RegisterBlocked(t) \/ TimePasses(t)
      PROVE  results'[b] = results[b]
  BY <1>1 DEF Register, RegisterBlocked, TimePasses
<1>2. ASSUME NEW X, NEW L, SupersedePending(X, L) PROVE results'[b] = results[b]
  BY <1>2 DEF SupersedePending
<1>3. ASSUME NEW t \in Task, NEW a \in Attempt, Claim(t, a) PROVE results'[b] = results[b]
  BY <1>3 DEF Claim
<1>4. ASSUME NEW R, Recover(R) PROVE results'[b] = results[b]
  BY <1>4 DEF Recover
<1>5. ASSUME NEW c \in Bundle, RegisterResult(c) PROVE results'[b] = results[b]
  BY <1>5 DEF RegisterResult
<1>6. ASSUME NEW c \in Bundle, NEW s \in Verdict, Finish(c, s) PROVE results'[b] = results[b]
  BY <1>6 DEF Finish, Finished
<1>7. ASSUME NEW p \in Bundle, NEW d \in Bundle, NEW s \in DOMAIN DecisionOutcome,
             AppendDecision(p, d, s)
      PROVE  results'[b] = results[b]
  BY <1>7 DEF AppendDecision, Finished
<1> QED
  BY <1>1, <1>2, <1>3, <1>4, <1>5, <1>6, <1>7 DEF QueueNext

(* No operation rewrites a finished receipt.                               *)
THEOREM ReceiptsImmutable == QueueSpec => ReceiptsAreImmutable
  BY QueueInvariant, ReceiptStep, PTL DEF QueueSpec, ReceiptsAreImmutable

Decided == Dispositions \ {"retry_wait"}

LEMMA DecidedStep ==
  QueueInv /\ [QueueNext]_queueVars =>
    [\A t \in Task : work[t].status \in Dispositions \ {"retry_wait"} =>
       /\ work'[t].status \in Dispositions \ {"retry_wait"}
       /\ work'[t].attempt = work[t].attempt]_queueVars
<1> SUFFICES ASSUME QueueInv, QueueTypeOK, QueueNext, NEW t \in Task, work[t].status \in Decided
             PROVE  work'[t].status \in Decided /\ work'[t].attempt = work[t].attempt
  BY DEF QueueInv, Decided
<1>0. /\ work[t].status \notin {"absent", "pending", "running", "retry_wait"}
      /\ work[t] \in WorkRow
  BY DEF Decided, Dispositions, QueueTypeOK
<1>1. ASSUME NEW u \in Task, Register(u) \/ RegisterBlocked(u) \/ TimePasses(u)
      PROVE  work'[t] = work[t]
  BY <1>0, <1>1 DEF Register, RegisterBlocked, TimePasses, QueueTypeOK
<1>2. ASSUME NEW X, NEW L, SupersedePending(X, L) PROVE work'[t] = work[t]
  BY <1>0, <1>2 DEF SupersedePending, Cancellable
<1>3. ASSUME NEW u \in Task, NEW a \in Attempt, Claim(u, a) PROVE work'[t] = work[t]
  BY <1>0, <1>3 DEF Claim, Claimable, QueueTypeOK
<1>4. ASSUME NEW R, Recover(R) PROVE work'[t] = work[t]
  BY <1>0, <1>4 DEF Recover, Recoverable
<1>5. ASSUME NEW c \in Bundle, RegisterResult(c) PROVE work'[t] = work[t]
  BY <1>5 DEF RegisterResult
<1>6. ASSUME NEW c \in Bundle, NEW s \in Verdict, Finish(c, s) PROVE work'[t] = work[t]
  <2>1. attempts[c.attempt] # t
    BY <1>0, <1>6 DEF Finish, Active
  <2> QED BY <1>6, <2>1 DEF Finish, QueueTypeOK
<1>7. ASSUME NEW p \in Bundle, NEW d \in Bundle, NEW s \in DOMAIN DecisionOutcome,
             AppendDecision(p, d, s)
      PROVE  work'[t].status \in Decided /\ work'[t].attempt = work[t].attempt
  <2>1. s \in Decided
    BY DEF DecisionOutcome, Decided, Dispositions
  <2>2. CASE attempts[p.attempt] = t
    BY <1>0, <1>7, <2>1, <2>2 DEF AppendDecision, QueueTypeOK, WorkRow
  <2>3. CASE attempts[p.attempt] # t
    BY <1>7, <2>3 DEF AppendDecision, QueueTypeOK
  <2> QED BY <2>2, <2>3
<1> QED
  BY <1>1, <1>2, <1>3, <1>4, <1>5, <1>6, <1>7 DEF QueueNext

(* A decided or cancelled task is never queued or dispatched again.        *)
THEOREM DecidedIsFinal == QueueSpec => DecidedStaysDecided
  BY QueueInvariant, DecidedStep, PTL DEF QueueSpec, DecidedStaysDecided

(* What the run checks of the state: the tables agree.                     *)
THEOREM QueueTablesAgree == QueueSpec => []QueueAgrees
<1>1. QueueInv => QueueAgrees
  BY DEF QueueInv, QueueAgrees
<1> QED BY <1>1, QueueInvariant, PTL

(* Decisions about decisions have one outcome: the path of decisions from  *)
(* a receipt ends, at the receipt its task's row names.                    *)
THEOREM DecisionsHaveOneOutcome == QueueSpec => []DecisionsCohere
<1>1. QueueInv => DecisionsCohere
  BY DEF QueueInv, DecisionsCohere, DecisionsFormAPath
<1> QED BY <1>1, QueueInvariant, PTL

(* What the run checks of the steps: receipts and dispositions stay.       *)
THEOREM DecisionsAreKept == QueueSpec => DecisionsStand
  BY ReceiptsImmutable, DecidedIsFinal DEF DecisionsStand

-----------------------------------------------------------------------------
(* The queue implements the attempt ledger.                                *)

LEMMA LedgerInitially == QueueInit => Ledger!LedgerInit
<1> SUFFICES ASSUME QueueInit PROVE Ledger!LedgerInit
  OBVIOUS
<1>1. \A t \in Task : work[t].status = "absent" /\ work[t].attempt = NoAttempt
  BY DEF QueueInit, Unregistered
<1>2. \A b \in Bundle : results[b].state = "absent"
  BY DEF QueueInit, NoResult
<1>3. \A a \in Attempt : attempts[a] = NoTask
  BY DEF QueueInit
<1> QED
  BY <1>1, <1>2, <1>3 DEF Ledger!LedgerInit, PhaseOf, Judged, Verdict, Dispositions

(* Steps that leave every verdict alone move phases only.                  *)
LEMMA SameLedger ==
  ASSUME attempts' = attempts,
         \A b \in Bundle : results'[b].state \in Verdict <=> results[b].state \in Verdict
  PROVE  /\ {a \in Attempt : attempts'[a] # NoTask} = {a \in Attempt : attempts[a] # NoTask}
         /\ {a \in Attempt : Judged(a)'} = {a \in Attempt : Judged(a)}
  BY DEF Judged

LEMMA LedgerStatusOnly ==
  ASSUME QueueInv,
         \/ \E t \in Task : Register(t) \/ RegisterBlocked(t) \/ TimePasses(t)
         \/ \E X, L : SupersedePending(X, L)
         \/ \E R : Recover(R)
  PROVE  [Ledger!LedgerNext]_(Ledger!ledgerVars)
<1> USE DEF QueueInv, QueueTypeOK
<1> DEFINE ph(t) == PhaseOf(work[t].status)
           drawn == {a \in Attempt : attempts[a] # NoTask}
           judged == {a \in Attempt : Judged(a)}
<1>1. results' = results /\ attempts' = attempts
  BY DEF Register, RegisterBlocked, TimePasses, SupersedePending, Recover
<1>2. drawn' = drawn /\ judged' = judged
  BY <1>1 DEF Judged
<1>3. ASSUME NEW t \in Task, Register(t) \/ RegisterBlocked(t)
      PROVE  Ledger!Enroll(t)
  <2>1. /\ work[t].status = "absent" /\ work'[t].attempt = work[t].attempt
        /\ work'[t].status \in {"pending", "blocked"}
        /\ \A u \in Task : u # t => work'[u] = work[u]
    BY <1>3 DEF Register, RegisterBlocked, WorkRow
  <2>2. \A u \in Task : work'[u].attempt = work[u].attempt
    BY <2>1
  <2>3. PhaseOf(work[t].status) = "idle"
    BY <2>1 DEF PhaseOf
  <2>4. CASE work'[t].status = "pending"
    <3>1. PhaseOf(work'[t].status) = "queued"
      BY <2>4 DEF PhaseOf
    <3> QED BY <1>2, <2>1, <2>2, <2>3, <3>1 DEF Ledger!Enroll, Ledger!Move
  <2>5. CASE work'[t].status = "blocked"
    <3>1. PhaseOf(work'[t].status) = "settled"
      BY <2>5 DEF PhaseOf
    <3> QED BY <1>2, <2>1, <2>2, <2>3, <3>1 DEF Ledger!Enroll, Ledger!Move
  <2> QED BY <2>1, <2>4, <2>5
<1>4. ASSUME NEW t \in Task, TimePasses(t) PROVE UNCHANGED Ledger!ledgerVars
  <2>1. \A u \in Task : work'[u].status = work[u].status /\ work'[u].attempt = work[u].attempt
    BY <1>4 DEF TimePasses, WorkRow
  <2> QED BY <1>2, <2>1 DEF Ledger!ledgerVars
<1>5. ASSUME NEW X, NEW L, SupersedePending(X, L)
      PROVE  \E tasks \in SUBSET Task : Ledger!Cancel(tasks)
  <2> DEFINE S == {t \in Task : t.binding \in X /\ t.lane \in L /\ Cancellable(t)}
  <2>1. ASSUME NEW t \in Task
        PROVE  /\ t \notin S => work'[t] = work[t]
               /\ t \in S => /\ work[t].status \in {"pending", "retry_wait"}
                             /\ work'[t].status = "superseded"
                             /\ work'[t].attempt = work[t].attempt
    <3>1. work[t] \in WorkRow
      OBVIOUS
    <3> QED BY <1>5, <3>1 DEF SupersedePending, Cancellable, WorkRow
  <2>2. \A t \in Task : work'[t].attempt = work[t].attempt
    BY <2>1
  <2>3. \A t \in S : PhaseOf(work[t].status) = "queued" /\ PhaseOf(work'[t].status) = "settled"
    BY <2>1 DEF PhaseOf
  <2>4. Ledger!Cancel(S)
    BY <1>2, <2>1, <2>2, <2>3 DEF Ledger!Cancel, Ledger!Move
  <2> QED BY <2>4
<1>6. ASSUME NEW R, Recover(R)
      PROVE  \E tasks \in SUBSET Task : Ledger!GiveBack(tasks)
  <2> DEFINE S == {t \in Task : t \in R /\ Recoverable(t)}
  <2>1. ASSUME NEW t \in Task
        PROVE  /\ t \notin S => work'[t] = work[t]
               /\ t \in S => /\ work[t].status = "running"
                             /\ work'[t].status = "pending"
                             /\ work'[t].attempt = work[t].attempt
    <3>1. work[t] \in WorkRow
      OBVIOUS
    <3> QED BY <1>6, <3>1 DEF Recover, Recoverable, WorkRow
  <2>2. \A t \in Task : work'[t].attempt = work[t].attempt
    BY <2>1
  <2>3. \A t \in S : PhaseOf(work[t].status) = "inflight" /\ PhaseOf(work'[t].status) = "queued"
    BY <2>1 DEF PhaseOf
  <2>4. \A t \in S : work[t].attempt \notin judged
    BY <2>1 DEF QueuedIsUnjudged, Judged
  <2>5. Ledger!GiveBack(S)
    BY <1>2, <2>1, <2>2, <2>3, <2>4 DEF Ledger!GiveBack, Ledger!Move
  <2> QED BY <2>5
<1> QED
  BY <1>3, <1>4, <1>5, <1>6 DEF Ledger!LedgerNext

(* A row only ever names receipts that carry a verdict.                    *)
NamedIsJudged ==
  \A t \in Task : work[t].result # NoBundle => results[work[t].result].state \in Verdict

LEMMA NamedInit == QueueInit => NamedIsJudged
  BY DEF QueueInit, NamedIsJudged, Unregistered

LEMMA NamedStep == QueueInv /\ NamedIsJudged /\ [QueueNext]_queueVars => NamedIsJudged'
<1> SUFFICES ASSUME QueueInv, NamedIsJudged, [QueueNext]_queueVars, NEW t \in Task,
                    work'[t].result # NoBundle
             PROVE  results'[work'[t].result].state \in Verdict
  BY DEF NamedIsJudged
<1>1. QueueTypeOK
  BY DEF QueueInv
<1>2. ASSUME NEW r \in Bundle, r = work[t].result PROVE results'[r].state \in Verdict
  <2>1. results[r].state \in Verdict
    BY <1>2, QueueAssumption DEF NamedIsJudged
  <2>2. Finished(r)
    BY <2>1 DEF Finished, Delivered, Unfinished, Verdict, Dispositions
  <2>3. CASE UNCHANGED queueVars
    BY <2>1, <2>3 DEF queueVars
  <2>4. CASE ~UNCHANGED queueVars
    BY <2>1, <2>2, <2>4, ReceiptStep
  <2> QED BY <2>3, <2>4
<1>3. CASE work'[t].result = work[t].result
  BY <1>1, <1>2, <1>3, RowTypes
<1>4. ASSUME NEW b \in Bundle, NEW s \in Verdict, Finish(b, s), work'[t].result # work[t].result
      PROVE  work'[t].result = b /\ results'[b].state \in Verdict
  <2>1. work[t] \in WorkRow
    BY <1>1 DEF QueueTypeOK
  <2> QED BY <1>1, <1>4, <2>1 DEF Finish, QueueTypeOK, WorkRow
<1>5. ASSUME NEW p \in Bundle, NEW d \in Bundle, NEW s \in DOMAIN DecisionOutcome,
             AppendDecision(p, d, s), work'[t].result # work[t].result
      PROVE  work'[t].result = d /\ results'[d].state \in Verdict
  <2>1. work[t] \in WorkRow
    BY <1>1 DEF QueueTypeOK
  <2>2. s \in Verdict
    BY DEF DecisionOutcome, Verdict, Dispositions
  <2> QED BY <1>1, <1>5, <2>1, <2>2 DEF AppendDecision, QueueTypeOK, WorkRow
<1>6. ASSUME NEW u \in Task, Register(u) \/ RegisterBlocked(u) \/ TimePasses(u)
      PROVE  work'[t].result = work[t].result
  BY <1>1, <1>6, RowTypes DEF Register, RegisterBlocked, TimePasses, QueueTypeOK, WorkRow
<1>7. ASSUME NEW X, NEW L, SupersedePending(X, L) PROVE work'[t].result = work[t].result
  BY <1>1, <1>7, RowTypes DEF SupersedePending, WorkRow
<1>8. ASSUME NEW u \in Task, NEW a \in Attempt, Claim(u, a) PROVE work'[t].result = work[t].result
  BY <1>1, <1>8, RowTypes DEF Claim, QueueTypeOK, WorkRow
<1>9. ASSUME NEW R, Recover(R) PROVE work'[t].result = work[t].result
  BY <1>1, <1>9, RowTypes DEF Recover, WorkRow
<1>10. ASSUME NEW b \in Bundle, RegisterResult(b) PROVE work'[t].result = work[t].result
  BY <1>10 DEF RegisterResult
<1>11. CASE UNCHANGED queueVars
  BY <1>3, <1>11 DEF queueVars
<1> QED
  BY <1>3, <1>4, <1>5, <1>6, <1>7, <1>8, <1>9, <1>10, <1>11 DEF QueueNext

LEMMA LedgerClaim ==
  ASSUME QueueInv, NEW t \in Task, NEW a \in Attempt, Claim(t, a)
  PROVE  Ledger!Dispatch(t, a)
<1>1. QueueTypeOK
  BY DEF QueueInv
<1>2. /\ results' = results
      /\ attempts[a] = NoTask /\ attempts'[a] = t
      /\ \A c \in Attempt : c # a => attempts'[c] = attempts[c]
      /\ work[t].status \in {"pending", "retry_wait"}
      /\ work'[t].attempt = a /\ work'[t].status = "running"
      /\ \A u \in Task : u # t => work'[u] = work[u]
  BY <1>1, RowTypes DEF Claim, Claimable, QueueTypeOK, WorkRow
<1>3. PhaseOf(work[t].status) = "queued" /\ PhaseOf(work'[t].status) = "inflight"
  BY <1>2 DEF PhaseOf
<1>4. {c \in Attempt : attempts'[c] # NoTask} = {c \in Attempt : attempts[c] # NoTask} \union {a}
  BY <1>2, QueueAssumption
<1>5. {c \in Attempt : Judged(c)'} = {c \in Attempt : Judged(c)}
  BY <1>2 DEF Judged
<1>6. [u \in Task |-> work'[u].attempt] = [[u \in Task |-> work[u].attempt] EXCEPT ![t] = a]
  BY <1>2
<1>7. [u \in Task |-> PhaseOf(work'[u].status)]
        = [u \in Task |-> IF u \in {t} THEN "inflight" ELSE PhaseOf(work[u].status)]
  BY <1>2, <1>3
<1> QED
  BY <1>2, <1>3, <1>4, <1>5, <1>6, <1>7 DEF Ledger!Dispatch, Ledger!Move

LEMMA LedgerRegisterResult ==
  ASSUME QueueInv, NEW b \in Bundle, RegisterResult(b)
  PROVE  UNCHANGED Ledger!ledgerVars
<1>1. QueueTypeOK /\ work' = work /\ attempts' = attempts
  BY DEF QueueInv, RegisterResult
<1>2. /\ results[b].state \in {"absent", "extracted"}
      /\ results'[b].state \in {"extracted", "superseded"}
      /\ \A c \in Bundle : c # b => results'[c] = results[c]
  BY <1>1, RowTypes DEF RegisterResult, QueueTypeOK, Finished, Delivered, Unfinished, ResultRow
<1>3. \A c \in Bundle : results'[c].state \in Verdict <=> results[c].state \in Verdict
  BY <1>2 DEF Verdict, Dispositions
<1> QED
  BY <1>1, <1>3, SameLedger DEF Ledger!ledgerVars

LEMMA LedgerFinish ==
  ASSUME QueueInv, NEW b \in Bundle, NEW s \in Verdict, Finish(b, s)
  PROVE  Ledger!Judge(attempts[b.attempt])
<1> DEFINE u == attempts[b.attempt]
           a == b.attempt
<1>0. QueueTypeOK /\ DeliveredWasDrawn /\ QueuedIsUnjudged
  BY DEF QueueInv
<1>1. u \in Task /\ work[u].attempt = a /\ work[u].status = "running" /\ a \in Attempt
  BY <1>0, BundleAttempt DEF Finish, Active, Unfinished, DeliveredWasDrawn, Delivered, QueueTypeOK
<1>2. work[u] \in WorkRow
  BY <1>0, <1>1 DEF QueueTypeOK
<1>3. /\ attempts' = attempts
      /\ results'[b].state = s
      /\ \A c \in Bundle : c # b => results'[c] = results[c]
      /\ work'[u].status = s /\ work'[u].attempt = a
      /\ \A t \in Task : t # u => work'[t] = work[t]
  BY <1>0, <1>1, <1>2 DEF Finish, QueueTypeOK, WorkRow, ResultRow
<1>4. ~Judged(a)
  BY <1>0, <1>1 DEF QueuedIsUnjudged, Judged
<1>5. {c \in Attempt : Judged(c)'} = {c \in Attempt : Judged(c)} \union {a}
  <2>1. ASSUME NEW c \in Attempt PROVE Judged(c)' <=> Judged(c) \/ c = a
    <3>1. results[b].state \notin Verdict
      BY <1>1, <1>4 DEF Judged
    <3> QED BY <1>3, <3>1 DEF Judged
  <2> QED BY <1>1, <2>1
<1>6. PhaseOf(work[u].status) = "inflight" /\ PhaseOf(work'[u].status) \in {"queued", "settled"}
  BY <1>1, <1>3 DEF PhaseOf, Verdict, Dispositions
<1>7. \A t \in Task : work'[t].attempt = work[t].attempt
  BY <1>1, <1>3
<1>8. [t \in Task |-> PhaseOf(work'[t].status)]
        = [t \in Task |-> IF t \in {u} THEN PhaseOf(work'[u].status) ELSE PhaseOf(work[t].status)]
  BY <1>3
<1> QED
  BY <1>1, <1>3, <1>4, <1>5, <1>6, <1>7, <1>8 DEF Ledger!Judge, Ledger!Move

LEMMA LedgerAppend ==
  ASSUME QueueInv, NamedIsJudged, NEW p \in Bundle, NEW d \in Bundle,
         NEW s \in DOMAIN DecisionOutcome, AppendDecision(p, d, s)
  PROVE  Ledger!Revise(attempts[p.attempt])
<1> DEFINE u == attempts[p.attempt]
           a == p.attempt
<1>0. QueueTypeOK /\ DeliveredWasDrawn
  BY DEF QueueInv
<1>1. /\ Delivered(p) /\ d.attempt = a /\ a \in Attempt /\ results[d].state = "absent" /\ d # p
      /\ attempts' = attempts /\ s \in Verdict \ {"retry_wait", "failed"}
  BY BundleAttempt DEF AppendDecision, Finished, Delivered, DecisionOutcome, Verdict, Dispositions
<1>2. u \in Task /\ work[u].attempt = a /\ work[u].result = p /\ work[u].status = results[p].state
  BY <1>0, <1>1 DEF DeliveredWasDrawn, QueueTypeOK, AppendDecision
<1>3. results[p].state \in Verdict
  BY <1>2, QueueAssumption DEF NamedIsJudged
<1>4. work[u] \in WorkRow
  BY <1>0, <1>2 DEF QueueTypeOK
<1>5. /\ results'[d].state = s
      /\ \A c \in Bundle : c # d => results'[c] = results[c]
      /\ work'[u].status = s /\ work'[u].attempt = a
      /\ \A t \in Task : t # u => work'[t] = work[t]
  BY <1>0, <1>2, <1>4 DEF AppendDecision, QueueTypeOK, WorkRow
<1>6. {c \in Attempt : Judged(c)'} = {c \in Attempt : Judged(c)}
  <2>1. ASSUME NEW c \in Attempt PROVE Judged(c)' <=> Judged(c)
    <3>1. results[d].state \notin Verdict
      BY <1>1 DEF Verdict, Dispositions
    <3> QED BY <1>1, <1>3, <1>5, <3>1 DEF Judged
  <2> QED BY <2>1
<1>7. a \in {c \in Attempt : Judged(c)}
  BY <1>1, <1>3 DEF Judged
<1>8. PhaseOf(work[u].status) \in {"queued", "settled"} /\ PhaseOf(work'[u].status) = "settled"
  BY <1>1, <1>2, <1>3, <1>5 DEF PhaseOf, Verdict, Dispositions
<1>9. \A t \in Task : work'[t].attempt = work[t].attempt
  BY <1>2, <1>5
<1>10. [t \in Task |-> PhaseOf(work'[t].status)]
         = [t \in Task |-> IF t \in {u} THEN "settled" ELSE PhaseOf(work[t].status)]
  BY <1>5, <1>8
<1> QED
  BY <1>1, <1>2, <1>6, <1>7, <1>8, <1>9, <1>10 DEF Ledger!Revise, Ledger!Move

LEMMA LedgerStep ==
  QueueInv /\ NamedIsJudged /\ [QueueNext]_queueVars => [Ledger!LedgerNext]_(Ledger!ledgerVars)
<1> SUFFICES ASSUME QueueInv, NamedIsJudged, [QueueNext]_queueVars
             PROVE  [Ledger!LedgerNext]_(Ledger!ledgerVars)
  OBVIOUS
<1>1. CASE UNCHANGED queueVars
  BY <1>1 DEF queueVars, Ledger!ledgerVars, Judged
<1>2. CASE \/ \E t \in Task : Register(t) \/ RegisterBlocked(t) \/ TimePasses(t)
           \/ \E X, L : SupersedePending(X, L)
           \/ \E R : Recover(R)
  BY <1>2, LedgerStatusOnly
<1>3. ASSUME NEW t \in Task, NEW a \in Attempt, Claim(t, a) PROVE Ledger!LedgerNext
  BY <1>3, LedgerClaim DEF Ledger!LedgerNext
<1>4. ASSUME NEW b \in Bundle, RegisterResult(b) PROVE UNCHANGED Ledger!ledgerVars
  BY <1>4, LedgerRegisterResult
<1>5. ASSUME NEW b \in Bundle, NEW s \in Verdict, Finish(b, s) PROVE Ledger!LedgerNext
  <2>1. attempts[b.attempt] \in Task
    BY <1>5, BundleAttempt DEF Finish, Unfinished, Delivered, DeliveredWasDrawn, QueueTypeOK, QueueInv
  <2> QED BY <1>5, <2>1, LedgerFinish DEF Ledger!LedgerNext
<1>6. ASSUME NEW p \in Bundle, NEW d \in Bundle, NEW s \in DOMAIN DecisionOutcome,
             AppendDecision(p, d, s)
      PROVE  Ledger!LedgerNext
  <2>1. attempts[p.attempt] \in Task
    BY <1>6, BundleAttempt
       DEF AppendDecision, Finished, Delivered, DeliveredWasDrawn, QueueTypeOK, QueueInv
  <2> QED BY <1>6, <2>1, LedgerAppend DEF Ledger!LedgerNext
<1> QED
  BY <1>1, <1>2, <1>3, <1>4, <1>5, <1>6 DEF QueueNext

(* The tables implement the attempt ledger: whatever calls are made, an    *)
(* attempt is dispatched once, judged at most once, and never given back   *)
(* to the queue after it was judged.                                       *)
THEOREM QueueImplementsLedger == QueueSpec => ImplementsLedger
<1>1. QueueSpec => [](QueueInv /\ NamedIsJudged)
  <2>1. QueueInv /\ NamedIsJudged /\ [QueueNext]_queueVars => (QueueInv /\ NamedIsJudged)'
    BY InvStep, NamedStep
  <2> QED BY <2>1, InvInit, NamedInit, PTL DEF QueueSpec
<1> QED
  BY <1>1, LedgerInitially, LedgerStep, PTL DEF QueueSpec, ImplementsLedger, Ledger!LedgerSpec

-----------------------------------------------------------------------------
(* The coordinator that drives it.                                         *)

PipelineNext == Next \/ Quarantine

AttemptsHaveLanes ==
  \A a \in Attempt : attempts[a] # NoTask => attempts[a] \in Task /\ attempts[a].lane \in Lane

(* The run handles bundles of registered attempts only.                    *)
Wiring ==
  /\ spool \subseteq Bundle /\ deferred \subseteq Bundle /\ inbox \subseteq spool
  /\ \A b \in spool \union deferred : attempts[b.attempt] # NoTask
  /\ extracting \subseteq Attempt
  /\ \A a \in extracting : attempts[a] # NoTask
  /\ run.lanes \subseteq Lane /\ run.scope \subseteq Binding

JobInv ==
  /\ job.step # "none" => job.bundle \in Bundle /\ attempts[job.bundle.attempt] # NoTask
  /\ job.step = "settle" => job.state \in Admitted
  /\ pc = "quarantine" =>
       job.step = "quarantine" /\ work[attempts[job.bundle.attempt]].result \in Bundle

PipeInv == QueueInv /\ AttemptsHaveLanes /\ Wiring /\ JobInv

-----------------------------------------------------------------------------
(* Operands of the queue's operations.                                     *)

LEMMA BundleOfAttempt ==
  ASSUME AttemptsHaveLanes, NEW b \in Bundle, attempts[b.attempt] # NoTask
  PROVE  /\ b.attempt \in Attempt
         /\ attempts[b.attempt] \in Task
         /\ LaneOf(b) \in Lane
         /\ BindingOf(b) \in Binding
  BY BundleAttempt DEF AttemptsHaveLanes, LaneOf, BindingOf, Task

LEMMA TaskOfIsTask ==
  ASSUME NEW x \in Binding, NEW l \in Lane \union {NoLane} PROVE TaskOf(x, l) \in Task
  BY DEF TaskOf, Task

LEMMA RulingsAreVerdicts ==
  ASSUME NEW b \in Bundle PROVE Rulings(b) \subseteq Verdict
  BY QueueAssumption DEF Rulings, VerdictOf, Verdict, Dispositions, Bundle, AnyOutcome

(* A decision on the receipt that the row of a decided task names.         *)
LEMMA AppendsToReceipt ==
  ASSUME QueueInv, AttemptsHaveLanes,
         NEW b \in Bundle, attempts[b.attempt] # NoTask,
         work[attempts[b.attempt]].status \in Verdict,
         NEW p, NEW d \in Bundle, d.attempt = b.attempt, NEW s, AppendDecision(p, d, s)
  PROVE  p \in Bundle /\ QueueNext
<1> DEFINE t == attempts[b.attempt]
<1>1. t \in Task /\ t.lane \in Lane
  BY BundleOfAttempt DEF LaneOf
<1>2. p.attempt = b.attempt /\ work[t].result = p /\ s \in DOMAIN DecisionOutcome
  BY DEF AppendDecision
<1>3. work[t].result # NoBundle
  BY <1>1, QueueAssumption DEF QueueInv, RowNamesItsDecision
<1>4. work[t].result \in Bundle \union {NoBundle}
  BY <1>1, RowTypes DEF QueueInv
<1>5. p \in Bundle
  BY <1>2, <1>3, <1>4
<1> QED BY <1>2, <1>5 DEF QueueNext

-----------------------------------------------------------------------------
(* Every step of the pipeline is a call of the queue or leaves it alone.   *)

LEMMA ReceiveUsesQueue ==
  ASSUME NEW b \in Bundle, Receive(b) PROVE [QueueNext]_queueVars
  BY DEF Receive, QueueNext, queueVars

LEMMA IngestUsesQueue ==
  ASSUME PipeInv, Ingest PROVE [QueueNext]_queueVars
<1> DEFINE b == job.bundle
<1>1. b \in Bundle /\ attempts[b.attempt] # NoTask
  BY DEF PipeInv, JobInv, Ingest
<1>2. CASE IngestNew(b)
  BY <1>1, <1>2, RulingsAreVerdicts DEF IngestNew, QueueNext
<1>3. CASE IngestAgain(b)
  BY <1>3 DEF IngestAgain
<1>4. ASSUME Reconsidered(b), NEW outcome, NEW d \in Fresh(b, outcome), NEW s,
             AppendDecision(EffectiveDecision[b], d, s)
      PROVE  QueueNext
  <2>1. work[attempts[b.attempt]].status \in Verdict
    BY <1>4 DEF Reconsidered, Verdict, Dispositions
  <2>2. d \in Bundle /\ d.attempt = b.attempt
    BY DEF Fresh
  <2> QED BY <1>1, <1>4, <2>1, <2>2, AppendsToReceipt DEF PipeInv
<1>5. CASE Readmit(b)
  BY <1>4, <1>5 DEF Readmit
<1>6. CASE RowsRefused(b)
  BY <1>1, <1>4, <1>6 DEF RowsRefused, QueueNext, Verdict, Dispositions
<1> QED BY <1>2, <1>3, <1>5, <1>6 DEF Ingest

LEMMA SettleUsesQueue ==
  ASSUME PipeInv, Settle PROVE [QueueNext]_queueVars
<1> DEFINE b == job.bundle
           x == BindingOf(b)
           t == attempts[b.attempt]
<1>1. b \in Bundle /\ attempts[b.attempt] # NoTask /\ job.state \in Admitted
  BY DEF PipeInv, JobInv, Settle
<1>2. CASE SupersedePending({x}, Lane)
  <2>1. {x} \in SUBSET Binding
    BY <1>1, BundleOfAttempt DEF PipeInv
  <2> QED BY <1>2, <2>1 DEF QueueNext
<1>3. CASE work[t].status = job.state /\ AppendDecision(EffectiveDecision[b], RefusalOf(b), "needs_review")
  <2>1. RefusalOf(b) \in Bundle /\ RefusalOf(b).attempt = b.attempt
    BY <1>1, PipelineAssumption DEF RefusalOf, Bundle
  <2>2. work[t].status \in Verdict
    BY <1>1, <1>3 DEF Admitted, Verdict, Dispositions
  <2> QED BY <1>1, <1>3, <2>1, <2>2, AppendsToReceipt DEF PipeInv
<1>4. CASE UNCHANGED queueVars
  BY <1>4
<1> QED BY <1>2, <1>3, <1>4 DEF Settle

LEMMA EscalationRegisters ==
  ASSUME NEW b, NEW l, EscalateTo(b, l), Wiring, BindingOf(b) \in Binding
  PROVE  TaskOf(BindingOf(b), l) \in Task /\ Register(TaskOf(BindingOf(b), l))
<1>1. l \in Lane
  BY DEF EscalateTo, Targets, Later, Wiring
<1> QED BY <1>1, TaskOfIsTask DEF EscalateTo

LEMMA SeedRegisters ==
  ASSUME NEW x \in Binding, Seed(x)
  PROVE  \E t \in Task : Register(t) \/ RegisterBlocked(t)
<1>1. CASE Register(TaskOf(x, FirstLane))
  <2>1. FirstLane \in Lane
    BY <1>1 DEF Register, TaskOf
  <2> QED BY <1>1, <2>1, TaskOfIsTask
<1>2. CASE RegisterBlocked(TaskOf(x, NoLane))
  BY <1>2, TaskOfIsTask
<1> QED BY <1>1, <1>2 DEF Seed

(* Whatever is escalated belongs to a known binding.                       *)
LEMMA EscalatedBindings ==
  ASSUME PipeInv
  PROVE  /\ \A b \in deferred : BindingOf(b) \in Binding
         /\ job.step = "escalate" => BindingOf(job.bundle) \in Binding
  BY BundleOfAttempt DEF PipeInv, Wiring, JobInv

LEMMA RunUsesQueue ==
  ASSUME PipeInv,
         \/ \E x \in Binding : Seed(x)
         \/ \E t \in Task, a \in Attempt : Dispatch(t, a)
         \/ RecoverLeases \/ CancelResolved \/ EscalateDeferred \/ Escalate
  PROVE  [QueueNext]_queueVars
<1>1. ASSUME NEW x \in Binding, Seed(x) PROVE QueueNext
  BY <1>1, SeedRegisters DEF QueueNext
<1>2. ASSUME NEW t \in Task, NEW a \in Attempt, Dispatch(t, a) PROVE QueueNext
  BY <1>2 DEF Dispatch, QueueNext
<1>3. CASE RecoverLeases
  BY <1>3 DEF RecoverLeases, QueueNext
<1>4. CASE CancelResolved
  <2>1. run.scope \intersect resolved \in SUBSET Binding
    BY DEF PipeInv, Wiring
  <2> QED BY <1>4, <2>1 DEF CancelResolved, QueueNext
<1>5. CASE EscalateDeferred
  BY <1>5, EscalatedBindings, EscalationRegisters DEF EscalateDeferred, PipeInv, QueueNext
<1>6. CASE Escalate
  BY <1>6, EscalatedBindings, EscalationRegisters DEF Escalate, PipeInv, QueueNext
<1> QED BY <1>1, <1>2, <1>3, <1>4, <1>5, <1>6

LEMMA QuarantineUsesQueue ==
  ASSUME PipeInv, Quarantine PROVE [QueueNext]_queueVars
<1>1. CASE QuarantineCommit
  <2> DEFINE d == job.bundle
             p == work[attempts[d.attempt]].result
  <2>1. d \in Bundle /\ p \in Bundle /\ AppendDecision(p, d, "needs_review")
    BY <1>1 DEF PipeInv, JobInv, QuarantineCommit
  <2>2. "needs_review" \in DOMAIN DecisionOutcome
    BY DEF DecisionOutcome
  <2> QED BY <2>1, <2>2 DEF QueueNext
<1> QED BY <1>1 DEF Quarantine, QuarantinePublish, QuarantineFails

LEMMA StepUsesQueue ==
  ASSUME PipeInv, [PipelineNext]_vars PROVE [QueueNext]_queueVars
<1>1. CASE OwnerStep
  BY <1>1, IngestUsesQueue, SettleUsesQueue, ReceiveUsesQueue, RunUsesQueue
     DEF OwnerStep, Replay, Collect, PollReview, FutureRaises, CompleteRun, Close, durable
<1>2. CASE \E t \in Task : Lapse(t)
  BY <1>2 DEF Lapse, QueueNext
<1>3. CASE Quarantine
  BY <1>3, QuarantineUsesQueue
<1>4. CASE UNCHANGED vars
  BY <1>4 DEF vars, queueVars
<1> QED BY <1>1, <1>2, <1>3, <1>4
    DEF PipelineNext, Next, StartRun, Abort, Kill, Publish, SignReview, WorkerFails, durable

-----------------------------------------------------------------------------
(* What a call other than claim leaves alone.                              *)

(* No task gets a new attempt or starts running.                           *)
Quiet ==
  /\ attempts' = attempts
  /\ \A t \in Task : /\ work'[t].status = "running" => work[t].status = "running"
                     /\ work'[t].attempt = work[t].attempt

(* The attempts being extracted stay active and undelivered.               *)
Undisturbed ==
  /\ Quiet
  /\ \A a \in extracting : attempts[a] \in Task /\ Active(a) => Active(a)'
  /\ \A c \in Bundle : Delivered(c)' /\ c.attempt \in extracting => Delivered(c)

LEMMA StutterUndisturbed == ASSUME UNCHANGED queueVars PROVE Undisturbed
  BY DEF Undisturbed, Quiet, Active, Delivered, queueVars

LEMMA StatusCallUndisturbed ==
  ASSUME QueueTypeOK,
         \/ \E t \in Task : Register(t) \/ RegisterBlocked(t) \/ TimePasses(t)
         \/ \E X, L : SupersedePending(X, L)
  PROVE  Undisturbed
<1> USE DEF Undisturbed, Quiet, Active, Delivered
<1>1. ASSUME NEW t \in Task, Register(t) \/ RegisterBlocked(t) \/ TimePasses(t)
      PROVE  Undisturbed
  BY <1>1 DEF Register, RegisterBlocked, TimePasses, QueueTypeOK, WorkRow
<1>2. ASSUME NEW X, NEW L, SupersedePending(X, L) PROVE Undisturbed
  <2>1. attempts' = attempts /\ results' = results
    BY <1>2 DEF SupersedePending
  <2>2. \A t \in Task : /\ work'[t].attempt = work[t].attempt
                       /\ \/ work'[t] = work[t]
                          \/ work[t].status # "running" /\ work'[t].status = "superseded"
    <3> SUFFICES ASSUME NEW t \in Task
                 PROVE  /\ work'[t].attempt = work[t].attempt
                        /\ \/ work'[t] = work[t]
                           \/ work[t].status # "running" /\ work'[t].status = "superseded"
      OBVIOUS
    <3>1. work[t] \in WorkRow
      BY DEF QueueTypeOK
    <3>2. \/ work'[t] = work[t]
          \/ /\ Cancellable(t)
             /\ work'[t] = [work[t] EXCEPT !.status = "superseded", !.due = FALSE]
      BY <1>2 DEF SupersedePending
    <3> QED BY <3>1, <3>2 DEF WorkRow, Cancellable
  <2> QED BY <2>1, <2>2
<1> QED BY <1>1, <1>2

LEMMA RecoverIsQuiet ==
  ASSUME QueueTypeOK, NEW tasks, Recover(tasks) PROVE Quiet /\ results' = results
  BY DEF Quiet, Recover, QueueTypeOK, WorkRow

LEMMA RegisterResultUndisturbed ==
  ASSUME QueueTypeOK, NEW b \in Bundle, RegisterResult(b), b.attempt \notin extracting
  PROVE  Undisturbed
  BY DEF Undisturbed, Quiet, RegisterResult, Active, Delivered, QueueTypeOK, ResultRow

LEMMA FinishUndisturbed ==
  ASSUME QueueTypeOK, NEW b \in Bundle, NEW state, Finish(b, state),
         b.attempt \notin extracting
  PROVE  Undisturbed
<1>1. state # "running" /\ Delivered(b)
  BY DEF Finish, Dispositions, Unfinished, Delivered
<1>2. Quiet
  BY <1>1 DEF Quiet, Finish, QueueTypeOK, WorkRow
<1>3. \A a \in extracting : attempts[a] \in Task /\ Active(a) => Active(a)'
  BY <1>2 DEF Finish, Active, QueueTypeOK, WorkRow
<1>4. \A c \in Bundle : Delivered(c)' => Delivered(c)
  BY <1>1 DEF Finish, Delivered, QueueTypeOK, ResultRow
<1> QED BY <1>2, <1>3, <1>4 DEF Undisturbed

LEMMA AppendUndisturbed ==
  ASSUME QueueTypeOK, NEW p \in Bundle, NEW d, NEW state, AppendDecision(p, d, state),
         d.attempt \notin extracting
  PROVE  Undisturbed
<1>1. state # "running" /\ d.attempt = p.attempt
  BY DEF AppendDecision, DecisionOutcome
<1>2. Quiet
  BY <1>1 DEF Quiet, AppendDecision, QueueTypeOK, WorkRow
<1>3. \A a \in extracting : attempts[a] \in Task /\ Active(a) => Active(a)'
  BY <1>1, <1>2 DEF AppendDecision, Active, QueueTypeOK, WorkRow
<1>4. \A c \in Bundle : Delivered(c)' /\ c # d => Delivered(c)
  BY DEF AppendDecision, Delivered, QueueTypeOK, ResultRow
<1> QED BY <1>2, <1>3, <1>4 DEF Undisturbed

-----------------------------------------------------------------------------
(* One extraction at a time.                                               *)

LeasesAreExclusive ==
  \A t, u \in Task :
    work[t].status = "running" /\ work[u].status = "running" /\ t.binding = u.binding => t = u

(* A paid request exists only while its run dispatches or waits for it.    *)
RequestsAreHeld ==
  \A a \in extracting : Paid(a) => Active(a) /\ a \in mine /\ pc \in {"drain", "closing"}

DeliveredIsNotExtracting ==
  \A b \in Bundle : b \in spool \/ Delivered(b) => b.attempt \notin extracting

ExtractInv == LeasesAreExclusive /\ RequestsAreHeld /\ DeliveredIsNotExtracting

(* Steps of the owner that leave the spool and the workers alone.          *)
LEMMA UndisturbedStep ==
  ASSUME PipeInv, ExtractInv, Undisturbed, UNCHANGED <<spool, extracting>>,
         mine' = mine,
         \/ pc' = pc \/ pc' \in {"drain", "closing"}
         \/ pc \notin {"drain", "closing"}
  PROVE  ExtractInv' /\ AttemptsHaveLanes'
<1>1. AttemptsHaveLanes' /\ LeasesAreExclusive'
  BY DEF PipeInv, ExtractInv, Undisturbed, Quiet, AttemptsHaveLanes, LeasesAreExclusive
<1>2. RequestsAreHeld'
  <2> SUFFICES ASSUME NEW a \in extracting, Paid(a)
               PROVE  Active(a)' /\ a \in mine /\ pc' \in {"drain", "closing"}
    BY DEF RequestsAreHeld, Paid, Undisturbed, Quiet
  <2>1. Active(a) /\ a \in mine /\ pc \in {"drain", "closing"}
    BY DEF ExtractInv, RequestsAreHeld
  <2>2. attempts[a] \in Task
    BY DEF PipeInv, AttemptsHaveLanes, Wiring
  <2> QED BY <2>1, <2>2 DEF Undisturbed
<1>3. DeliveredIsNotExtracting'
  BY DEF ExtractInv, DeliveredIsNotExtracting, Undisturbed
<1> QED BY <1>1, <1>2, <1>3 DEF ExtractInv

-----------------------------------------------------------------------------
(* The invariant under the steps of receive().                             *)

AllInv == PipeInv /\ ExtractInv

Preserved == AttemptsHaveLanes' /\ Wiring' /\ JobInv' /\ ExtractInv'

(* The next step of receive(), if any, is about b.                         *)
WorksOn(b) ==
  \/ job' = NoJob
  \/ \E step \in {"ingest", "escalate"} : job' = [NoJob EXCEPT !.step = step, !.bundle = b]
  \/ \E prior, state : /\ state \in Admitted
                       /\ job' = [step |-> "settle", bundle |-> b, prior |-> prior,
                                  state |-> state]

(* The outcomes of Route, Proceed and Unwind.                              *)
LEMMA RouteOutcome ==
  ASSUME NEW b, NEW state, Route(b, state) \/ Unwind
  PROVE  deferred' \subseteq deferred \union {b} /\ WorksOn(b)
  BY DEF Route, Unwind, WorksOn

LEMMA ProceedOutcome ==
  ASSUME NEW b, NEW prior, NEW state, Proceed(b, prior, state)
  PROVE  deferred' \subseteq deferred \union {b} /\ WorksOn(b)
<1>1. CASE Route(b, state)
  BY <1>1, RouteOutcome
<1>2. CASE /\ state \in Admitted
           /\ job' = [step |-> "settle", bundle |-> b, prior |-> prior, state |-> state]
           /\ deferred' = deferred
  BY <1>2 DEF WorksOn
<1> QED BY <1>1, <1>2 DEF Proceed

(* A step that works on one bundle of a registered attempt.                *)
LEMMA BundleStep ==
  ASSUME AllInv, Undisturbed, NEW b \in Bundle, attempts[b.attempt] # NoTask,
         UNCHANGED <<spool, extracting, mine, run>>,
         inbox' \subseteq inbox, deferred' \subseteq deferred \union {b},
         pc # "quarantine", pc' = pc \/ pc' = "closing",
         WorksOn(b) \/ job' = job
  PROVE  Preserved
<1>1. attempts' = attempts
  BY DEF Undisturbed, Quiet
<1>2. Wiring'
  BY <1>1 DEF AllInv, PipeInv, Wiring
<1>3. JobInv'
  <2>1. pc' # "quarantine"
    OBVIOUS
  <2>2. CASE job' = job
    BY <1>1, <2>1, <2>2 DEF AllInv, PipeInv, JobInv
  <2>3. CASE job' = NoJob
    BY <2>1, <2>3 DEF JobInv, NoJob
  <2>4. ASSUME NEW step \in {"ingest", "escalate"},
               job' = [NoJob EXCEPT !.step = step, !.bundle = b]
        PROVE  JobInv'
    <3>1. job'.step = step /\ job'.bundle = b
      BY <2>4 DEF NoJob
    <3> QED BY <1>1, <2>1, <3>1 DEF JobInv
  <2>5. ASSUME NEW prior, NEW state \in Admitted,
               job' = [step |-> "settle", bundle |-> b, prior |-> prior, state |-> state]
        PROVE  JobInv'
    BY <1>1, <2>1, <2>5 DEF JobInv
  <2> QED BY <2>2, <2>3, <2>4, <2>5 DEF WorksOn
<1>4. ExtractInv' /\ AttemptsHaveLanes'
  BY UndisturbedStep DEF AllInv
<1> QED BY <1>2, <1>3, <1>4 DEF Preserved

LEMMA BundleIsNotExtracting ==
  ASSUME AllInv, NEW b \in Bundle, b \in spool \/ Delivered(b)
  PROVE  b.attempt \notin extracting /\ attempts[b.attempt] # NoTask
  BY DEF AllInv, PipeInv, QueueInv, DeliveredWasDrawn, Wiring, ExtractInv,
    DeliveredIsNotExtracting

LEMMA ReceivePreserves ==
  ASSUME AllInv, NEW b \in Bundle, b \in spool \/ Delivered(b), Receive(b)
  PROVE  Undisturbed /\ job' = [NoJob EXCEPT !.step = "ingest", !.bundle = b]
<1>1. CASE UNCHANGED queueVars
  BY <1>1, StutterUndisturbed DEF Receive
<1>2. CASE RegisterResult(b)
  BY <1>2, BundleIsNotExtracting, RegisterResultUndisturbed DEF Receive, AllInv, PipeInv, QueueInv
<1> QED BY <1>1, <1>2 DEF Receive

LEMMA IngestPreserves == ASSUME AllInv, Ingest PROVE Preserved
<1> DEFINE b == job.bundle
<1>1. b \in Bundle /\ attempts[b.attempt] # NoTask /\ pc # "quarantine"
  BY DEF AllInv, PipeInv, JobInv, Ingest
<1>2. QueueTypeOK
  BY DEF AllInv, PipeInv, QueueInv
<1>3. UNCHANGED <<spool, extracting>>
  BY DEF Ingest
<1>4. CASE IngestNew(b)
  <2>1. PICK state \in Rulings(b) : Finish(b, state) /\ Proceed(b, "extracted", state)
    BY <1>4 DEF IngestNew
  <2>2. Delivered(b)
    BY <1>4 DEF IngestNew, Delivered, Unfinished
  <2>3. Undisturbed
    BY <1>1, <1>2, <2>1, <2>2, BundleIsNotExtracting, FinishUndisturbed
  <2>4. UNCHANGED <<pc, run, inbox, mine>>
    BY <1>4 DEF IngestNew
  <2> QED BY <1>1, <1>3, <2>1, <2>3, <2>4, ProceedOutcome, BundleStep
<1>5. CASE IngestAgain(b)
  <2>1. Undisturbed
    BY <1>5, StutterUndisturbed DEF IngestAgain
  <2>2. UNCHANGED <<pc, run, inbox, mine>>
    BY <1>5 DEF IngestAgain
  <2>3. PICK prior, state : Proceed(b, prior, state)
    BY <1>5 DEF IngestAgain
  <2> QED BY <1>1, <1>3, <2>1, <2>2, <2>3, ProceedOutcome, BundleStep
<1>6. ASSUME Reconsidered(b), NEW outcome, NEW d \in Fresh(b, outcome), NEW s,
             AppendDecision(EffectiveDecision[b], d, s)
      PROVE  Undisturbed
  <2>1. work[attempts[b.attempt]].status \in Verdict /\ Delivered(b)
    BY <1>6 DEF Reconsidered, Verdict, Dispositions, Finished
  <2>2. d \in Bundle /\ d.attempt = b.attempt
    BY DEF Fresh
  <2>3. EffectiveDecision[b] \in Bundle
    BY <1>1, <1>6, <2>1, <2>2, AppendsToReceipt DEF AllInv, PipeInv
  <2>4. d.attempt \notin extracting
    BY <1>1, <2>1, <2>2, BundleIsNotExtracting
  <2> QED BY <1>2, <1>6, <2>3, <2>4, AppendUndisturbed
<1>7. CASE Readmit(b)
  <2>1. Undisturbed
    BY <1>6, <1>7 DEF Readmit
  <2>2. UNCHANGED <<pc, run, inbox, mine>>
    BY <1>7 DEF Readmit
  <2>3. PICK prior, state : Proceed(b, prior, state)
    BY <1>7 DEF Readmit
  <2> QED BY <1>1, <1>3, <2>1, <2>2, <2>3, ProceedOutcome, BundleStep
<1>8. CASE RowsRefused(b)
  <2>1. Undisturbed
    <3>1. CASE Unfinished(b) /\ Finish(b, "needs_review")
      <4>1. b.attempt \notin extracting
        BY <1>1, <3>1, BundleIsNotExtracting DEF Unfinished, Delivered
      <4> QED BY <1>1, <1>2, <3>1, <4>1, FinishUndisturbed
    <3> QED BY <1>6, <1>8, <3>1 DEF RowsRefused
  <2>2. Route(b, "needs_review") \/ Unwind
    BY <1>8 DEF RowsRefused
  <2>3. /\ UNCHANGED <<run, mine>>
        /\ inbox' = inbox \/ inbox' = {}
        /\ pc' = pc \/ pc' = "closing"
    BY <1>8 DEF RowsRefused, Unwind
  <2> QED BY <1>1, <1>3, <2>1, <2>2, <2>3, RouteOutcome, BundleStep
<1> QED BY <1>4, <1>5, <1>7, <1>8 DEF Ingest

LEMMA SettlePreserves == ASSUME AllInv, Settle PROVE Preserved
<1> DEFINE b == job.bundle
           t == attempts[b.attempt]
<1>1. /\ b \in Bundle /\ attempts[b.attempt] # NoTask /\ pc # "quarantine"
      /\ job.state \in Admitted
  BY DEF AllInv, PipeInv, JobInv, Settle
<1>2. QueueTypeOK
  BY DEF AllInv, PipeInv, QueueInv
<1>3. Undisturbed
  <2>1. CASE SupersedePending({BindingOf(b)}, Lane)
    BY <1>2, <2>1, StatusCallUndisturbed
  <2>2. CASE UNCHANGED queueVars
    BY <2>2, StutterUndisturbed
  <2>3. CASE /\ work[t].status = job.state
             /\ AppendDecision(EffectiveDecision[b], RefusalOf(b), "needs_review")
    <3>1. RefusalOf(b) \in Bundle /\ RefusalOf(b).attempt = b.attempt
      BY <1>1, PipelineAssumption DEF RefusalOf, Bundle
    <3>2. work[t].status \in Verdict
      BY <1>1, <2>3 DEF Admitted, Verdict, Dispositions
    <3>3. EffectiveDecision[b] \in Bundle
      BY <1>1, <2>3, <3>1, <3>2, AppendsToReceipt DEF AllInv, PipeInv
    <3>4. EffectiveDecision[b].attempt = b.attempt /\ Delivered(EffectiveDecision[b])
      BY <2>3, <3>1 DEF AppendDecision, Finished
    <3>5. b.attempt \notin extracting
      BY <3>3, <3>4, BundleIsNotExtracting
    <3> QED BY <1>2, <2>3, <3>1, <3>3, <3>5, AppendUndisturbed
  <2> QED BY <2>1, <2>2, <2>3 DEF Settle
<1>4. /\ UNCHANGED <<spool, extracting, run, mine>>
      /\ inbox' = inbox \/ inbox' = {}
      /\ pc' = pc \/ pc' = "closing"
      /\ \/ job' = NoJob /\ deferred' = deferred
         \/ Route(b, "needs_review") \/ Unwind
  BY DEF Settle, Unwind
<1>5. deferred' \subseteq deferred \union {b} /\ WorksOn(b)
  BY <1>4, RouteOutcome DEF WorksOn
<1> QED BY <1>1, <1>3, <1>4, <1>5, BundleStep

-----------------------------------------------------------------------------
(* The invariant under the phases of a run.                                *)

LEMMA DeliveryPreserves ==
  ASSUME AllInv, NEW b \in Bundle, Replay(b) \/ PollReview(b) PROVE Preserved
<1>1. b \in spool \/ Delivered(b)
  BY DEF Replay, PollReview, AllInv, PipeInv, Wiring
<1>2. Undisturbed /\ (WorksOn(b) \/ job' = job)
  <2>1. CASE Receive(b)
    BY <1>1, <2>1, ReceivePreserves DEF WorksOn
  <2>2. CASE UNCHANGED <<queueVars, job>>
    BY <2>2, StutterUndisturbed
  <2> QED BY <2>1, <2>2 DEF Replay, PollReview
<1>3. /\ UNCHANGED <<spool, extracting, mine, run, deferred, pc>>
      /\ inbox' \subseteq inbox /\ pc # "quarantine"
  BY DEF Replay, PollReview
<1> QED BY <1>1, <1>2, <1>3, BundleIsNotExtracting, BundleStep

(* A step that starts no work on a bundle, outside the quarantine.         *)
LEMMA PlainStep ==
  ASSUME AllInv, attempts' = attempts, spool' = spool,
         extracting' \subseteq extracting, deferred' \subseteq deferred,
         inbox' \subseteq inbox, run' = run \/ run' = NoRun,
         job' = job \/ job' = NoJob, pc' # "quarantine"
  PROVE  Wiring' /\ JobInv' /\ AttemptsHaveLanes'
<1>1. Wiring'
  BY DEF AllInv, PipeInv, Wiring, NoRun
<1>2. JobInv' /\ AttemptsHaveLanes'
  BY DEF AllInv, PipeInv, JobInv, AttemptsHaveLanes, NoJob
<1> QED BY <1>1, <1>2

LEMMA RunPreserves ==
  ASSUME AllInv,
         \/ \E x \in Binding : Seed(x)
         \/ CancelResolved \/ EscalateDeferred \/ Escalate
  PROVE  Preserved
<1>1. Undisturbed
  <2>1. QueueTypeOK
    BY DEF AllInv, PipeInv, QueueInv
  <2>2. CASE \E x \in Binding : Seed(x)
    BY <2>1, <2>2, SeedRegisters, StatusCallUndisturbed
  <2>3. CASE CancelResolved
    BY <2>1, <2>3, StatusCallUndisturbed DEF CancelResolved
  <2>4. CASE EscalateDeferred
    <3>1. CASE UNCHANGED queueVars
      BY <3>1, StutterUndisturbed
    <3>2. ASSUME NEW b \in deferred, NEW l \in Lane, EscalateTo(b, l) PROVE Undisturbed
      BY <2>1, <3>2, EscalatedBindings, EscalationRegisters, StatusCallUndisturbed
         DEF AllInv, PipeInv
    <3> QED BY <2>4, <3>1, <3>2 DEF EscalateDeferred
  <2>5. CASE Escalate
    BY <2>1, <2>5, EscalatedBindings, EscalationRegisters, StatusCallUndisturbed
       DEF Escalate, AllInv, PipeInv
  <2> QED BY <2>2, <2>3, <2>4, <2>5
<1>2. /\ UNCHANGED <<spool, extracting, mine, run, inbox>>
      /\ deferred' = deferred \/ deferred' = {}
      /\ job' = job \/ job' = NoJob
      /\ pc' # "quarantine" /\ (pc' = pc \/ pc' \in {"drain", "closing"} \/ pc \notin {"drain", "closing"})
  BY DEF Seed, CancelResolved, EscalateDeferred, Escalate, ownerVars, AllInv, PipeInv, JobInv
<1> QED BY <1>1, <1>2, PlainStep, UndisturbedStep DEF Undisturbed, Quiet, AllInv, Preserved

LEMMA RecoverPreserves == ASSUME AllInv, RecoverLeases PROVE Preserved
<1>1. Quiet /\ results' = results
  BY RecoverIsQuiet DEF RecoverLeases, AllInv, PipeInv, QueueInv
<1>2. /\ UNCHANGED <<spool, extracting, mine, run, inbox, deferred, job>>
      /\ pc = "replay" /\ pc' = "cancel"
  BY DEF RecoverLeases
<1>3. Wiring' /\ JobInv' /\ AttemptsHaveLanes'
  BY <1>1, <1>2, PlainStep DEF Quiet
<1>4. \A a \in extracting : ~Paid(a)
  BY <1>2 DEF AllInv, ExtractInv, RequestsAreHeld
<1>5. ExtractInv'
  BY <1>1, <1>2, <1>4 DEF AllInv, ExtractInv, Quiet, LeasesAreExclusive, RequestsAreHeld,
    Paid, DeliveredIsNotExtracting, Delivered
<1> QED BY <1>3, <1>5 DEF Preserved

LEMMA DispatchPreserves ==
  ASSUME AllInv, NEW t \in Task, NEW a \in Attempt, Dispatch(t, a) PROVE Preserved
<1>1. /\ attempts[a] = NoTask /\ attempts' = [attempts EXCEPT ![a] = t]
      /\ results' = results /\ t.lane \in Lane
      /\ pc = "drain" /\ job = NoJob
      /\ UNCHANGED <<spool, pc, run, inbox, deferred, job>>
      /\ mine' = mine \union {a} /\ extracting' = extracting \union {a}
  BY DEF Dispatch, Idle, Claim, AllInv, PipeInv, Wiring
<1>2. /\ QueueTypeOK
      /\ \A b \in Bundle : b \in spool \/ Delivered(b) => b.attempt # a
      /\ a \notin extracting
      /\ \A b \in deferred : b.attempt # a
  BY <1>1 DEF AllInv, PipeInv, QueueInv, Wiring, DeliveredWasDrawn
<1>3. AttemptsHaveLanes'
  BY <1>1, <1>2 DEF AttemptsHaveLanes, AllInv, PipeInv, QueueTypeOK
<1>4. NoTask \notin Task
  BY QueueAssumption
<1>5. Wiring'
  BY <1>1, <1>2, <1>4, BundleAttempt DEF Wiring, AllInv, PipeInv, QueueTypeOK
<1>6. JobInv'
  BY <1>1 DEF JobInv, NoJob
<1>7. /\ work'[t].status = "running" /\ work'[t].attempt = a
      /\ \A u \in Task : u # t => work'[u] = work[u]
      /\ work[t].status # "running"
  BY <1>2 DEF Dispatch, Claim, Claimable, QueueTypeOK, WorkRow
<1>8. LeasesAreExclusive'
  BY <1>7 DEF Dispatch, LeasesAreExclusive, AllInv, ExtractInv
<1>9. RequestsAreHeld'
  <2> SUFFICES ASSUME NEW c \in extracting', Paid(c)'
               PROVE  Active(c)' /\ c \in mine' /\ pc' \in {"drain", "closing"}
    BY DEF RequestsAreHeld
  <2>1. CASE c = a
    BY <1>1, <1>2, <1>7, <2>1 DEF Active, QueueTypeOK
  <2>2. CASE c # a
    <3>1. c \in extracting /\ attempts'[c] = attempts[c] /\ attempts[c] \in Task
      BY <1>1, <2>2 DEF AllInv, PipeInv, Wiring, AttemptsHaveLanes, QueueInv, QueueTypeOK
    <3>2. Active(c) /\ c \in mine
      BY <3>1 DEF AllInv, ExtractInv, RequestsAreHeld, Paid
    <3> QED BY <1>1, <1>7, <3>1, <3>2 DEF Active
  <2> QED BY <2>1, <2>2
<1>10. DeliveredIsNotExtracting'
  BY <1>1, <1>2 DEF DeliveredIsNotExtracting, AllInv, ExtractInv, Delivered
<1> QED BY <1>3, <1>5, <1>6, <1>8, <1>9, <1>10 DEF Preserved, ExtractInv

LEMMA CollectPreserves == ASSUME AllInv, NEW b \in Bundle, Collect(b) PROVE Preserved
<1>1. b \in spool /\ b.attempt \notin extracting /\ attempts[b.attempt] # NoTask
  BY BundleIsNotExtracting DEF Collect
<1>2. /\ UNCHANGED <<spool, extracting, run, inbox, deferred, pc>>
      /\ mine' = mine \ {b.attempt} /\ pc = "drain" /\ job = NoJob
  BY DEF Collect, Idle
<1>3. Undisturbed /\ (job' = job \/ job' = [NoJob EXCEPT !.step = "ingest", !.bundle = b])
  <2>1. CASE Receive(b)
    BY <1>1, <2>1, ReceivePreserves
  <2>2. CASE UNCHANGED <<queueVars, job>>
    BY <2>2, StutterUndisturbed
  <2> QED BY <2>1, <2>2 DEF Collect
<1>4. attempts' = attempts
  BY <1>3 DEF Undisturbed, Quiet
<1>5. Wiring' /\ AttemptsHaveLanes'
  BY <1>2, <1>4 DEF AllInv, PipeInv, Wiring, AttemptsHaveLanes
<1>6. JobInv'
  <2>1. pc' # "quarantine"
    BY <1>2
  <2>2. CASE job' = job
    BY <1>2, <2>1, <2>2 DEF JobInv, NoJob
  <2>3. CASE job' = [NoJob EXCEPT !.step = "ingest", !.bundle = b]
    <3>1. job'.step = "ingest" /\ job'.bundle = b
      BY <2>3 DEF NoJob
    <3> QED BY <1>1, <1>4, <2>1, <3>1 DEF JobInv
  <2> QED BY <1>3, <2>2, <2>3
<1>7. LeasesAreExclusive' /\ DeliveredIsNotExtracting'
  BY <1>2, <1>3 DEF AllInv, ExtractInv, Undisturbed, Quiet, LeasesAreExclusive,
    DeliveredIsNotExtracting
<1>8. RequestsAreHeld'
  <2> SUFFICES ASSUME NEW a \in extracting, Paid(a)
               PROVE  Active(a)' /\ a \in mine' /\ pc' \in {"drain", "closing"}
    BY <1>2, <1>4 DEF RequestsAreHeld, Paid
  <2>1. Active(a) /\ a \in mine /\ attempts[a] \in Task
    BY DEF AllInv, PipeInv, ExtractInv, RequestsAreHeld, Wiring, AttemptsHaveLanes
  <2>2. a # b.attempt
    BY <1>1
  <2> QED BY <1>2, <1>3, <2>1, <2>2 DEF Undisturbed
<1> QED BY <1>5, <1>6, <1>7, <1>8 DEF Preserved, ExtractInv

(* A step that leaves the queue alone and takes nothing from live requests.*)
LEMMA IdleStep ==
  ASSUME AllInv, UNCHANGED <<queueVars, spool>>, extracting' \subseteq extracting,
         \A a \in extracting' : Paid(a) /\ a \in mine /\ pc \in {"drain", "closing"}
                                 => a \in mine' /\ pc' \in {"drain", "closing"}
  PROVE  ExtractInv'
  BY DEF AllInv, ExtractInv, queueVars, LeasesAreExclusive, RequestsAreHeld, Paid, Active,
    DeliveredIsNotExtracting, Delivered

LEMMA PhasePreserves ==
  ASSUME AllInv,
         \/ \E r \in Request : StartRun(r)
         \/ \E a \in Attempt : FutureRaises(a)
         \/ CompleteRun \/ Close \/ Abort \/ Kill \/ QuarantineFails
  PROVE  Preserved
<1>0. \A a \in extracting : Paid(a) => a \in mine /\ pc \in {"drain", "closing"}
  BY DEF AllInv, ExtractInv, RequestsAreHeld
<1>1. ASSUME NEW r \in Request, StartRun(r) PROVE Preserved
  <2>1. /\ UNCHANGED <<queueVars, spool, extracting, deferred, mine, job>>
        /\ pc = "down" /\ pc' = "replay" /\ inbox' = spool /\ run' = r
    BY <1>1 DEF StartRun, durable
  <2>2. Wiring' /\ JobInv' /\ AttemptsHaveLanes'
    BY <2>1 DEF AllInv, PipeInv, Wiring, JobInv, AttemptsHaveLanes, queueVars, Request
  <2> QED BY <1>0, <2>1, <2>2, IdleStep DEF Preserved
<1>2. CASE (\E a \in Attempt : FutureRaises(a)) \/ Abort
  <2>1. /\ UNCHANGED <<queueVars, spool, extracting, mine, run>>
        /\ pc' = "closing" /\ inbox' = {} /\ deferred' = {} /\ job' = NoJob
    BY <1>2 DEF FutureRaises, Abort, Unwind, durable
  <2>2. Wiring' /\ JobInv' /\ AttemptsHaveLanes'
    BY <2>1, PlainStep DEF queueVars
  <2> QED BY <2>1, <2>2, IdleStep DEF Preserved
<1>3. CASE CompleteRun \/ Close \/ Kill \/ QuarantineFails
  <2>1. /\ UNCHANGED <<queueVars, spool>> /\ extracting' \subseteq extracting
        /\ pc' = "down" /\ inbox' = {} /\ deferred' = {} /\ job' = NoJob /\ run' = NoRun
    BY <1>3 DEF CompleteRun, Close, Kill, QuarantineFails, Down, durable
  <2>2. Wiring' /\ JobInv' /\ AttemptsHaveLanes'
    BY <2>1, PlainStep DEF queueVars
  <2>3. \A a \in extracting' : ~Paid(a)
    BY <1>0, <1>3 DEF CompleteRun, Close, Kill, QuarantineFails, durable, Paid
  <2> QED BY <2>1, <2>2, <2>3, IdleStep DEF Preserved
<1> QED BY <1>1, <1>2, <1>3

-----------------------------------------------------------------------------
(* The invariant under workers, reviewers, the clock and the quarantine.   *)

LEMMA BesidePreserves ==
  ASSUME AllInv,
         \/ \E b \in Bundle : Publish(b) \/ SignReview(b)
         \/ \E a \in Attempt : WorkerFails(a)
         \/ \E t \in Task : Lapse(t)
  PROVE  Preserved
<1>1. ASSUME NEW b \in Bundle, Publish(b) PROVE Preserved
  <2>1. /\ UNCHANGED <<queueVars, ownerVars>> /\ b.attempt \in extracting
        /\ spool' = spool \union {b} /\ extracting' = extracting \ {b.attempt}
    BY <1>1 DEF Publish
  <2>2. Wiring' /\ JobInv' /\ AttemptsHaveLanes'
    BY <2>1 DEF AllInv, PipeInv, Wiring, JobInv, AttemptsHaveLanes, queueVars, ownerVars
  <2>3. ExtractInv'
    BY <2>1 DEF AllInv, ExtractInv, queueVars, ownerVars, LeasesAreExclusive,
      RequestsAreHeld, Paid, Active, DeliveredIsNotExtracting, Delivered
  <2> QED BY <2>2, <2>3 DEF Preserved
<1>2. CASE (\E b \in Bundle : SignReview(b)) \/ (\E a \in Attempt : WorkerFails(a))
  <2>1. /\ UNCHANGED <<queueVars, ownerVars, spool>> /\ extracting' \subseteq extracting
    BY <1>2 DEF SignReview, WorkerFails
  <2>2. Wiring' /\ JobInv' /\ AttemptsHaveLanes'
    BY <2>1 DEF AllInv, PipeInv, Wiring, JobInv, AttemptsHaveLanes, queueVars, ownerVars
  <2>3. ExtractInv'
    BY <2>1, IdleStep DEF ownerVars
  <2> QED BY <2>2, <2>3 DEF Preserved
<1>3. ASSUME NEW t \in Task, Lapse(t) PROVE Preserved
  <2>1. Undisturbed /\ UNCHANGED <<spool, extracting, ownerVars>> /\ TimePasses(t)
    BY <1>3, StatusCallUndisturbed DEF Lapse, AllInv, PipeInv, QueueInv
  <2>2. ExtractInv' /\ AttemptsHaveLanes'
    BY <2>1, UndisturbedStep DEF AllInv, ownerVars
  <2>3. /\ attempts' = attempts
        /\ \A u \in Task : work'[u].result = work[u].result
    BY <2>1 DEF TimePasses, AllInv, PipeInv, QueueInv, QueueTypeOK, WorkRow
  <2>4. Wiring'
    BY <2>1, <2>3 DEF AllInv, PipeInv, Wiring, ownerVars
  <2>5. JobInv'
    <3>1. CASE pc = "quarantine"
      <4>1. /\ job.bundle \in Bundle /\ attempts[job.bundle.attempt] # NoTask
            /\ job.step = "quarantine" /\ work[attempts[job.bundle.attempt]].result \in Bundle
        BY <3>1 DEF AllInv, PipeInv, JobInv
      <4>2. attempts[job.bundle.attempt] \in Task
        BY <4>1, BundleOfAttempt DEF AllInv, PipeInv
      <4> QED BY <2>1, <2>3, <4>1, <4>2 DEF ownerVars, JobInv
    <3>2. CASE pc # "quarantine"
      BY <2>1, <2>3, <3>2 DEF AllInv, PipeInv, JobInv, ownerVars
    <3> QED BY <3>1, <3>2
  <2> QED BY <2>2, <2>4, <2>5 DEF Preserved
<1> QED BY <1>1, <1>2, <1>3

LEMMA QuarantinePreserves == ASSUME AllInv, Quarantine PROVE Preserved
<1>1. ASSUME NEW b \in Bundle, NEW d \in Bundle, QuarantinePublish(b, d) PROVE Preserved
  <2>1. /\ UNCHANGED <<queueVars, extracting, run, inbox, deferred, mine>>
        /\ pc = "down" /\ pc' = "quarantine" /\ spool' = spool \union {d}
        /\ job' = [NoJob EXCEPT !.step = "quarantine", !.bundle = d]
        /\ d.attempt = b.attempt /\ Delivered(b) /\ work[attempts[b.attempt]].result = b
    BY <1>1 DEF QuarantinePublish, Fresh, Delivered
  <2>2. b.attempt \notin extracting /\ attempts[b.attempt] # NoTask
    BY <2>1, BundleIsNotExtracting
  <2>3. job'.step = "quarantine" /\ job'.bundle = d
    BY <2>1 DEF NoJob
  <2>4. Wiring' /\ JobInv' /\ AttemptsHaveLanes'
    BY <2>1, <2>2, <2>3 DEF AllInv, PipeInv, Wiring, JobInv, AttemptsHaveLanes, queueVars
  <2>5. ExtractInv'
    BY <2>1, <2>2 DEF AllInv, ExtractInv, queueVars, LeasesAreExclusive,
      RequestsAreHeld, Paid, Active, DeliveredIsNotExtracting, Delivered
  <2> QED BY <2>4, <2>5 DEF Preserved
<1>2. CASE QuarantineCommit
  <2> DEFINE d == job.bundle
             p == work[attempts[d.attempt]].result
  <2>1. /\ d \in Bundle /\ p \in Bundle /\ AppendDecision(p, d, "needs_review")
        /\ UNCHANGED <<spool, extracting>> /\ pc = "quarantine"
        /\ pc' = "down" /\ inbox' = {} /\ deferred' = {} /\ job' = NoJob /\ run' = NoRun
    BY <1>2 DEF AllInv, PipeInv, JobInv, QuarantineCommit, Down
  <2>2. d.attempt = p.attempt /\ Delivered(p)
    BY <2>1 DEF AppendDecision, Finished
  <2>3. Undisturbed
    BY <2>1, <2>2, BundleIsNotExtracting, AppendUndisturbed DEF AllInv, PipeInv, QueueInv
  <2>4. Wiring' /\ JobInv' /\ AttemptsHaveLanes'
    BY <2>1, <2>3, PlainStep DEF Undisturbed, Quiet
  <2>5. ExtractInv'
    BY <2>1, <2>3 DEF AllInv, ExtractInv, Undisturbed, Quiet, LeasesAreExclusive,
      RequestsAreHeld, Paid, DeliveredIsNotExtracting
  <2> QED BY <2>4, <2>5 DEF Preserved
<1> QED BY <1>1, <1>2, PhasePreserves DEF Quarantine

-----------------------------------------------------------------------------
(* The inductive invariant and the results.                                *)

LEMMA AllInit == Init => AllInv
<1> SUFFICES ASSUME Init PROVE AllInv
  OBVIOUS
<1>1. QueueInv
  BY InvInit DEF Init
<1>2. AttemptsHaveLanes /\ LeasesAreExclusive
  BY DEF Init, QueueInit, AttemptsHaveLanes, LeasesAreExclusive, Unregistered
<1>3. Wiring /\ JobInv
  BY DEF Init, Wiring, JobInv, NoRun, NoJob
<1>4. RequestsAreHeld /\ DeliveredIsNotExtracting
  BY DEF Init, RequestsAreHeld, DeliveredIsNotExtracting
<1> QED BY <1>1, <1>2, <1>3, <1>4 DEF AllInv, PipeInv, ExtractInv

LEMMA StutterPreserves == ASSUME AllInv, UNCHANGED vars PROVE Preserved
<1>1. UNCHANGED <<queueVars, ownerVars, spool, extracting>>
  BY DEF vars
<1> QED BY <1>1 DEF Preserved, AllInv, PipeInv, Wiring, JobInv, AttemptsHaveLanes, ExtractInv,
      queueVars, ownerVars, LeasesAreExclusive, RequestsAreHeld, Paid, Active,
      DeliveredIsNotExtracting, Delivered

LEMMA AllStep == AllInv /\ [PipelineNext]_vars => AllInv'
<1> SUFFICES ASSUME AllInv, [PipelineNext]_vars PROVE AllInv'
  OBVIOUS
<1>1. QueueInv'
  BY StepUsesQueue, InvStep DEF AllInv, PipeInv
<1>2. ASSUME OwnerStep PROVE Preserved
  <2>1. CASE Ingest \/ Settle
    BY <2>1, IngestPreserves, SettlePreserves
  <2>2. ASSUME NEW b \in Bundle, Replay(b) \/ Collect(b) \/ PollReview(b) PROVE Preserved
    BY <2>2, DeliveryPreserves, CollectPreserves
  <2>3. CASE Escalate \/ CancelResolved \/ EscalateDeferred \/ \E x \in Binding : Seed(x)
    BY <2>3, RunPreserves
  <2>4. CASE RecoverLeases
    BY <2>4, RecoverPreserves
  <2>5. ASSUME NEW t \in Task, NEW a \in Attempt, Dispatch(t, a) PROVE Preserved
    BY <2>5, DispatchPreserves
  <2>6. CASE CompleteRun \/ Close \/ \E a \in Attempt : FutureRaises(a)
    BY <2>6, PhasePreserves
  <2> QED BY <1>2, <2>1, <2>2, <2>3, <2>4, <2>5, <2>6 DEF OwnerStep
<1>3. ASSUME Next PROVE Preserved
  <2>1. CASE (\E r \in Request : StartRun(r)) \/ Abort \/ Kill
    BY <2>1, PhasePreserves
  <2>2. CASE \/ \E b \in Bundle : Publish(b) \/ SignReview(b)
             \/ \E a \in Attempt : WorkerFails(a)
             \/ \E t \in Task : Lapse(t)
    BY <2>2, BesidePreserves
  <2> QED BY <1>2, <1>3, <2>1, <2>2 DEF Next
<1>4. Preserved
  BY <1>3, StutterPreserves, QuarantinePreserves DEF PipelineNext
<1> QED BY <1>1, <1>4 DEF AllInv, PipeInv, Preserved

(* The invariant holds of the runs of the coordinator, also beside the     *)
(* quarantine script.                                                      *)
THEOREM PipelineInvariant == QuarantineSpec => []AllInv
<1>1. AllInv /\ [Next \/ Quarantine]_vars => AllInv'
  BY AllStep DEF PipelineNext
<1> QED BY AllInit, <1>1, PTL DEF QuarantineSpec

(* The coordinator and the quarantine script drive the queue through legal *)
(* calls only, so all that is proved of the queue holds of the pipeline.   *)
THEOREM PipelineUsesQueue == QuarantineSpec => UsesQueue
<1>1. Init => QueueInit
  BY DEF Init
<1>2. AllInv /\ [Next \/ Quarantine]_vars => [QueueNext]_queueVars
  BY StepUsesQueue DEF AllInv, PipelineNext
<1> QED BY <1>1, <1>2, PipelineInvariant, PTL DEF QuarantineSpec, UsesQueue, QueueSpec

(* However runs, kills, retries, reviews and quarantines interleave, one   *)
(* binding has at most one lease, and every live paid request holds it.    *)
THEOREM OneExtraction == QuarantineSpec => []OneExtractionPerBinding
<1>1. AllInv => OneExtractionPerBinding
  BY DEF AllInv, ExtractInv, LeasesAreExclusive, RequestsAreHeld, OneExtractionPerBinding
<1> QED BY <1>1, PipelineInvariant, PTL
=============================================================================
