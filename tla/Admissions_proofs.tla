------------------------- MODULE Admissions_proofs -------------------------
(***************************************************************************)
(* Proofs about what the coordinator pays for, admits and forgets, for any *)
(* documents, lanes, attempts, runs and number of faults: responses that   *)
(* reached the spool are decided before new ones are bought, none of them  *)
(* is written off, an admission rests on a review that is later than what  *)
(* it overrules, resolved work is not dispatched, and no result in review  *)
(* is left between two lanes.                                              *)
(***************************************************************************)
EXTENDS Pipeline_proofs, SourceReview, SequenceTheorems

-----------------------------------------------------------------------------
(* Responses are imported before anything is dispatched.                   *)

Live == {"replay", "cancel", "escalate", "drain"}

RunInv ==
  /\ run \in Request \union {NoRun}
  /\ pc \in Live => run \in Request /\ WellFormed(run)

(* The replay is over when leases are recovered, and a run waits for       *)
(* futures of its own only.                                                *)
PhaseInv ==
  /\ pc \in Live \union {"down", "closing", "quarantine"}
  /\ pc \in Live \ {"replay"} => inbox = {}
  /\ pc \notin {"drain", "closing"} => mine = {}

(* How far receive() has come with the bundle at hand.                     *)
JobPhase ==
  /\ job.step \in {"none", "ingest", "settle", "escalate", "quarantine"}
  /\ job.step = "none" => job.bundle = NoBundle
  /\ job.step \in {"settle", "escalate"} => Finished(job.bundle)
  /\ job.step = "quarantine" <=> pc = "quarantine"

(* A future waited for returns one bundle.                                 *)
OneReturnEach ==
  \A b, c \in spool : b.attempt = c.attempt /\ b.attempt \in mine => b = c

Imported(b) ==
  BindingOf(b) \in run.scope /\ Paid(b.attempt) /\ b.attempt \notin mine /\ b # job.bundle
    => Finished(b)

ImportInv ==
  /\ RunInv
  /\ PhaseInv
  /\ JobPhase
  /\ OneReturnEach
  /\ pc \in Live => \A b \in spool \ inbox : Imported(b)

(* A step of the queue rewrites neither a finished receipt nor what an     *)
(* attempt was drawn for.                                                  *)
LEMMA QueueKeeps ==
  ASSUME AllInv, [PipelineNext]_vars
  PROVE  /\ \A b \in Bundle : Finished(b) => results'[b] = results[b]
         /\ \A a \in Attempt : attempts[a] # NoTask => attempts'[a] = attempts[a]
<1>1. QueueInv /\ [QueueNext]_queueVars
  BY StepUsesQueue DEF AllInv, PipeInv
<1>2. CASE UNCHANGED queueVars
  BY <1>2 DEF queueVars
<1>3. CASE QueueNext
  <2>1. \A b \in Bundle : Finished(b) => results'[b] = results[b]
    <3>1. CASE UNCHANGED queueVars
      BY <3>1 DEF queueVars
    <3>2. CASE ~UNCHANGED queueVars
      BY <1>1, <3>2, ReceiptStep
    <3> QED BY <3>1, <3>2
  <2>2. \A a \in Attempt : attempts[a] # NoTask => attempts'[a] = attempts[a]
    BY <1>1, <1>3 DEF QueueNext, Register, RegisterBlocked, TimePasses, SupersedePending,
      Claim, Recover, RegisterResult, Finish, AppendDecision, QueueInv, QueueTypeOK
  <2> QED BY <2>1, <2>2
<1> QED BY <1>1, <1>2, <1>3

LEMMA FinishedStays ==
  ASSUME AllInv, [PipelineNext]_vars, NEW b \in Bundle, Finished(b) PROVE Finished(b)'
  BY QueueKeeps DEF Finished, Delivered, Unfinished

(* What the spool holds stays imported as long as receive() leaves its     *)
(* bundle decided and the run goes on waiting for the rest.                *)
LEMMA ImportedStays ==
  ASSUME AllInv, [PipelineNext]_vars, run' = run, NEW b \in spool, Imported(b),
         b.attempt \in mine => b.attempt \in mine' \/ b = job'.bundle,
         b = job.bundle => b = job'.bundle \/ Finished(b)'
  PROVE  Imported(b)'
<1>1. b \in Bundle /\ attempts[b.attempt] # NoTask
  BY DEF AllInv, PipeInv, Wiring
<1>2. attempts'[b.attempt] = attempts[b.attempt]
  BY <1>1, BundleAttempt, QueueKeeps
<1>3. Finished(b) => Finished(b)'
  BY <1>1, FinishedStays
<1> QED BY <1>2, <1>3 DEF Imported, BindingOf, Paid

LEMMA ReceiveDelivers ==
  ASSUME AllInv, NEW b \in Bundle, Receive(b)
  PROVE  job'.step = "ingest" /\ job'.bundle = b
  BY DEF Receive, NoJob

-----------------------------------------------------------------------------
(* receive().                                                              *)

LEMMA IngestDecides ==
  ASSUME AllInv, Ingest, NEW b \in Bundle, b = job.bundle
  PROVE  Finished(b)'
<1>2. [PipelineNext]_vars
  BY DEF PipelineNext, Next, OwnerStep
<1>3. CASE Finished(b)
  BY <1>2, <1>3, FinishedStays
<1>4. ASSUME NEW state \in Verdict, Finish(b, state)
      PROVE  Finished(b)'
  <2>1. results'[b].state = state
    BY <1>4 DEF Finish, AllInv, PipeInv, QueueInv, QueueTypeOK, ResultRow
  <2> QED BY <2>1 DEF Finished, Delivered, Unfinished, Verdict, Dispositions
<1>5. CASE ~Finished(b)
  <2>1. \E state \in Verdict : Finish(b, state)
    BY <1>5, RulingsAreVerdicts
       DEF Ingest, IngestNew, IngestAgain, Readmit, RowsRefused, Reconsidered, Verdict, Dispositions
  <2> QED BY <1>4, <2>1
<1> QED BY <1>3, <1>5

(* Each step of receive() works on its bundle or ends with it decided.     *)
LEMMA JobOutcome ==
  ASSUME AllInv, JobPhase, Ingest \/ Settle \/ Escalate
  PROVE  /\ job.bundle \in Bundle
         /\ \A b \in Bundle : b = job.bundle => Finished(b)'
         /\ job' = job \/ WorksOn(job.bundle)
         /\ UNCHANGED <<spool, run, mine>>
         /\ (pc' = pc /\ inbox' = inbox) \/ pc' = "closing"
<1>0. [PipelineNext]_vars /\ job.bundle \in Bundle
  BY DEF PipelineNext, Next, OwnerStep, Ingest, Settle, Escalate, AllInv, PipeInv, JobInv
<1> SUFFICES ASSUME NEW b \in Bundle, b = job.bundle
             PROVE  /\ Finished(b)'
                    /\ job' = job \/ WorksOn(b)
                    /\ UNCHANGED <<spool, run, mine>>
                    /\ (pc' = pc /\ inbox' = inbox) \/ pc' = "closing"
  BY <1>0
<1>1. CASE Ingest
  <2>1. Finished(b)'
    BY <1>1, IngestDecides
  <2>2. /\ WorksOn(b) /\ UNCHANGED <<run, mine>>
        /\ (pc' = pc /\ inbox' = inbox) \/ pc' = "closing"
    <3>1. CASE IngestNew(b) \/ IngestAgain(b) \/ Readmit(b)
      <4>1. \E prior, state : Proceed(b, prior, state)
        BY <3>1 DEF IngestNew, IngestAgain, Readmit
      <4>2. UNCHANGED <<pc, run, inbox, mine>>
        BY <3>1 DEF IngestNew, IngestAgain, Readmit
      <4> QED BY <4>1, <4>2, ProceedOutcome
    <3>2. CASE RowsRefused(b)
      BY <3>2, RouteOutcome DEF RowsRefused, Unwind
    <3> QED BY <1>1, <3>1, <3>2 DEF Ingest
  <2> QED BY <1>1, <2>1, <2>2 DEF Ingest
<1>2. CASE Settle
  <2>1. Finished(b)'
    BY <1>0, <1>2, FinishedStays DEF Settle, JobPhase
  <2>2. \/ job' = NoJob
        \/ Route(b, "needs_review") \/ Unwind
    BY <1>2 DEF Settle
  <2>3. WorksOn(b)
    BY <2>2, RouteOutcome DEF WorksOn
  <2> QED BY <1>2, <2>1, <2>3 DEF Settle, Unwind
<1>3. CASE Escalate
  <2>1. Finished(b)'
    BY <1>0, <1>3, FinishedStays DEF Escalate, JobPhase
  <2>2. job' = NoJob \/ job' = job
    BY <1>3 DEF Escalate
  <2> QED BY <1>3, <2>1, <2>2 DEF Escalate, WorksOn
<1> QED BY <1>1, <1>2, <1>3
LEMMA ReceiveImports ==
  ASSUME AllInv, ImportInv, Ingest \/ Settle \/ Escalate PROVE ImportInv'
<1>1. [PipelineNext]_vars
  BY DEF PipelineNext, Next, OwnerStep
<1>2. PICK b \in Bundle : b = job.bundle
  BY JobOutcome DEF ImportInv
<1>3. /\ Finished(b)'
      /\ job' = job \/ WorksOn(b)
      /\ UNCHANGED <<spool, run, mine>>
      /\ (pc' = pc /\ inbox' = inbox) \/ pc' = "closing"
  BY <1>2, JobOutcome DEF ImportInv
<1>4. pc # "quarantine" /\ job.step \notin {"none", "quarantine"}
  BY DEF ImportInv, JobPhase, Ingest, Settle, Escalate, AllInv, PipeInv, PhaseInv
<1>5. RunInv'
  BY <1>3 DEF ImportInv, RunInv, WellFormed, Live
<1>6. PhaseInv'
  BY <1>3, <1>4 DEF ImportInv, PhaseInv, Live
<1>7. JobPhase'
  <2>1. pc' # "quarantine"
    BY <1>3, <1>4
  <2>2. CASE job' = job
    BY <1>2, <1>3, <1>4, <2>1, <2>2 DEF ImportInv, JobPhase, Finished, Delivered, Unfinished
  <2>3. CASE job' = NoJob
    BY <2>1, <2>3 DEF JobPhase, NoJob
  <2>4. ASSUME NEW step \in {"ingest", "escalate"},
               job' = [NoJob EXCEPT !.step = step, !.bundle = b]
        PROVE  JobPhase'
    <3>1. job'.step = step /\ job'.bundle = b
      BY <2>4 DEF NoJob
    <3> QED BY <1>3, <2>1, <3>1 DEF JobPhase, Finished, Delivered, Unfinished
  <2>5. ASSUME NEW prior, NEW state,
               job' = [step |-> "settle", bundle |-> b, prior |-> prior, state |-> state]
        PROVE  JobPhase'
    BY <1>3, <2>1, <2>5 DEF JobPhase, Finished, Delivered, Unfinished
  <2> QED BY <1>3, <2>2, <2>3, <2>4, <2>5 DEF WorksOn
<1>8. OneReturnEach'
  BY <1>3 DEF ImportInv, OneReturnEach
<1>9. ASSUME pc' \in Live, NEW c \in spool' \ inbox' PROVE Imported(c)'
  <2>1. pc \in Live /\ c \in spool \ inbox
    BY <1>3, <1>9 DEF Live
  <2> QED BY <1>1, <1>2, <1>3, <2>1, ImportedStays DEF ImportInv
<1> QED BY <1>5, <1>6, <1>7, <1>8, <1>9 DEF ImportInv

(* Steps at which the run holds on to what it has.                         *)
LEMMA HoldingImports ==
  ASSUME AllInv, ImportInv, [PipelineNext]_vars, spool' = spool, run' = run, inbox' = inbox,
         mine' = mine, job' = job,
         \/ pc' = pc
         \/ pc = "replay" /\ pc' = "cancel" /\ inbox = {}
         \/ pc = "cancel" /\ pc' = "escalate"
         \/ pc = "escalate" /\ pc' = "drain"
  PROVE  ImportInv'
<1>1. RunInv' /\ PhaseInv' /\ OneReturnEach'
  BY DEF ImportInv, RunInv, WellFormed, PhaseInv, OneReturnEach, Live
<1>2. JobPhase'
  <2>1. job.step \in {"settle", "escalate"} => Finished(job.bundle)'
    BY FinishedStays DEF AllInv, PipeInv, JobInv, ImportInv, JobPhase, Finished, Delivered, Unfinished
  <2> QED BY <2>1 DEF ImportInv, JobPhase
<1>3. ASSUME pc' \in Live, NEW c \in spool \ inbox PROVE Imported(c)'
  <2>1. pc \in Live
    BY <1>3 DEF Live
  <2> QED BY <2>1, ImportedStays DEF ImportInv
<1> QED BY <1>1, <1>2, <1>3 DEF ImportInv

LEMMA DeliveryImports ==
  ASSUME AllInv, ImportInv, NEW b \in Bundle, Replay(b) \/ Collect(b) \/ PollReview(b)
  PROVE  ImportInv'
<1>1. [PipelineNext]_vars
  BY DEF PipelineNext, Next, OwnerStep
<1>2. /\ job = NoJob /\ job.bundle = NoBundle
      /\ UNCHANGED <<spool, run, pc>>
      /\ pc \in {"replay", "drain"}
      /\ spool \subseteq Bundle /\ NoBundle \notin Bundle
  BY QueueAssumption DEF Replay, Collect, PollReview, Idle, NoJob, AllInv, PipeInv, Wiring
<1>3. \/ inbox' = inbox /\ mine' = mine
      \/ /\ inbox' = inbox \ {b} /\ mine' = mine /\ pc = "replay"
         /\ job'.bundle = b \/ BindingOf(b) \notin run.scope
      \/ /\ inbox' = inbox /\ mine' = mine \ {b.attempt} /\ pc = "drain"
         /\ b \in spool /\ b.attempt \in mine
         /\ job'.bundle = b \/ BindingOf(b) \notin run.scope
  BY ReceiveDelivers DEF Replay, Collect, PollReview, InScope
<1>4. job' = job \/ (job'.step = "ingest" /\ job'.bundle = b)
  BY ReceiveDelivers DEF Replay, Collect, PollReview
<1>5. RunInv' /\ PhaseInv' /\ OneReturnEach'
  BY <1>2, <1>3 DEF ImportInv, RunInv, WellFormed, PhaseInv, OneReturnEach, Live
<1>6. JobPhase'
  BY <1>2, <1>4 DEF ImportInv, JobPhase, NoJob
<1>7. ASSUME pc' \in Live, NEW c \in spool' \ inbox' PROVE Imported(c)'
  <2>1. /\ c \in spool /\ c \in Bundle /\ pc \in Live /\ c # job.bundle
        /\ attempts'[c.attempt] = attempts[c.attempt]
    BY <1>1, <1>2, <1>7, BundleAttempt, QueueKeeps DEF AllInv, PipeInv, Wiring
  <2>2. CASE c = b /\ (job'.bundle = b \/ BindingOf(b) \notin run.scope)
    BY <1>2, <2>1, <2>2 DEF Imported, BindingOf
  <2>3. CASE c \notin inbox /\ (c.attempt \in mine => c.attempt \in mine')
    <3>1. Imported(c)
      BY <2>1, <2>3 DEF ImportInv
    <3> QED BY <1>1, <1>2, <2>1, <2>3, <3>1, ImportedStays
  <2>4. c.attempt = b.attempt /\ b \in spool /\ b.attempt \in mine => c = b
    BY <2>1 DEF ImportInv, OneReturnEach
  <2> QED BY <1>3, <1>7, <2>2, <2>3, <2>4
<1> QED BY <1>5, <1>6, <1>7 DEF ImportInv

LEMMA DispatchImports ==
  ASSUME AllInv, ImportInv, NEW t \in Task, NEW a \in Attempt, Dispatch(t, a)
  PROVE  ImportInv'
<1>1. [PipelineNext]_vars
  BY DEF PipelineNext, Next, OwnerStep
<1>2. /\ UNCHANGED <<spool, run, pc, inbox, job, results>>
      /\ mine' = mine \union {a} /\ pc = "drain" /\ attempts[a] = NoTask
      /\ \A b \in spool : b.attempt # a
  BY DEF Dispatch, Claim, AllInv, PipeInv, Wiring
<1>3. RunInv' /\ PhaseInv' /\ OneReturnEach'
  BY <1>2 DEF ImportInv, RunInv, WellFormed, PhaseInv, OneReturnEach, Live
<1>4. JobPhase'
  BY <1>2 DEF ImportInv, JobPhase, Finished, Delivered, Unfinished
<1>5. ASSUME pc' \in Live, NEW c \in spool' \ inbox' PROVE Imported(c)'
  BY <1>1, <1>2, <1>5, ImportedStays DEF ImportInv
<1> QED BY <1>3, <1>4, <1>5 DEF ImportInv

LEMMA PublishImports ==
  ASSUME AllInv, ImportInv, NEW b \in Bundle, Publish(b) PROVE ImportInv'
<1>1. [PipelineNext]_vars
  BY DEF PipelineNext, Next
<1>2. /\ UNCHANGED <<run, pc, inbox, job, mine, results, attempts>>
      /\ spool' = spool \union {b} /\ b.attempt \in extracting
  BY DEF Publish, ownerVars, queueVars
<1>3. /\ \A c \in spool : c.attempt # b.attempt
      /\ Paid(b.attempt) => b.attempt \in mine
  BY <1>2 DEF AllInv, PipeInv, Wiring, ExtractInv, DeliveredIsNotExtracting, RequestsAreHeld
<1>4. RunInv' /\ PhaseInv' /\ OneReturnEach'
  BY <1>2, <1>3 DEF ImportInv, RunInv, WellFormed, PhaseInv, OneReturnEach, Live
<1>5. JobPhase'
  BY <1>2 DEF ImportInv, JobPhase, Finished, Delivered, Unfinished
<1>6. ASSUME pc' \in Live, NEW c \in spool' \ inbox' PROVE Imported(c)'
  <2>1. CASE c = b
    BY <1>2, <1>3, <2>1 DEF Imported, Paid
  <2>2. CASE c \in spool
    BY <1>1, <1>2, <1>6, <2>2, ImportedStays DEF ImportInv
  <2> QED BY <1>2, <1>6, <2>1, <2>2
<1> QED BY <1>4, <1>5, <1>6 DEF ImportInv

(* A run begins with the whole spool before it, or is not live.            *)
LEMMA BoundaryImports ==
  ASSUME AllInv, ImportInv,
         \/ \E r \in Request : StartRun(r)
         \/ \E a \in Attempt : FutureRaises(a)
         \/ CompleteRun \/ Close \/ Abort \/ Kill \/ Quarantine
  PROVE  ImportInv'
<1>1. ASSUME NEW r \in Request, StartRun(r) PROVE ImportInv'
  <2>1. /\ UNCHANGED <<durable, mine, job>> /\ run' = r /\ WellFormed(r)
        /\ inbox' = spool /\ spool' = spool /\ results' = results
        /\ pc = "down" /\ pc' = "replay"
    BY <1>1 DEF StartRun, durable, queueVars
  <2>2. RunInv' /\ PhaseInv' /\ OneReturnEach'
    BY <2>1 DEF ImportInv, RunInv, WellFormed, PhaseInv, OneReturnEach, Live
  <2>3. JobPhase'
    BY <2>1 DEF ImportInv, JobPhase, Finished, Delivered, Unfinished
  <2> QED BY <2>1, <2>2, <2>3 DEF ImportInv
<1>2. CASE (\E a \in Attempt : FutureRaises(a)) \/ Abort
  <2>1. /\ UNCHANGED <<mine, run, spool>> /\ pc' = "closing" /\ job' = NoJob
    BY <1>2 DEF FutureRaises, Abort, Unwind, durable
  <2> QED BY <2>1 DEF ImportInv, RunInv, PhaseInv, OneReturnEach, Live, JobPhase, NoJob
<1>3. CASE CompleteRun \/ Close \/ Kill \/ QuarantineCommit \/ QuarantineFails
  <2>1. pc' = "down" /\ run' = NoRun /\ job' = NoJob /\ mine' = {} /\ inbox' = {}
    BY <1>3 DEF CompleteRun, Close, Kill, QuarantineCommit, QuarantineFails, Down
  <2> QED BY <2>1 DEF ImportInv, RunInv, PhaseInv, OneReturnEach, Live, JobPhase, NoJob
<1>4. ASSUME NEW b \in Bundle, NEW d \in Bundle, QuarantinePublish(b, d) PROVE ImportInv'
  <2>1. /\ UNCHANGED <<mine, run>> /\ pc = "down" /\ pc' = "quarantine"
        /\ job'.step = "quarantine" /\ mine = {}
    BY <1>4 DEF QuarantinePublish, NoJob, ImportInv, PhaseInv
  <2> QED BY <2>1 DEF ImportInv, RunInv, PhaseInv, OneReturnEach, Live, JobPhase
<1> QED BY <1>1, <1>2, <1>3, <1>4 DEF Quarantine

LEMMA ImportInit == Init => ImportInv
<1> SUFFICES ASSUME Init PROVE ImportInv
  OBVIOUS
<1> QED BY DEF Init, ImportInv, RunInv, PhaseInv, JobPhase, NoJob, OneReturnEach, Live

LEMMA ImportStep == AllInv /\ ImportInv /\ [PipelineNext]_vars => ImportInv'
<1> SUFFICES ASSUME AllInv, ImportInv, [PipelineNext]_vars PROVE ImportInv'
  OBVIOUS
<1>1. CASE RecoverLeases \/ CancelResolved \/ EscalateDeferred
  BY <1>1, HoldingImports DEF RecoverLeases, CancelResolved, EscalateDeferred
<1>2. ASSUME NEW x \in Binding, Seed(x) PROVE ImportInv'
  BY <1>2, HoldingImports DEF Seed, ownerVars
<1>3. CASE \/ \E b \in Bundle : SignReview(b)
           \/ \E a \in Attempt : WorkerFails(a)
           \/ \E t \in Task : Lapse(t)
           \/ UNCHANGED vars
  BY <1>3, HoldingImports DEF SignReview, WorkerFails, Lapse, vars, ownerVars
<1>4. CASE OwnerStep
  BY <1>1, <1>2, <1>4, ReceiveImports, DeliveryImports, DispatchImports, BoundaryImports
     DEF OwnerStep
<1>5. CASE Next
  BY <1>3, <1>4, <1>5, PublishImports, BoundaryImports DEF Next
<1> QED BY <1>3, <1>5, BoundaryImports DEF PipelineNext

THEOREM ImportInvariant == QuarantineSpec => [](AllInv /\ ImportInv)
<1>1. AllInv /\ ImportInv /\ [Next \/ Quarantine]_vars => ImportInv'
  BY ImportStep DEF PipelineNext
<1> QED BY PipelineInvariant, ImportInit, <1>1, PTL DEF QuarantineSpec

(* A run that recovers leases, cancels, escalates or dispatches has        *)
(* decided every paid response of its scope that the spool holds, but for  *)
(* those that it still waits for itself, whatever was killed before it.    *)
THEOREM SpoolIsImported == QuarantineSpec => []ImportedBeforeDispatch
<1>1. ImportInv => ImportedBeforeDispatch
  BY DEF ImportInv, PhaseInv, Live, Imported, ImportedBeforeDispatch
<1> QED BY <1>1, ImportInvariant, PTL
-----------------------------------------------------------------------------
(* Paid responses count.                                                   *)

(* A worker publishes one response for an attempt.                         *)
OneResponseEach ==
  \A b, c \in spool :
    b.serial = Original /\ c.serial = Original /\ b.attempt = c.attempt => b = c

UnfinishedIsSpooled == \A b \in Bundle : Unfinished(b) => b \in spool

(* A quarantine decision is about an attempt that was judged before.       *)
DecisionsAreLate == \A d \in spool : d.serial # Original => ~Active(d.attempt)

(* Until a paid response is decided its attempt keeps its lease.           *)
PaidStayActive ==
  \A b \in spool :
    b.serial = Original /\ Paid(b.attempt) /\ ~Finished(b) => Active(b.attempt)

PaidInv ==
  /\ OneResponseEach
  /\ UnfinishedIsSpooled
  /\ DecisionsAreLate
  /\ PaidStayActive
  /\ PaidResponsesCount

(* What the calls of a run do to leases: a lease ends with a decision on   *)
(* its attempt, and a lease that ended does not come back.                 *)
EndsByDecision ==
  \A a \in Attempt : attempts[a] # NoTask /\ Active(a) =>
    Active(a)' \/ \E c \in Bundle : c.attempt = a /\ Unfinished(c) /\ Finished(c)'

EndsForGood == \A a \in Attempt : attempts[a] # NoTask /\ Active(a)' => Active(a)

(* What they do to receipts.                                               *)
Registered(c) == \/ results'[c].state = "extracted" /\ c \in spool
                 \/ results'[c].state = "superseded" /\ ~Finished(c) /\ ~Active(c.attempt)

Receipts == \A c \in Bundle :
  results'[c] = results[c] \/ Registered(c) \/ results'[c].state \in Verdict

LEMMA QuietEndsForGood ==
  ASSUME AttemptsHaveLanes, Quiet PROVE EndsForGood
  BY DEF AttemptsHaveLanes, Quiet, EndsForGood, Active

LEMMA StutterLeases ==
  ASSUME UNCHANGED queueVars PROVE EndsByDecision /\ EndsForGood /\ Receipts
  BY DEF queueVars, EndsByDecision, EndsForGood, Receipts, Active

LEMMA StatusCallLeases ==
  ASSUME QueueInv, AttemptsHaveLanes,
         \/ \E t \in Task : Register(t) \/ RegisterBlocked(t) \/ TimePasses(t)
         \/ \E X, L : SupersedePending(X, L)
  PROVE  EndsByDecision /\ EndsForGood /\ Receipts
<1>0. QueueTypeOK
  BY DEF QueueInv
<1>1. EndsForGood
  BY <1>0, StatusCallUndisturbed, QuietEndsForGood DEF Undisturbed
<1>2. results' = results /\ attempts' = attempts
  BY DEF Register, RegisterBlocked, TimePasses, SupersedePending
<1>3. \A t \in Task : work[t].status = "running" =>
        work'[t].status = "running" /\ work'[t].attempt = work[t].attempt
  <2>1. ASSUME NEW X, NEW L, SupersedePending(X, L), NEW t \in Task, work[t].status = "running"
        PROVE  work'[t] = work[t]
    BY <2>1 DEF SupersedePending, Cancellable
  <2>2. ASSUME NEW u \in Task, Register(u) \/ RegisterBlocked(u) \/ TimePasses(u),
               NEW t \in Task, work[t].status = "running"
        PROVE  work'[t].status = "running" /\ work'[t].attempt = work[t].attempt
    BY <1>0, <2>2 DEF Register, RegisterBlocked, TimePasses, QueueTypeOK, WorkRow
  <2> QED BY <2>1, <2>2
<1> QED BY <1>1, <1>2, <1>3 DEF EndsByDecision, Receipts, Active, AttemptsHaveLanes

LEMMA RegisterResultLeases ==
  ASSUME QueueInv, AttemptsHaveLanes, NEW b \in spool, b \in Bundle, RegisterResult(b)
  PROVE  EndsByDecision /\ EndsForGood /\ Receipts
<1>1. work' = work /\ attempts' = attempts
  BY DEF RegisterResult
<1>2. EndsByDecision /\ EndsForGood
  BY <1>1 DEF EndsByDecision, EndsForGood, Active
<1>3. Receipts
  BY DEF Receipts, Registered, RegisterResult, QueueInv, QueueTypeOK, ResultRow
<1> QED BY <1>2, <1>3

LEMMA FinishLeases ==
  ASSUME QueueInv, AttemptsHaveLanes, NEW b \in Bundle, NEW s \in Verdict, Finish(b, s)
  PROVE  EndsByDecision /\ EndsForGood /\ Receipts
<1> DEFINE t == attempts[b.attempt]
<1>0. QueueTypeOK /\ b.attempt \in Attempt
  BY BundleAttempt DEF QueueInv
<1>1. /\ attempts' = attempts /\ s # "running"
      /\ Unfinished(b) /\ Active(b.attempt)
      /\ results'[b].state = s /\ \A c \in Bundle : c # b => results'[c] = results[c]
      /\ work'[t].status = s \/ t \notin Task
      /\ \A u \in Task : u # t => work'[u] = work[u]
      /\ \A u \in Task : work'[u].attempt = work[u].attempt
  BY <1>0 DEF Finish, Verdict, Dispositions, QueueTypeOK, WorkRow, ResultRow
<1>2. t \in Task
  BY <1>0, <1>1 DEF QueueInv, DeliveredWasDrawn, Unfinished, Delivered, AttemptsHaveLanes
<1>3. EndsForGood
  BY <1>1, <1>2, QuietEndsForGood DEF Quiet
<1>4. Finished(b)'
  BY <1>1 DEF Finished, Delivered, Unfinished, Verdict, Dispositions
<1>5. EndsByDecision
  BY <1>1, <1>2, <1>4 DEF EndsByDecision, Active, AttemptsHaveLanes
<1>6. Receipts
  BY <1>1 DEF Receipts
<1> QED BY <1>3, <1>5, <1>6

LEMMA AppendLeases ==
  ASSUME QueueInv, AttemptsHaveLanes, NEW p \in Bundle, NEW d \in Bundle, NEW s,
         AppendDecision(p, d, s)
  PROVE  EndsByDecision /\ EndsForGood /\ Receipts
<1> DEFINE t == attempts[p.attempt]
<1>0. QueueTypeOK /\ p.attempt \in Attempt
  BY BundleAttempt DEF QueueInv
<1>1. t \in Task /\ work[t].status # "running"
  BY <1>0 DEF AppendDecision, QueueInv, QueueTypeOK, ResultRow, DeliveredWasDrawn, Finished,
    Delivered, AttemptsHaveLanes, Dispositions
<1>2. /\ attempts' = attempts /\ s \in Verdict /\ s # "running"
      /\ results'[d].state = s /\ \A c \in Bundle : c # d => results'[c] = results[c]
      /\ work'[t].status = s /\ \A u \in Task : u # t => work'[u] = work[u]
      /\ \A u \in Task : work'[u].attempt = work[u].attempt
  BY <1>0, <1>1 DEF AppendDecision, DecisionOutcome, Verdict, Dispositions, QueueTypeOK, WorkRow,
    ResultRow
<1>3. EndsForGood
  BY <1>2, <1>1, QuietEndsForGood DEF Quiet
<1>4. EndsByDecision
  BY <1>1, <1>2 DEF EndsByDecision, Active, AttemptsHaveLanes
<1>5. Receipts
  BY <1>2 DEF Receipts
<1> QED BY <1>3, <1>4, <1>5

LEMMA ClaimLeases ==
  ASSUME QueueInv, AttemptsHaveLanes, NEW t \in Task, NEW a \in Attempt, Claim(t, a)
  PROVE  EndsByDecision /\ EndsForGood /\ Receipts
<1>1. /\ attempts[a] = NoTask /\ attempts' = [attempts EXCEPT ![a] = t] /\ results' = results
      /\ work[t].status # "running" /\ work'[t].attempt = a
      /\ \A u \in Task : u # t => work'[u] = work[u]
  BY DEF Claim, Claimable, QueueInv, QueueTypeOK, WorkRow
<1>2. \A c \in Attempt : attempts[c] # NoTask => attempts[c] \in Task /\ attempts'[c] = attempts[c] /\ c # a
  BY <1>1 DEF AttemptsHaveLanes, QueueInv, QueueTypeOK
<1>3. EndsForGood /\ EndsByDecision
  BY <1>1, <1>2 DEF EndsForGood, EndsByDecision, Active
<1> QED BY <1>1, <1>3 DEF Receipts
(* The decision behind a call that appends one.                            *)
LEMMA DecisionLeases ==
  ASSUME AllInv, NEW b \in Bundle, attempts[b.attempt] # NoTask,
         work[attempts[b.attempt]].status \in Verdict,
         NEW p, NEW d \in Bundle, d.attempt = b.attempt, NEW s, AppendDecision(p, d, s)
  PROVE  EndsByDecision /\ EndsForGood /\ Receipts
<1>1. p \in Bundle
  BY AppendsToReceipt DEF AllInv, PipeInv
<1> QED BY <1>1, AppendLeases DEF AllInv, PipeInv

LEMMA IngestLeases ==
  ASSUME AllInv, Ingest PROVE EndsByDecision /\ EndsForGood /\ Receipts
<1> DEFINE b == job.bundle
<1>1. b \in Bundle /\ attempts[b.attempt] # NoTask /\ QueueInv /\ AttemptsHaveLanes
  BY DEF AllInv, PipeInv, JobInv, Ingest
<1>2. ASSUME NEW s \in Verdict, Finish(b, s) PROVE EndsByDecision /\ EndsForGood /\ Receipts
  BY <1>1, <1>2, FinishLeases
<1>3. ASSUME Reconsidered(b), NEW outcome, NEW d \in Fresh(b, outcome), NEW s,
             AppendDecision(EffectiveDecision[b], d, s)
      PROVE  EndsByDecision /\ EndsForGood /\ Receipts
  <2>1. work[attempts[b.attempt]].status \in Verdict
    BY <1>3 DEF Reconsidered, Verdict, Dispositions
  <2>2. d \in Bundle /\ d.attempt = b.attempt
    BY DEF Fresh
  <2> QED BY <1>1, <1>3, <2>1, <2>2, DecisionLeases
<1>4. CASE IngestNew(b)
  BY <1>1, <1>2, <1>4, RulingsAreVerdicts DEF IngestNew
<1>5. CASE IngestAgain(b)
  BY <1>5, StutterLeases DEF IngestAgain
<1>6. CASE Readmit(b)
  BY <1>3, <1>6 DEF Readmit
<1>7. CASE RowsRefused(b)
  BY <1>2, <1>3, <1>7 DEF RowsRefused, Verdict, Dispositions
<1> QED BY <1>4, <1>5, <1>6, <1>7 DEF Ingest

LEMMA SettleLeases ==
  ASSUME AllInv, Settle PROVE EndsByDecision /\ EndsForGood /\ Receipts
<1> DEFINE b == job.bundle
           t == attempts[b.attempt]
<1>1. /\ b \in Bundle /\ attempts[b.attempt] # NoTask /\ job.state \in Admitted
      /\ QueueInv /\ AttemptsHaveLanes
  BY DEF AllInv, PipeInv, JobInv, Settle
<1>2. CASE SupersedePending({BindingOf(b)}, Lane)
  BY <1>1, <1>2, StatusCallLeases
<1>3. CASE /\ work[t].status = job.state
           /\ AppendDecision(EffectiveDecision[b], RefusalOf(b), "needs_review")
  <2>1. RefusalOf(b) \in Bundle /\ RefusalOf(b).attempt = b.attempt
    BY <1>1, PipelineAssumption DEF RefusalOf, Bundle
  <2>2. work[t].status \in Verdict
    BY <1>1, <1>3 DEF Admitted, Verdict, Dispositions
  <2> QED BY <1>1, <1>3, <2>1, <2>2, DecisionLeases
<1> QED BY <1>2, <1>3, StutterLeases DEF Settle

LEMMA ReceiveLeases ==
  ASSUME AllInv, UnfinishedIsSpooled, NEW b \in Bundle,
         Replay(b) \/ Collect(b) \/ PollReview(b)
  PROVE  EndsByDecision /\ EndsForGood /\ Receipts
<1>1. CASE UNCHANGED queueVars
  BY <1>1, StutterLeases
<1>2. CASE ~Finished(b) /\ RegisterResult(b)
  <2>1. b \in spool
    BY <1>2 DEF Replay, Collect, PollReview, AllInv, PipeInv, Wiring, UnfinishedIsSpooled,
      Finished
  <2> QED BY <1>2, <2>1, RegisterResultLeases DEF AllInv, PipeInv
<1> QED BY <1>1, <1>2 DEF Replay, Collect, PollReview, Receive

LEMMA RunLeases ==
  ASSUME AllInv,
         \/ \E x \in Binding : Seed(x)
         \/ \E t \in Task, a \in Attempt : Dispatch(t, a)
         \/ \E t \in Task : Lapse(t)
         \/ CancelResolved \/ EscalateDeferred \/ Escalate
  PROVE  EndsByDecision /\ EndsForGood /\ Receipts
<1>0. QueueInv /\ AttemptsHaveLanes
  BY DEF AllInv, PipeInv
<1>1. ASSUME NEW x \in Binding, Seed(x) PROVE EndsByDecision /\ EndsForGood /\ Receipts
  BY <1>0, <1>1, SeedRegisters, StatusCallLeases
<1>2. ASSUME NEW t \in Task, NEW a \in Attempt, Dispatch(t, a)
      PROVE  EndsByDecision /\ EndsForGood /\ Receipts
  BY <1>0, <1>2, ClaimLeases DEF Dispatch
<1>3. CASE (\E t \in Task : Lapse(t)) \/ CancelResolved
  BY <1>0, <1>3, StatusCallLeases DEF Lapse, CancelResolved
<1>4. CASE EscalateDeferred
  <2>1. ASSUME NEW b \in deferred, NEW l \in Lane, EscalateTo(b, l)
        PROVE  EndsByDecision /\ EndsForGood /\ Receipts
    BY <1>0, <2>1, EscalatedBindings, EscalationRegisters, StatusCallLeases DEF AllInv, PipeInv
  <2> QED BY <1>4, <2>1, StutterLeases DEF EscalateDeferred
<1>5. CASE Escalate
  BY <1>0, <1>5, EscalatedBindings, EscalationRegisters, StatusCallLeases
     DEF Escalate, AllInv, PipeInv
<1> QED BY <1>1, <1>2, <1>3, <1>4, <1>5

(* A step of the run leaves the spool alone and its calls keep PaidInv.    *)
LEMMA PaidKept ==
  ASSUME AllInv, PaidInv, [PipelineNext]_vars, spool' = spool,
         EndsByDecision, EndsForGood, Receipts
  PROVE  PaidInv'
<1> USE DEF PaidInv
<1>0. /\ spool \subseteq Bundle
      /\ \A b \in spool : b.attempt \in Attempt /\ attempts[b.attempt] # NoTask
      /\ \A b \in spool : attempts'[b.attempt] = attempts[b.attempt]
  BY BundleAttempt, QueueKeeps DEF AllInv, PipeInv, Wiring
<1>1. OneResponseEach' /\ DecisionsAreLate'
  BY <1>0 DEF OneResponseEach, DecisionsAreLate, EndsForGood
<1>2. UnfinishedIsSpooled'
  BY DEF UnfinishedIsSpooled, Receipts, Registered, Unfinished, Verdict, Dispositions
<1>3. PaidStayActive'
  <2> SUFFICES ASSUME NEW b \in spool, b.serial = Original, Paid(b.attempt)', ~Finished(b)'
               PROVE  Active(b.attempt)'
    BY DEF PaidStayActive
  <2>1. Paid(b.attempt) /\ ~Finished(b)
    BY <1>0, FinishedStays DEF Paid
  <2>2. Active(b.attempt)
    BY <2>1 DEF PaidStayActive
  <2>3. ASSUME NEW c \in Bundle, c.attempt = b.attempt, Unfinished(c), Finished(c)'
        PROVE  FALSE
    <3>1. c \in spool /\ c.serial = Original
      BY <2>2, <2>3 DEF UnfinishedIsSpooled, DecisionsAreLate
    <3> QED BY <2>3, <3>1 DEF OneResponseEach
  <2> QED BY <1>0, <2>2, <2>3 DEF EndsByDecision
<1>4. PaidResponsesCount'
  <2> SUFFICES ASSUME NEW b \in spool, b.serial = Original, Paid(b.attempt)',
                      results'[b].state = "superseded"
               PROVE  FALSE
    BY DEF PaidResponsesCount
  <2>1. Paid(b.attempt)
    BY <1>0 DEF Paid
  <2> QED BY <1>0, <2>1 DEF PaidResponsesCount, PaidStayActive, Receipts, Registered, Verdict
<1> QED BY <1>1, <1>2, <1>3, <1>4

(* Leases are recovered after the replay: in a run that replays as far as  *)
(* it recovers, none of them holds an undecided response.                  *)
LEMMA PaidRecover ==
  ASSUME AllInv, ImportInv, PaidInv, "years" \notin Modes, RecoverLeases PROVE PaidInv'
<1> USE DEF PaidInv
<1>1. /\ Quiet /\ results' = results /\ spool' = spool /\ spool \subseteq Bundle
      /\ attempts' = attempts
      /\ \A b \in spool : b.attempt \in Attempt /\ attempts[b.attempt] \in Task
  BY RecoverIsQuiet, BundleOfAttempt
     DEF RecoverLeases, Recover, AllInv, PipeInv, QueueInv, Wiring
<1>2. EndsForGood
  BY <1>1, QuietEndsForGood DEF AllInv, PipeInv
<1>3. OneResponseEach' /\ DecisionsAreLate'
  BY <1>1, <1>2 DEF OneResponseEach, DecisionsAreLate, EndsForGood, AllInv, PipeInv, Wiring
<1>4. UnfinishedIsSpooled' /\ PaidResponsesCount'
  BY <1>1 DEF UnfinishedIsSpooled, Unfinished, PaidResponsesCount, Paid
<1>5. PaidStayActive'
  <2> SUFFICES ASSUME NEW b \in spool, b.serial = Original, Paid(b.attempt), ~Finished(b)
               PROVE  Active(b.attempt)'
    BY <1>1 DEF PaidStayActive, Paid, Finished, Delivered, Unfinished
  <2>1. Active(b.attempt)
    BY DEF PaidStayActive
  <2>2. BindingOf(b) \notin run.scope
    BY <1>1, QueueAssumption
       DEF ImportInv, Imported, PhaseInv, JobPhase, Live, RecoverLeases, Idle, NoJob
  <2>3. BindingOf(b) \in Binding
    BY <1>1, BundleOfAttempt DEF AllInv, PipeInv, Wiring
  <2>4. run \in Request /\ WellFormed(run)
    BY DEF ImportInv, RunInv, Live, RecoverLeases
  <2>5. run.mode \notin {"full", "years"} /\ BindingOf(b) \notin run.extract
    BY <2>2, <2>3, <2>4 DEF WellFormed, Request
  <2>6. work'[attempts[b.attempt]] = work[attempts[b.attempt]]
    BY <1>1, <2>5 DEF RecoverLeases, Recover, BindingOf
  <2> QED BY <1>1, <2>1, <2>6 DEF Active
<1> QED BY <1>3, <1>4, <1>5

LEMMA PaidPublish ==
  ASSUME AllInv, PaidInv,
         \/ \E b \in Bundle : Publish(b)
         \/ \E b, d \in Bundle : QuarantinePublish(b, d)
  PROVE  PaidInv'
<1> USE DEF PaidInv
<1>1. /\ UNCHANGED queueVars /\ work' = work /\ results' = results /\ attempts' = attempts
  BY DEF Publish, QuarantinePublish, queueVars
<1>2. /\ UnfinishedIsSpooled'
      /\ \A a : Active(a)' <=> Active(a)
      /\ \A a : Paid(a)' <=> Paid(a)
      /\ \A b : Finished(b)' <=> Finished(b)
  BY <1>1 DEF UnfinishedIsSpooled, Unfinished, Publish, QuarantinePublish, Active, Paid, Finished,
    Delivered
<1>3. ASSUME NEW b \in Bundle, Publish(b) PROVE PaidInv'
  <2>1. /\ spool' = spool \union {b} /\ b.serial = Original /\ b.attempt \in extracting
        /\ \A c \in spool : c.attempt # b.attempt
        /\ results[b].state = "absent"
        /\ Paid(b.attempt) => Active(b.attempt)
    BY <1>3 DEF Publish, AllInv, PipeInv, Wiring, ExtractInv, DeliveredIsNotExtracting,
      RequestsAreHeld, Delivered
  <2> QED BY <1>1, <1>2, <2>1 DEF OneResponseEach, DecisionsAreLate, PaidStayActive,
    PaidResponsesCount
<1>4. ASSUME NEW b \in Bundle, NEW d \in Bundle, QuarantinePublish(b, d) PROVE PaidInv'
  <2>1. /\ spool' = spool \union {d} /\ d.serial # Original /\ d.attempt = b.attempt
        /\ results[b].state \in Verdict
    BY <1>4 DEF QuarantinePublish, Fresh, Verdict, Dispositions
  <2>2. attempts[b.attempt] \in Task
    BY <2>1, BundleOfAttempt DEF AllInv, PipeInv, QueueInv, DeliveredWasDrawn, Delivered, Verdict,
      Dispositions
  <2>3. ~Active(d.attempt)
    BY <2>1, <2>2 DEF Active, AllInv, PipeInv, QueueInv, QueuedIsUnjudged
  <2> QED BY <1>1, <1>2, <2>1, <2>3 DEF OneResponseEach, DecisionsAreLate, PaidStayActive,
    PaidResponsesCount
<1> QED BY <1>3, <1>4

LEMMA PaidInit == Init => PaidInv
  BY DEF Init, QueueInit, NoResult, PaidInv, OneResponseEach, UnfinishedIsSpooled, Unfinished,
    DecisionsAreLate, PaidStayActive, PaidResponsesCount

LEMMA PaidStep ==
  ASSUME AllInv, ImportInv, PaidInv, "years" \notin Modes, [PipelineNext]_vars PROVE PaidInv'
<1>1. ASSUME spool' = spool, EndsByDecision, EndsForGood, Receipts PROVE PaidInv'
  BY <1>1, PaidKept
<1>2. CASE Ingest \/ Settle
  BY <1>1, <1>2, IngestLeases, SettleLeases DEF Ingest, Settle
<1>3. ASSUME NEW b \in Bundle, Replay(b) \/ Collect(b) \/ PollReview(b) PROVE PaidInv'
  <2>1. spool' = spool
    BY <1>3 DEF Replay, Collect, PollReview
  <2> QED BY <1>1, <1>3, <2>1, ReceiveLeases DEF PaidInv
<1>4. CASE \/ \E x \in Binding : Seed(x)
           \/ \E t \in Task, a \in Attempt : Dispatch(t, a)
           \/ \E t \in Task : Lapse(t)
           \/ CancelResolved \/ EscalateDeferred \/ Escalate
  <2>1. spool' = spool
    BY <1>4 DEF Seed, Dispatch, Lapse, CancelResolved, EscalateDeferred, Escalate
  <2> QED BY <1>1, <1>4, <2>1, RunLeases
<1>5. CASE \/ \E r \in Request : StartRun(r)
           \/ \E a \in Attempt : FutureRaises(a) \/ WorkerFails(a)
           \/ \E b \in Bundle : SignReview(b)
           \/ CompleteRun \/ Close \/ Abort \/ Kill \/ QuarantineFails \/ UNCHANGED vars
  <2>1. spool' = spool /\ UNCHANGED queueVars
    BY <1>5 DEF StartRun, FutureRaises, WorkerFails, SignReview, CompleteRun, Close, Abort, Kill,
      QuarantineFails, vars, durable
  <2> QED BY <1>1, <2>1, StutterLeases
<1>6. CASE QuarantineCommit
  <2>1. PICK d \in Bundle, p \in Bundle : AppendDecision(p, d, "needs_review")
    BY <1>6 DEF AllInv, PipeInv, JobInv, QuarantineCommit
  <2>2. spool' = spool
    BY <1>6 DEF QuarantineCommit
  <2> QED BY <1>1, <2>1, <2>2, AppendLeases DEF AllInv, PipeInv
<1>7. CASE OwnerStep
  BY <1>2, <1>3, <1>4, <1>5, <1>7, PaidRecover DEF OwnerStep
<1>8. CASE Next
  BY <1>4, <1>5, <1>7, <1>8, PaidPublish DEF Next
<1> QED BY <1>5, <1>6, <1>8, PaidPublish DEF PipelineNext, Quarantine

(* A response that was paid for is never written off as the delivery of an *)
(* inactive attempt, however runs are killed and workers outlive them,     *)
(* unless runs are restricted by year: those recover leases whose          *)
(* responses they did not replay.                                          *)
THEOREM PaidResponsesAlwaysCount ==
  ASSUME "years" \notin Modes PROVE QuarantineSpec => []PaidResponsesCount
<1>1. AllInv /\ ImportInv /\ PaidInv /\ [Next \/ Quarantine]_vars => PaidInv'
  BY PaidStep DEF PipelineNext
<1>2. PaidInv => PaidResponsesCount
  BY DEF PaidInv
<1> QED BY ImportInvariant, PaidInit, <1>1, <1>2, PTL DEF QuarantineSpec
-----------------------------------------------------------------------------
(* Where chains of decisions end.  EffectiveDecision follows them; that it *)
(* arrives at all is shown by carrying along, from step to step, that the  *)
(* equation which defines it has a solution and what every solution is.    *)

PickOne(S) == CHOOSE d \in S : TRUE

Follow(g, b) == IF Successors(b) = {} THEN b ELSE g[PickOne(Successors(b))]

Follows(g) == g = [b \in Bundle |-> Follow(g, b)]

(* e is where the decisions on b end: at b itself or at a decision.        *)
EndOf(e, b) ==
  /\ e \in Bundle /\ Successors(e) = {} /\ e.attempt = b.attempt
  /\ e = b \/ \E c \in Bundle : e \in Successors(c)

ChainsEnd ==
  /\ \E g : Follows(g)
  /\ \A g : Follows(g) => \A b \in Bundle : EndOf(g[b], b)

LEMMA EffectiveFollows ==
  ASSUME ChainsEnd, NEW b \in Bundle PROVE EndOf(EffectiveDecision[b], b)
<1>1. EffectiveDecision = CHOOSE g : Follows(g)
  BY DEF EffectiveDecision, Follows, Follow, PickOne
<1>2. Follows(EffectiveDecision)
  BY <1>1 DEF ChainsEnd
<1> QED BY <1>2 DEF ChainsEnd

LEMMA SameSuccessors ==
  ASSUME ChainsEnd, \A b \in Bundle : Successors(b)' = Successors(b) PROVE ChainsEnd'
<1>1. \A g : \A b \in Bundle : Follow(g, b)' = Follow(g, b)
  BY DEF Follow
<1>2. \A g : Follows(g)' <=> Follows(g)
  BY <1>1 DEF Follows
<1>3. \A e, b : EndOf(e, b)' <=> EndOf(e, b)
  BY DEF EndOf
<1> QED BY <1>2, <1>3 DEF ChainsEnd

LEMMA PickSole == ASSUME NEW d PROVE PickOne({d}) = d
  BY DEF PickOne

LEMMA PickIn == ASSUME NEW S, S # {} PROVE PickOne(S) \in S
  BY DEF PickOne

(* Only an appended decision adds to a chain.                              *)
LEMMA ReceiptSuccessors ==
  ASSUME QueueInv, NEW c \in Bundle, RegisterResult(c) \/ \E s \in Verdict : Finish(c, s),
         NEW b \in Bundle
  PROVE  Successors(b)' = Successors(b)
<1>1. \A d \in Bundle : results'[d].pred = results[d].pred /\ (d # c => results'[d] = results[d])
  <2>1. CASE RegisterResult(c)
    BY <2>1 DEF RegisterResult, QueueInv, QueueTypeOK, ResultRow
  <2>2. ASSUME NEW s \in Verdict, Finish(c, s)
        PROVE  \A d \in Bundle : /\ results'[d].pred = results[d].pred
                                 /\ d # c => results'[d] = results[d]
    <3>1. results'[c].pred = results[c].pred
      <4>1. results[c] \in ResultRow /\ results'[c] = [results[c] EXCEPT !.state = s]
        BY <2>2 DEF Finish, QueueInv, QueueTypeOK
      <4> QED BY <4>1 DEF ResultRow
    <3>2. \A d \in Bundle : d # c => results'[d] = results[d]
      BY <2>2 DEF Finish, QueueInv, QueueTypeOK
    <3> QED BY <3>1, <3>2
  <2> QED BY <2>1, <2>2
<1>2. results[c].pred = NoBundle
  BY DEF RegisterResult, Finish, QueueInv, DecisionsFollowReceipts, Finished, Unfinished
<1> QED BY <1>1, <1>2, QueueAssumption DEF Successors, Delivered

LEMMA AppendSuccessors ==
  ASSUME QueueInv, NEW p \in Bundle, NEW d \in Bundle, NEW s, AppendDecision(p, d, s)
  PROVE  /\ p # d /\ p.attempt = d.attempt
         /\ Successors(p) = {} /\ Successors(d) = {}
         /\ \A b \in Bundle : d \notin Successors(b)
         /\ results'[d].state = s /\ results'[d].pred = p
         /\ \A c \in Bundle : c # d => results'[c] = results[c]
         /\ Successors(p)' = {d}
         /\ \A b \in Bundle : b # p => Successors(b)' = Successors(b)
<1>1. /\ p # d /\ p.attempt = d.attempt
      /\ Successors(p) = {} /\ Successors(d) = {}
      /\ \A b \in Bundle : d \notin Successors(b)
  BY QueueAssumption DEF AppendDecision, Finished, Successors, QueueInv, DecisionsFollowReceipts
<1>2. /\ results'[d].state = s /\ results'[d].pred = p /\ Delivered(d)'
      /\ \A c \in Bundle : c # d => results'[c] = results[c]
  BY DEF AppendDecision, DecisionOutcome, Delivered, QueueInv, QueueTypeOK, ResultRow
<1>3. /\ Successors(p)' = {d}
      /\ \A b \in Bundle : b # p => Successors(b)' = Successors(b)
  BY <1>1, <1>2 DEF Successors, Delivered
<1> QED BY <1>1, <1>2, <1>3

(* A decision d on p, the end of its chain.                                *)
LEMMA AppendChains ==
  ASSUME QueueInv, ChainsEnd, NEW p \in Bundle, NEW d \in Bundle, NEW s, AppendDecision(p, d, s)
  PROVE  ChainsEnd'
<1>1. /\ p # d /\ p.attempt = d.attempt
      /\ Successors(p) = {} /\ Successors(d) = {}
      /\ \A b \in Bundle : d \notin Successors(b)
  BY AppendSuccessors
<1>3. /\ Successors(p)' = {d}
      /\ \A b \in Bundle : b # p => Successors(b)' = Successors(b)
  BY AppendSuccessors
<1>4. \A b \in Bundle : Successors(b) # {} => PickOne(Successors(b)) \in Bundle \ {d}
  BY <1>1, PickIn DEF Successors
<1>5. \E g : Follows(g)'
  <2>1. PICK f : Follows(f)
    BY DEF ChainsEnd
  <2>2. \A b \in Bundle : f[b] = Follow(f, b)
    BY <2>1 DEF Follows
  <2> DEFINE g == [b \in Bundle |-> IF f[b] = p THEN d ELSE f[b]]
  <2>3. ASSUME NEW b \in Bundle PROVE g[b] = Follow(g, b)'
    <3>1. f[p] = p /\ f[d] = d /\ g[p] = d /\ g[d] = d
      BY <1>1, <2>2 DEF Follow
    <3>2. CASE b = p
      BY <1>3, <3>1, <3>2, PickSole DEF Follow
    <3>3. CASE b # p /\ Successors(b) = {}
      BY <1>3, <2>2, <3>3 DEF Follow
    <3>4. CASE b # p /\ Successors(b) # {}
      <4> DEFINE c == PickOne(Successors(b))
      <4>1. c \in Bundle /\ f[b] = f[c]
        BY <1>4, <2>2, <3>4 DEF Follow
      <4>2. g[b] = g[c]
        BY <4>1
      <4> QED BY <1>3, <3>4, <4>2 DEF Follow
    <3> QED BY <3>2, <3>3, <3>4
  <2>4. g = [b \in Bundle |-> Follow(g, b)']
    <3> HIDE DEF g
    <3>1. g = [b \in Bundle |-> g[b]]
      BY DEF g
    <3> QED BY <2>3, <3>1
  <2> HIDE DEF g
  <2> QED BY <2>4 DEF Follows
<1>6. ASSUME NEW h, Follows(h)', NEW b \in Bundle PROVE EndOf(h[b], b)'
  <2>1. \A c \in Bundle : h[c] = Follow(h, c)'
    BY <1>6 DEF Follows
  <2>2. h[d] = d /\ h[p] = d
    <3>1. Successors(d)' = {} /\ Successors(p)' # {} /\ PickOne(Successors(p)') = d
      BY <1>1, <1>3, PickSole
    <3>2. h[d] = d
      BY <2>1, <3>1 DEF Follow
    <3>3. h[p] = h[d]
      BY <2>1, <3>1 DEF Follow
    <3> QED BY <3>2, <3>3
  <2> DEFINE g == [c \in Bundle |-> IF c # d /\ h[c] = d THEN p
                                    ELSE IF h[c] = p THEN NoBundle ELSE h[c]]
  <2>3. ASSUME NEW c \in Bundle PROVE g[c] = Follow(g, c)
    <3>1. g[p] = p /\ g[d] = d
      BY <1>1, <2>2
    <3>2. CASE c \in {p, d}
      BY <1>1, <3>1, <3>2 DEF Follow
    <3>3. CASE c \notin {p, d} /\ Successors(c) = {}
      <4>1. h[c] = c
        BY <1>3, <2>1, <3>3 DEF Follow
      <4> QED BY <3>3, <4>1 DEF Follow
    <3>4. CASE c \notin {p, d} /\ Successors(c) # {}
      <4> DEFINE e == PickOne(Successors(c))
      <4>1. e \in Bundle /\ e # d /\ h[c] = h[e]
        BY <1>3, <1>4, <2>1, <3>4 DEF Follow
      <4>2. g[c] = g[e]
        BY <3>4, <4>1
      <4> QED BY <3>4, <4>2 DEF Follow
    <3> QED BY <3>2, <3>3, <3>4
  <2>4. Follows(g)
    <3> HIDE DEF g
    <3>1. g = [c \in Bundle |-> g[c]]
      BY DEF g
    <3> QED BY <2>3, <3>1 DEF Follows
  <2>5. EndOf(g[b], b)
    <3> HIDE DEF g
    <3> QED BY <2>4 DEF ChainsEnd
  <2>6. CASE b = d
    BY <1>1, <1>3, <2>2, <2>6 DEF EndOf
  <2>7. CASE b # d /\ h[b] = d
    <3>1. g[b] = p
      BY <2>7
    <3> QED BY <1>1, <1>3, <2>5, <2>7, <3>1 DEF EndOf
  <2>8. CASE b # d /\ h[b] # d
    <3>1. h[b] # p
      BY <2>5, <2>8, QueueAssumption DEF EndOf
    <3>2. g[b] = h[b]
      BY <2>8, <3>1
    <3> QED BY <1>1, <1>3, <2>5, <3>1, <3>2 DEF EndOf
  <2> QED BY <2>6, <2>7, <2>8
<1> QED BY <1>5, <1>6 DEF ChainsEnd

LEMMA ChainsInit == QueueInit => ChainsEnd
<1> SUFFICES ASSUME QueueInit PROVE ChainsEnd
  OBVIOUS
<1>1. \A b \in Bundle : Successors(b) = {}
  BY DEF QueueInit, NoResult, Successors, Delivered
<1> DEFINE f == [b \in Bundle |-> b]
<1>2. Follows(f)
  BY <1>1 DEF Follows, Follow
<1>3. ASSUME NEW g, Follows(g), NEW b \in Bundle PROVE EndOf(g[b], b)
  BY <1>1, <1>3 DEF Follows, Follow, EndOf
<1> QED BY <1>2, <1>3 DEF ChainsEnd

LEMMA ChainsStep == QueueInv /\ ChainsEnd /\ [QueueNext]_queueVars => ChainsEnd'
<1> SUFFICES ASSUME QueueInv, ChainsEnd, [QueueNext]_queueVars PROVE ChainsEnd'
  OBVIOUS
<1>1. ASSUME results' = results PROVE ChainsEnd'
  BY <1>1, SameSuccessors DEF Successors, Delivered
<1>2. ASSUME NEW c \in Bundle, RegisterResult(c) \/ \E s \in Verdict : Finish(c, s)
      PROVE  ChainsEnd'
  BY <1>2, ReceiptSuccessors, SameSuccessors
<1>3. CASE UNCHANGED queueVars
  BY <1>1, <1>3 DEF queueVars
<1> QED BY <1>1, <1>2, <1>3, AppendChains
    DEF QueueNext, Register, RegisterBlocked, TimePasses, SupersedePending, Claim, Recover

(* Following the decisions about a receipt always arrives: at one of the   *)
(* same attempt, which no later decision supersedes and which the row of   *)
(* the task names as long as the attempt is its current one                *)
(* (effective_admission_decision never meets a conflict or a cycle).       *)
THEOREM EffectiveDecisionArrives ==
  QueueSpec => [](\A b \in Bundle :
    LET e == EffectiveDecision[b]
        t == attempts[b.attempt]
    IN /\ e \in Bundle /\ Successors(e) = {} /\ e.attempt = b.attempt
       /\ results[e].state \in Verdict /\ work[t].attempt = b.attempt => work[t].result = e)
<1>1. QueueInv /\ ChainsEnd =>
        \A b \in Bundle :
          LET e == EffectiveDecision[b]
              t == attempts[b.attempt]
          IN /\ e \in Bundle /\ Successors(e) = {} /\ e.attempt = b.attempt
             /\ results[e].state \in Verdict /\ work[t].attempt = b.attempt => work[t].result = e
  BY EffectiveFollows DEF EndOf, QueueInv, EffectiveDecisionIsCurrent
<1> QED BY <1>1, ChainsInit, ChainsStep, QueueInvariant, PTL DEF QueueSpec
-----------------------------------------------------------------------------
(* Admissions are grounded.                                                *)

OwnerTypes ==
  /\ resolved \subseteq Binding
  /\ review \in [Bundle -> Seq(Bundle \union {NoBundle})]
  /\ faults \in 0 .. MaxFaults
  /\ mine \subseteq Attempt

(* The decision that an admission overrules, if it has to name one.        *)
OverruledBy(d) ==
  LET p == results[d].pred
  IN IF p # NoBundle /\ results[p].pred # NoBundle THEN p ELSE NoBundle

ReviewedFor(d) ==
  \E b \in Bundle : b.attempt = d.attempt /\ OverruledBy(d) \in ToSet(review[b])

Standing(b) == results[b].state \in Admitted /\ Successors(b) = {}

(* What a step does to admissions: a new one was reviewed, and none on     *)
(* which a resolved binding rests is overturned.                           *)
NewAreReviewed ==
  \A d \in Bundle : results'[d].state \in Admitted /\ Paid(d.attempt)' =>
    results'[d] = results[d] \/ ReviewedFor(d)'

NoneOverturned ==
  \A b \in Bundle : Standing(b) /\ BindingOf(b) \in resolved => Successors(b)' = {}

NewAreStanding ==
  \A x \in resolved' \ resolved : \E b \in Bundle : Standing(b)' /\ BindingOf(b)' = x

LEMMA SameReceipts ==
  ASSUME results' = results PROVE NewAreReviewed /\ NoneOverturned
  BY DEF NewAreReviewed, NoneOverturned, Standing, Successors, Delivered

LEMMA RegisterAdmitsNothing ==
  ASSUME QueueInv, NEW b \in Bundle, RegisterResult(b) PROVE NewAreReviewed /\ NoneOverturned
<1>1. NewAreReviewed
  BY DEF NewAreReviewed, RegisterResult, QueueInv, QueueTypeOK, ResultRow, Admitted
<1>2. NoneOverturned
  BY ReceiptSuccessors DEF NoneOverturned, Standing
<1> QED BY <1>1, <1>2

LEMMA RefusalAdmitsNothing ==
  ASSUME QueueInv, NEW p \in Bundle, NEW d \in Bundle, AppendDecision(p, d, "needs_review")
  PROVE  /\ NewAreReviewed
         /\ ~(Standing(p) /\ BindingOf(p) \in resolved) => NoneOverturned
<1>1. NewAreReviewed
  BY AppendSuccessors DEF NewAreReviewed, Admitted
<1>2. ASSUME ~(Standing(p) /\ BindingOf(p) \in resolved) PROVE NoneOverturned
  BY <1>2, AppendSuccessors DEF NoneOverturned, Standing
<1> QED BY <1>1, <1>2

LEMMA NamedInReview ==
  ASSUME OwnerTypes, NEW b \in Bundle, Authorised(b)
  PROVE  Overruled(b) \in ToSet(review[b])
<1>1. review[b] \in Seq(Bundle \union {NoBundle}) /\ review[b] # <<>>
  BY DEF OwnerTypes, Authorised
<1>2. Len(review[b]) \in DOMAIN review[b]
  BY <1>1
<1> QED BY <1>1, <1>2 DEF Authorised, ToSet, Last

(* A ruling that admits a paid result follows a review of it.              *)
LEMMA AdmittingRuling ==
  ASSUME NEW b \in Bundle, NEW state \in Rulings(b), state \in Admitted, LaneOf(b) # "local"
  PROVE  Authorised(b)
  BY DEF Rulings, Admitted

LEMMA FinishAdmits ==
  ASSUME AllInv, OwnerTypes, NEW b \in Bundle, NEW state \in Rulings(b), Finish(b, state),
         review' = review
  PROVE  /\ NewAreReviewed /\ NoneOverturned
         /\ state \in Admitted => Standing(b)' /\ BindingOf(b)' = BindingOf(b)
<1>0. QueueInv /\ state \in Verdict
  BY RulingsAreVerdicts DEF AllInv, PipeInv
<1>1. /\ results'[b].state = state /\ results'[b].pred = results[b].pred
      /\ \A d \in Bundle : d # b => results'[d] = results[d]
      /\ attempts' = attempts
  BY <1>0 DEF Finish, QueueInv, QueueTypeOK, ResultRow
<1>2. results[b].pred = NoBundle /\ ~Finished(b)
  BY <1>0 DEF Finish, QueueInv, DecisionsFollowReceipts, Finished
<1>3. ASSUME state \in Admitted, LaneOf(b) # "local" PROVE ReviewedFor(b)'
  <2>1. NoBundle \in ToSet(review[b])
    BY <1>2, <1>3, AdmittingRuling, NamedInReview DEF Overruled
  <2> QED BY <1>1, <1>2, <2>1 DEF ReviewedFor, OverruledBy
<1>4. NewAreReviewed
  BY <1>1, <1>3 DEF NewAreReviewed, Paid, LaneOf
<1>5. NoneOverturned
  BY <1>0, ReceiptSuccessors DEF NoneOverturned, Standing
<1>6. Successors(b)' = {}
  <2>1. Successors(b) = {}
    BY <1>0, <1>2, QueueAssumption DEF Successors, QueueInv, DecisionsFollowReceipts
  <2> QED BY <1>0, <2>1, ReceiptSuccessors
<1> QED BY <1>1, <1>4, <1>5, <1>6 DEF Standing, BindingOf

LEMMA ReadmissionAdmits ==
  ASSUME AllInv, OwnerTypes, NEW b \in Bundle, attempts[b.attempt] # NoTask, Reconsidered(b),
         NEW d \in Fresh(b, b.outcome), AppendDecision(EffectiveDecision[b], d, VerdictOf(b)),
         review' = review
  PROVE  /\ NewAreReviewed /\ NoneOverturned
         /\ d \in Bundle /\ Standing(d)' /\ BindingOf(d)' = BindingOf(b)
<1> DEFINE p == EffectiveDecision[b]
<1>1. d \in Bundle /\ d.attempt = b.attempt
  BY DEF Fresh
<1>2. p \in Bundle /\ QueueInv
  <2>1. work[attempts[b.attempt]].status \in Verdict
    BY DEF Reconsidered, Verdict, Dispositions
  <2> QED BY <1>1, <2>1, AppendsToReceipt DEF AllInv, PipeInv
<1>3. /\ results'[d].state = VerdictOf(b) /\ results'[d].pred = p /\ p # d
      /\ \A c \in Bundle : c # d => results'[c] = results[c]
      /\ Successors(d)' = {} /\ \A c \in Bundle : c # p => Successors(c)' = Successors(c)
      /\ attempts' = attempts
  <2>1. AppendDecision(p, d, VerdictOf(b))
    OBVIOUS
  <2>2. attempts' = attempts
    BY <2>1 DEF AppendDecision
  <2> HIDE DEF p
  <2> QED BY <1>1, <1>2, <2>1, <2>2, AppendSuccessors
<1>4. results[p].state = "needs_review" /\ Finished(b) /\ Authorised(b)
  BY DEF Reconsidered
<1>5. ReviewedFor(d)'
  <2>1. Overruled(b) = IF results[p].pred # NoBundle THEN p ELSE NoBundle
    BY <1>4 DEF Overruled
  <2>2. OverruledBy(d)' = Overruled(b)
    BY <1>2, <1>3, <2>1, QueueAssumption DEF OverruledBy
  <2>3. Overruled(b) \in ToSet(review[b])
    BY <1>4, NamedInReview
  <2> QED BY <1>1, <2>2, <2>3 DEF ReviewedFor
<1>6. NewAreReviewed
  BY <1>3, <1>5 DEF NewAreReviewed
<1>7. NoneOverturned
  BY <1>3, <1>4 DEF NoneOverturned, Standing, Admitted
<1>8. Standing(d)' /\ BindingOf(d)' = BindingOf(b)
  BY <1>1, <1>3 DEF Standing, Admitted, VerdictOf, BindingOf
<1> QED BY <1>1, <1>6, <1>7, <1>8
LEMMA IngestAdmits ==
  ASSUME AllInv, OwnerTypes, Ingest
  PROVE  NewAreReviewed /\ NoneOverturned /\ NewAreStanding /\ resolved' \subseteq Binding
<1>0. QueueInv /\ review' = review
  BY DEF AllInv, PipeInv, Ingest
<1> SUFFICES ASSUME NEW b \in Bundle, b = job.bundle, attempts[b.attempt] # NoTask
             PROVE  NewAreReviewed /\ NoneOverturned /\ NewAreStanding /\ resolved' \subseteq Binding
  BY DEF AllInv, PipeInv, JobInv, Ingest
<1>1. BindingOf(b) \in Binding /\ resolved \subseteq Binding
  BY BundleOfAttempt DEF AllInv, PipeInv, OwnerTypes
<1>2. CASE IngestNew(b)
  <2>1. PICK state \in Rulings(b) : Finish(b, state) /\ MayResolve(b, state)
    BY <1>2 DEF IngestNew
  <2>2. /\ NewAreReviewed /\ NoneOverturned
        /\ state \in Admitted => Standing(b)' /\ BindingOf(b)' = BindingOf(b)
    BY <1>0, <2>1, FinishAdmits
  <2> QED BY <1>1, <2>1, <2>2 DEF MayResolve, NewAreStanding
<1>3. CASE IngestAgain(b)
  BY <1>1, <1>3, SameReceipts DEF IngestAgain, NewAreStanding, queueVars
<1>4. CASE Readmit(b)
  <2>1. PICK d \in Fresh(b, b.outcome) :
           AppendDecision(EffectiveDecision[b], d, VerdictOf(b))
    BY <1>4 DEF Readmit
  <2>2. Reconsidered(b) /\ MayResolve(b, VerdictOf(b))
    BY <1>4 DEF Readmit
  <2>3. /\ NewAreReviewed /\ NoneOverturned
        /\ d \in Bundle /\ Standing(d)' /\ BindingOf(d)' = BindingOf(b)
    BY <1>0, <2>1, <2>2, ReadmissionAdmits
  <2> QED BY <1>1, <2>2, <2>3 DEF MayResolve, NewAreStanding
<1>5. CASE RowsRefused(b)
  <2>1. resolved' = resolved
    BY <1>5 DEF RowsRefused
  <2>2. NewAreReviewed /\ NoneOverturned
    <3>1. CASE Unfinished(b) /\ Finish(b, "needs_review")
      <4>1. /\ results'[b].state = "needs_review"
            /\ \A d \in Bundle : d # b => results'[d] = results[d]
        BY <1>0, <3>1 DEF Finish, QueueInv, QueueTypeOK, ResultRow
      <4>2. NoneOverturned
        BY <1>0, <3>1, ReceiptSuccessors DEF NoneOverturned, Standing, Verdict, Dispositions
      <4> QED BY <4>1, <4>2 DEF NewAreReviewed, Admitted
    <3>2. ASSUME Reconsidered(b), NEW d \in Fresh(b, "needs_review"),
                 AppendDecision(EffectiveDecision[b], d, "needs_review")
          PROVE  NewAreReviewed /\ NoneOverturned
      <4>1. d \in Bundle /\ d.attempt = b.attempt
        BY DEF Fresh
      <4>2. work[attempts[b.attempt]].status \in Verdict
        BY <3>2 DEF Reconsidered, Verdict, Dispositions
      <4>3. EffectiveDecision[b] \in Bundle
        BY <3>2, <4>1, <4>2, AppendsToReceipt DEF AllInv, PipeInv
      <4>4. ~Standing(EffectiveDecision[b])
        BY <3>2 DEF Reconsidered, Standing, Admitted
      <4> QED BY <1>0, <3>2, <4>1, <4>3, <4>4, RefusalAdmitsNothing
    <3> QED BY <1>5, <3>1, <3>2 DEF RowsRefused
  <2> QED BY <1>1, <2>1, <2>2 DEF NewAreStanding
<1> QED BY <1>2, <1>3, <1>4, <1>5 DEF Ingest

(* An admission is refused afterwards only if its binding is unresolved.   *)
LEMMA SettleAdmitsNothing ==
  ASSUME AllInv, Settle PROVE NewAreReviewed /\ NoneOverturned
<1> SUFFICES ASSUME NEW b \in Bundle, b = job.bundle, attempts[b.attempt] # NoTask,
                    job.state \in Admitted
             PROVE  NewAreReviewed /\ NoneOverturned
  BY DEF AllInv, PipeInv, JobInv, Settle
<1>1. CASE results' = results
  BY <1>1, SameReceipts
<1>2. CASE /\ BindingOf(b) \notin resolved
           /\ work[attempts[b.attempt]].status = job.state
           /\ AppendDecision(EffectiveDecision[b], RefusalOf(b), "needs_review")
  <2> DEFINE p == EffectiveDecision[b]
             d == RefusalOf(b)
  <2>1. d \in Bundle /\ d.attempt = b.attempt
    BY PipelineAssumption DEF RefusalOf, Bundle
  <2>2. work[attempts[b.attempt]].status \in Verdict
    BY <1>2 DEF Admitted, Verdict, Dispositions
  <2>3. p \in Bundle
    BY <1>2, <2>1, <2>2, AppendsToReceipt DEF AllInv, PipeInv
  <2>4. p.attempt = b.attempt
    BY <1>2, <2>1 DEF AppendDecision
  <2>5. BindingOf(p) \notin resolved
    BY <1>2, <2>4 DEF BindingOf
  <2> QED BY <1>2, <2>1, <2>3, <2>5, RefusalAdmitsNothing DEF AllInv, PipeInv
<1> QED BY <1>1, <1>2 DEF Settle, SupersedePending, queueVars

LEMMA ReceiveAdmitsNothing ==
  ASSUME AllInv, NEW b \in Bundle, Replay(b) \/ Collect(b) \/ PollReview(b)
  PROVE  NewAreReviewed /\ NoneOverturned
<1>1. CASE UNCHANGED queueVars
  BY <1>1, SameReceipts DEF queueVars
<1>2. CASE RegisterResult(b)
  BY <1>2, RegisterAdmitsNothing DEF AllInv, PipeInv
<1> QED BY <1>1, <1>2 DEF Replay, Collect, PollReview, Receive

LEMMA QuarantineAdmitsNothing ==
  ASSUME AllInv, QuarantineCommit PROVE NewAreReviewed
<1>1. PICK d \in Bundle, p \in Bundle : AppendDecision(p, d, "needs_review")
  BY DEF AllInv, PipeInv, JobInv, QuarantineCommit
<1> QED BY <1>1, RefusalAdmitsNothing DEF AllInv, PipeInv

(* Every other step of a run.                                              *)
LEMMA OthersKeepReceipts ==
  ASSUME \/ \E x \in Binding : Seed(x)
         \/ \E t \in Task, a \in Attempt : Dispatch(t, a)
         \/ \E t \in Task : Lapse(t)
         \/ \E r \in Request : StartRun(r)
         \/ \E a \in Attempt : FutureRaises(a) \/ WorkerFails(a)
         \/ \E b \in Bundle : Publish(b) \/ SignReview(b)
         \/ \E b, d \in Bundle : QuarantinePublish(b, d)
         \/ RecoverLeases \/ CancelResolved \/ EscalateDeferred \/ Escalate
         \/ CompleteRun \/ Close \/ Abort \/ Kill \/ QuarantineFails \/ UNCHANGED vars
  PROVE  results' = results
<1>1. CASE \/ \E x \in Binding : Seed(x)
           \/ EscalateDeferred \/ Escalate
  BY <1>1 DEF Seed, EscalateDeferred, Escalate, EscalateTo, Register, RegisterBlocked, queueVars
<1>2. CASE \/ \E t \in Task, a \in Attempt : Dispatch(t, a)
           \/ \E t \in Task : Lapse(t)
           \/ RecoverLeases \/ CancelResolved
  BY <1>2 DEF Dispatch, Claim, Lapse, TimePasses, RecoverLeases, Recover, CancelResolved,
    SupersedePending
<1> QED BY <1>1, <1>2 DEF StartRun, FutureRaises, WorkerFails, Publish, SignReview,
      QuarantinePublish, CompleteRun, Close, Abort, Kill, QuarantineFails, vars, durable, queueVars

LEMMA ReviewsOnlyGrow ==
  ASSUME OwnerTypes, ChainsEnd, [PipelineNext]_vars
  PROVE  /\ review' \in [Bundle -> Seq(Bundle \union {NoBundle})]
         /\ \A b \in Bundle : ToSet(review[b]) \subseteq ToSet(review'[b])
<1>1. CASE review' = review
  BY <1>1 DEF OwnerTypes
<1>2. ASSUME NEW b \in Bundle, SignReview(b)
      PROVE  /\ review' \in [Bundle -> Seq(Bundle \union {NoBundle})]
             /\ \A c \in Bundle : ToSet(review[c]) \subseteq ToSet(review'[c])
  <2>1. Overruled(b) \in Bundle \union {NoBundle}
    BY EffectiveFollows DEF Overruled, EndOf
  <2>2. /\ review' = [review EXCEPT ![b] = Append(@, Overruled(b))]
        /\ review \in [Bundle -> Seq(Bundle \union {NoBundle})]
    BY <1>2 DEF SignReview, OwnerTypes
  <2> DEFINE s == review[b]
  <2>3. s \in Seq(Bundle \union {NoBundle})
    BY <2>2
  <2>4. Append(s, Overruled(b)) \in Seq(Bundle \union {NoBundle})
    BY <2>1, <2>3
  <2>5. \A i \in DOMAIN s : /\ i \in DOMAIN Append(s, Overruled(b))
                            /\ Append(s, Overruled(b))[i] = s[i]
    BY <2>1, <2>3
  <2>6. ToSet(s) \subseteq ToSet(Append(s, Overruled(b)))
    BY <2>5 DEF ToSet
  <2> QED BY <2>2, <2>4, <2>6
<1> QED BY <1>1, <1>2
    DEF PipelineNext, Next, OwnerStep, Quarantine, Ingest, Settle, Escalate, Replay, Collect,
      PollReview, RecoverLeases, CancelResolved, EscalateDeferred, Seed, Dispatch, FutureRaises,
      CompleteRun, Close, StartRun, Abort, Kill, Publish, WorkerFails, Lapse, QuarantinePublish,
      QuarantineCommit, QuarantineFails, vars, durable
LEMMA OwnerTypesStep ==
  ASSUME AllInv, OwnerTypes, ChainsEnd, [PipelineNext]_vars PROVE OwnerTypes'
<1> USE DEF OwnerTypes
<1>1. review' \in [Bundle -> Seq(Bundle \union {NoBundle})]
  BY ReviewsOnlyGrow
<1>2. CASE Ingest
  <2>1. resolved' \subseteq Binding
    BY <1>2, IngestAdmits
  <2>2. faults' = faults /\ mine' = mine
    BY <1>2 DEF Ingest, IngestNew, IngestAgain, Readmit, RowsRefused, Unwind
  <2> QED BY <1>1, <2>1, <2>2
<1>3. CASE Abort \/ Kill \/ QuarantineFails
  <2>1. faults' = faults + 1 /\ faults < MaxFaults /\ mine' \subseteq mine /\ resolved' = resolved
    BY <1>3 DEF Abort, Unwind, Kill, QuarantineFails, Down
  <2> QED BY <1>1, <2>1, PipelineAssumption
<1>4. CASE QuarantineCommit \/ CompleteRun \/ Close
  BY <1>1, <1>4 DEF QuarantineCommit, CompleteRun, Close, Down, durable
<1>5. CASE \/ \E b \in Bundle : Replay(b) \/ Collect(b) \/ PollReview(b)
           \/ \E t \in Task, a \in Attempt : Dispatch(t, a)
  BY <1>1, <1>5 DEF Replay, Collect, PollReview, Dispatch
<1>6. CASE \/ \E x \in Binding : Seed(x)
           \/ \E t \in Task : Lapse(t)
           \/ \E r \in Request : StartRun(r)
           \/ \E a \in Attempt : FutureRaises(a) \/ WorkerFails(a)
           \/ \E b \in Bundle : Publish(b) \/ SignReview(b)
           \/ \E b, d \in Bundle : QuarantinePublish(b, d)
           \/ Settle \/ RecoverLeases \/ CancelResolved \/ EscalateDeferred \/ Escalate
           \/ UNCHANGED vars
  <2>1. faults' = faults /\ mine' = mine /\ resolved' = resolved
    BY <1>6 DEF Seed, Lapse, StartRun, FutureRaises, Unwind, WorkerFails, Publish, SignReview,
      QuarantinePublish, Settle, RecoverLeases, CancelResolved, EscalateDeferred, Escalate, vars,
      durable, ownerVars
  <2> QED BY <1>1, <2>1
<1> QED BY <1>2, <1>3, <1>4, <1>5, <1>6 DEF PipelineNext, Next, OwnerStep, Quarantine

LEMMA StepReviews ==
  ASSUME AllInv, OwnerTypes, [PipelineNext]_vars PROVE NewAreReviewed
<1>1. ASSUME results' = results PROVE NewAreReviewed
  BY <1>1, SameReceipts
<1> QED BY <1>1, IngestAdmits, SettleAdmitsNothing, ReceiveAdmitsNothing, QuarantineAdmitsNothing,
      OthersKeepReceipts DEF PipelineNext, Next, OwnerStep, Quarantine

LEMMA StepOverturnsNone ==
  ASSUME AllInv, OwnerTypes, [Next]_vars PROVE NoneOverturned /\ NewAreStanding
<1>1. CASE Ingest
  BY <1>1, IngestAdmits
<1>2. CASE ~Ingest
  <2>1. NoneOverturned
    BY <1>2, SameReceipts, SettleAdmitsNothing, ReceiveAdmitsNothing, OthersKeepReceipts
       DEF Next, OwnerStep
  <2>2. resolved' \subseteq resolved
    BY <1>2 DEF Next, OwnerStep, Seed, Lapse, StartRun, FutureRaises, WorkerFails, Publish,
      SignReview, Settle, RecoverLeases, CancelResolved, EscalateDeferred, Escalate, vars,
      durable, Replay, Collect, PollReview, Dispatch, CompleteRun, Close, Abort, Kill
  <2> QED BY <2>1, <2>2 DEF NewAreStanding
<1> QED BY <1>1, <1>2

(* Receipts that are finished keep their review, and what they stand for.  *)
LEMMA ReviewedStep ==
  ASSUME AllInv, OwnerTypes, ChainsEnd, AdmissionsWereReviewed, [PipelineNext]_vars
  PROVE  AdmissionsWereReviewed'
<1> SUFFICES ASSUME NEW d \in Bundle, results'[d].state \in Admitted, Paid(d.attempt)'
             PROVE  ReviewedFor(d)'
  BY DEF AdmissionsWereReviewed, ReviewedFor, OverruledBy
<1>1. CASE results'[d] = results[d]
  <2>1. /\ QueueInv /\ Finished(d)
        /\ results[d].pred # NoBundle => results[d].pred \in Bundle /\ Finished(results[d].pred)
    BY <1>1, RowTypes DEF AllInv, PipeInv, QueueInv, Finished, Delivered, Unfinished, Admitted,
      DecisionsFollowReceipts
  <2>2. d.attempt \in Attempt /\ attempts'[d.attempt] = attempts[d.attempt]
    BY <2>1, BundleAttempt, QueueKeeps DEF QueueInv, DeliveredWasDrawn, Finished
  <2>3. ReviewedFor(d)
    BY <1>1, <2>2 DEF AdmissionsWereReviewed, ReviewedFor, OverruledBy, Paid
  <2>4. OverruledBy(d)' = OverruledBy(d)
    BY <1>1, <2>1, QueueKeeps DEF OverruledBy
  <2> QED BY <2>3, <2>4, ReviewsOnlyGrow DEF ReviewedFor
<1>2. CASE results'[d] # results[d]
  BY <1>2, StepReviews DEF NewAreReviewed
<1> QED BY <1>1, <1>2

LEMMA StandingStep ==
  ASSUME AllInv, OwnerTypes, ResolvedByAStandingAdmission, [Next]_vars
  PROVE  ResolvedByAStandingAdmission'
<1>0. [PipelineNext]_vars
  BY DEF PipelineNext
<1> SUFFICES ASSUME NEW x \in resolved'
             PROVE  \E b \in Bundle : Standing(b)' /\ BindingOf(b)' = x
  BY DEF ResolvedByAStandingAdmission, Standing
<1>1. CASE x \in resolved
  <2>1. PICK b \in Bundle : Standing(b) /\ BindingOf(b) = x
    BY <1>1 DEF ResolvedByAStandingAdmission, Standing
  <2>2. Finished(b)
    BY <2>1 DEF Standing, Admitted, Finished, Delivered, Unfinished
  <2>3. results'[b] = results[b]
    BY <1>0, <2>2, QueueKeeps
  <2>4. attempts'[b.attempt] = attempts[b.attempt]
    BY <1>0, <2>2, BundleAttempt, QueueKeeps
       DEF AllInv, PipeInv, QueueInv, DeliveredWasDrawn, Finished
  <2>5. Successors(b)' = {}
    BY <1>1, <2>1, StepOverturnsNone DEF NoneOverturned
  <2> QED BY <2>1, <2>3, <2>4, <2>5 DEF Standing, BindingOf
<1>2. CASE x \notin resolved
  BY <1>2, StepOverturnsNone DEF NewAreStanding
<1> QED BY <1>1, <1>2

GroundedInv == AllInv /\ ImportInv /\ ChainsEnd /\ OwnerTypes /\ AdmissionsWereReviewed

LEMMA GroundedInit == Init => GroundedInv /\ ResolvedByAStandingAdmission
<1> SUFFICES ASSUME Init PROVE GroundedInv /\ ResolvedByAStandingAdmission
  OBVIOUS
<1>1. AllInv /\ ImportInv /\ ChainsEnd
  BY AllInit, ImportInit, ChainsInit DEF Init
<1>2. OwnerTypes
  BY PipelineAssumption DEF Init, OwnerTypes
<1>3. AdmissionsWereReviewed
  BY DEF Init, QueueInit, NoResult, AdmissionsWereReviewed, Admitted
<1>4. ResolvedByAStandingAdmission
  BY DEF Init, ResolvedByAStandingAdmission
<1> QED BY <1>1, <1>2, <1>3, <1>4 DEF GroundedInv

LEMMA GroundedStep == GroundedInv /\ [PipelineNext]_vars => GroundedInv'
<1> SUFFICES ASSUME GroundedInv, [PipelineNext]_vars PROVE GroundedInv'
  OBVIOUS
<1>1. AllInv' /\ ImportInv'
  BY AllStep, ImportStep DEF GroundedInv
<1>2. ChainsEnd'
  BY StepUsesQueue, ChainsStep DEF GroundedInv, AllInv, PipeInv
<1>3. OwnerTypes' /\ AdmissionsWereReviewed'
  BY OwnerTypesStep, ReviewedStep DEF GroundedInv
<1> QED BY <1>1, <1>2, <1>3 DEF GroundedInv

LEMMA GroundedTypes == ASSUME GroundedInv PROVE TypeOK
<1>1. QueueTypeOK /\ spool \subseteq Bundle /\ extracting \subseteq Attempt
  BY DEF GroundedInv, AllInv, PipeInv, QueueInv, Wiring
<1>2. inbox \subseteq Bundle /\ deferred \subseteq Bundle
  BY DEF GroundedInv, AllInv, PipeInv, Wiring
<1>3. run \in Request \union {NoRun}
  BY DEF GroundedInv, ImportInv, RunInv
<1>4. pc \in {"down", "replay", "cancel", "escalate", "drain", "closing", "quarantine"}
  BY DEF GroundedInv, ImportInv, PhaseInv, Live
<1>5. JobTypeOK
  BY DEF GroundedInv, ImportInv, JobPhase, AllInv, PipeInv, JobInv, JobTypeOK
<1> QED BY <1>1, <1>2, <1>3, <1>4, <1>5 DEF GroundedInv, OwnerTypes, TypeOK

(* Every admission of a paid result rests on a review of its attempt, and  *)
(* one that overrules an appended refusal on a review that names it; also  *)
(* beside the quarantine script.                                           *)
THEOREM AdmissionsReviewed == QuarantineSpec => []AdmissionsWereReviewed
<1>1. GroundedInv /\ [Next \/ Quarantine]_vars => GroundedInv'
  BY GroundedStep DEF PipelineNext
<1>2. GroundedInv => AdmissionsWereReviewed
  BY DEF GroundedInv
<1> QED BY GroundedInit, <1>1, <1>2, PTL DEF QuarantineSpec

(* In the runs of the coordinator a binding counts as resolved only while  *)
(* an admission of it stands, and every admission of a paid result was     *)
(* reviewed.                                                               *)
THEOREM AdmissionsGrounded == Spec => []AdmissionsAreGrounded
<1>1. Init => GroundedInv /\ ResolvedByAStandingAdmission
  BY GroundedInit
<1>2. /\ GroundedInv /\ ResolvedByAStandingAdmission /\ [Next]_vars
      => (GroundedInv /\ ResolvedByAStandingAdmission)'
  BY GroundedStep, StandingStep DEF PipelineNext, GroundedInv
<1>3. GroundedInv /\ ResolvedByAStandingAdmission => AdmissionsAreGrounded
  BY GroundedTypes DEF GroundedInv, AdmissionsAreGrounded
<1> QED BY <1>1, <1>2, <1>3, PTL DEF Spec
-----------------------------------------------------------------------------
(* What is resolved is not dispatched.                                     *)

(* Once a run has cancelled resolved work, a task of a resolved binding is *)
(* queued no longer than it takes receive() to settle the admission.       *)
CancelInv ==
  pc \in {"escalate", "drain"} =>
    \A t \in Task :
      /\ t.lane \in Lane
      /\ work[t].status = "pending"
      /\ t.binding \in run.scope \intersect resolved
      => job.step = "settle" /\ BindingOf(job.bundle) = t.binding

NoNewPending ==
  /\ attempts' = attempts
  /\ \A t \in Task : work'[t].status = "pending" => work[t].status = "pending"

LEMMA FinishQueuesNothing ==
  ASSUME QueueTypeOK, NEW b, NEW s \in Verdict, Finish(b, s) PROVE NoNewPending
  BY DEF NoNewPending, Finish, Verdict, Dispositions, QueueTypeOK, WorkRow

LEMMA AppendQueuesNothing ==
  ASSUME QueueTypeOK, NEW p, NEW d, NEW s, AppendDecision(p, d, s) PROVE NoNewPending
<1>1. s # "pending"
  BY DEF AppendDecision, DecisionOutcome
<1> QED BY <1>1 DEF NoNewPending, AppendDecision, QueueTypeOK, WorkRow

LEMMA SupersedeQueuesNothing ==
  ASSUME QueueTypeOK, NEW X, NEW L, SupersedePending(X, L)
  PROVE  /\ NoNewPending
         /\ \A t \in Task : t.binding \in X /\ t.lane \in L => work'[t].status # "pending"
<1> SUFFICES ASSUME NEW t \in Task, work'[t].status = "pending"
             PROVE  work[t].status = "pending" /\ ~(t.binding \in X /\ t.lane \in L)
  BY DEF NoNewPending, SupersedePending
<1>1. work[t] \in WorkRow
  BY DEF QueueTypeOK
<1>2. \/ work'[t] = work[t] /\ ~(t.binding \in X /\ t.lane \in L /\ Cancellable(t))
      \/ work'[t] = [work[t] EXCEPT !.status = "superseded", !.due = FALSE]
  BY DEF SupersedePending
<1> QED BY <1>1, <1>2 DEF WorkRow, Cancellable

(* A run leaves a binding that it resolves to settle().                    *)
LEMMA IngestSettles ==
  ASSUME AllInv, Ingest, NEW b \in Bundle, b = job.bundle
  PROVE  /\ NoNewPending
         /\ resolved' \subseteq resolved \union {BindingOf(b)}
         /\ resolved' # resolved => job'.step = "settle" /\ job'.bundle = b
         /\ run' = run /\ (pc' = pc \/ pc' = "closing")
<1>0. QueueTypeOK
  BY DEF AllInv, PipeInv, QueueInv
<1>1. ASSUME NEW prior, NEW state, Proceed(b, prior, state),
             prior \in {"extracted", "needs_review"}, MayResolve(b, state)
      PROVE  /\ resolved' \subseteq resolved \union {BindingOf(b)}
             /\ resolved' # resolved => job'.step = "settle" /\ job'.bundle = b
  BY <1>1 DEF Proceed, MayResolve, Admitted
<1>2. CASE IngestNew(b)
  <2>1. PICK state \in Rulings(b) :
           Finish(b, state) /\ MayResolve(b, state) /\ Proceed(b, "extracted", state)
    BY <1>2 DEF IngestNew
  <2>2. NoNewPending
    BY <1>0, <2>1, RulingsAreVerdicts, FinishQueuesNothing
  <2> QED BY <1>1, <1>2, <2>1, <2>2 DEF IngestNew
<1>3. CASE IngestAgain(b)
  BY <1>3 DEF IngestAgain, NoNewPending, queueVars
<1>4. CASE Readmit(b)
  <2>1. NoNewPending
    BY <1>0, <1>4, AppendQueuesNothing DEF Readmit
  <2> QED BY <1>1, <1>4, <2>1 DEF Readmit
<1>5. CASE RowsRefused(b)
  <2>1. NoNewPending
    BY <1>0, <1>5, AppendQueuesNothing, FinishQueuesNothing DEF RowsRefused, Verdict, Dispositions
  <2> QED BY <1>5, <2>1 DEF RowsRefused, Unwind
<1> QED BY <1>2, <1>3, <1>4, <1>5 DEF Ingest

LEMMA RegistersOne ==
  ASSUME QueueTypeOK, NEW u \in Task, Register(u) \/ RegisterBlocked(u),
         NEW t \in Task, work'[t].status = "pending"
  PROVE  attempts' = attempts /\ (t = u \/ work[t].status = "pending")
  BY DEF Register, RegisterBlocked, QueueTypeOK, WorkRow

(* Only needed bindings get new tasks.                                     *)
LEMMA NewTasksAreNeeded ==
  ASSUME AllInv, EscalateDeferred \/ Escalate \/ \E x \in Binding : Seed(x),
         NEW t \in Task, work'[t].status = "pending", work[t].status # "pending"
  PROVE  t.binding \in Needed
<1>0. QueueTypeOK /\ Wiring
  BY DEF AllInv, PipeInv, QueueInv
<1>1. ASSUME NEW b, NEW l, EscalateTo(b, l), BindingOf(b) \in Binding PROVE t.binding \in Needed
  <2>1. TaskOf(BindingOf(b), l) \in Task /\ Register(TaskOf(BindingOf(b), l))
    BY <1>0, <1>1, EscalationRegisters
  <2>2. t = TaskOf(BindingOf(b), l)
    BY <1>0, <2>1, RegistersOne
  <2>3. BindingOf(b) \in Needed
    BY <1>1 DEF EscalateTo, Targets
  <2> QED BY <2>2, <2>3 DEF TaskOf
<1>2. CASE EscalateDeferred
  BY <1>1, <1>2, EscalatedBindings DEF EscalateDeferred, AllInv, queueVars
<1>3. CASE Escalate
  BY <1>1, <1>3, EscalatedBindings DEF Escalate, AllInv
<1>4. ASSUME NEW x \in Binding, Seed(x) PROVE t.binding \in Needed
  <2>1. CASE Register(TaskOf(x, FirstLane))
    <3>1. TaskOf(x, FirstLane) \in Task
      BY <2>1, TaskOfIsTask DEF Register, TaskOf
    <3>2. t = TaskOf(x, FirstLane)
      BY <1>0, <2>1, <3>1, RegistersOne
    <3> QED BY <1>4, <3>2 DEF TaskOf, Seed
  <2>2. CASE RegisterBlocked(TaskOf(x, NoLane))
    BY <1>0, <1>4, <2>2, RegistersOne, TaskOfIsTask DEF TaskOf, Seed
  <2> QED BY <1>4, <2>1, <2>2 DEF Seed
<1> QED BY <1>2, <1>3, <1>4

LEMMA CancelStep ==
  ASSUME AllInv, ImportInv, CancelInv, [PipelineNext]_vars PROVE CancelInv'
<1>0. QueueTypeOK
  BY DEF AllInv, PipeInv, QueueInv
<1>1. CASE Ingest
  <2>1. PICK b \in Bundle : b = job.bundle
    BY <1>1 DEF Ingest, AllInv, PipeInv, JobInv
  <2>2. job.step = "ingest"
    BY <1>1 DEF Ingest
  <2> QED BY <1>1, <2>1, <2>2, IngestSettles DEF CancelInv, NoNewPending, BindingOf
<1>2. CASE Settle
  <2>1. CASE BindingOf(job.bundle) \in resolved /\ SupersedePending({BindingOf(job.bundle)}, Lane)
    BY <1>0, <1>2, <2>1, SupersedeQueuesNothing DEF Settle, CancelInv, NoNewPending
  <2>2. CASE BindingOf(job.bundle) \notin resolved
    <3>1. NoNewPending
      BY <1>0, <1>2, <2>2, AppendQueuesNothing DEF Settle, NoNewPending, queueVars
    <3>2. resolved' = resolved /\ run' = run /\ (pc' = pc \/ pc' = "closing")
      BY <1>2 DEF Settle, Unwind
    <3> QED BY <2>2, <3>1, <3>2 DEF CancelInv, NoNewPending
  <2> QED BY <1>2, <2>1, <2>2 DEF Settle
<1>3. CASE EscalateDeferred \/ Escalate \/ \E x \in Binding : Seed(x)
  <2>1. /\ resolved' = resolved /\ run' = run
        /\ job' = job \/ job.step # "settle"
        /\ pc' \in {"escalate", "drain"} => pc \in {"escalate", "drain"}
    BY <1>3 DEF EscalateDeferred, Escalate, Seed, ownerVars
  <2>2. attempts' = attempts
    BY <1>3 DEF EscalateDeferred, Escalate, Seed, EscalateTo, Register, RegisterBlocked, queueVars
  <2> QED BY <1>3, <2>1, <2>2, NewTasksAreNeeded DEF CancelInv, Needed, BindingOf
<1>4. ASSUME NEW b \in Bundle, Replay(b) \/ Collect(b) \/ PollReview(b) PROVE CancelInv'
  <2>1. /\ UNCHANGED <<work, attempts, resolved, run, pc>> /\ job.step = "none"
    BY <1>4 DEF Replay, Collect, PollReview, Receive, RegisterResult, Idle, NoJob, queueVars
  <2> QED BY <2>1 DEF CancelInv
<1>5. CASE CancelResolved
  BY <1>0, <1>5, SupersedeQueuesNothing DEF CancelResolved, CancelInv
<1>6. ASSUME NEW t \in Task, NEW a \in Attempt, Dispatch(t, a) PROVE CancelInv'
  <2>1. UNCHANGED <<resolved, run, pc, job>> /\ job.step = "none"
    BY <1>6 DEF Dispatch, Idle, NoJob
  <2>2. \A u \in Task : work'[u].status = "pending" => work[u].status = "pending"
    BY <1>0, <1>6 DEF Dispatch, Claim, QueueTypeOK, WorkRow
  <2> QED BY <2>1, <2>2 DEF CancelInv
<1>7. ASSUME NEW t \in Task, Lapse(t) PROVE CancelInv'
  <2>1. UNCHANGED <<attempts, resolved, run, pc, job>>
    BY <1>7 DEF Lapse, TimePasses, ownerVars
  <2>2. \A u \in Task : work'[u].status = work[u].status
    BY <1>0, <1>7 DEF Lapse, TimePasses, QueueTypeOK, WorkRow
  <2> QED BY <2>1, <2>2 DEF CancelInv, BindingOf
<1>8. CASE \/ \E b \in Bundle : Publish(b) \/ SignReview(b)
           \/ \E a \in Attempt : WorkerFails(a)
           \/ UNCHANGED vars
  <2>1. UNCHANGED <<work, attempts, resolved, run, pc, job>>
    BY <1>8 DEF Publish, SignReview, WorkerFails, vars, queueVars, ownerVars
  <2> QED BY <2>1 DEF CancelInv, BindingOf
<1>9. CASE \/ \E r \in Request : StartRun(r)
           \/ \E a \in Attempt : FutureRaises(a)
           \/ CompleteRun \/ Close \/ Abort \/ Kill \/ RecoverLeases \/ Quarantine
  <2>1. pc' \notin {"escalate", "drain"}
    BY <1>9 DEF StartRun, FutureRaises, CompleteRun, Close, Abort, Kill, RecoverLeases, Quarantine,
      QuarantinePublish, QuarantineCommit, QuarantineFails, Unwind, Down
  <2> QED BY <2>1 DEF CancelInv
<1> QED BY <1>1, <1>2, <1>3, <1>4, <1>5, <1>6, <1>7, <1>8, <1>9 DEF PipelineNext, Next, OwnerStep

(* Only a dispatch draws an attempt.                                       *)
LEMMA OnlyDispatchDraws ==
  ASSUME AllInv, [PipelineNext]_vars, attempts' # attempts
  PROVE  \E t \in Task, a \in Attempt : Dispatch(t, a)
<1>0. QueueTypeOK
  BY DEF AllInv, PipeInv, QueueInv
<1>1. ~Ingest
  <2>1. SUFFICES ASSUME Ingest PROVE FALSE
    OBVIOUS
  <2>2. PICK b \in Bundle : b = job.bundle
    BY <2>1 DEF Ingest, AllInv, PipeInv, JobInv
  <2> QED BY <2>1, <2>2, IngestSettles DEF NoNewPending
<1>2. ~Settle
  BY DEF Settle, SupersedePending, AppendDecision, queueVars
<1>3. ~EscalateDeferred /\ ~Escalate /\ \A x \in Binding : ~Seed(x)
  BY DEF EscalateDeferred, Escalate, Seed, EscalateTo, Register, RegisterBlocked, queueVars
<1>4. \A b \in Bundle : ~Replay(b) /\ ~Collect(b) /\ ~PollReview(b)
  BY DEF Replay, Collect, PollReview, Receive, RegisterResult, queueVars
<1>5. ~CancelResolved /\ ~RecoverLeases
  BY DEF CancelResolved, RecoverLeases, SupersedePending, Recover
<1>6. /\ \A a \in Attempt : ~FutureRaises(a) /\ ~WorkerFails(a)
      /\ \A t \in Task : ~Lapse(t)
      /\ \A b \in Bundle : ~Publish(b) /\ ~SignReview(b)
      /\ \A r \in Request : ~StartRun(r)
      /\ ~CompleteRun /\ ~Close /\ ~Abort /\ ~Kill /\ vars' # vars
  BY DEF FutureRaises, WorkerFails, Lapse, TimePasses, Publish, SignReview, StartRun,
    CompleteRun, Close, Abort, Kill, durable, queueVars, vars
<1>7. ~Quarantine
  BY DEF Quarantine, QuarantinePublish, QuarantineCommit, QuarantineFails, AppendDecision, queueVars
<1> QED
  BY <1>1, <1>2, <1>3, <1>4, <1>5, <1>6, <1>7 DEF PipelineNext, Next, OwnerStep

(* Nothing but a claim leases a task.                                      *)
LEMMA OnlyClaimsLease ==
  ASSUME QueueTypeOK, QueueNext, NEW t \in Task,
         work[t].status = "pending", work'[t].status = "running"
  PROVE  attempts' # attempts
<1>1. ASSUME NEW u \in Task, NEW a \in Attempt, Claim(u, a) PROVE attempts' # attempts
  BY <1>1, QueueAssumption DEF Claim, QueueTypeOK
<1>2. ASSUME NEW u \in Task, Register(u) \/ RegisterBlocked(u) \/ TimePasses(u) PROVE FALSE
  BY <1>2 DEF Register, RegisterBlocked, TimePasses, QueueTypeOK, WorkRow
<1>3. ASSUME NEW X, NEW L, SupersedePending(X, L) PROVE FALSE
  <2>1. \/ work'[t] = work[t]
        \/ work'[t] = [work[t] EXCEPT !.status = "superseded", !.due = FALSE]
    BY <1>3 DEF SupersedePending
  <2> QED BY <2>1 DEF QueueTypeOK, WorkRow
<1>4. ASSUME NEW U, Recover(U) PROVE FALSE
  <2>1. \/ work'[t] = work[t]
        \/ work'[t] = [work[t] EXCEPT !.status = "pending", !.due = FALSE]
    BY <1>4 DEF Recover
  <2> QED BY <2>1 DEF QueueTypeOK, WorkRow
<1>5. ASSUME NEW b \in Bundle, RegisterResult(b) PROVE FALSE
  BY <1>5 DEF RegisterResult
<1>6. ASSUME NEW b \in Bundle, NEW s \in Verdict, Finish(b, s) PROVE FALSE
  BY <1>6 DEF Finish, QueueTypeOK, WorkRow, Verdict, Dispositions
<1>7. ASSUME NEW p \in Bundle, NEW d \in Bundle, NEW s \in DOMAIN DecisionOutcome,
             AppendDecision(p, d, s)
      PROVE FALSE
  <2>1. s # "running"
    BY DEF DecisionOutcome
  <2> QED BY <1>7, <2>1 DEF AppendDecision, QueueTypeOK, WorkRow
<1> QED BY <1>1, <1>2, <1>3, <1>4, <1>5, <1>6, <1>7 DEF QueueNext

LEMMA DispatchedIsUnresolved ==
  ASSUME AllInv, ImportInv, CancelInv, [PipelineNext]_vars, NEW t \in Task,
         work[t].status = "pending", work'[t].status = "running"
  PROVE  t.binding \notin resolved
<1>0. QueueTypeOK /\ QueueInv
  BY DEF AllInv, PipeInv, QueueInv
<1>1. QueueNext
  BY <1>0, StepUsesQueue DEF queueVars, AllInv, PipeInv
<1>2. PICK u \in Task, a \in Attempt : Dispatch(u, a)
  BY <1>0, <1>1, OnlyClaimsLease, OnlyDispatchDraws
<1>3. t = u
  BY <1>0, <1>2 DEF Dispatch, Claim, QueueTypeOK, WorkRow
<1>4. /\ pc = "drain" /\ job.step = "none"
      /\ t.lane \in run.lanes /\ t.binding \in run.extract
  BY <1>2, <1>3 DEF Dispatch, Idle, NoJob
<1>5. run.lanes \subseteq Lane /\ run.extract \subseteq run.scope
  BY <1>4 DEF ImportInv, RunInv, Live, WellFormed, Request
<1> QED BY <1>4, <1>5 DEF CancelInv

(* Once a run has reached its queue no task of a binding it knows resolved *)
(* is leased, for any documents, runs and faults and with the quarantine   *)
(* script between the runs.                                                *)
THEOREM ResolvedNotExtracted == QuarantineSpec => ResolvedIsNotExtracted
<1>1. Init => CancelInv
  BY DEF Init, CancelInv
<1>2. AllInv /\ ImportInv /\ CancelInv /\ [PipelineNext]_vars =>
        CancelInv' /\ [\A t \in Task :
          work[t].status = "pending" /\ work'[t].status = "running"
            => t.binding \notin resolved]_vars
  BY CancelStep, DispatchedIsUnresolved
<1>3. QuarantineSpec => [](AllInv /\ ImportInv)
  BY ImportInvariant
<1> QED BY <1>1, <1>2, <1>3, PTL DEF QuarantineSpec, PipelineNext, ResolvedIsNotExtracted
-----------------------------------------------------------------------------
(* Nothing is forgotten between two lanes.                                 *)

(* The root of what a row says can be replayed from the spool.             *)
DecidedIsSpooled ==
  \A t \in Task : t.lane \in Lane /\ work[t].status \in Verdict =>
    \E b \in spool : RootVerdict(b) /\ b.attempt = work[t].attempt

SpooledInv == UnfinishedIsSpooled /\ NamedIsJudged /\ DecidedIsSpooled

(* A result in review of a needed binding that is not queued in some later *)
(* lane of the run.                                                        *)
Unqueued(t) ==
  /\ t.binding \in Needed
  /\ work[t].status = "needs_review"
  /\ \E m \in Later(t.lane) : work[TaskOf(t.binding, m)].status = "absent"

ToReplay(t) ==
  \E b \in spool :
    /\ RootVerdict(b) /\ b.attempt = work[t].attempt
    /\ b \in inbox \/ (job.step = "ingest" /\ job.bundle = b)

Deferred(t) == \E b \in deferred : attempts[b.attempt] = t

(* Whoever still has to queue it: the replay, the deferred reviews or the  *)
(* receive() in progress.                                                  *)
EscalationInv ==
  /\ pc \in {"cancel", "escalate"} => job.step = "none"
  /\ \A t \in Task : Unqueued(t) =>
       /\ pc = "replay" => Deferred(t) \/ ToReplay(t)
       /\ pc \in {"cancel", "escalate"} => Deferred(t)
       /\ pc = "drain" => job.step = "escalate" /\ attempts[job.bundle.attempt] = t

LEMMA VerdictsAreFinished ==
  ASSUME NEW b \in Bundle, results[b].state \in Verdict PROVE Finished(b)
  BY DEF Finished, Delivered, Unfinished, Verdict, Dispositions

(* Receipts change as registered or decided, and the spool only grows.     *)
LEMMA ReceiptsStep ==
  ASSUME AllInv, UnfinishedIsSpooled, [PipelineNext]_vars
  PROVE  Receipts /\ spool \subseteq spool'
<1>1. ASSUME results' = results PROVE Receipts
  BY <1>1 DEF Receipts
<1>2. CASE Ingest \/ Settle
  BY <1>2, IngestLeases, SettleLeases DEF Ingest, Settle
<1>3. ASSUME NEW b \in Bundle, Replay(b) \/ Collect(b) \/ PollReview(b)
      PROVE  Receipts /\ spool' = spool
  BY <1>3, ReceiveLeases DEF Replay, Collect, PollReview
<1>4. CASE \/ \E x \in Binding : Seed(x)
           \/ \E t \in Task, a \in Attempt : Dispatch(t, a)
           \/ \E t \in Task : Lapse(t)
           \/ CancelResolved \/ EscalateDeferred \/ Escalate
  <2>1. spool' = spool
    BY <1>4 DEF Seed, Dispatch, Lapse, CancelResolved, EscalateDeferred, Escalate
  <2> QED BY <1>4, <2>1, RunLeases
<1>5. CASE \/ \E r \in Request : StartRun(r)
           \/ \E a \in Attempt : FutureRaises(a) \/ WorkerFails(a)
           \/ \E b \in Bundle : Publish(b) \/ SignReview(b)
           \/ \E b, d \in Bundle : QuarantinePublish(b, d)
           \/ CompleteRun \/ Close \/ Abort \/ Kill \/ RecoverLeases \/ QuarantineFails
           \/ UNCHANGED vars
  <2>1. results' = results /\ spool \subseteq spool'
    BY <1>5 DEF StartRun, FutureRaises, WorkerFails, Publish, SignReview, QuarantinePublish,
      CompleteRun, Close, Abort, Kill, RecoverLeases, Recover, QuarantineFails, vars, durable,
      queueVars
  <2> QED BY <1>1, <2>1
<1>6. CASE QuarantineCommit
  <2>1. PICK d \in Bundle, p \in Bundle : AppendDecision(p, d, "needs_review")
    BY <1>6 DEF AllInv, PipeInv, JobInv, QuarantineCommit
  <2>2. spool' = spool
    BY <1>6 DEF QuarantineCommit
  <2> QED BY <2>1, <2>2, AppendLeases DEF AllInv, PipeInv
<1> QED BY <1>2, <1>3, <1>4, <1>5, <1>6 DEF PipelineNext, Next, OwnerStep, Quarantine

(* How a row comes to be decided: by its attempt's delivery, or as before. *)
LEMMA DecidedRows ==
  ASSUME QueueInv, NamedIsJudged, [QueueNext]_queueVars, NEW t \in Task,
         t.lane \in Lane, work'[t].status \in Verdict
  PROVE  \/ work[t].status \in Verdict /\ work'[t].attempt = work[t].attempt
         \/ \E b \in Bundle : Unfinished(b) /\ RootVerdict(b)' /\ b.attempt = work'[t].attempt
<1>0. QueueTypeOK
  BY DEF QueueInv
<1>1. CASE UNCHANGED queueVars
  BY <1>1 DEF queueVars
<1>2. ASSUME NEW u \in Task, Register(u) \/ RegisterBlocked(u) \/ TimePasses(u)
      PROVE  work[t].status \in Verdict /\ work'[t].attempt = work[t].attempt
  BY <1>0, <1>2, QueueAssumption
     DEF Register, RegisterBlocked, TimePasses, QueueTypeOK, WorkRow, Verdict, Dispositions
<1>3. ASSUME NEW X, NEW L, SupersedePending(X, L)
      PROVE  work[t].status \in Verdict /\ work'[t].attempt = work[t].attempt
  <2>1. \/ work'[t] = work[t]
        \/ work'[t] = [work[t] EXCEPT !.status = "superseded", !.due = FALSE]
    BY <1>3 DEF SupersedePending
  <2> QED BY <1>0, <2>1 DEF QueueTypeOK, WorkRow, Verdict
<1>4. ASSUME NEW u \in Task, NEW a \in Attempt, Claim(u, a)
      PROVE  work[t].status \in Verdict /\ work'[t].attempt = work[t].attempt
  BY <1>0, <1>4 DEF Claim, QueueTypeOK, WorkRow, Verdict, Dispositions
<1>5. ASSUME NEW U, Recover(U)
      PROVE  work[t].status \in Verdict /\ work'[t].attempt = work[t].attempt
  <2>1. \/ work'[t] = work[t]
        \/ work'[t] = [work[t] EXCEPT !.status = "pending", !.due = FALSE]
    BY <1>5 DEF Recover
  <2> QED BY <1>0, <2>1 DEF QueueTypeOK, WorkRow, Verdict, Dispositions
<1>6. ASSUME NEW b \in Bundle, RegisterResult(b)
      PROVE  work[t].status \in Verdict /\ work'[t].attempt = work[t].attempt
  BY <1>6 DEF RegisterResult
<1>7. ASSUME NEW b \in Bundle, NEW s \in Verdict, Finish(b, s)
      PROVE  \/ work[t].status \in Verdict /\ work'[t].attempt = work[t].attempt
             \/ \E c \in Bundle : Unfinished(c) /\ RootVerdict(c)' /\ c.attempt = work'[t].attempt
  <2>1. CASE t # attempts[b.attempt]
    BY <1>0, <1>7, <2>1 DEF Finish, QueueTypeOK
  <2>2. CASE t = attempts[b.attempt]
    <3>1. results[b].pred = NoBundle /\ results[b] \in ResultRow
      BY <1>0, <1>7 DEF Finish, Unfinished, QueueInv, OnlyVerdictsDecide, QueueTypeOK, Verdict,
        Dispositions
    <3>2. results'[b].state = s /\ results'[b].pred = NoBundle
      BY <1>0, <1>7, <3>1 DEF Finish, QueueTypeOK, ResultRow
    <3>3. work'[t].attempt = b.attempt
      BY <1>0, <1>7, <2>2 DEF Finish, Active, QueueTypeOK, WorkRow
    <3> QED BY <1>7, <3>2, <3>3 DEF RootVerdict, Finish
  <2> QED BY <2>1, <2>2
<1>8. ASSUME NEW p \in Bundle, NEW d \in Bundle, NEW s \in DOMAIN DecisionOutcome,
             AppendDecision(p, d, s)
      PROVE  work[t].status \in Verdict /\ work'[t].attempt = work[t].attempt
  <2>1. CASE t # attempts[p.attempt]
    BY <1>0, <1>8, <2>1 DEF AppendDecision, QueueTypeOK
  <2>2. CASE t = attempts[p.attempt]
    <3>1. work'[t].attempt = work[t].attempt
      BY <1>0, <1>8, <2>2 DEF AppendDecision, QueueTypeOK, WorkRow
    <3>2. work[t].status = results[p].state /\ work[t].result = p
      BY <1>8, <2>2 DEF AppendDecision
    <3> QED BY <3>1, <3>2, QueueAssumption DEF NamedIsJudged
  <2> QED BY <2>1, <2>2
<1> QED BY <1>1, <1>2, <1>3, <1>4, <1>5, <1>6, <1>7, <1>8 DEF QueueNext

LEMMA SpooledStep ==
  ASSUME AllInv, SpooledInv, [PipelineNext]_vars PROVE SpooledInv'
<1>0. QueueInv /\ [QueueNext]_queueVars /\ UnfinishedIsSpooled /\ NamedIsJudged
  BY StepUsesQueue DEF AllInv, PipeInv, SpooledInv
<1>1. Receipts /\ spool \subseteq spool' /\ spool \subseteq Bundle
  BY <1>0, ReceiptsStep DEF AllInv, PipeInv, Wiring
<1>2. UnfinishedIsSpooled'
  BY <1>0, <1>1 DEF UnfinishedIsSpooled, Receipts, Registered, Unfinished, Verdict, Dispositions
<1>3. NamedIsJudged'
  BY <1>0, NamedStep
<1>4. ASSUME NEW t \in Task, t.lane \in Lane, work'[t].status \in Verdict
      PROVE  \E b \in spool' : RootVerdict(b)' /\ b.attempt = work'[t].attempt
  <2>1. CASE work[t].status \in Verdict /\ work'[t].attempt = work[t].attempt
    <3>1. PICK b \in spool : RootVerdict(b) /\ b.attempt = work[t].attempt
      BY <1>4, <2>1 DEF SpooledInv, DecidedIsSpooled
    <3>2. results'[b] = results[b]
      BY <1>1, <3>1, VerdictsAreFinished, QueueKeeps DEF RootVerdict
    <3> QED BY <1>1, <2>1, <3>1, <3>2 DEF RootVerdict
  <2>2. ASSUME NEW b \in Bundle, Unfinished(b), RootVerdict(b)', b.attempt = work'[t].attempt
        PROVE  b \in spool'
    BY <1>0, <1>1, <2>2 DEF UnfinishedIsSpooled
  <2> QED BY <1>0, <1>4, <2>1, <2>2, DecidedRows
<1> QED BY <1>2, <1>3, <1>4 DEF SpooledInv, DecidedIsSpooled
(* No call takes a row out of the queue's table.                           *)
LEMMA AbsentStays ==
  ASSUME QueueTypeOK, [QueueNext]_queueVars, NEW t \in Task, work'[t].status = "absent"
  PROVE  work[t].status = "absent"
<1>1. CASE UNCHANGED queueVars
  BY <1>1 DEF queueVars
<1>2. ASSUME NEW u \in Task,
             \/ Register(u) \/ RegisterBlocked(u) \/ TimePasses(u)
             \/ \E a \in Attempt : Claim(u, a)
      PROVE  work[t].status = "absent"
  BY <1>2 DEF Register, RegisterBlocked, TimePasses, Claim, QueueTypeOK, WorkRow
<1>3. ASSUME NEW X, NEW L, SupersedePending(X, L) PROVE work[t].status = "absent"
  <2>1. \/ work'[t] = work[t]
        \/ work'[t] = [work[t] EXCEPT !.status = "superseded", !.due = FALSE]
    BY <1>3 DEF SupersedePending
  <2> QED BY <2>1 DEF QueueTypeOK, WorkRow
<1>4. ASSUME NEW U, Recover(U) PROVE work[t].status = "absent"
  <2>1. \/ work'[t] = work[t]
        \/ work'[t] = [work[t] EXCEPT !.status = "pending", !.due = FALSE]
    BY <1>4 DEF Recover
  <2> QED BY <2>1 DEF QueueTypeOK, WorkRow
<1>5. ASSUME NEW b \in Bundle, RegisterResult(b) PROVE work[t].status = "absent"
  BY <1>5 DEF RegisterResult
<1>6. ASSUME NEW b \in Bundle, NEW s \in Verdict, Finish(b, s) PROVE work[t].status = "absent"
  BY <1>6 DEF Finish, QueueTypeOK, WorkRow, Verdict, Dispositions
<1>7. ASSUME NEW p \in Bundle, NEW d \in Bundle, NEW s \in DOMAIN DecisionOutcome,
             AppendDecision(p, d, s)
      PROVE  work[t].status = "absent"
  <2>1. s # "absent"
    BY DEF DecisionOutcome
  <2> QED BY <1>7, <2>1 DEF AppendDecision, QueueTypeOK, WorkRow
<1> QED BY <1>1, <1>2, <1>3, <1>4, <1>5, <1>6, <1>7 DEF QueueNext

(* A step that puts no row into review, except perhaps that of one task.   *)
NoNewReview(S) ==
  /\ attempts' = attempts
  /\ \A t \in Task : /\ work'[t].attempt = work[t].attempt
                     /\ work'[t].status = "needs_review" /\ t \notin S =>
                          work[t].status = "needs_review"

(* ... keeps of the other rows those that are not queued in a later lane.  *)
LEMMA StaysUnqueued ==
  ASSUME QueueTypeOK, [QueueNext]_queueVars, run' = run, resolved \subseteq resolved',
         run.lanes \subseteq Lane, run.extract \subseteq Binding,
         NEW t \in Task, Unqueued(t)', work[t].status = "needs_review"
  PROVE  Unqueued(t)
<1>1. PICK m \in Later(t.lane) : work'[TaskOf(t.binding, m)].status = "absent"
  BY DEF Unqueued, Later
<1>2. TaskOf(t.binding, m) \in Task
  <2>1. m \in Lane
    BY <1>1 DEF Later
  <2> QED BY <2>1, TaskOfIsTask DEF Unqueued, Needed
<1>3. work[TaskOf(t.binding, m)].status = "absent"
  BY <1>1, <1>2, AbsentStays
<1> QED BY <1>1, <1>3 DEF Unqueued, Needed, Later

LEMMA FinishReviews ==
  ASSUME QueueTypeOK, NEW b, NEW s, Finish(b, s)
  PROVE  /\ NoNewReview({attempts[b.attempt]})
         /\ s # "needs_review" => NoNewReview({})
  BY DEF NoNewReview, Finish, QueueTypeOK, WorkRow

LEMMA AppendReviews ==
  ASSUME QueueTypeOK, NEW p, NEW d, NEW s, AppendDecision(p, d, s)
  PROVE  /\ NoNewReview({attempts[p.attempt]})
         /\ s # "needs_review" => NoNewReview({})
  BY DEF NoNewReview, AppendDecision, QueueTypeOK, WorkRow

LEMMA SupersedeReviews ==
  ASSUME QueueTypeOK, NEW X, NEW L, SupersedePending(X, L) PROVE NoNewReview({})
<1> SUFFICES ASSUME NEW t \in Task
             PROVE  /\ work'[t].attempt = work[t].attempt
                    /\ work'[t].status = "needs_review" => work[t].status = "needs_review"
  BY DEF NoNewReview, SupersedePending
<1>1. \/ work'[t] = work[t]
      \/ work'[t] = [work[t] EXCEPT !.status = "superseded", !.due = FALSE]
  BY DEF SupersedePending
<1> QED BY <1>1 DEF QueueTypeOK, WorkRow

LEMMA RecoverReviews ==
  ASSUME QueueTypeOK, NEW U, Recover(U) PROVE NoNewReview({})
<1> SUFFICES ASSUME NEW t \in Task
             PROVE  /\ work'[t].attempt = work[t].attempt
                    /\ work'[t].status = "needs_review" => work[t].status = "needs_review"
  BY DEF NoNewReview, Recover
<1>1. \/ work'[t] = work[t]
      \/ work'[t] = [work[t] EXCEPT !.status = "pending", !.due = FALSE]
  BY DEF Recover
<1> QED BY <1>1 DEF QueueTypeOK, WorkRow

(* What the row of a decided attempt says is the effective decision.       *)
LEMMA EffectiveIsRow ==
  ASSUME AllInv, ChainsEnd, NEW b \in Bundle, RootVerdict(b),
         work[attempts[b.attempt]].attempt = b.attempt,
         work[attempts[b.attempt]].status \in Verdict
  PROVE  results[EffectiveDecision[b]].state = work[attempts[b.attempt]].status
<1> DEFINE e == EffectiveDecision[b]
           t == attempts[b.attempt]
<1>1. EndOf(e, b) /\ QueueInv
  BY EffectiveFollows DEF AllInv, PipeInv
<1> HIDE DEF e
<1>2. results[e].state \in Verdict
  <2>1. CASE e = b
    BY <2>1 DEF RootVerdict
  <2>2. ASSUME NEW c \in Bundle, e \in Successors(c) PROVE results[e].state \in Verdict
    <3>1. results[e].pred # NoBundle /\ e \in Bundle
      BY <2>2, QueueAssumption DEF Successors
    <3> QED BY <1>1, <3>1 DEF QueueInv, OnlyVerdictsDecide
  <2> QED BY <1>1, <2>1, <2>2 DEF EndOf
<1>3. work[t].result = e
  BY <1>1, <1>2 DEF EndOf, QueueInv, EffectiveDecisionIsCurrent
<1>4. t \in Task /\ t.lane # NoLane
  <2>1. attempts[b.attempt] # NoTask
    BY <1>1, VerdictsAreFinished DEF RootVerdict, Finished, QueueInv, DeliveredWasDrawn
  <2> QED BY <2>1, BundleOfAttempt, QueueAssumption DEF AllInv, PipeInv, LaneOf
<1> QED BY <1>1, <1>3, <1>4 DEF QueueInv, RowNamesItsDecision, e

(* Only receive() and the quarantine script put results into review.       *)
LEMMA OthersReview ==
  ASSUME AllInv, [PipelineNext]_vars, ~Ingest, ~Settle, ~Quarantine,
         \A t \in Task, a \in Attempt : ~Dispatch(t, a)
  PROVE  NoNewReview({})
<1>0. QueueTypeOK /\ QueueInv
  BY DEF AllInv, PipeInv, QueueInv
<1>1. ASSUME work' = work, attempts' = attempts PROVE NoNewReview({})
  BY <1>1 DEF NoNewReview
<1>2. ASSUME NEW u \in Task, Register(u) \/ RegisterBlocked(u) \/ TimePasses(u)
      PROVE  NoNewReview({})
  BY <1>0, <1>2 DEF NoNewReview, Register, RegisterBlocked, TimePasses, QueueTypeOK, WorkRow
<1>3. CASE RecoverLeases \/ CancelResolved
  BY <1>0, <1>3, RecoverReviews, SupersedeReviews DEF RecoverLeases, CancelResolved
<1>4. CASE EscalateDeferred \/ Escalate
  <2>1. ASSUME NEW b, NEW l, EscalateTo(b, l), BindingOf(b) \in Binding PROVE NoNewReview({})
    BY <1>0, <1>2, <2>1, EscalationRegisters DEF AllInv, PipeInv
  <2> QED BY <1>1, <1>4, <2>1, EscalatedBindings DEF EscalateDeferred, Escalate, AllInv, queueVars
<1>5. ASSUME NEW x \in Binding, Seed(x) PROVE NoNewReview({})
  <2>1. CASE Register(TaskOf(x, FirstLane))
    <3>1. TaskOf(x, FirstLane) \in Task
      BY <2>1, TaskOfIsTask DEF Register, TaskOf
    <3> QED BY <1>2, <2>1, <3>1
  <2>2. CASE RegisterBlocked(TaskOf(x, NoLane))
    BY <1>2, <2>2, TaskOfIsTask
  <2> QED BY <1>5, <2>1, <2>2 DEF Seed
<1>6. ASSUME NEW b \in Bundle, Replay(b) \/ Collect(b) \/ PollReview(b) PROVE NoNewReview({})
  BY <1>1, <1>6 DEF Replay, Collect, PollReview, Receive, RegisterResult, queueVars
<1>7. ASSUME NEW t \in Task, Lapse(t) PROVE NoNewReview({})
  BY <1>2, <1>7 DEF Lapse
<1>8. CASE \/ \E r \in Request : StartRun(r)
           \/ \E a \in Attempt : FutureRaises(a) \/ WorkerFails(a)
           \/ \E b \in Bundle : Publish(b) \/ SignReview(b)
           \/ CompleteRun \/ Close \/ Abort \/ Kill \/ UNCHANGED vars
  BY <1>1, <1>8 DEF StartRun, FutureRaises, WorkerFails, Publish, SignReview, CompleteRun, Close,
    Abort, Kill, vars, durable, queueVars
<1> QED BY <1>3, <1>4, <1>5, <1>6, <1>7, <1>8 DEF PipelineNext, Next, OwnerStep

(* A result that goes to review is deferred by the replay and escalated by *)
(* the drain.                                                              *)
LEMMA RouteCares ==
  ASSUME AllInv, ImportInv, EscalationInv, NEW b \in Bundle, attempts[b.attempt] # NoTask,
         Route(b, "needs_review"), pc' = pc, run' = run, resolved' = resolved,
         [QueueNext]_queueVars, job.step # "none",
         NEW t \in Task, t = attempts[b.attempt], attempts' = attempts, Unqueued(t)'
  PROVE  /\ pc = "replay" => Deferred(t)'
         /\ pc = "drain" => job'.step = "escalate" /\ job'.bundle = b
<1>1. QueueTypeOK /\ BindingOf(b) = t.binding /\ LaneOf(b) = t.lane
  BY DEF AllInv, PipeInv, QueueInv, BindingOf, LaneOf
<1>2. CASE pc = "replay"
  BY <1>2 DEF Route, Deferred
<1>3. CASE pc = "drain"
  <2>1. run.lanes \subseteq Lane /\ run.extract \subseteq Binding
    BY <1>3 DEF ImportInv, RunInv, Live, Request
  <2>2. PICK m \in Later(t.lane) : work'[TaskOf(t.binding, m)].status = "absent"
    BY DEF Unqueued, Later
  <2>3. t.binding \in Needed
    BY DEF Unqueued, Needed
  <2>4. TaskOf(t.binding, m) \in Task
    <3>1. m \in Lane
      BY <2>1, <2>2 DEF Later
    <3> QED BY <2>1, <2>3, <3>1, TaskOfIsTask DEF Needed
  <2>5. m \in Targets(b)
    BY <1>1, <2>2, <2>3, <2>4, AbsentStays DEF Targets
  <2> QED BY <1>3, <2>5 DEF Route, NoJob
<1> QED BY <1>2, <1>3

(* After a step of receive() that the run does not unwind at most the      *)
(* result at hand is new in review, and then it has been routed.           *)
LEMMA ReceiveReviews ==
  ASSUME AllInv, Ingest \/ Settle, pc' = pc, pc \in Live, NEW b \in Bundle, b = job.bundle
  PROVE  /\ NoNewReview({attempts[b.attempt]})
         /\ UNCHANGED <<run, inbox, spool>>
         /\ resolved \subseteq resolved' /\ deferred \subseteq deferred'
         /\ \/ BindingOf(b) \in resolved'
            \/ work'[attempts[b.attempt]].status # "needs_review"
            \/ Route(b, "needs_review") /\ resolved' = resolved
            \/ UNCHANGED queueVars /\ IngestAgain(b)
<1> DEFINE t == attempts[b.attempt]
<1>0. QueueTypeOK /\ ~Unwind /\ t \in Task
  <2>1. attempts[b.attempt] # NoTask
    BY DEF Ingest, Settle, AllInv, PipeInv, JobInv
  <2> QED BY <2>1, BundleOfAttempt DEF AllInv, PipeInv, QueueInv, Unwind, Live
<1>1. \A state : Route(b, state) => deferred \subseteq deferred'
  BY DEF Route
<1>2. \A prior, state : Proceed(b, prior, state) => deferred \subseteq deferred'
  BY <1>1 DEF Proceed
<1>3. \A state : MayResolve(b, state) =>
        resolved \subseteq resolved' /\ (state \notin Admitted => resolved' = resolved)
  BY DEF MayResolve
<1>4. ASSUME UNCHANGED queueVars PROVE NoNewReview({t})
  BY <1>4 DEF NoNewReview, queueVars
<1>5. ASSUME NEW s, Finish(b, s) PROVE NoNewReview({t}) /\ work'[t].status = s
  <2>1. work'[t].status = s
    BY <1>0, <1>5 DEF Finish, QueueTypeOK, WorkRow
  <2> QED BY <1>0, <1>5, <2>1, FinishReviews
<1>6. ASSUME NEW p, NEW d, NEW s, AppendDecision(p, d, s), d.attempt = b.attempt
      PROVE  NoNewReview({t}) /\ work'[t].status = s
  <2>1. p.attempt = b.attempt
    BY <1>6 DEF AppendDecision
  <2>2. work'[t].status = s
    BY <1>0, <1>6, <2>1 DEF AppendDecision, QueueTypeOK, WorkRow
  <2> QED BY <1>0, <1>6, <2>1, <2>2, AppendReviews
<1>7. CASE Ingest /\ IngestNew(b)
  <2>1. PICK state \in Rulings(b) :
           Finish(b, state) /\ MayResolve(b, state) /\ Proceed(b, "extracted", state)
    BY <1>7 DEF IngestNew
  <2>2. NoNewReview({t}) /\ work'[t].status = state
    BY <1>5, <2>1
  <2>3. state = "needs_review" => Route(b, "needs_review") /\ resolved' = resolved
    BY <1>3, <2>1 DEF Proceed, Admitted
  <2> QED BY <1>2, <1>3, <1>7, <2>1, <2>2, <2>3 DEF IngestNew, Ingest
<1>8. CASE Ingest /\ IngestAgain(b)
  BY <1>2, <1>4, <1>8 DEF IngestAgain, Ingest
<1>9. CASE Ingest /\ Readmit(b)
  <2>1. NoNewReview({t}) /\ work'[t].status = VerdictOf(b)
    BY <1>6, <1>9 DEF Readmit, Fresh
  <2>2. VerdictOf(b) # "needs_review"
    BY DEF VerdictOf
  <2> QED BY <1>2, <1>3, <1>9, <2>1, <2>2 DEF Readmit, Ingest
<1>10. CASE Ingest /\ RowsRefused(b)
  <2>1. NoNewReview({t})
    BY <1>5, <1>6, <1>10 DEF RowsRefused, Fresh
  <2>2. Route(b, "needs_review") /\ UNCHANGED <<run, inbox>> /\ resolved' = resolved
    BY <1>0, <1>10 DEF RowsRefused
  <2> QED BY <1>1, <1>10, <2>1, <2>2 DEF Ingest
<1>11. CASE Settle
  <2>1. CASE BindingOf(b) \in resolved /\ SupersedePending({BindingOf(b)}, Lane)
    <3>1. NoNewReview({})
      BY <1>0, <2>1, SupersedeReviews
    <3>2. NoNewReview({t})
      BY <3>1 DEF NoNewReview
    <3>3. resolved' = resolved /\ UNCHANGED <<run, inbox, spool, deferred>>
      BY <1>0, <1>11, <2>1 DEF Settle
    <3> QED BY <2>1, <3>2, <3>3
  <2>2. CASE BindingOf(b) \notin resolved
    <3>1. /\ \/ AppendDecision(EffectiveDecision[b], RefusalOf(b), "needs_review")
             \/ UNCHANGED queueVars
          /\ Route(b, "needs_review") /\ UNCHANGED <<run, inbox>>
          /\ UNCHANGED <<spool, resolved>>
      BY <1>0, <1>11, <2>2 DEF Settle
    <3>2. NoNewReview({t})
      BY <1>4, <1>6, <3>1 DEF RefusalOf
    <3> QED BY <1>1, <3>1, <3>2
  <2> QED BY <1>11, <2>1, <2>2 DEF Settle
<1> QED BY <1>7, <1>8, <1>9, <1>10, <1>11 DEF Ingest

(* The step of receive() that may put a result into review.                *)
LEMMA ReceiveCares ==
  ASSUME AllInv, ImportInv, ChainsEnd, EscalationInv, Ingest \/ Settle, pc' = pc, pc \in Live,
         NEW t \in Task, Unqueued(t)'
  PROVE  /\ pc \in {"replay", "drain"}
         /\ pc = "replay" => Deferred(t)' \/ ToReplay(t)'
         /\ pc = "drain" => job'.step = "escalate" /\ attempts'[job'.bundle.attempt] = t
<1>0. QueueTypeOK /\ QueueInv /\ [QueueNext]_queueVars /\ [PipelineNext]_vars
  BY IngestUsesQueue, SettleUsesQueue
     DEF AllInv, PipeInv, QueueInv, PipelineNext, Next, OwnerStep
<1>1. PICK b \in Bundle : b = job.bundle
  BY DEF Ingest, Settle, AllInv, PipeInv, JobInv
<1>2. /\ attempts[b.attempt] \in Task /\ BindingOf(b) = attempts[b.attempt].binding
      /\ job.step \in {"ingest", "settle"} /\ attempts[b.attempt] # NoTask
  <2>1. attempts[b.attempt] # NoTask
    BY <1>1 DEF Ingest, Settle, AllInv, PipeInv, JobInv
  <2> QED BY <2>1, BundleOfAttempt DEF AllInv, PipeInv, BindingOf, Ingest, Settle
<1>3. /\ NoNewReview({attempts[b.attempt]})
      /\ run' = run /\ inbox' = inbox /\ spool' = spool
      /\ resolved \subseteq resolved' /\ deferred \subseteq deferred'
  BY <1>1, ReceiveReviews
<1>4. \/ BindingOf(b) \in resolved'
      \/ work'[attempts[b.attempt]].status # "needs_review"
      \/ Route(b, "needs_review") /\ resolved' = resolved
      \/ UNCHANGED queueVars /\ IngestAgain(b)
  BY <1>1, ReceiveReviews
<1>5. run.lanes \subseteq Lane /\ run.extract \subseteq Binding
  BY DEF ImportInv, RunInv, Live, Request
<1>6. pc \in {"replay", "drain"}
  BY <1>2 DEF EscalationInv, Live
<1>7. ASSUME Unqueued(t), t # attempts[b.attempt] \/ ~RootVerdict(b) \/ b.attempt # work[t].attempt
      PROVE  pc = "replay" /\ (Deferred(t)' \/ ToReplay(t)')
  <2>1. pc = "replay" /\ (Deferred(t) \/ ToReplay(t))
    BY <1>2, <1>6, <1>7 DEF EscalationInv
  <2>2. CASE Deferred(t)
    <3>1. PICK c \in deferred : attempts[c.attempt] = t
      BY <2>2 DEF Deferred
    <3> QED BY <1>3, <2>1, <3>1 DEF Deferred, NoNewReview
  <2>3. CASE ToReplay(t)
    <3>1. PICK c \in spool : /\ RootVerdict(c) /\ c.attempt = work[t].attempt
                             /\ c \in inbox \/ (job.step = "ingest" /\ job.bundle = c)
      BY <2>3 DEF ToReplay
    <3>2. c \in Bundle /\ attempts[c.attempt] = t
      BY <1>0, <3>1, BundleAttempt DEF AllInv, PipeInv, Wiring, QueueInv, RowOwnsItsAttempt
    <3>3. c \in inbox
      BY <1>1, <1>7, <3>1, <3>2
    <3>4. RootVerdict(c)'
      <4>1. results'[c] = results[c]
        BY <1>0, <3>1, <3>2, VerdictsAreFinished, QueueKeeps DEF RootVerdict
      <4> QED BY <3>1, <4>1 DEF RootVerdict
    <3>5. work'[t].attempt = work[t].attempt
      BY <1>3 DEF NoNewReview
    <3> QED BY <1>3, <2>1, <3>1, <3>3, <3>4, <3>5 DEF ToReplay
  <2> QED BY <2>1, <2>2, <2>3
<1>8. CASE t # attempts[b.attempt]
  <2>1. work[t].status = "needs_review"
    BY <1>3, <1>8 DEF NoNewReview, Unqueued
  <2>2. Unqueued(t)
    BY <1>0, <1>3, <1>5, <2>1, StaysUnqueued
  <2> QED BY <1>6, <1>7, <1>8, <2>2
<1>9. CASE t = attempts[b.attempt]
  <2>1. BindingOf(b) \notin resolved' /\ work'[t].status = "needs_review"
    BY <1>2, <1>9 DEF Unqueued, Needed
  <2>2. CASE Route(b, "needs_review") /\ resolved' = resolved
    <3>1. attempts' = attempts
      BY <1>3 DEF NoNewReview
    <3> QED BY <1>0, <1>2, <1>3, <1>6, <1>9, <2>2, <3>1, RouteCares
  <2>3. CASE UNCHANGED queueVars /\ IngestAgain(b)
    <3>1. Unqueued(t) /\ work' = work
      BY <1>0, <1>3, <1>5, <2>1, <2>3, StaysUnqueued DEF queueVars
    <3>2. CASE RootVerdict(b) /\ b.attempt = work[t].attempt
      <4>1. results[EffectiveDecision[b]].state = "needs_review"
        BY <1>9, <2>1, <3>1, <3>2, EffectiveIsRow DEF Verdict, Dispositions
      <4>2. Route(b, "needs_review") /\ resolved' = resolved
        BY <2>3, <4>1 DEF IngestAgain, Proceed, Admitted
      <4> QED BY <2>2, <4>2
    <3>3. CASE ~RootVerdict(b) \/ b.attempt # work[t].attempt
      BY <1>6, <1>7, <3>1, <3>3
    <3> QED BY <3>2, <3>3
  <2> QED BY <1>4, <1>9, <2>1, <2>2, <2>3
<1> QED BY <1>8, <1>9

(* Any other step of a run puts nothing new into review.                   *)
LEMMA RunStaysUnqueued ==
  ASSUME AllInv, ImportInv, [PipelineNext]_vars, ~Ingest, ~Settle, ~Quarantine,
         run' = run, pc \in Live, resolved' = resolved, NEW t \in Task, Unqueued(t)'
  PROVE  /\ Unqueued(t) /\ work'[t].attempt = work[t].attempt
         /\ \A a \in Attempt : attempts[a] = t => attempts'[a] = t
         /\ \A b \in Bundle : RootVerdict(b) => RootVerdict(b)'
<1>0. QueueTypeOK /\ [QueueNext]_queueVars
  BY StepUsesQueue DEF AllInv, PipeInv, QueueInv
<1>1. run.lanes \subseteq Lane /\ run.extract \subseteq Binding
  BY DEF ImportInv, RunInv, Live, Request
<1>2. work[t].status = "needs_review" /\ work'[t].attempt = work[t].attempt
  <2>1. CASE NoNewReview({})
    BY <2>1 DEF NoNewReview, Unqueued
  <2>2. ASSUME NEW u \in Task, NEW a \in Attempt, Dispatch(u, a)
        PROVE  work[t].status = "needs_review" /\ work'[t].attempt = work[t].attempt
    BY <1>0, <2>2 DEF Dispatch, Claim, Unqueued, QueueTypeOK, WorkRow
  <2> QED BY <2>1, <2>2, OthersReview
<1>3. Unqueued(t)
  BY <1>0, <1>1, <1>2, StaysUnqueued
<1>4. \A a \in Attempt : attempts[a] = t => attempts'[a] = t
  BY QueueKeeps, QueueAssumption
<1>5. \A b \in Bundle : RootVerdict(b) => RootVerdict(b)'
  BY VerdictsAreFinished, QueueKeeps DEF RootVerdict
<1> QED BY <1>2, <1>3, <1>4, <1>5

(* What waits for the replay keeps waiting for it.                         *)
LEMMA WaitsOn ==
  ASSUME AllInv, NEW t \in Task, work'[t].attempt = work[t].attempt,
         \A a \in Attempt : attempts[a] = t => attempts'[a] = t,
         \A b \in Bundle : RootVerdict(b) => RootVerdict(b)',
         spool \subseteq spool', deferred' = deferred
  PROVE  /\ Deferred(t) => Deferred(t)'
         /\ inbox' = inbox /\ (job' = job \/ job.step # "ingest") /\ ToReplay(t) => ToReplay(t)'
<1>1. Deferred(t) => Deferred(t)'
  BY BundleAttempt DEF Deferred, AllInv, PipeInv, Wiring
<1>2. ASSUME inbox' = inbox, job' = job \/ job.step # "ingest", ToReplay(t) PROVE ToReplay(t)'
  <2>1. PICK b \in spool : /\ RootVerdict(b) /\ b.attempt = work[t].attempt
                           /\ b \in inbox \/ (job.step = "ingest" /\ job.bundle = b)
    BY <1>2 DEF ToReplay
  <2> QED BY <1>2, <2>1 DEF ToReplay, AllInv, PipeInv, Wiring
<1> QED BY <1>1, <1>2

LEMMA StartCares ==
  ASSUME SpooledInv, NEW r \in Request, StartRun(r) PROVE EscalationInv'
<1>1. /\ pc' = "replay" /\ run' = r /\ inbox' = spool /\ r.lanes \subseteq Lane
      /\ UNCHANGED <<spool, work, attempts, results>>
  BY DEF StartRun, durable, queueVars, Request
<1>2. ASSUME NEW t \in Task, Unqueued(t)' PROVE ToReplay(t)'
  <2>1. t.lane \in Lane /\ work[t].status \in Verdict
    BY <1>1, <1>2 DEF Unqueued, Later, Verdict, Dispositions
  <2>2. PICK b \in spool : RootVerdict(b) /\ b.attempt = work[t].attempt
    BY <2>1 DEF SpooledInv, DecidedIsSpooled
  <2> QED BY <1>1, <2>2 DEF ToReplay, RootVerdict
<1> QED BY <1>1, <1>2 DEF EscalationInv

LEMMA ReplayCares ==
  ASSUME AllInv, ImportInv, EscalationInv, NEW b \in Bundle, Replay(b),
         NEW t \in Task, Unqueued(t), work'[t].attempt = work[t].attempt,
         \A a \in Attempt : attempts[a] = t => attempts'[a] = t,
         \A c \in Bundle : RootVerdict(c) => RootVerdict(c)'
  PROVE  Deferred(t)' \/ ToReplay(t)'
<1>1. /\ pc = "replay" /\ job.step = "none" /\ b \in inbox /\ inbox' = inbox \ {b}
      /\ spool' = spool /\ deferred' = deferred
  BY DEF Replay, Idle, NoJob
<1>2. CASE Deferred(t)
  BY <1>1, <1>2, WaitsOn
<1>3. CASE ToReplay(t)
  <2>1. PICK c \in spool : RootVerdict(c) /\ c.attempt = work[t].attempt /\ c \in inbox
    BY <1>1, <1>3 DEF ToReplay
  <2>2. c \in Bundle /\ c.attempt \in Attempt /\ attempts[c.attempt] = t
    BY <2>1, BundleAttempt DEF AllInv, PipeInv, Wiring, QueueInv, RowOwnsItsAttempt
  <2>3. CASE c = b
    <3>1. InScope(b)
      BY <1>1, <2>2, <2>3
         DEF InScope, BindingOf, Unqueued, Needed, ImportInv, RunInv, Live, WellFormed
    <3>2. job'.step = "ingest" /\ job'.bundle = b
      BY <3>1 DEF Replay, Receive, NoJob
    <3> QED BY <1>1, <2>1, <2>2, <2>3, <3>2 DEF ToReplay
  <2>4. CASE c # b
    BY <1>1, <2>1, <2>2, <2>4 DEF ToReplay
  <2> QED BY <2>3, <2>4
<1> QED BY <1>1, <1>2, <1>3 DEF EscalationInv

(* A deferred result that is not queued in a later lane is due.            *)
LEMMA UnqueuedIsTarget ==
  ASSUME NEW b, NEW t, Unqueued(t), attempts[b.attempt] = t PROVE Targets(b) # {}
  BY DEF Unqueued, Targets, BindingOf, LaneOf

LEMMA EscalateCares ==
  ASSUME AllInv, ImportInv, EscalationInv, Escalate, pc = "drain",
         NEW t \in Task, Unqueued(t), Unqueued(t)'
  PROVE  job' = job /\ attempts'[job.bundle.attempt] = t
<1>1. job.step = "escalate" /\ attempts[job.bundle.attempt] = t
  BY DEF EscalationInv
<1>2. PICK b \in Bundle : b = job.bundle
  BY <1>1 DEF AllInv, PipeInv, JobInv
<1>3. PICK l \in Targets(b) : /\ EscalateTo(b, l)
                              /\ job' = IF Targets(b) = {l} THEN NoJob ELSE job
  BY <1>2 DEF Escalate
<1>4. attempts' = attempts
  BY <1>3 DEF EscalateTo, Register
<1>5. BindingOf(b) = t.binding /\ LaneOf(b) = t.lane /\ run' = run /\ resolved' = resolved
  BY <1>1, <1>2 DEF BindingOf, LaneOf, Escalate
<1>6. PICK m \in Later(t.lane) : work'[TaskOf(t.binding, m)].status = "absent"
  BY <1>5 DEF Unqueued, Later
<1>7. t.binding \in Needed /\ t.binding \in Binding /\ m \in Lane
  BY <1>6 DEF Unqueued, Later, ImportInv, RunInv, Live, Request, Needed
<1>8. TaskOf(t.binding, m) \in Task
  BY <1>7, TaskOfIsTask
<1>9. m # l
  <2>1. work'[TaskOf(t.binding, l)].status = "pending" \/ TaskOf(t.binding, l) \notin Task
    BY <1>3, <1>5 DEF EscalateTo, Register, AllInv, PipeInv, QueueInv, QueueTypeOK, WorkRow
  <2> QED BY <1>6, <1>8, <2>1
<1>10. m \in Targets(b)
  <2>1. work[TaskOf(t.binding, m)].status = "absent"
    BY <1>3, <1>5, <1>6, <1>8 DEF EscalateTo, Register, AllInv, PipeInv, QueueInv, QueueTypeOK,
      WorkRow
  <2> QED BY <1>5, <1>6, <1>7, <2>1 DEF Targets
<1> QED BY <1>1, <1>2, <1>3, <1>4, <1>9, <1>10

LEMMA EscalationStep ==
  ASSUME AllInv, ImportInv, ChainsEnd, SpooledInv, EscalationInv, [PipelineNext]_vars
  PROVE  EscalationInv'
<1>1. ASSUME pc' \notin Live PROVE EscalationInv'
  BY <1>1 DEF EscalationInv, Live
<1>2. CASE Ingest \/ Settle
  <2>1. pc' = pc \/ pc' = "closing"
    BY <1>2, JobOutcome DEF ImportInv
  <2>2. CASE pc' = pc /\ pc \in Live
    <3>1. pc \notin {"cancel", "escalate"}
      BY <1>2 DEF EscalationInv, Ingest, Settle
    <3> QED BY <1>2, <2>2, <3>1, ReceiveCares DEF EscalationInv, Live
  <2> QED BY <1>1, <2>1, <2>2 DEF Live
<1>3. ASSUME NEW r \in Request, StartRun(r) PROVE EscalationInv'
  BY <1>3, StartCares
<1>4. CASE Quarantine
  <2>1. pc' \in {"quarantine", "down"}
    BY <1>4 DEF Quarantine, QuarantinePublish, QuarantineCommit, QuarantineFails, Down
  <2> QED BY <1>1, <2>1 DEF Live
<1>5. CASE (\E a \in Attempt : FutureRaises(a)) \/ CompleteRun \/ Close \/ Abort \/ Kill
  <2>1. pc' \in {"closing", "down"}
    BY <1>5 DEF FutureRaises, CompleteRun, Close, Abort, Kill, Unwind, Down
  <2> QED BY <1>1, <2>1 DEF Live
<1> DEFINE Carried(t) == /\ Unqueued(t) /\ work'[t].attempt = work[t].attempt
                         /\ \A a \in Attempt : attempts[a] = t => attempts'[a] = t
                         /\ \A b \in Bundle : RootVerdict(b) => RootVerdict(b)'
<1>6. ASSUME ~Ingest, ~Settle, ~Quarantine, run' = run, pc \in Live, resolved' = resolved,
             NEW t \in Task, Unqueued(t)'
      PROVE  Carried(t)
  BY <1>6, RunStaysUnqueued
<1>7. ASSUME NEW t \in Task, Carried(t), spool \subseteq spool', deferred' = deferred
      PROVE  /\ Deferred(t) => Deferred(t)'
             /\ inbox' = inbox /\ (job' = job \/ job.step # "ingest") /\ ToReplay(t) => ToReplay(t)'
  <2> HIDE DEF Carried
  <2>1. work'[t].attempt = work[t].attempt
    BY <1>7 DEF Carried
  <2> QED BY <1>7, <2>1, WaitsOn DEF Carried
<1> HIDE DEF Carried
<1>8. ASSUME NEW b \in Bundle, Replay(b), pc \in Live PROVE EscalationInv'
  <2>1. /\ ~Ingest /\ ~Settle /\ ~Quarantine /\ run' = run /\ resolved' = resolved
        /\ pc = "replay" /\ pc' = pc
    BY <1>8 DEF Replay, Idle, NoJob, Ingest, Settle, Quarantine, QuarantinePublish,
      QuarantineCommit, QuarantineFails
  <2>2. ASSUME NEW t \in Task, Unqueued(t)' PROVE Deferred(t)' \/ ToReplay(t)'
    BY <1>6, <1>8, <2>1, <2>2, ReplayCares DEF Carried
  <2> QED BY <2>1, <2>2 DEF EscalationInv
<1>9. CASE RecoverLeases
  <2>1. /\ ~Ingest /\ ~Settle /\ ~Quarantine /\ run' = run /\ resolved' = resolved
        /\ pc = "replay" /\ pc' = "cancel" /\ inbox = {} /\ job.step = "none" /\ job' = job
        /\ spool' = spool /\ deferred' = deferred
    BY <1>9 DEF RecoverLeases, Idle, NoJob, Ingest, Settle, Quarantine, QuarantinePublish,
      QuarantineCommit, QuarantineFails
  <2>2. ASSUME NEW t \in Task, Unqueued(t)' PROVE Deferred(t)'
    <3>1. Carried(t)
      BY <1>6, <2>1, <2>2 DEF Live
    <3>2. Deferred(t)
      BY <2>1, <3>1 DEF Carried, EscalationInv, ToReplay
    <3> QED BY <1>7, <2>1, <3>1, <3>2
  <2> QED BY <2>1, <2>2 DEF EscalationInv
<1>10. CASE CancelResolved \/ EscalateDeferred
  <2>1. /\ pc \in {"cancel", "escalate"} /\ job.step = "none" /\ job' = job
        /\ run' = run /\ resolved' = resolved /\ spool' = spool
    BY <1>10 DEF CancelResolved, EscalateDeferred, EscalationInv
  <2>2. ~Ingest /\ ~Settle /\ ~Quarantine
    BY <2>1 DEF Ingest, Settle, Quarantine, QuarantinePublish, QuarantineCommit, QuarantineFails
  <2>3. ASSUME NEW t \in Task, Unqueued(t)' PROVE Carried(t) /\ Deferred(t)
    <3>1. Carried(t)
      BY <1>6, <2>1, <2>2, <2>3 DEF Live
    <3> QED BY <2>1, <3>1 DEF Carried, EscalationInv
  <2>4. CASE pc' = "escalate" /\ deferred' = deferred
    <3>1. ASSUME NEW t \in Task, Unqueued(t)' PROVE Deferred(t)'
      BY <1>7, <2>1, <2>3, <2>4, <3>1
    <3> QED BY <2>1, <2>4, <3>1 DEF EscalationInv
  <2>5. CASE \A b \in deferred : Targets(b) = {}
    <3>1. ASSUME NEW t \in Task, Unqueued(t)' PROVE FALSE
      BY <2>3, <2>5, <3>1, UnqueuedIsTarget DEF Carried, Deferred
    <3>2. job'.step = "none"
      BY <2>1
    <3> QED BY <3>1, <3>2 DEF EscalationInv
  <2> QED BY <1>10, <2>4, <2>5 DEF CancelResolved, EscalateDeferred
<1>11. CASE Escalate
  <2>1. /\ run' = run /\ resolved' = resolved /\ spool' = spool /\ job.step = "escalate"
        /\ pc' = pc /\ inbox' = inbox /\ deferred' = deferred
    BY <1>11 DEF Escalate
  <2>2. ~Ingest /\ ~Settle /\ ~Quarantine /\ pc \notin {"cancel", "escalate"}
    BY <2>1 DEF Ingest, Settle, Quarantine, QuarantinePublish, QuarantineCommit, QuarantineFails,
      EscalationInv, ImportInv, JobPhase
  <2>3. ASSUME NEW t \in Task, Unqueued(t)', pc = "replay" PROVE Deferred(t)' \/ ToReplay(t)'
    <3>1. Carried(t)
      BY <1>6, <2>1, <2>2, <2>3 DEF Live
    <3>2. Deferred(t) \/ ToReplay(t)
      BY <2>3, <3>1 DEF Carried, EscalationInv
    <3> QED BY <1>7, <2>1, <3>1, <3>2
  <2>4. ASSUME NEW t \in Task, Unqueued(t)', pc = "drain"
        PROVE  job'.step = "escalate" /\ attempts'[job'.bundle.attempt] = t
    <3>1. Unqueued(t)
      BY <1>6, <2>1, <2>2, <2>4 DEF Carried, Live
    <3> QED BY <1>11, <2>1, <2>4, <3>1, EscalateCares
  <2> QED BY <2>1, <2>2, <2>3, <2>4 DEF EscalationInv
<1>12. CASE \/ \E b \in Bundle : Collect(b) \/ PollReview(b)
            \/ \E x \in Binding : Seed(x)
            \/ \E t \in Task, a \in Attempt : Dispatch(t, a)
  <2>1. /\ pc = "drain" /\ pc' = pc /\ job.step = "none" /\ run' = run /\ resolved' = resolved
    <3> DEFINE P == /\ pc = "drain" /\ pc' = pc /\ job.step = "none"
                    /\ run' = run /\ resolved' = resolved
    <3>1. ASSUME NEW b \in Bundle, Collect(b) \/ PollReview(b) PROVE P
      BY <3>1 DEF Collect, PollReview, Idle, NoJob
    <3>2. ASSUME NEW x \in Binding, Seed(x) PROVE P
      BY <3>2 DEF Seed, Idle, NoJob, ownerVars
    <3>3. ASSUME NEW t \in Task, NEW a \in Attempt, Dispatch(t, a) PROVE P
      BY <3>3 DEF Dispatch, Idle, NoJob
    <3> QED BY <1>12, <3>1, <3>2, <3>3
  <2>2. ~Ingest /\ ~Settle /\ ~Quarantine
    BY <2>1 DEF Ingest, Settle, Quarantine, QuarantinePublish, QuarantineCommit, QuarantineFails
  <2>3. ASSUME NEW t \in Task, Unqueued(t)' PROVE FALSE
    <3>1. Unqueued(t)
      BY <1>6, <2>1, <2>2, <2>3 DEF Carried, Live
    <3> QED BY <2>1, <3>1 DEF EscalationInv
  <2> QED BY <2>1, <2>3 DEF EscalationInv
<1>13. CASE \/ \E b \in Bundle : Publish(b) \/ SignReview(b)
            \/ \E a \in Attempt : WorkerFails(a)
            \/ \E t \in Task : Lapse(t)
            \/ UNCHANGED vars
  <2>1. /\ run' = run /\ resolved' = resolved /\ spool \subseteq spool' /\ job' = job
        /\ pc' = pc /\ inbox' = inbox /\ deferred' = deferred
    BY <1>13 DEF Publish, SignReview, WorkerFails, Lapse, vars, ownerVars
  <2>2. SUFFICES ASSUME pc \in Live, ~Ingest, ~Settle, ~Quarantine PROVE EscalationInv'
    BY <1>1, <1>2, <1>4, <2>1
  <2>3. ASSUME NEW t \in Task, Unqueued(t)'
        PROVE  /\ pc = "replay" => Deferred(t)' \/ ToReplay(t)'
               /\ pc \in {"cancel", "escalate"} => Deferred(t)'
               /\ pc = "drain" => job'.step = "escalate" /\ attempts'[job'.bundle.attempt] = t
    <3>1. Carried(t)
      BY <1>6, <2>1, <2>2, <2>3
    <3>2. /\ Deferred(t) => Deferred(t)'
          /\ ToReplay(t) => ToReplay(t)'
      BY <1>7, <2>1, <3>1
    <3>3. pc = "drain" => job'.step = "escalate" /\ attempts'[job'.bundle.attempt] = t
      <4> SUFFICES ASSUME pc = "drain"
                   PROVE  job'.step = "escalate" /\ attempts'[job'.bundle.attempt] = t
        OBVIOUS
      <4>1. job.step = "escalate" /\ attempts[job.bundle.attempt] = t
        BY <3>1 DEF Carried, EscalationInv
      <4>2. job.bundle.attempt \in Attempt
        BY <4>1, BundleAttempt DEF AllInv, PipeInv, JobInv
      <4> QED BY <2>1, <3>1, <4>1, <4>2 DEF Carried
    <3> QED BY <3>1, <3>2, <3>3 DEF Carried, EscalationInv
  <2> QED BY <2>1, <2>3 DEF EscalationInv
<1>14. \A b \in Bundle : Replay(b) => pc \in Live
  BY DEF Replay, Live
<1> QED BY <1>2, <1>3, <1>4, <1>5, <1>8, <1>9, <1>10, <1>11, <1>12, <1>13, <1>14
    DEF PipelineNext, Next, OwnerStep

LEMMA CompletedIsQueued ==
  ASSUME AllInv, ImportInv, EscalationInv, [PipelineNext]_vars,
         pc = "drain", pc' = "down", faults' = faults, faults \in Nat
  PROVE  /\ Seeded
         /\ \A x \in Needed, l \in run.lanes :
              work[TaskOf(x, l)].status = "needs_review" =>
                \A m \in Later(l) : work[TaskOf(x, m)].status # "absent"
<1>1. CompleteRun
  <2>1. ~Abort /\ ~Kill
    BY DEF Abort, Kill
  <2>2. ~Ingest /\ ~Settle /\ ~Escalate
    BY JobOutcome DEF ImportInv
  <2>3. /\ \A b \in Bundle : ~Replay(b) /\ ~Collect(b) /\ ~PollReview(b) /\ ~Publish(b)
                             /\ ~SignReview(b)
        /\ \A x \in Binding : ~Seed(x)
        /\ \A t \in Task : ~Lapse(t) /\ \A a \in Attempt : ~Dispatch(t, a)
        /\ \A a \in Attempt : ~WorkerFails(a) /\ ~FutureRaises(a)
        /\ \A r \in Request : ~StartRun(r)
        /\ ~RecoverLeases /\ ~CancelResolved /\ ~EscalateDeferred /\ ~Close /\ ~Quarantine
        /\ vars' # vars
    BY DEF Replay, Collect, PollReview, Publish, SignReview, Seed, Lapse, Dispatch, WorkerFails,
      FutureRaises, Unwind, StartRun, RecoverLeases, CancelResolved, EscalateDeferred, Close,
      Quarantine, QuarantinePublish, QuarantineCommit, QuarantineFails, vars, ownerVars
  <2> QED BY <2>1, <2>2, <2>3 DEF PipelineNext, Next, OwnerStep
<1>2. Seeded /\ job.step = "none"
  BY <1>1 DEF CompleteRun, Idle, NoJob
<1>3. ASSUME NEW x \in Needed, NEW l \in run.lanes,
             work[TaskOf(x, l)].status = "needs_review",
             NEW m \in Later(l), work[TaskOf(x, m)].status = "absent"
      PROVE  FALSE
  <2>1. x \in Binding /\ l \in Lane
    BY DEF Needed, ImportInv, RunInv, Live, Request
  <2>2. TaskOf(x, l) \in Task /\ TaskOf(x, l).binding = x /\ TaskOf(x, l).lane = l
    BY <2>1, TaskOfIsTask DEF TaskOf
  <2>3. Unqueued(TaskOf(x, l))
    BY <1>3, <2>2 DEF Unqueued
  <2> QED BY <1>2, <2>2, <2>3 DEF EscalationInv
<1> QED BY <1>2, <1>3

(* A run that completes leaves no result in review between two of its      *)
(* lanes, whatever was killed before it and at whatever step: for any      *)
(* documents, lanes, attempts, runs and faults.                            *)
THEOREM NothingIsForgotten == QuarantineSpec => NothingForgotten
<1>1. Init => ChainsEnd /\ SpooledInv /\ EscalationInv /\ OwnerTypes
  <2>1. Init => ChainsEnd /\ OwnerTypes
    BY GroundedInit DEF GroundedInv
  <2>2. Init => UnfinishedIsSpooled
    BY PaidInit DEF PaidInv
  <2>3. Init => NamedIsJudged /\ DecidedIsSpooled /\ EscalationInv
    BY NamedInit DEF Init, QueueInit, Unregistered, DecidedIsSpooled, Verdict, Dispositions,
      EscalationInv, NoJob
  <2> QED BY <2>1, <2>2, <2>3 DEF SpooledInv
<1>2. AllInv /\ ImportInv /\ ChainsEnd /\ SpooledInv /\ EscalationInv /\ OwnerTypes
        /\ [PipelineNext]_vars
      => ChainsEnd' /\ SpooledInv' /\ EscalationInv' /\ OwnerTypes'
  <2>1. AllInv /\ ChainsEnd /\ [PipelineNext]_vars => ChainsEnd'
    BY StepUsesQueue, ChainsStep DEF AllInv, PipeInv
  <2> QED BY <2>1, SpooledStep, EscalationStep, OwnerTypesStep
<1>3. AllInv /\ ImportInv /\ EscalationInv /\ OwnerTypes /\ [PipelineNext]_vars =>
        [pc = "drain" /\ pc' = "down" /\ faults' = faults =>
           /\ Seeded
           /\ \A x \in Needed, l \in run.lanes :
                work[TaskOf(x, l)].status = "needs_review" =>
                  \A m \in Later(l) : work[TaskOf(x, m)].status # "absent"]_vars
  BY CompletedIsQueued, PipelineAssumption DEF OwnerTypes
<1>4. QuarantineSpec => [](AllInv /\ ImportInv)
  BY ImportInvariant
<1> QED BY <1>1, <1>2, <1>3, <1>4, PTL DEF QuarantineSpec, PipelineNext, NothingForgotten

-----------------------------------------------------------------------------
(* Source reviews.                                                         *)

ReviewEntry == [verdict : {"pass", "fail"}, supersedes : Nat, after : Nat]

(* A verdict acknowledges what stood when it was recorded, and everything  *)
(* after the first decision was appended.                                  *)
SourceInv ==
  /\ reads \in Seq([Proposal -> Rowset]) /\ Len(reads) \in 1 .. MaxRecipe
  /\ bundles \subseteq ReviewBundle
  /\ history \in [ReviewBundle -> Seq(ReviewEntry)]
  /\ \A b \in ReviewBundle : \A i \in DOMAIN history[b] : history[b][i].supersedes <= history[b][i].after
  /\ chain \in Seq([state : {"accepted", "needs_review"}, appended : BOOLEAN])
  /\ \A i \in DOMAIN chain : i > 1 => chain[i].appended

LEMMA SourceStarts == ReviewInit => SourceInv
<1> SUFFICES ASSUME ReviewInit PROVE SourceInv
  OBVIOUS
<1>1. reads \in Seq([Proposal -> Rowset]) /\ Len(reads) = 1
  BY DEF ReviewInit
<1>2. MaxRecipe \in Nat \ {0}
  BY ReviewAssumption
<1> QED BY <1>1, <1>2 DEF ReviewInit, SourceInv

LEMMA SourceSteps == SourceInv /\ [ReviewNext]_reviewVars => SourceInv'
<1> SUFFICES ASSUME SourceInv, [ReviewNext]_reviewVars PROVE SourceInv'
  OBVIOUS
<1> USE DEF SourceInv
<1>0. MaxRecipe \in Nat \ {0}
  BY ReviewAssumption
<1>1. ASSUME NEW p \in Proposal PROVE Candidate(p) \in ReviewBundle
  BY <1>0 DEF Candidate, Recipe, ReviewBundle
<1>2. ASSUME NEW p \in Proposal, Prepare(p) PROVE SourceInv'
  BY <1>1, <1>2 DEF Prepare
<1>3. ASSUME NEW p \in Proposal, NEW v \in {"pass", "fail"}, NEW a \in 0 .. Len(chain),
             RecordVerdict(p, v, a)
      PROVE  SourceInv'
  <2> DEFINE b == Candidate(p)
             entry == [verdict |-> v, supersedes |-> a, after |-> Len(chain)]
             h == history[b]
  <2>1. b \in ReviewBundle /\ h \in Seq(ReviewEntry)
    BY <1>1
  <2>2. entry \in ReviewEntry /\ entry.supersedes <= entry.after
    BY DEF ReviewEntry
  <2>3. /\ UNCHANGED <<reads, bundles, chain>>
        /\ history' = [history EXCEPT ![b] = Append(h, entry)]
    BY <1>3 DEF RecordVerdict
  <2> HIDE DEF b, entry
  <2>4. Append(h, entry) \in Seq(ReviewEntry)
    BY <2>1, <2>2
  <2>5. \A i \in DOMAIN Append(h, entry) :
          Append(h, entry)[i].supersedes <= Append(h, entry)[i].after
    BY <2>1, <2>2
  <2> QED BY <2>1, <2>3, <2>4, <2>5
<1>4. CASE WriteSelector \/ KillReviewer
  BY <1>4 DEF WriteSelector, KillReviewer
<1>5. ASSUME NEW n \in [Proposal -> Rowset], NewRecipe(n) PROVE SourceInv'
  <2>1. Len(reads) < MaxRecipe /\ reads' = Append(reads, n)
    BY <1>5 DEF NewRecipe, Recipe
  <2>2. reads' \in Seq([Proposal -> Rowset]) /\ Len(reads') = Len(reads) + 1
    BY <2>1
  <2> QED BY <1>0, <1>5, <2>1, <2>2 DEF NewRecipe
<1>6. ASSUME NEW s \in {"accepted", "needs_review"}, NEW appended \in BOOLEAN, Decide(s, appended),
             appended \/ chain = <<>>
      PROVE  SourceInv'
  <2> DEFINE d == [state |-> s, appended |-> appended]
  <2>1. d \in [state : {"accepted", "needs_review"}, appended : BOOLEAN] /\ d.appended = appended
    OBVIOUS
  <2>2. chain' = Append(chain, d) /\ UNCHANGED <<reads, bundles, history>>
    BY <1>6 DEF Decide
  <2> HIDE DEF d
  <2>3. chain' \in Seq([state : {"accepted", "needs_review"}, appended : BOOLEAN])
    BY <2>1, <2>2
  <2>4. ASSUME NEW i \in DOMAIN chain', i > 1 PROVE chain'[i].appended
    BY <1>6, <2>1, <2>2, <2>4
  <2> QED BY <2>2, <2>3, <2>4
<1>7. CASE IngestResponse \/ ReadmitResponse \/ Retract
  BY <1>6, <1>7 DEF IngestResponse, ReadmitResponse, Retract
<1>8. CASE UNCHANGED reviewVars
  BY <1>8 DEF reviewVars
<1> QED BY <1>2, <1>3, <1>4, <1>5, <1>7, <1>8 DEF ReviewNext

(* A withdrawal is no later than what the next review has to acknowledge.  *)
LEMMA WithdrawnIsRequired ==
  ASSUME SourceInv, chain # <<>>, Effective.state = "needs_review", NEW i \in Withdrawn
  PROVE  i \in 1 .. RequiredSupersession
<1> DEFINE n == Len(chain)
<1>1. n \in Nat /\ n > 0 /\ i \in 1 .. n /\ chain[i].appended /\ Effective = chain[n]
  BY DEF SourceInv, Withdrawn, Effective, Last
<1>2. CASE Effective.appended
  BY <1>1, <1>2 DEF RequiredSupersession
<1>3. CASE ~Effective.appended
  <2>1. n = 1
    BY <1>1, <1>3 DEF SourceInv
  <2> QED BY <1>1, <1>3, <2>1
<1> QED BY <1>2, <1>3

LEMMA AdmissionRestsOnReview ==
  ASSUME SourceInv, ReviewNext, Admits
  PROVE  /\ Chosen.recipe = Recipe
         /\ \A b \in bundles : Failed(b) => RowsUnder(b) # RowsUnder(Chosen)
         /\ \A i \in Withdrawn : \E j \in DOMAIN history[Chosen] :
              history[Chosen][j].verdict = "pass" /\ history[Chosen][j].after >= i
<1>1. ASSUME NEW s, NEW appended, Decide(s, appended) PROVE s = "accepted"
  <2>1. chain \in Seq([state : {"accepted", "needs_review"}, appended : BOOLEAN])
    BY DEF SourceInv
  <2>2. chain' = Append(chain, [state |-> s, appended |-> appended])
    BY <1>1 DEF Decide
  <2>3. Len(chain') = Len(chain) + 1 /\ chain'[Len(chain) + 1] = [state |-> s, appended |-> appended]
    BY <2>1, <2>2
  <2> QED BY <2>3 DEF Admits, Last
<1>2. Authorized /\ (chain = <<>> \/ (chain # <<>> /\ Effective.state = "needs_review"))
  <2>1. CASE IngestResponse \/ ReadmitResponse \/ Retract
    BY <1>1, <2>1 DEF IngestResponse, ReadmitResponse, Retract
  <2>2. CASE ~(IngestResponse \/ ReadmitResponse \/ Retract)
    BY <2>2 DEF Admits, ReviewNext, Prepare, RecordVerdict, WriteSelector, KillReviewer, NewRecipe
  <2> QED BY <2>1, <2>2
<1>3. /\ Chosen.recipe = Recipe /\ Chosen \in Recorded
      /\ Last(history[Chosen]).verdict = "pass"
      /\ Last(history[Chosen]).supersedes = RequiredSupersession
      /\ ~HasFailedProjection(Chosen)
  BY <1>2 DEF Authorized, Allowed
<1>4. ASSUME NEW b \in bundles, Failed(b) PROVE RowsUnder(b) # RowsUnder(Chosen)
  <2>1. b \in Recorded
    BY <1>4 DEF SourceInv, Recorded, Failed
  <2> QED BY <1>3, <1>4, <2>1 DEF HasFailedProjection
<1>5. ASSUME NEW i \in Withdrawn
      PROVE  \E j \in DOMAIN history[Chosen] :
               history[Chosen][j].verdict = "pass" /\ history[Chosen][j].after >= i
  <2> DEFINE h == history[Chosen]
             j == Len(h)
  <2>1. h \in Seq(ReviewEntry) /\ h # <<>> /\ Chosen \in ReviewBundle
    BY <1>3 DEF SourceInv, Recorded
  <2>2. j \in DOMAIN h /\ Last(h) = h[j]
    BY <2>1 DEF Last
  <2>3. h[j].supersedes \in Nat /\ h[j].after \in Nat /\ h[j].supersedes <= h[j].after
    <3>1. h[j] \in ReviewEntry
      BY <2>1, <2>2
    <3>2. h[j].supersedes <= h[j].after
      <4> HIDE DEF j
      <4> QED BY <2>1, <2>2 DEF SourceInv
    <3> HIDE DEF h, j
    <3> QED BY <3>1, <3>2 DEF ReviewEntry
  <2>4. chain # <<>>
    BY DEF Withdrawn
  <2>5. i \in 1 .. h[j].supersedes
    BY <1>2, <1>3, <2>2, <2>4, WithdrawnIsRequired
  <2> QED BY <1>3, <2>2, <2>3, <2>5
<1> QED BY <1>3, <1>4, <1>5

(* Rows of a paid response are admitted only on a review of those rows,    *)
(* as they are normalized now, that nobody failed under any bundle and     *)
(* that is later than every withdrawal, for any number of recipes,         *)
(* verdicts and decisions.                                                 *)
THEOREM AdmissionsFollowReviews == ReviewSpec => AdmissionsRestOnReviews
<1>1. SourceInv /\ [ReviewNext]_reviewVars =>
        [Admits =>
           /\ Chosen.recipe = Recipe
           /\ \A b \in bundles : Failed(b) => RowsUnder(b) # RowsUnder(Chosen)
           /\ \A i \in Withdrawn : \E j \in DOMAIN history[Chosen] :
                history[Chosen][j].verdict = "pass" /\ history[Chosen][j].after >= i]_reviewVars
  BY AdmissionRestsOnReview
<1> QED BY <1>1, SourceStarts, SourceSteps, PTL DEF ReviewSpec, AdmissionsRestOnReviews
=============================================================================
