----------------------------- MODULE WorkQueue -----------------------------
(***************************************************************************)
(* The durable extraction queue (persistence/work_repository.py): the      *)
(* tables extraction_work, extraction_attempts and extraction_results and  *)
(* every operation of WorkRepository that changes them.                    *)
(*                                                                         *)
(* A task is one (binding, lane); a binding is one (document, year,        *)
(* generation, artifact digest).  An attempt is the UUID drawn by one      *)
(* claim.  A result identity is the hash of the whole bundle, so a bundle  *)
(* is its own identity here.  The two timestamps of a row are compared     *)
(* with the clock only, so "due" says that lease_until (while running) or  *)
(* retry_at (while waiting) is in the past.  finished_at is NULL exactly   *)
(* when the state column says 'extracted'; both are written together.      *)
(***************************************************************************)

CONSTANTS
  Binding,    (* document versions the queue may be asked about           *)
  Lane,       (* extraction lanes                                         *)
  NoLane,     (* the NULL lane of a row made by register_blocked          *)
  Attempt,    (* attempt UUIDs; finite instances bound the claims         *)
  Outcome,    (* the extraction outcomes an instance considers            *)
  Serial,     (* tells apart bundles of one attempt with one outcome      *)
  NoAttempt, NoTask, NoBundle

AnyOutcome == {"candidate", "verified_empty", "retry_wait", "needs_review", "blocked"}

Task   == [binding : Binding, lane : Lane \union {NoLane}]
Bundle == [attempt : Attempt, outcome : Outcome, serial : Serial]

ASSUME QueueAssumption ==
  /\ Outcome \subseteq AnyOutcome
  /\ NoLane \notin Lane
  /\ NoAttempt \notin Attempt
  /\ NoTask \notin Task
  /\ NoBundle \notin Bundle

VARIABLES
  work,       (* extraction_work: one row per task                        *)
  attempts,   (* extraction_attempts: the task each attempt was drawn for *)
  results     (* extraction_results: one row per delivered bundle         *)

queueVars == <<work, attempts, results>>

-----------------------------------------------------------------------------
(* Types.                                                                  *)

Dispositions == {"accepted", "verified_empty", "needs_review", "blocked",
                 "retry_wait", "failed", "superseded"}

(* What a receipt can be finished with.  No caller passes "superseded":    *)
(* that state is only ever written by register_result.                     *)
Verdict == Dispositions \ {"superseded"}

Statuses == {"absent", "pending", "running"} \union Dispositions

WorkRow   == [status : Statuses, attempt : Attempt \union {NoAttempt},
              result : Bundle \union {NoBundle}, due : BOOLEAN]
ResultRow == [state : {"absent", "extracted"} \union Dispositions,
              pred  : Bundle \union {NoBundle}]

Unregistered == [status |-> "absent", attempt |-> NoAttempt,
                 result |-> NoBundle, due |-> FALSE]
NoResult     == [state |-> "absent", pred |-> NoBundle]

(* Tables are indexed by their primary keys; NoBundle indexes nothing.     *)
QueueTypeOK ==
  /\ work \in [Task -> WorkRow]
  /\ attempts \in [Attempt -> Task \union {NoTask}]
  /\ results \in [Bundle -> ResultRow]

-----------------------------------------------------------------------------
(* Conditions the operations test.                                         *)

Delivered(b)  == results[b].state # "absent"
Unfinished(b) == results[b].state = "extracted"
Finished(b)   == Delivered(b) /\ ~Unfinished(b)

(* The SELECT of register_result and validate_receipt: the attempt is its  *)
(* task's current one and is still running.                                *)
Active(a) == /\ work[attempts[a]].attempt = a
             /\ work[attempts[a]].status = "running"

Undecided(t) == {b \in Bundle : Unfinished(b) /\ b.attempt = work[t].attempt}

Claimable(t) == \/ work[t].status = "pending"
                \/ work[t].status = "retry_wait" /\ work[t].due

Recoverable(t) == /\ work[t].status = "running"
                  /\ work[t].due
                  /\ Undecided(t) = {}

Cancellable(t) == work[t].status \in {"pending", "retry_wait"}

Successors(b) == {d \in Bundle : Delivered(d) /\ results[d].pred = b}

(* Follow the appended decisions to the end of the chain.                  *)
EffectiveDecision[b \in Bundle] ==
  IF Successors(b) = {} THEN b
                        ELSE EffectiveDecision[CHOOSE d \in Successors(b) : TRUE]

-----------------------------------------------------------------------------
(* Operations.                                                             *)

QueueInit ==
  /\ work = [t \in Task |-> Unregistered]
  /\ attempts = [a \in Attempt |-> NoTask]
  /\ results = [b \in Bundle |-> NoResult]

(* Mutant: ON CONFLICT DO UPDATE revives a cancelled task.                 *)
RegisterUpsert(t) ==
  /\ t.lane \in Lane
  /\ work[t].status \in {"absent", "superseded"}
  /\ work' = [work EXCEPT ![t].status = "pending"]
  /\ UNCHANGED <<attempts, results>>

(* INSERT ... ON CONFLICT DO NOTHING: a known task keeps its row.          *)
Register(t) ==
  /\ t.lane \in Lane
  /\ work[t].status = "absent"
  /\ work' = [work EXCEPT ![t].status = "pending"]
  /\ UNCHANGED <<attempts, results>>

RegisterBlocked(t) ==
  /\ t.lane = NoLane
  /\ work[t].status = "absent"
  /\ work' = [work EXCEPT ![t].status = "blocked"]
  /\ UNCHANGED <<attempts, results>>

(* One UPDATE over the queued tasks of some bindings, in one lane or all.  *)
SupersedePending(bindings, lanes) ==
  LET cancelled == {t \in Task : /\ t.binding \in bindings
                                 /\ t.lane \in lanes
                                 /\ Cancellable(t)}
  IN /\ work' = [t \in Task |-> IF t \in cancelled
                   THEN [work[t] EXCEPT !.status = "superseded", !.due = FALSE]
                   ELSE work[t]]
     /\ UNCHANGED <<attempts, results>>

(* Mutant: an expired lease is claimed without being recovered first.      *)
ClaimExpired(t, a) ==
  /\ \/ Claimable(t)
     \/ work[t].status = "running" /\ work[t].due
  /\ attempts[a] = NoTask
  /\ work' = [work EXCEPT ![t] = [@ EXCEPT !.status = "running", !.attempt = a,
                                           !.due = FALSE]]
  /\ attempts' = [attempts EXCEPT ![a] = t]
  /\ UNCHANGED results

(* One transaction: a fresh attempt, its envelope and a new lease.         *)
Claim(t, a) ==
  /\ Claimable(t)
  /\ attempts[a] = NoTask
  /\ work' = [work EXCEPT ![t] = [@ EXCEPT !.status = "running", !.attempt = a,
                                           !.due = FALSE]]
  /\ attempts' = [attempts EXCEPT ![a] = t]
  /\ UNCHANGED results

(* One UPDATE over the tasks a run may recover.                            *)
Recover(tasks) ==
  /\ work' = [t \in Task |-> IF t \in tasks /\ Recoverable(t)
                THEN [work[t] EXCEPT !.status = "pending", !.due = FALSE]
                ELSE work[t]]
  /\ UNCHANGED <<attempts, results>>

(* A delivery of a registered attempt.  A finished receipt is immutable; a *)
(* delivery whose attempt is no longer active is recorded as superseded.   *)
RegisterResult(b) ==
  /\ attempts[b.attempt] # NoTask
  /\ ~Finished(b)
  /\ results' = [results EXCEPT ![b].state =
                   IF Active(b.attempt) THEN "extracted" ELSE "superseded"]
  /\ UNCHANGED <<work, attempts>>

(* Mutant: finish does not validate that the attempt is active.            *)
FinishUnvalidated(b, state) ==
  /\ Unfinished(b)
  /\ state \in Dispositions
  /\ results' = [results EXCEPT ![b].state = state]
  /\ work' = [work EXCEPT ![attempts[b.attempt]] =
                [@ EXCEPT !.status = state, !.result = b, !.due = FALSE]]
  /\ UNCHANGED attempts

(* finish: the receipt's verdict and the task's status in one transaction. *)
(* A finished receipt makes the call a no-op; an inactive one raises.      *)
Finish(b, state) ==
  /\ Unfinished(b)
  /\ Active(b.attempt)
  /\ state \in Dispositions
  /\ results' = [results EXCEPT ![b].state = state]
  /\ work' = [work EXCEPT ![attempts[b.attempt]] =
                [@ EXCEPT !.status = state, !.result = b, !.due = FALSE]]
  /\ UNCHANGED attempts

DecisionOutcome == [accepted |-> "candidate", verified_empty |-> "verified_empty",
                    needs_review |-> "needs_review", blocked |-> "blocked"]

(* Mutant: the predecessor need not be the decision that stands.           *)
AppendDecisionAnywhere(p, d, state) ==
  /\ state \in DOMAIN DecisionOutcome
  /\ d.outcome = DecisionOutcome[state]
  /\ d.attempt = p.attempt
  /\ Finished(p)
  /\ ~Delivered(d)
  /\ results' = [results EXCEPT ![d] = [state |-> state, pred |-> p]]
  /\ work' = [work EXCEPT ![attempts[p.attempt]] =
                [@ EXCEPT !.status = state, !.result = d, !.due = FALSE]]
  /\ UNCHANGED attempts

(* append_admission_decision when it writes: the predecessor is finished,  *)
(* is the end of its chain (its effective decision is itself) and is what  *)
(* the task's row still says.  Everything else raises or is an idempotent  *)
(* repetition, and neither changes a table.                                *)
AppendDecision(p, d, state) ==
  LET t == attempts[p.attempt]
  IN /\ state \in DOMAIN DecisionOutcome
     /\ d.outcome = DecisionOutcome[state]
     /\ d.attempt = p.attempt
     /\ Finished(p)
     /\ Successors(p) = {}
     /\ work[t].attempt = p.attempt
     /\ work[t].result = p
     /\ work[t].status = results[p].state
     /\ ~Delivered(d)
     /\ results' = [results EXCEPT ![d] = [state |-> state, pred |-> p]]
     /\ work' = [work EXCEPT ![t] = [@ EXCEPT !.status = state, !.result = d,
                                              !.due = FALSE]]
     /\ UNCHANGED attempts

(* The clock passes a running task's lease or a waiting task's retry time. *)
TimePasses(t) ==
  /\ work[t].status \in {"running", "retry_wait"}
  /\ ~work[t].due
  /\ work' = [work EXCEPT ![t].due = TRUE]
  /\ UNCHANGED <<attempts, results>>

-----------------------------------------------------------------------------
(* The queue under any sequence of legal calls.                            *)

QueueNext ==
  \/ \E t \in Task : Register(t) \/ RegisterBlocked(t) \/ TimePasses(t)
  \/ \E X \in SUBSET Binding, lanes \in {Lane} \union {{l} : l \in Lane} :
       SupersedePending(X, lanes)
  \/ \E t \in Task, a \in Attempt : Claim(t, a)
  \/ \E tasks \in SUBSET Task : Recover(tasks)
  \/ \E b \in Bundle : RegisterResult(b)
  \/ \E b \in Bundle, s \in Verdict : Finish(b, s)
  \/ \E p, d \in Bundle, s \in DOMAIN DecisionOutcome : AppendDecision(p, d, s)

QueueSpec == QueueInit /\ [][QueueNext]_queueVars

-----------------------------------------------------------------------------
(* Safety.                                                                 *)

RootVerdict(b) == results[b].state \in Verdict /\ results[b].pred = NoBundle

(* An attempt is decided by one delivery only: of all the bundles a worker *)
(* may return for it, late, twice or with other content, at most one is    *)
(* finished with a verdict (register_result, finish).                      *)
OneVerdictPerAttempt ==
  \A b, c \in Bundle :
    RootVerdict(b) /\ RootVerdict(c) /\ b.attempt = c.attempt => b = c

(* No delivery is forgotten: one that has not been finished belongs to the *)
(* attempt still running its task, or a sibling delivery decided that      *)
(* attempt (recover_expired must not revive over it, claim must not start  *)
(* over it).                                                               *)
DeliveriesAccounted ==
  \A b \in Bundle : Unfinished(b) =>
    \/ Active(b.attempt)
    \/ \E c \in Bundle : RootVerdict(c) /\ c.attempt = b.attempt

(* The row of a decided task agrees with the immutable receipt it names:   *)
(* same attempt, same state, and no later decision supersedes it.          *)
RowNamesItsDecision ==
  \A t \in Task :
    work[t].status \in Verdict /\ t.lane # NoLane =>
      /\ work[t].result # NoBundle
      /\ work[t].result.attempt = work[t].attempt
      /\ results[work[t].result].state = work[t].status
      /\ Successors(work[t].result) = {}

AtMostOneSuccessor ==
  \A b \in Bundle : \A d, e \in Successors(b) : d = e

DecisionsFollowReceipts ==
  \A d \in Bundle : results[d].pred # NoBundle =>
    /\ Finished(d)
    /\ Finished(results[d].pred)
    /\ results[d].pred.attempt = d.attempt

DecisionsWellFounded ==
  \A S \in SUBSET {d \in Bundle : results[d].pred # NoBundle} :
    S # {} => \E d \in S : results[d].pred \notin S

(* effective_admission_decision never raises "Conflicting admission        *)
(* decisions" or "Admission decision cycle": each receipt has at most one  *)
(* successor, a successor decides the same attempt as its predecessor, and *)
(* no set of decisions feeds on itself.                                    *)
DecisionsFormAPath ==
  AtMostOneSuccessor /\ DecisionsFollowReceipts /\ DecisionsWellFounded

(* Following the decisions from any verdict of a task's current attempt    *)
(* ends at the one receipt the task's row names.                           *)
EffectiveDecisionIsCurrent ==
  \A b \in Bundle :
    LET t == attempts[b.attempt]
    IN /\ results[b].state \in Verdict
       /\ Successors(b) = {}
       /\ work[t].attempt = b.attempt
       => work[t].result = b

(* A finished receipt is never rewritten, whatever is delivered, replayed, *)
(* recovered or decided afterwards.                                        *)
ReceiptsAreImmutable ==
  [][\A b \in Bundle : Finished(b) => results'[b] = results[b]]_queueVars

(* A decided or cancelled task is never queued or leased again: nothing    *)
(* but an unfinished or retried extraction is ever paid for twice.         *)
DecidedStaysDecided ==
  [][\A t \in Task :
       work[t].status \in Dispositions \ {"retry_wait"} =>
         /\ work'[t].status \in Dispositions \ {"retry_wait"}
         /\ work'[t].attempt = work[t].attempt]_queueVars

(* Work, attempts and receipts agree in every state: an attempt is decided *)
(* once, no delivery is lost, and rows name their receipts.                *)
QueueAgrees ==
  QueueTypeOK /\ OneVerdictPerAttempt /\ DeliveriesAccounted /\ RowNamesItsDecision

(* Decisions about decisions, over any number of runs, have one outcome.   *)
DecisionsCohere == DecisionsFormAPath /\ EffectiveDecisionIsCurrent

(* Whatever happens later, what was decided stays: the receipts and the    *)
(* disposition of their task.                                              *)
DecisionsStand == ReceiptsAreImmutable /\ DecidedStaysDecided

-----------------------------------------------------------------------------
(* Refinement: the tables implement the attempt ledger.                    *)

PhaseOf(status) ==
  CASE status = "absent" -> "idle"
    [] status \in {"pending", "retry_wait"} -> "queued"
    [] status = "running" -> "inflight"
    [] OTHER -> "settled"

Judged(a) == \E b \in Bundle : b.attempt = a /\ results[b].state \in Verdict

Ledger == INSTANCE AttemptLedger WITH
  phase  <- [t \in Task |-> PhaseOf(work[t].status)],
  holder <- [t \in Task |-> work[t].attempt],
  drawn  <- {a \in Attempt : attempts[a] # NoTask},
  judged <- {a \in Attempt : Judged(a)}

(* Every step of the queue is a step of the ledger: one judgement for each *)
(* dispatched attempt, and no dispatch over an attempt still in flight.    *)
ImplementsLedger == Ledger!LedgerSpec
=============================================================================
