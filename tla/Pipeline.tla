------------------------------ MODULE Pipeline ------------------------------
(***************************************************************************)
(* The extraction coordinator (ocr/coordinator.py, run_pipeline) over the  *)
(* durable queue: successive runs of the owner process, each replaying the *)
(* spool, recovering leases, cancelling resolved work, escalating between  *)
(* lanes and draining the queue; the workers that publish bundles into the *)
(* spool; the reviewers that sign results beside the owner; and the        *)
(* quarantine script.  One action is one commit of the owner, so the owner *)
(* may be killed between any two of them and the next run starts from the  *)
(* tables, the spool and the review directory alone.                       *)
(*                                                                         *)
(* Every binding is the current version of its document (promotion of a    *)
(* new archive generation is apart), slots and provider back-off only      *)
(* delay a dispatch, and the refresh of resolved bindings under a new      *)
(* recipe is left out.                                                     *)
(***************************************************************************)
EXTENDS WorkQueue, Sequences, FiniteSets, SequencesExt

CONSTANTS
  Original,   (* serial of the bundles workers deliver                    *)
  Refusal,    (* serial of the coordinator's refusal of an admission      *)
  Modes,      (* the kinds of run an instance makes                       *)
  MaxFaults   (* bound on kills and unexpected errors of the owner        *)

LaneRank == [local |-> 1, gemini |-> 2, glm |-> 3]

ASSUME PipelineAssumption ==
  /\ Lane \subseteq DOMAIN LaneRank
  /\ Original \in Serial /\ Refusal \in Serial /\ Original # Refusal
  /\ Modes \subseteq {"full", "years", "extract", "docs"}
  /\ "needs_review" \in Outcome
  /\ MaxFaults \in Nat

VARIABLES
  spool,      (* bundles published under pipeline/results                 *)
  extracting, (* attempts a live worker is extracting                     *)
  resolved,   (* bindings get_unresolved_house_doc_ids does not return    *)
  review,     (* per result, the decisions its passing reviews overrule   *)
  faults,     (* kills and unexpected errors so far                       *)
  pc,         (* phase of the owner process                               *)
  run,        (* arguments of the current run                             *)
  inbox,      (* spooled bundles still to be replayed                     *)
  deferred,   (* replayed_reviews                                         *)
  mine,       (* attempts whose futures the run still waits for           *)
  seen,       (* review_seen                                              *)
  job         (* the receive() in progress                                *)

durable   == <<queueVars, spool, extracting, resolved, review, faults>>
ownerVars == <<pc, run, inbox, deferred, mine, seen, job>>
vars == <<queueVars, spool, extracting, resolved, review, faults, ownerVars>>

Admitted == {"accepted", "verified_empty"}

-----------------------------------------------------------------------------
(* Runs.                                                                   *)

(* "full" is a run without arguments; "years" restricts the scope by year; *)
(* "extract" replays a whole scope but extracts part of it; "docs" names   *)
(* its documents.                                                          *)
Request == [mode : Modes, scope : SUBSET Binding, extract : SUBSET Binding,
            lanes : SUBSET Lane \ {{}}]

WellFormed(r) ==
  /\ r.extract \subseteq r.scope
  /\ r.mode = "full" => r.scope = Binding
  /\ r.mode \in {"full", "years"} => r.extract = r.scope
  /\ r.mode \in {"extract", "docs"} => r.extract # {}

NoRun == [mode |-> "none", scope |-> {}, extract |-> {}, lanes |-> {}]
NoJob == [step |-> "none", bundle |-> NoBundle, prior |-> "absent", state |-> "absent"]

FirstLane == CHOOSE l \in run.lanes : \A m \in run.lanes : LaneRank[l] <= LaneRank[m]

Later(l) == IF l \in run.lanes
            THEN {m \in run.lanes : LaneRank[m] > LaneRank[l]} ELSE {}

BindingOf(b) == attempts[b.attempt].binding
LaneOf(b)    == attempts[b.attempt].lane
InScope(b)   == BindingOf(b) \in run.scope

TaskOf(x, l) == [binding |-> x, lane |-> l]

(* eligible: selected for extraction and still unresolved.                 *)
Needed == run.extract \ resolved

(* The tasks escalate() still has to register for a result in review.      *)
Targets(b) == IF BindingOf(b) \in Needed
              THEN {l \in Later(LaneOf(b)) : work[TaskOf(BindingOf(b), l)].status = "absent"}
              ELSE {}

-----------------------------------------------------------------------------
(* Reviews and the admission gate.                                         *)

(* required_review_supersession: an appended refusal must be named by the  *)
(* review that overrules it, a raw result needs no name.                   *)
Overruled(b) ==
  LET e == EffectiveDecision[b]
  IN IF /\ Finished(b)
        /\ \/ results[e].state = "blocked"
           \/ results[e].state = "needs_review" /\ results[e].pred # NoBundle
     THEN e ELSE NoBundle

(* review_decision_locked and assert_review_supersession.                  *)
Authorised(b) == review[b] # <<>> /\ Last(review[b]) = Overruled(b)

(* Identities of appended decisions contain their predecessor, so they are *)
(* fresh; finite instances bound them.                                     *)
Fresh(b, outcome) == {d \in Bundle : /\ d.attempt = b.attempt
                                     /\ d.outcome = outcome
                                     /\ d.serial \notin {Original, Refusal}
                                     /\ ~Delivered(d)}

IdentitiesLeft(b) == Fresh(b, "needs_review") # {} /\ Fresh(b, b.outcome) # {}

(* ... but the refusal of an unresolved admission is built from the raw    *)
(* result alone.                                                           *)
RefusalOf(b) == [attempt |-> b.attempt, outcome |-> "needs_review", serial |-> Refusal]

Reviewable == {"candidate", "verified_empty"}
VerdictOf(b) == IF b.outcome = "candidate" THEN "accepted" ELSE "verified_empty"

-----------------------------------------------------------------------------
(* How the owner process leaves a run.                                     *)

Down == /\ pc' = "down"
        /\ run' = NoRun
        /\ job' = NoJob
        /\ inbox' = {} /\ deferred' = {} /\ mine' = {} /\ seen' = {}

(* An exception unwinds run_pipeline: the pools wait for their futures.    *)
Unwind == /\ pc' = "closing"
          /\ job' = NoJob
          /\ inbox' = {} /\ deferred' = {} /\ seen' = {}
          /\ UNCHANGED <<run, mine>>

-----------------------------------------------------------------------------
(* receive(): register, ingest, settle and escalate one delivery.          *)

Idle == job = NoJob

Receive(b) ==
  /\ IF Finished(b) THEN UNCHANGED queueVars ELSE RegisterResult(b)
  /\ job' = [NoJob EXCEPT !.step = "ingest", !.bundle = b]

(* What follows a verdict that needs no further commit, or only escalate().*)
Route(b, state) ==
  IF state = "needs_review" /\ pc = "replay"
  THEN deferred' = deferred \union {b} /\ job' = NoJob
  ELSE /\ job' = IF state = "needs_review" /\ Targets(b) # {}
                 THEN [NoJob EXCEPT !.step = "escalate", !.bundle = b] ELSE NoJob
       /\ UNCHANGED deferred

Proceed(b, prior, state) ==
  IF state \in Admitted /\ (prior \notin Admitted \/ BindingOf(b) \notin resolved)
  THEN /\ job' = [step |-> "settle", bundle |-> b, prior |-> prior, state |-> state]
       /\ UNCHANGED deferred
  ELSE Route(b, state)

MayResolve(b, state) ==
  resolved' \in IF state \in Admitted THEN {resolved, resolved \union {BindingOf(b)}}
                                      ELSE {resolved}

(* Mutant: the gate admits paid results like local ones.                   *)
RulingsUngated(b) ==
  CASE b.outcome = "retry_wait"   -> {"retry_wait"}
    [] b.outcome = "needs_review" -> {"needs_review"}
    [] b.outcome = "blocked"      -> {"blocked"}
    [] OTHER -> {"needs_review", "blocked", VerdictOf(b)}

(* What the admission gate and the row writer can make of a new delivery.  *)
Rulings(b) ==
  CASE b.outcome = "retry_wait"   -> {"retry_wait"}
    [] b.outcome = "needs_review" -> {"needs_review"}
    [] b.outcome = "blocked"      -> IF LaneOf(b) = "local" THEN {"blocked", "needs_review"}
                                                            ELSE {"blocked"}
    [] OTHER -> {"needs_review", "blocked"} \union
                  IF LaneOf(b) = "local" \/ Authorised(b) THEN {VerdictOf(b)} ELSE {}

IngestNew(b) ==
  /\ Unfinished(b)
  /\ \E state \in Rulings(b) : /\ Finish(b, state)
                               /\ MayResolve(b, state)
                               /\ Proceed(b, "extracted", state)
  /\ UNCHANGED <<pc, run, inbox, mine, seen>>

(* A finished receipt whose decision stands, or whose gate still refuses.  *)
IngestAgain(b) ==
  /\ Finished(b)
  /\ LET state == results[EffectiveDecision[b]].state IN Proceed(b, state, state)
  /\ UNCHANGED <<queueVars, resolved, pc, run, inbox, mine, seen>>

Reconsidered(b) ==
  LET e == EffectiveDecision[b]
      t == attempts[b.attempt]
  IN /\ Finished(b)
     /\ results[e].state = "needs_review"
     /\ LaneOf(b) # "local"
     /\ b.outcome \in Reviewable
     /\ work[t].attempt = b.attempt
     /\ work[t].result = e
     /\ work[t].status = "needs_review"
     /\ Authorised(b)
     /\ IdentitiesLeft(b)

Readmit(b) ==
  /\ Reconsidered(b)
  /\ \E d \in Fresh(b, b.outcome) : AppendDecision(EffectiveDecision[b], d, VerdictOf(b))
  /\ MayResolve(b, VerdictOf(b))
  /\ Proceed(b, "needs_review", VerdictOf(b))
  /\ UNCHANGED <<pc, run, inbox, mine, seen>>

(* The rows are rolled back and the refusal committed; a failure of the    *)
(* replacement itself is raised again.                                     *)
RowsRefused(b) ==
  /\ \/ Unfinished(b) /\ Rulings(b) \intersect Admitted # {} /\ Finish(b, "needs_review")
     \/ /\ Reconsidered(b)
        /\ \E d \in Fresh(b, "needs_review") :
             AppendDecision(EffectiveDecision[b], d, "needs_review")
  /\ \/ Unwind
     \/ Route(b, "needs_review") /\ UNCHANGED <<pc, run, inbox, mine, seen>>
  /\ UNCHANGED resolved

Ingest ==
  /\ job.step = "ingest"
  /\ LET b == job.bundle IN IngestNew(b) \/ IngestAgain(b) \/ Readmit(b) \/ RowsRefused(b)
  /\ UNCHANGED <<spool, extracting, review, faults>>

(* Mutant: only the lane that resolved the binding is cancelled.           *)
SettleOwnLane ==
  LET b == job.bundle
      x == BindingOf(b)
      t == attempts[b.attempt]
  IN /\ job.step = "settle"
     /\ \/ /\ x \in resolved
           /\ SupersedePending({x}, {LaneOf(b)})
           /\ job' = NoJob
           /\ UNCHANGED deferred
        \/ /\ x \notin resolved
           /\ IF work[t].attempt = b.attempt /\ work[t].status = job.state
              THEN AppendDecision(EffectiveDecision[b], RefusalOf(b), "needs_review")
              ELSE UNCHANGED queueVars
           /\ Route(b, "needs_review")
     /\ UNCHANGED <<spool, extracting, resolved, review, faults, pc, run, inbox, mine, seen>>

(* An admission that left its binding unresolved is refused by a decision  *)
(* of its own; one that resolved it cancels the queued work of the binding.*)
Settle ==
  LET b == job.bundle
      x == BindingOf(b)
      t == attempts[b.attempt]
  IN /\ job.step = "settle"
     /\ \/ /\ x \in resolved
           /\ SupersedePending({x}, Lane)
           /\ job' = NoJob
           /\ UNCHANGED <<deferred, pc, run, inbox, mine, seen>>
        \/ /\ x \notin resolved
           /\ IF work[t].attempt = b.attempt /\ work[t].status = job.state
              THEN AppendDecision(EffectiveDecision[b], RefusalOf(b), "needs_review")
              ELSE UNCHANGED queueVars
           /\ Route(b, "needs_review")
           /\ UNCHANGED <<pc, run, inbox, mine, seen>>
        \/ /\ x \notin resolved
           /\ work[t].attempt = b.attempt /\ work[t].status = job.state
           /\ Delivered(RefusalOf(b))
           /\ Unwind
           /\ UNCHANGED queueVars
     /\ UNCHANGED <<spool, extracting, resolved, review, faults>>

(* escalate(): the next of the later lanes, one insert at a time.          *)
EscalateTo(b, l) ==
  /\ l \in Targets(b)
  /\ \A m \in Targets(b) : LaneRank[l] <= LaneRank[m]
  /\ Register(TaskOf(BindingOf(b), l))

Escalate ==
  LET b == job.bundle
  IN /\ job.step = "escalate"
     /\ \E l \in Targets(b) : /\ EscalateTo(b, l)
                              /\ job' = IF Targets(b) = {l} THEN NoJob ELSE job
     /\ UNCHANGED <<spool, extracting, resolved, review, faults, pc, run, inbox,
                    deferred, mine, seen>>

-----------------------------------------------------------------------------
(* The phases of a run.                                                    *)

(* Mutant: a run starts without replaying the spool.                       *)
StartWithoutReplay(r) ==
  /\ pc = "down"
  /\ WellFormed(r)
  /\ run' = r
  /\ inbox' = {}
  /\ pc' = "replay"
  /\ UNCHANGED <<durable, deferred, mine, seen, job>>

StartRun(r) ==
  /\ pc = "down"
  /\ WellFormed(r)
  /\ run' = r
  /\ inbox' = spool
  /\ pc' = "replay"
  /\ UNCHANGED <<durable, deferred, mine, seen, job>>

Replay(b) ==
  /\ pc = "replay" /\ Idle
  /\ b \in inbox
  /\ inbox' = inbox \ {b}
  /\ IF InScope(b) THEN Receive(b) ELSE UNCHANGED <<queueVars, job>>
  /\ UNCHANGED <<spool, extracting, resolved, review, faults, pc, run, deferred, mine, seen>>

(* Mutants: leases are recovered while the replay still runs; live leases  *)
(* are given back as well.                                                 *)
RecoverBeforeReplay ==
  /\ pc = "replay" /\ Idle
  /\ Recover({t \in Task : run.mode \in {"full", "years"} \/ t.binding \in run.extract})
  /\ pc' = "cancel"
  /\ UNCHANGED <<spool, extracting, resolved, review, faults, run, inbox, deferred,
                 mine, seen, job>>

RecoverLiveLeases ==
  /\ pc = "replay" /\ Idle
  /\ inbox = {}
  /\ work' = [t \in Task |-> IF work[t].status = "running"
                THEN [work[t] EXCEPT !.status = "pending", !.due = FALSE] ELSE work[t]]
  /\ pc' = "cancel"
  /\ UNCHANGED <<attempts, results, spool, extracting, resolved, review, faults, run,
                 inbox, deferred, mine, seen, job>>

(* recover_expired() after a replay by scope, the scoped update otherwise. *)
RecoverLeases ==
  /\ pc = "replay" /\ Idle
  /\ inbox = {}
  /\ Recover({t \in Task : run.mode \in {"full", "years"} \/ t.binding \in run.extract})
  /\ pc' = "cancel"
  /\ UNCHANGED <<spool, extracting, resolved, review, faults, run, inbox, deferred,
                 mine, seen, job>>

CancelResolved ==
  /\ pc = "cancel"
  /\ SupersedePending(run.scope \intersect resolved, Lane)
  /\ pc' = "escalate"
  /\ UNCHANGED <<spool, extracting, resolved, review, faults, run, inbox, deferred,
                 mine, seen, job>>

(* Mutant: the replayed reviews are dropped.                               *)
DropDeferred ==
  /\ pc = "escalate"
  /\ pc' = "drain" /\ deferred' = {}
  /\ UNCHANGED <<queueVars, spool, extracting, resolved, review, faults, run, inbox, mine,
                 seen, job>>

EscalateDeferred ==
  LET due == {b \in deferred : Targets(b) # {}}
  IN /\ pc = "escalate"
     /\ IF due = {}
        THEN pc' = "drain" /\ deferred' = {} /\ UNCHANGED queueVars
        ELSE /\ \E b \in due, l \in Lane : EscalateTo(b, l)
             /\ UNCHANGED <<pc, deferred>>
     /\ UNCHANGED <<spool, extracting, resolved, review, faults, run, inbox, mine, seen, job>>

(* seed(): the first lane of a needed binding, or a row that accounts for  *)
(* a missing artifact.                                                     *)
Seed(x) ==
  /\ pc = "drain" /\ Idle
  /\ x \in Needed
  /\ work[TaskOf(x, FirstLane)].status = "absent"
  /\ Register(TaskOf(x, FirstLane)) \/ RegisterBlocked(TaskOf(x, NoLane))
  /\ UNCHANGED <<spool, extracting, resolved, review, faults, ownerVars>>

(* Mutant: only the task's own lane is looked at.                          *)
DispatchBesideOthers(t, a) ==
  /\ pc = "drain" /\ Idle
  /\ t.lane \in run.lanes
  /\ t.binding \in run.extract
  /\ Claim(t, a)
  /\ mine' = mine \union {a}
  /\ extracting' = extracting \union {a}
  /\ UNCHANGED <<spool, resolved, review, faults, pc, run, inbox, deferred, seen, job>>

(* ready() and claim(): no other lane may be extracting the binding.       *)
Dispatch(t, a) ==
  /\ pc = "drain" /\ Idle
  /\ t.lane \in run.lanes
  /\ t.binding \in run.extract
  /\ \A u \in Task : u.binding = t.binding => work[u].status # "running"
  /\ Claim(t, a)
  /\ mine' = mine \union {a}
  /\ extracting' = extracting \union {a}
  /\ UNCHANGED <<spool, resolved, review, faults, pc, run, inbox, deferred, seen, job>>

(* A finished future: its bundle is received.                              *)
Collect(b) ==
  /\ pc = "drain" /\ Idle
  /\ b \in spool /\ b.attempt \in mine
  /\ mine' = mine \ {b.attempt}
  /\ IF InScope(b) THEN Receive(b) ELSE UNCHANGED <<queueVars, job>>
  /\ UNCHANGED <<spool, extracting, resolved, review, faults, pc, run, inbox, deferred, seen>>

Returned(a) == \E b \in spool : b.attempt = a

(* A future without a bundle raises; its task stays leased.                *)
FutureRaises(a) ==
  /\ pc = "drain" /\ Idle
  /\ a \in mine \ extracting
  /\ ~Returned(a)
  /\ Unwind
  /\ UNCHANGED durable

(* poll_review_inbox(): a changed selector of a registered result.         *)
PollReview(b) ==
  /\ pc = "drain" /\ Idle
  /\ review[b] # <<>>
  /\ Delivered(b)
  /\ <<b, Len(review[b])>> \notin seen
  /\ seen' = seen \union {<<b, Len(review[b])>>}
  /\ IF /\ InScope(b)
        /\ Unfinished(b) \/ results[EffectiveDecision[b]].state \in {"needs_review", "blocked"}
     THEN Receive(b) ELSE UNCHANGED <<queueVars, job>>
  /\ UNCHANGED <<spool, extracting, resolved, review, faults, pc, run, inbox, deferred, mine>>

(* Every needed binding was seeded, unless back-off of the first lane ends *)
(* the run early.                                                          *)
Seeded ==
  \/ \A x \in Needed : \E l \in {FirstLane, NoLane} : work[TaskOf(x, l)].status # "absent"
  \/ \E x \in Needed : work[TaskOf(x, FirstLane)].status = "retry_wait"

CompleteRun ==
  /\ pc = "drain" /\ Idle
  /\ mine = {}
  /\ Seeded
  /\ Down
  /\ UNCHANGED durable

Close ==
  /\ pc = "closing"
  /\ mine \intersect extracting = {}
  /\ Down
  /\ UNCHANGED durable

-----------------------------------------------------------------------------
(* Faults, workers, reviewers and the quarantine script.                   *)

(* An unexpected error anywhere in the run.                                *)
Abort ==
  /\ pc \in {"replay", "cancel", "escalate", "drain"}
  /\ faults < MaxFaults
  /\ faults' = faults + 1
  /\ Unwind
  /\ UNCHANGED <<queueVars, spool, extracting, resolved, review>>

(* Killing the owner ends its threads; local worker processes may survive. *)
Kill ==
  /\ pc \notin {"down", "quarantine"}
  /\ faults < MaxFaults
  /\ faults' = faults + 1
  /\ Down
  /\ \E alive \in SUBSET {a \in extracting : attempts[a].lane = "local"} : extracting' = alive
  /\ UNCHANGED <<queueVars, spool, resolved, review>>

Publish(b) ==
  /\ b.attempt \in extracting
  /\ b.serial = Original
  /\ spool' = spool \union {b}
  /\ extracting' = extracting \ {b.attempt}
  /\ UNCHANGED <<queueVars, resolved, review, faults, ownerVars>>

WorkerFails(a) ==
  /\ a \in extracting
  /\ extracting' = extracting \ {a}
  /\ UNCHANGED <<queueVars, spool, resolved, review, faults, ownerVars>>

(* record_review with a passing verdict, beside the owner: it acknowledges *)
(* the decision that stands when the reviewer looks.                       *)
SignReview(b) ==
  /\ b \in spool /\ b.serial = Original
  /\ b.outcome \in Reviewable
  /\ LaneOf(b) # "local"
  /\ Overruled(b) \notin ToSet(review[b])
  /\ IdentitiesLeft(b)
  /\ review' = [review EXCEPT ![b] = Append(@, Overruled(b))]
  /\ UNCHANGED <<queueVars, spool, extracting, resolved, faults, ownerVars>>

Lapse(t) ==
  /\ TimePasses(t)
  /\ UNCHANGED <<spool, extracting, resolved, review, faults, ownerVars>>

(* quarantine_model_admissions --apply: the decision is published under    *)
(* pipeline/results, then rows and decision are committed together.        *)
QuarantinePublish(b, d) ==
  /\ pc = "down"
  /\ results[b].state = "accepted" /\ LaneOf(b) # "local"
  /\ EffectiveDecision[b] = b
  /\ work[attempts[b.attempt]].result = b
  /\ d \in Fresh(b, "needs_review")
  /\ spool' = spool \union {d}
  /\ pc' = "quarantine"
  /\ job' = [NoJob EXCEPT !.step = "quarantine", !.bundle = d]
  /\ UNCHANGED <<queueVars, extracting, resolved, review, faults, run, inbox, deferred,
                 mine, seen>>

QuarantineCommit ==
  LET d == job.bundle
      x == BindingOf(d)
  IN /\ pc = "quarantine"
     /\ AppendDecision(work[attempts[d.attempt]].result, d, "needs_review")
     /\ resolved' \in {resolved, resolved \ {x}}
     /\ Down
     /\ UNCHANGED <<spool, extracting, review, faults>>

QuarantineFails ==
  /\ pc = "quarantine"
  /\ faults < MaxFaults
  /\ faults' = faults + 1
  /\ Down
  /\ UNCHANGED <<queueVars, spool, extracting, resolved, review>>

-----------------------------------------------------------------------------
(* Specifications.                                                         *)

Init ==
  /\ QueueInit
  /\ spool = {} /\ extracting = {} /\ resolved = {}
  /\ review = [b \in Bundle |-> <<>>]
  /\ faults = 0
  /\ pc = "down" /\ run = NoRun /\ job = NoJob
  /\ inbox = {} /\ deferred = {} /\ mine = {} /\ seen = {}

OwnerStep ==
  \/ Ingest \/ Settle \/ Escalate
  \/ \E b \in Bundle : Replay(b) \/ Collect(b) \/ PollReview(b)
  \/ RecoverLeases \/ CancelResolved \/ EscalateDeferred
  \/ \E x \in Binding : Seed(x)
  \/ \E t \in Task, a \in Attempt : Dispatch(t, a)
  \/ \E a \in Attempt : FutureRaises(a)
  \/ CompleteRun \/ Close

Next ==
  \/ \E r \in Request : StartRun(r)
  \/ OwnerStep
  \/ Abort \/ Kill
  \/ \E b \in Bundle : Publish(b) \/ SignReview(b)
  \/ \E a \in Attempt : WorkerFails(a)
  \/ \E t \in Task : Lapse(t)

Spec == Init /\ [][Next]_vars

Quarantine ==
  \/ \E b, d \in Bundle : QuarantinePublish(b, d)
  \/ QuarantineCommit \/ QuarantineFails

QuarantineSpec == Init /\ [][Next \/ Quarantine]_vars

-----------------------------------------------------------------------------
(* Safety.                                                                 *)

JobTypeOK ==
  /\ job.step \in {"none", "ingest", "settle", "escalate", "quarantine"}
  /\ job.bundle \in Bundle \union {NoBundle}
  /\ job.step # "none" => job.bundle \in Bundle /\ attempts[job.bundle.attempt] # NoTask

TypeOK ==
  /\ QueueTypeOK
  /\ spool \subseteq Bundle /\ extracting \subseteq Attempt /\ resolved \subseteq Binding
  /\ review \in [Bundle -> Seq(Bundle \union {NoBundle})]
  /\ faults \in 0 .. MaxFaults
  /\ pc \in {"down", "replay", "cancel", "escalate", "drain", "closing", "quarantine"}
  /\ run \in Request \union {NoRun}
  /\ inbox \subseteq Bundle /\ deferred \subseteq Bundle /\ mine \subseteq Attempt
  /\ JobTypeOK

Paid(a) == attempts[a] # NoTask /\ attempts[a].lane # "local"

(* One binding is never extracted twice at once: at most one of its tasks  *)
(* is leased, and every live paid request belongs to that lease, across    *)
(* kills, recoveries and escalations (ready, recover_expired).             *)
OneExtractionPerBinding ==
  /\ \A t, u \in Task :
       /\ work[t].status = "running" /\ work[u].status = "running"
       /\ t.binding = u.binding
       => t = u
  /\ \A a \in extracting : Paid(a) => Active(a)

(* Before a run recovers leases or dispatches work it has registered and   *)
(* decided every paid response of its scope that the spool holds.          *)
ImportedBeforeDispatch ==
  pc \in {"cancel", "escalate", "drain"} =>
    \A b \in spool :
      BindingOf(b) \in run.scope /\ Paid(b.attempt) /\ b.attempt \notin mine /\ b # job.bundle => Finished(b)

(* A paid response that reached the spool is never written off as the      *)
(* delivery of an inactive attempt, so its extraction is not bought again. *)
PaidResponsesCount ==
  \A b \in spool :
    b.serial = Original /\ Paid(b.attempt) => results[b].state # "superseded"

(* Every admission of a paid result rests on a passing review of that      *)
(* attempt, and an admission that overrules an appended refusal rests on a *)
(* review signed after it: one review never admits twice.                  *)
AdmissionsWereReviewed ==
  \A d \in Bundle :
    results[d].state \in Admitted /\ Paid(d.attempt) =>
      LET p == results[d].pred
          overruled == IF p # NoBundle /\ results[p].pred # NoBundle THEN p ELSE NoBundle
      IN \E b \in Bundle : /\ b.attempt = d.attempt
                           /\ overruled \in ToSet(review[b])

(* The rows and the verdict agree: a binding counts as resolved only while *)
(* some receipt of it stands admitted.                                     *)
ResolvedByAStandingAdmission ==
  \A x \in resolved : \E b \in Bundle :
    /\ results[b].state \in Admitted
    /\ Successors(b) = {}
    /\ BindingOf(b) = x

(* What was admitted is grounded: in a review that stands, and a binding   *)
(* that counts as resolved in such an admission.                           *)
AdmissionsAreGrounded ==
  TypeOK /\ AdmissionsWereReviewed /\ ResolvedByAStandingAdmission

(* No fresh (pending) task of a resolved binding is ever dispatched.  A    *)
(* task that fell back to retry after its binding was resolved may be.     *)
ResolvedIsNotExtracted ==
  [][\A t \in Task :
       work[t].status = "pending" /\ work'[t].status = "running"
         => t.binding \notin resolved]_vars

(* A completed run leaves no needed binding between two lanes: it is       *)
(* accounted for, and each result in review has its later lanes queued.    *)
NothingForgotten ==
  [][pc = "drain" /\ pc' = "down" /\ faults' = faults =>
       /\ Seeded
       /\ \A x \in Needed, l \in run.lanes :
            work[TaskOf(x, l)].status = "needs_review" =>
              \A m \in Later(l) : work[TaskOf(x, m)].status # "absent"]_vars

(* The pipeline uses the queue only through its operations.                *)
UsesQueue == QueueSpec

-----------------------------------------------------------------------------
(* Liveness.  The crontab starts a run without arguments every night, with *)
(* the lanes it has workers for; a live owner keeps taking steps and a     *)
(* request to a provider ends.                                             *)

Nightly == [mode |-> "full", scope |-> Binding, extract |-> Binding, lanes |-> Lane]

Fairness ==
  /\ SF_vars(StartRun(Nightly))
  /\ WF_vars(OwnerStep)
  /\ \A a \in Attempt : WF_vars(WorkerFails(a) \/ \E b \in Bundle : b.attempt = a /\ Publish(b))

FairSpec == Spec /\ Fairness

(* A response in the spool is eventually decided, whatever was killed.     *)
ResponsesAreDecided ==
  \A b \in Bundle : b \in spool ~> Finished(b)

(* A needed binding whose result went to review is eventually queued in    *)
(* the later lanes, or resolved.                                           *)
ReviewsEscalate ==
  \A x \in Binding, l, m \in Lane :
    LaneRank[l] < LaneRank[m] =>
      (work[TaskOf(x, l)].status = "needs_review"
         ~> x \in resolved \/ work[TaskOf(x, m)].status # "absent")

-----------------------------------------------------------------------------
(* What comments in the code say and these runs refute.                    *)

(* An admission that resolved nothing can be refused by a decision.        *)
UnresolvedAdmissionIsRefused ==
  [][pc # "closing" /\ pc' = "closing" /\ job.step = "settle" => faults' # faults]_vars
=============================================================================
