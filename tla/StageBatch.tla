----------------------------- MODULE StageBatch -----------------------------
(***************************************************************************)
(* A batch of vision readings on several threads (stage_batch,             *)
(* scripts/glm_stage.py).  The candidates are numbered in the order of     *)
(* their submission.  Threads share two streaks under a lock and an event  *)
(* that stops the batch; the main thread collects what they return.        *)
(***************************************************************************)
EXTENDS Naturals, FiniteSets, FiniteSetsExt

CONSTANTS
  Candidates,   (* how many documents the batch has                        *)
  Workers,      (* threads of the pool, at most MAX_WORKERS                *)
  Threshold     (* GOOGLE_429_ and GOOGLE_503_CONSECUTIVE_STOP_THRESHOLD   *)

ASSUME BatchAssumption ==
  Candidates \in Nat /\ Workers \in Nat \ {0, 1} /\ Threshold \in Nat \ {0}

VARIABLES
  task,        (* the future of each candidate                             *)
  stop,        (* the event that stops the batch                           *)
  rateStreak, busyStreak,
  tally,       (* the counters of the main thread                          *)
  written,     (* history: the records published, by outcome               *)
  settled      (* history: streak decisions, by outcome                    *)

batchVars == <<task, stop, rateStreak, busyStreak, tally, written, settled>>
streaks == <<rateStreak, busyStreak>>

Candidate == 1 .. Candidates
Outcome == {"ok", "rate", "busy", "defect", "quota", "fatal"}
Stopping == {"quota", "fatal", "dead", "saturated"}
Answer == Stopping \union {"staged", "error", "skipped"}
Phase == {"queued", "reading", "read", "publishing", "stopping", "returned",
          "collected", "cancelled"}

BatchTypeOK ==
  /\ task \in [Candidate -> [at : Phase, of : Outcome \union Answer \union {"none"}]]
  /\ stop \in BOOLEAN
  /\ rateStreak \in 0 .. Threshold /\ busyStreak \in 0 .. Threshold
  /\ tally \in [processed : 0 .. Candidates, staged : 0 .. Candidates, errors : 0 .. Candidates,
                remaining : 0 .. Candidates, quota : BOOLEAN, fatal : BOOLEAN, over : BOOLEAN]
  /\ written \in [Outcome -> 0 .. Candidates]
  /\ settled \in [Outcome -> 0 .. Candidates]
  /\ Cardinality({c \in Candidate : task[c].at \in {"reading", "read", "publishing", "stopping"}}) <= Workers

Becomes(c, phase, of) == task' = [task EXCEPT ![c] = [at |-> phase, of |-> of]]
Active == {c \in Candidate : task[c].at \in {"reading", "read", "publishing", "stopping"}}

(* A thread takes the next future; a stopped batch starts no reading.      *)
TakeTask(c) ==
  /\ task[c].at = "queued" /\ Cardinality(Active) < Workers
  /\ \A b \in Candidate : b < c => task[b].at # "queued"
  /\ IF stop THEN Becomes(c, "returned", "skipped") ELSE Becomes(c, "reading", "none")
  /\ UNCHANGED <<stop, streaks, tally, written, settled>>

(* The model answers, after its retries.  A quota and a defect of the      *)
(* configuration are the whole batch's: nothing is written.                *)
ReadDocument(c) ==
  /\ task[c].at = "reading"
  /\ \E o \in Outcome : Becomes(c, IF o \in {"quota", "fatal"} THEN "stopping" ELSE "read", o)
  /\ UNCHANGED <<stop, streaks, tally, written, settled>>

HaltBatch(c) ==
  /\ task[c].at = "stopping"
  /\ stop' = TRUE
  /\ Becomes(c, "returned", task[c].of)
  /\ UNCHANGED <<streaks, tally, written, settled>>

(* The streaks are separate: a success resets both, and whatever is not a  *)
(* 503 resets that of 503.                                                 *)
NewRate(o) == IF o = "ok" THEN 0 ELSE IF o = "rate" THEN rateStreak + 1 ELSE rateStreak
NewBusy(o) == IF o = "busy" THEN busyStreak + 1 ELSE 0

(* Mutant: the batch goes on for one more document.                        *)
DecideLate(c) ==
  /\ task[c].at = "read"
  /\ LET o == task[c].of IN
     IF stop THEN Becomes(c, "returned", "skipped") /\ UNCHANGED <<stop, streaks, settled>>
     ELSE /\ rateStreak' = NewRate(o) /\ busyStreak' = NewBusy(o)
          /\ settled' = [settled EXCEPT ![o] = @ + 1]
          /\ IF o = "rate" /\ rateStreak >= Threshold
             THEN stop' = TRUE /\ Becomes(c, "returned", "dead")
             ELSE IF o = "busy" /\ busyStreak >= Threshold
             THEN stop' = TRUE /\ Becomes(c, "returned", "saturated")
             ELSE stop' = stop /\ Becomes(c, "publishing", o)
  /\ UNCHANGED <<tally, written>>

(* The lock is held from the look at the event to the end of the decision. *)
DecideRecord(c) ==
  /\ task[c].at = "read"
  /\ LET o == task[c].of IN
     IF stop THEN Becomes(c, "returned", "skipped") /\ UNCHANGED <<stop, streaks, settled>>
     ELSE /\ rateStreak' = NewRate(o) /\ busyStreak' = NewBusy(o)
          /\ settled' = [settled EXCEPT ![o] = @ + 1]
          /\ IF o = "rate" /\ rateStreak' >= Threshold
             THEN stop' = TRUE /\ Becomes(c, "returned", "dead")
             ELSE IF o = "busy" /\ busyStreak' >= Threshold
             THEN stop' = TRUE /\ Becomes(c, "returned", "saturated")
             ELSE stop' = stop /\ Becomes(c, "publishing", o)
  /\ UNCHANGED <<tally, written>>

(* Publication is outside of the lock and may fail.                        *)
PublishRecord(c) ==
  /\ task[c].at = "publishing"
  /\ LET o == task[c].of IN
     \/ /\ written' = [written EXCEPT ![o] = @ + 1]
        /\ Becomes(c, "returned", IF o = "ok" THEN "staged" ELSE "error")
     \/ written' = written /\ Becomes(c, "returned", "error")
  /\ UNCHANGED <<stop, streaks, tally, settled>>

(* The main thread counts an answer; one that stops the batch cancels the  *)
(* futures that no thread has taken.                                       *)
Collect(c) ==
  /\ task[c].at = "returned"
  /\ LET a == task[c].of  halts == a \in Stopping IN
     /\ tally' = [tally EXCEPT
          !.processed = @ + 1,
          !.staged = @ + (IF a = "staged" THEN 1 ELSE 0),
          !.errors = @ + (IF a = "error" THEN 1 ELSE 0),
          !.remaining = IF halts THEN Candidates - tally.processed - 1 ELSE @,
          !.quota = @ \/ (halts /\ a # "fatal"),
          !.fatal = @ \/ (halts /\ a = "fatal")]
     /\ task' = [b \in Candidate |->
          IF b = c THEN [at |-> "collected", of |-> "none"]
          ELSE IF halts /\ task[b].at = "queued" THEN [at |-> "cancelled", of |-> "none"]
          ELSE task[b]]
  /\ UNCHANGED <<stop, streaks, written, settled>>

EndBatch ==
  /\ ~tally.over /\ \A c \in Candidate : task[c].at \in {"collected", "cancelled"}
  /\ tally' = [tally EXCEPT
       !.over = TRUE,
       !.remaining = IF tally.quota \/ tally.fatal THEN Max({@, Candidates - tally.processed}) ELSE @]
  /\ UNCHANGED <<task, stop, streaks, written, settled>>

BatchInit ==
  /\ task = [c \in Candidate |-> [at |-> "queued", of |-> "none"]]
  /\ stop = FALSE /\ rateStreak = 0 /\ busyStreak = 0
  /\ tally = [processed |-> 0, staged |-> 0, errors |-> 0, remaining |-> 0,
              quota |-> FALSE, fatal |-> FALSE, over |-> FALSE]
  /\ written = [o \in Outcome |-> 0]
  /\ settled = [o \in Outcome |-> 0]

BatchNext ==
  \/ \E c \in Candidate :
       \/ TakeTask(c) \/ ReadDocument(c) \/ HaltBatch(c) \/ DecideRecord(c)
       \/ PublishRecord(c) \/ Collect(c)
  \/ EndBatch

BatchSpec == BatchInit /\ [][BatchNext]_batchVars

-----------------------------------------------------------------------------
(* An exhausted quota or a saturated endpoint writes fewer error records   *)
(* than the threshold between two successes, however the threads overlap:  *)
(* the rest of the manifest stays unstaged for the next night.             *)
DeadQuotaStaysUnwritten ==
  /\ written["rate"] <= (Threshold - 1) * (settled["ok"] + 1)
  /\ written["busy"] <= (Threshold - 1) * (settled["ok"] + settled["rate"] + settled["defect"] + 1)

(* A batch that was stopped says so, and one that was not has been through *)
(* all of its candidates.                                                  *)
StopIsReported ==
  tally.over =>
    /\ stop <=> tally.quota \/ tally.fatal
    /\ ~stop => tally.staged + tally.errors = Candidates

(* Threads stop together, in time, and say why.                            *)
BatchStops == BatchTypeOK /\ DeadQuotaStaysUnwritten /\ StopIsReported
=============================================================================
