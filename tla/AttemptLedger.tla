--------------------------- MODULE AttemptLedger ---------------------------
(***************************************************************************)
(* What the extraction queue promises its caller, without tables: every    *)
(* attempt is dispatched for one task and judged at most once, a task has  *)
(* at most one attempt in flight, a task whose attempt was judged is       *)
(* dispatched again only if that judgement re-queued it, and an attempt    *)
(* that was given back to the queue was never judged and never will be.    *)
(***************************************************************************)

CONSTANTS Task, Attempt, NoAttempt

VARIABLES
  phase,    (* idle, queued, inflight or settled, for each task            *)
  holder,   (* the attempt last dispatched for each task                   *)
  drawn,    (* the attempts dispatched so far                              *)
  judged    (* the attempts that have a verdict                            *)

ledgerVars == <<phase, holder, drawn, judged>>

Phases == {"idle", "queued", "inflight", "settled"}

LedgerTypeOK ==
  /\ phase \in [Task -> Phases]
  /\ holder \in [Task -> Attempt \union {NoAttempt}]
  /\ drawn \in SUBSET Attempt
  /\ judged \in SUBSET drawn

LedgerInit ==
  /\ phase = [t \in Task |-> "idle"]
  /\ holder = [t \in Task |-> NoAttempt]
  /\ drawn = {}
  /\ judged = {}

Move(tasks, to) == phase' = [t \in Task |-> IF t \in tasks THEN to ELSE phase[t]]

(* A task becomes known, ready for dispatch or refused from the start.     *)
Enroll(t) ==
  /\ phase[t] = "idle"
  /\ Move({t}, "queued") \/ Move({t}, "settled")
  /\ UNCHANGED <<holder, drawn, judged>>

Dispatch(t, a) ==
  /\ phase[t] = "queued"
  /\ a \notin drawn
  /\ Move({t}, "inflight")
  /\ holder' = [holder EXCEPT ![t] = a]
  /\ drawn' = drawn \union {a}
  /\ UNCHANGED judged

(* Attempts that were never judged are given up.                           *)
GiveBack(tasks) ==
  /\ \A t \in tasks : phase[t] = "inflight" /\ holder[t] \notin judged
  /\ Move(tasks, "queued")
  /\ UNCHANGED <<holder, drawn, judged>>

(* The verdict of the attempt in flight settles its task or re-queues it.  *)
Judge(t) ==
  /\ phase[t] = "inflight"
  /\ holder[t] \notin judged
  /\ judged' = judged \union {holder[t]}
  /\ Move({t}, "queued") \/ Move({t}, "settled")
  /\ UNCHANGED <<holder, drawn>>

(* A later decision on a judged attempt only ever settles its task.        *)
Revise(t) ==
  /\ phase[t] \in {"queued", "settled"}
  /\ holder[t] \in judged
  /\ Move({t}, "settled")
  /\ UNCHANGED <<holder, drawn, judged>>

Cancel(tasks) ==
  /\ \A t \in tasks : phase[t] = "queued"
  /\ Move(tasks, "settled")
  /\ UNCHANGED <<holder, drawn, judged>>

LedgerNext ==
  \/ \E t \in Task : Enroll(t) \/ Judge(t) \/ Revise(t)
  \/ \E t \in Task, a \in Attempt : Dispatch(t, a)
  \/ \E tasks \in SUBSET Task : GiveBack(tasks) \/ Cancel(tasks)

LedgerSpec == LedgerInit /\ [][LedgerNext]_ledgerVars
=============================================================================
