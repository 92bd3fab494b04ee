---------------------------- MODULE SourceReview ----------------------------
(* Source reviews of one paid response.  The response, as extracted or as  *)
(* corrected by a proposal from the source, is normalized to the rows that *)
(* would be stored; a bundle freezes them, verdicts are appended to the    *)
(* history beside the bundle, a selector names the verdict to use, and the *)
(* coordinator admits under the lock that also covers the recording.       *)
EXTENDS Integers, SequencesExt

CONSTANTS
  Proposal, Extracted,   \* sources of rows; the response itself is one
  Rowset,                \* what they are normalized to
  MaxRecipe, MaxVerdicts, MaxDecisions

ASSUME ReviewAssumption ==
  Extracted \in Proposal /\ {MaxRecipe, MaxVerdicts, MaxDecisions} \subseteq Nat \ {0}

VARIABLES
  reads,      \* for every normalization recipe so far, the rows of each proposal
  bundles,    \* prepared bundles: proposal and recipe
  history,    \* bundle -> its verdicts
  selection,  \* the verdict the selector names, and its bundle
  recording,  \* a verdict whose selector is still to be written
  chain       \* decisions on the response: the receipt, then what was appended

reviewVars == <<reads, bundles, history, selection, recording, chain>>

Recipe == Len(reads)
ReviewBundle == [proposal : Proposal, recipe : 1 .. MaxRecipe]
RowsUnder(b) == reads[b.recipe][b.proposal]
Candidate(proposal) == [proposal |-> proposal, recipe |-> Recipe]

Selected == selection.entry # <<>>
Recorded == {b \in bundles : history[b] # <<>>}

Failed(b) == \E i \in DOMAIN history[b] : history[b][i].verdict = "fail"

(* Mutant: only the history of the bundle itself is looked at.             *)
FailedItself(b) == Failed(b)

(* _has_failed_projection: a failure follows the rows to every bundle that *)
(* would store the same.                                                   *)
HasFailedProjection(b) == \E c \in Recorded : Failed(c) /\ RowsUnder(c) = RowsUnder(b)

(* required_review_supersession: the appended refusal or retraction that a *)
(* new review has to acknowledge; 0 if there is none.                      *)
Effective == Last(chain)
RequiredSupersession ==
  IF chain # <<>> /\ Effective.appended /\ Effective.state = "needs_review" THEN Len(chain) ELSE 0

Unlocked == recording = <<>>

-----------------------------------------------------------------------------
(* prepare_review.                                                         *)
Prepare(proposal) ==
  /\ Unlocked /\ Candidate(proposal) \notin bundles
  /\ bundles' = bundles \cup {Candidate(proposal)}
  /\ UNCHANGED <<reads, history, selection, recording, chain>>

(* record_review: the verdict names the decision it acknowledges.  Without *)
(* the database nothing compares that with the current one.                *)
RecordVerdict(proposal, verdict, acknowledged) ==
  LET b == Candidate(proposal)
      entry == [verdict |-> verdict, supersedes |-> acknowledged, after |-> Len(chain)]
  IN  /\ Unlocked /\ b \in bundles
      /\ verdict = "pass" => ~HasFailedProjection(b)
      /\ FoldSet(LAMBDA c, n : n + Len(history[c]), 0, Recorded) < MaxVerdicts
      /\ history' = [history EXCEPT ![b] = Append(@, entry)]
      /\ recording' = IF verdict = "pass" THEN <<[bundle |-> b, entry |-> <<entry>>]>> ELSE <<>>
      /\ UNCHANGED <<reads, bundles, selection, chain>>

WriteSelector ==
  /\ ~Unlocked
  /\ selection' = recording[1] /\ recording' = <<>>
  /\ UNCHANGED <<reads, bundles, history, chain>>

(* The reviewer's process dies between the two files.                      *)
KillReviewer ==
  /\ ~Unlocked
  /\ recording' = <<>>
  /\ UNCHANGED <<reads, bundles, history, selection, chain>>

(* A release that normalizes differently.                                  *)
NewRecipe(normalized) ==
  /\ Unlocked /\ Recipe < MaxRecipe
  /\ reads' = Append(reads, normalized)
  /\ UNCHANGED <<bundles, history, selection, recording, chain>>

-----------------------------------------------------------------------------
(* review_decision_locked.                                                 *)
Chosen == IF Selected THEN selection.bundle ELSE Candidate(Extracted)

(* Verdicts are compared by what they say.                                 *)
Same(e, f) == e.verdict = f.verdict /\ e.supersedes = f.supersedes

Allowed ==
  /\ Chosen.recipe = Recipe /\ Chosen \in Recorded
  /\ ~Failed(Chosen) /\ Last(history[Chosen]).verdict = "pass"
  /\ Selected => Same(selection.entry[1], Last(history[Chosen]))
  /\ ~HasFailedProjection(Chosen)

(* assert_review_supersession, before and inside the transaction.          *)
Authorized == Allowed /\ Last(history[Chosen]).supersedes = RequiredSupersession

Decide(state, appended) ==
  /\ Len(chain) < MaxDecisions
  /\ chain' = Append(chain, [state |-> state, appended |-> appended])
  /\ UNCHANGED <<reads, bundles, history, selection, recording>>

(* _ingest_registered, for a response that has no decision yet: corrected  *)
(* rows are never the first one.  Storing may fail and is then refused.    *)
IngestResponse ==
  /\ Unlocked /\ chain = <<>>
  /\ \/ Authorized /\ Chosen.proposal = Extracted /\ Decide("accepted", FALSE)
     \/ Decide("needs_review", FALSE)

ReadmitResponse ==
  /\ Unlocked /\ chain # <<>> /\ Effective.state = "needs_review"
  /\ Authorized
  /\ Decide("accepted", TRUE) \/ Decide("needs_review", TRUE)

(* The maintenance that withdraws admissions, or the coordinator, when the *)
(* filing is still unresolved.                                             *)
Retract ==
  /\ Unlocked /\ chain # <<>> /\ Effective.state = "accepted"
  /\ Decide("needs_review", TRUE)

ReviewInit ==
  /\ \E normalized \in [Proposal -> Rowset] : reads = <<normalized>>
  /\ bundles = {} /\ history = [b \in ReviewBundle |-> <<>>]
  /\ selection = [bundle |-> [proposal |-> Extracted, recipe |-> 1], entry |-> <<>>]
  /\ recording = <<>> /\ chain = <<>>

ReviewNext ==
  \/ \E p \in Proposal : \/ Prepare(p)
                         \/ \E v \in {"pass", "fail"}, a \in 0 .. Len(chain) : RecordVerdict(p, v, a)
  \/ WriteSelector \/ KillReviewer
  \/ \E normalized \in [Proposal -> Rowset] : NewRecipe(normalized)
  \/ IngestResponse \/ ReadmitResponse \/ Retract

ReviewSpec == ReviewInit /\ [][ReviewNext]_reviewVars

-----------------------------------------------------------------------------
Admits == chain' # chain /\ Last(chain').state = "accepted"
Withdrawn == {i \in DOMAIN chain : chain[i].appended /\ chain[i].state = "needs_review"}

(* An admission stores rows that nobody refused under any bundle, as they  *)
(* are normalized now, on a review recorded after the last refusal or      *)
(* retraction: neither an earlier pass, nor a new recipe or a proposal     *)
(* with the same rows, nor a selector left by a crash gets around either.  *)
AdmissionsRestOnReviews ==
  [][Admits =>
       /\ Chosen.recipe = Recipe
       /\ \A b \in bundles : Failed(b) => RowsUnder(b) # RowsUnder(Chosen)
       /\ \A i \in Withdrawn : \E j \in DOMAIN history[Chosen] :
            history[Chosen][j].verdict = "pass" /\ history[Chosen][j].after >= i]_reviewVars
=============================================================================
