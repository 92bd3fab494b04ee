---------------------------- MODULE MCAdmissions ----------------------------
(* Small instances of what stands around an admission: the coordinator     *)
(* with the maintenance that withdraws admissions, the reviews a response  *)
(* needs before it is admitted, and the history of the rows of a filing.   *)
(* They share no state in the model: a behaviour moves one of them.        *)
EXTENDS MCPipeline, RowHistory, SourceReview

AdmissionsInit == Init /\ HistoryInit /\ ReviewInit

Frozen(part) ==
  /\ part # "quarantine" => Init /\ UNCHANGED vars
  /\ part # "history" => HistoryInit /\ UNCHANGED historyVars
  /\ part # "review" => reads = <<[p \in Proposal |-> CHOOSE w \in Rowset : TRUE]>> /\ ReviewInit /\ UNCHANGED reviewVars

AdmissionsNext ==
  \/ Frozen("quarantine") /\ (Next \/ Quarantine)
  \/ Frozen("history") /\ HistoryNext
  \/ Frozen("review") /\ ReviewNext

(* No definition tells one attempt, or one content of a row, from another. *)
AdmissionsInterchangeable == Interchangeable \union Permutations(Content)

AdmissionsSpec == AdmissionsInit /\ [][AdmissionsNext]_<<vars, historyVars, reviewVars>>
=============================================================================
