------------------------------ MODULE MCStores ------------------------------
(* Small instances of the stores beside the extraction queue.  They share  *)
(* no state: a behaviour moves one of them, and the others stay as they    *)
(* were set up, so that the states of the stores add up.                   *)
EXTENDS Publication, DecisionLedger, Staging, Prices, Rebuild

Init == PublicationInit /\ LedgerInit /\ StagingInit /\ PriceInit /\ RebuildInit

Untouched(store) ==
  /\ store # "publication" => PublicationInit /\ UNCHANGED publicationVars
  /\ store # "ledger" => LedgerInit /\ UNCHANGED ledgerVars
  /\ store # "staging" => StagingInit /\ UNCHANGED stagingVars
  /\ store # "prices" => PriceInit /\ UNCHANGED priceVars
  /\ store # "rebuild" => RebuildInit /\ UNCHANGED rebuildVars

Next ==
  \/ Untouched("publication") /\ PublicationNext
  \/ Untouched("ledger") /\ LedgerNext
  \/ Untouched("staging") /\ StagingNext
  \/ Untouched("prices") /\ PriceNext
  \/ Untouched("rebuild") /\ RebuildNext

Spec == Init /\ [][Next]_<<publicationVars, ledgerVars, stagingVars, priceVars, rebuildVars>>
=============================================================================
