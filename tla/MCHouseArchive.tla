-------------------------- MODULE MCHouseArchive ---------------------------
(* Small instances of HouseArchive: filings and contents are               *)
(* interchangeable; bounds on the results on record keep their             *)
(* combinations few, while a refresh is under way and otherwise.           *)
EXTENDS HouseArchive, FiniteSets, TLC

CONSTANTS MaxRuns, MaxRunsInRefresh

Interchangeable == Permutations(Doc) \union Permutations(Sha)

FewRuns ==
  Cardinality({k \in Doc \X Recipe \X Generation : runs[k[1]][k[2]][k[3]] # NoRun})
    <= IF Idle /\ ~torn THEN MaxRuns ELSE MaxRunsInRefresh
=============================================================================
