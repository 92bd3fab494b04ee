------------------------------ MODULE Outside ------------------------------
(* What stands beside the extraction and shares no state with it: the two  *)
(* evaluations of a portfolio, and the sources of filings and of trades    *)
(* that are not read from documents.                                       *)
EXTENDS EqualSlot, KellyTargets, SecFilings, CapitolPages

(* The evaluations of a portfolio keep their books and look at no later    *)
(* price (portfolio/equal_slot.py, portfolio/simulation.py, kelly.py), and *)
(* what is fetched from the SEC and from Capitol Trades is stored once and *)
(* complete (form4.py, form13f.py, capitol_trades.py).                     *)
PortfoliosAndSourcesAreSound == EqualSlotIsSound /\ KellyIsSound /\ SecIsSound /\ CapitolIsSound
=============================================================================
