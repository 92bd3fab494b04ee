----------------------------- MODULE MCSources -----------------------------
(* Small instances of the coordinator restricted to a scope, of the        *)
(* sources beside the House archive, and of what is rebuilt from filed     *)
(* trades and recommended on them.  They share no state in the model: a    *)
(* behaviour moves one of them.                                            *)
EXTENDS MCPipeline, SenateRefresh, Positions, EntryClose, Consensus

CONSTANTS
  oldCo, newCo, goneCo, reused, plain,  \* tickers
  roe, doe,                       \* surnames
  Q, Quinn, Quentin               \* an initial and two middle names

Tickers == <<oldCo, goneCo, reused, newCo, plain>>
Initials == [m \in {Quinn, Quentin} |-> Q]
Undelivered == {Spy, plain}

Purchase(last, middle, ticker, traded, disclosed) ==
  [member |-> [last |-> last, middle |-> middle], ticker |-> ticker, traded |-> traded, disclosed |-> disclosed,
   source |-> "house", buys |-> TRUE, small |-> FALSE, equity |-> TRUE, oversized |-> FALSE]
FirstTrades ==
  {Purchase(roe, Quinn, goneCo, 1, 1), Purchase(doe, NoName, goneCo, 1, 1), Purchase(roe, Quinn, plain, 1, 1),
   Purchase(roe, NoName, reused, 1, 2), Purchase(doe, Q, reused, 1, 2)}
Trades == FirstTrades \cup
  {Purchase(doe, Q, plain, 0, 1), Purchase(roe, Quentin, plain, 1, 2), Purchase(roe, NoName, oldCo, 1, 1),
   Purchase(doe, Q, newCo, 2, 2), Purchase(roe, NoName, oldCo, 2, 3),
   [Purchase(doe, NoName, oldCo, 1, 1) EXCEPT !.source = "senate", !.oversized = TRUE],
   [Purchase(doe, NoName, plain, 1, 2) EXCEPT !.source = "form4"]}

SourcesInit == Init /\ SenateInit /\ PositionsInit /\ MarketInit /\ ConsensusInit

Untouched(part) ==
  /\ part # "scopes" => Init /\ UNCHANGED vars
  /\ part # "senate" => SenateInit /\ (\A r \in Report : page[r].size = 1) /\ UNCHANGED efdVars
  /\ part # "positions" => PositionsInit /\ congress /\ UNCHANGED positionVars
  /\ part # "market" => MarketInit /\ UNCHANGED market
  /\ part # "consensus" => ConsensusInit /\ UNCHANGED consensusVars

SourcesNext ==
  \/ Untouched("scopes") /\ Next
  \/ Untouched("senate") /\ SenateNext
  \/ Untouched("positions") /\ PositionsNext
  \/ Untouched("market") /\ MarketNext
  \/ Untouched("consensus") /\ ConsensusNext

SourcesSpec == SourcesInit /\ [][SourcesNext]_<<vars, efdVars, positionVars, market, consensusVars>>
=============================================================================
