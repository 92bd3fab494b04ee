----------------------------- MODULE MCOutside -----------------------------
(* Small instances of the extraction queue, of the two evaluations of a    *)
(* portfolio, and of the fetches from the SEC and from Capitol Trades.     *)
(* They share no state in the model: a behaviour moves one of them.        *)
EXTENDS MCWorkQueue, Outside

CONSTANTS
  alpha, beta,                      \* tickers
  roe, doe,                         \* members
  form1, form2, form3, acme, zinc,  \* Form 4 filings and their issuers
  held1, held2, amended2, cusip1, cusip2, cusip3,
  trade1, trade2

(* Of two tickers that rank alike alpha is listed first.                   *)
ListedAt(d, t) == IF t = alpha THEN 1 ELSE 2

(* Days 1 to 3 and 6 to 10 of an evaluation are sessions.                  *)
OpenDay == {1, 2, 3, 6, 7, 8, 10, 13}
Quotes(p1, p2, p3, p6, p7, p8, p10) ==
  (1 :> p1) @@ (2 :> p2) @@ (3 :> p3) @@ (6 :> p6) @@ (7 :> p7) @@ (8 :> p8) @@ (10 :> p10)
SlotPath ==
  {Quotes(3, 3, 3, 3, 3, 3, 3), Quotes(3, 3, 0, 4, 3, 3, 3), Quotes(2, 2, 4, 3, 6, 9, 6),
   Quotes(3, 4, 2, 1, 1, 0, 1), Quotes(3, 3, 3, 0, 3, 3, 0), Quotes(0, 0, 0, 0, 0, 0, 0)}
Signal(d, t, s) == [day |-> d, ticker |-> t, score |-> s]
Signals ==
  {early \cup middle \cup late :
     early \in {{}, {Signal(1, alpha, 2), Signal(1, beta, 2)}, {Signal(1, alpha, 1), Signal(1, alpha, 2)}},
     middle \in {{}, {Signal(3, alpha, 1)}, {Signal(3, beta, 2)}},
     late \in {{Signal(5, beta, 2), Signal(5, alpha, 1)}, {Signal(7, beta, 1)}}}

NyseOpen == {1, 2, 3, 6, 7, 8, 9, 10, 13, 14, 15, 16}
Prices(p2, p3, p6, p7, p8, p9, p10) ==
  (2 :> p2) @@ (3 :> p3) @@ (6 :> p6) @@ (7 :> p7) @@ (8 :> p8) @@ (9 :> p9) @@ (10 :> p10)
Without(prices, days) == [d \in DOMAIN prices \ days |-> prices[d]]
KellyPath ==
  {Prices(2, 2, 2, 2, 2, 2, 2), Prices(2, 4, 6, 8, 8, 4, 2), Prices(4, 2, 1, 0, 0, 0, 1),
   Without(Prices(2, 2, 2, 2, 2, 2, 2), {2, 3}), Without(Prices(2, 2, 3, 3, 3, 3, 4), {6, 7, 8, 9}),
   Without(Prices(2, 2, 3, 3, 3, 3, 4), {6, 7, 8, 9, 10}), Without(Prices(2, 2, 2, 2, 2, 2, 2), {6})}
Pick(d, t) == [day |-> d, ticker |-> t]
Estimate(d, t, who, w, g, l) == [day |-> d, ticker |-> t, member |-> who, win |-> w, gain |-> g, loss |-> l]
Plans ==
  {[picks |-> p, sizing |-> s] :
     p \in {{Pick(1, alpha), Pick(1, beta)}, {Pick(1, alpha), Pick(3, alpha)},
            {Pick(1, alpha), Pick(3, beta), Pick(6, alpha)}},
     s \in {{Estimate(1, alpha, roe, 600, 2, 1), Estimate(1, beta, roe, 900, 3, 1), Estimate(2, alpha, doe, 950, 5, 1)},
            {Estimate(0, alpha, roe, 700, 3, 1), Estimate(1, beta, doe, 800, 2, 1), Estimate(4, alpha, roe, 300, 1, 1)},
            {Estimate(1, alpha, roe, 990, 5, 1), Estimate(2, beta, doe, 990, 5, 1)}}}

Form4s ==
  {[name |-> form1, filed |-> 1, issuer |-> acme, ciks |-> 2, officer |-> TRUE, trades |-> (1 :> "buy")],
   [name |-> form2, filed |-> 1, issuer |-> zinc, ciks |-> 1, officer |-> FALSE, trades |-> (1 :> "buy")],
   [name |-> form3, filed |-> 2, issuer |-> acme, ciks |-> 1, officer |-> TRUE,
    trades |-> (1 :> "sell") @@ (2 :> "buy")]}
Holdings ==
  {[name |-> held1, quarter |-> 0, filed |-> 1, shares |-> (cusip1 :> 10) @@ (cusip2 :> 5)],
   [name |-> held2, quarter |-> 1, filed |-> 1, shares |-> (cusip1 :> 20) @@ (cusip3 :> 5)],
   [name |-> amended2, quarter |-> 1, filed |-> 2, shares |-> (cusip1 :> 15) @@ (cusip3 :> 5)]}

Listable ==
  {[key |-> trade1, hasId |-> TRUE, kept |-> FALSE],
   [key |-> trade2, hasId |-> FALSE, kept |-> TRUE], [key |-> trade2, hasId |-> FALSE, kept |-> FALSE]}

OutsideInit == QueueInit /\ SlotInit /\ KellyInit /\ SecInit /\ CapitolInit

Untouched(part) ==
  /\ part # "queue" => QueueInit /\ UNCHANGED queueVars
  /\ part # "slots" => SlotInit /\ UNCHANGED slotVars
  /\ part # "kelly" => KellyInit /\ UNCHANGED kellyVars
  /\ part # "sec" => SecInit /\ UNCHANGED secVars
  /\ part # "capitol" => CapitolInit /\ UNCHANGED capitolVars

OutsideNext ==
  \/ Untouched("queue") /\ QueueNext
  \/ Untouched("slots") /\ SlotNext
  \/ Untouched("kelly") /\ KellyNext
  \/ Untouched("sec") /\ SecNext
  \/ Untouched("capitol") /\ CapitolNext

OutsideSpec == OutsideInit /\ [][OutsideNext]_<<queueVars, slotVars, kellyVars, secVars, capitolVars>>
=============================================================================
