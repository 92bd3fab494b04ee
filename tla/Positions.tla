----------------------------- MODULE Positions -----------------------------
(* What one filer holds of one ticker, rebuilt from filed trades: lots of  *)
(* implied shares, relieved by sales first in first out, per account when  *)
(* the filing names one; the tolerance that closes what estimates from     *)
(* dollar bands leave over; and the gate that blocks entries of positions  *)
(* since closed.  A lot's cost is shares times the price paid, and a sale  *)
(* takes cost in proportion, so a lot keeps its price.  Rows come in the   *)
(* order build_positions sorts them, one by one, and number the lots.      *)
EXTENDS Integers, FiniteSetsExt

CONSTANTS Account, NoAccount, Size, Price, TolerancePart, MaxTrades

ASSUME PositionsAssumption ==
  /\ NoAccount \notin Account
  /\ Size \subseteq Nat \ {0} /\ Price \subseteq Nat \ {0}
  /\ TolerancePart \in Nat \ {0} /\ MaxTrades \in Nat

VARIABLES
  lots,        \* the queue of open lots: row of the purchase -> lot, in the order of the rows
  estimates,   \* what was bought and sold by dollar band, per account
  ineligible,  \* accounts whose sizes are not all band estimates
  congress,    \* the rows are filings of Congress
  trades,      \* rows processed
  named,       \* history: what the last row named
  buyDays,     \* history: dates of the purchases
  closedOn     \* history: the date the position was last closed

positionVars == <<lots, estimates, ineligible, congress, trades, named, buyDays, closedOn>>

Owner == Account \union {NoAccount}
Row == 1 .. MaxTrades
NoEstimate == [value |-> 0, sold |-> 0, shares |-> 0]
NoSale == [account |-> NoAccount, shares |-> 0, partial |-> FALSE]

PositionsInit ==
  /\ lots = [row \in {} |-> NoSale] /\ estimates = [a \in Owner |-> NoEstimate] /\ ineligible = {}
  /\ congress \in BOOLEAN
  /\ trades = 0 /\ named = NoSale /\ buyDays = {} /\ closedOn = 0

(* The sum of the first n of the numbers f, and of all.                    *)
SumTo(f, n) ==
  LET sum[k \in 0 .. n] == IF k = 0 THEN 0 ELSE sum[k - 1] + f[k] IN sum[n]
Sum(f) == SumTo(f, MaxTrades)

Shares(queue, rows) == Sum([row \in Row |-> IF row \in rows THEN queue[row].shares ELSE 0])
Of(a, queue) == {row \in DOMAIN queue : queue[row].account = a}
Only(queue, rows) == [row \in rows |-> queue[row]]
Outside(queue, accounts) == {row \in DOMAIN queue : queue[row].account \notin accounts}

-----------------------------------------------------------------------------
(* Rows.  Those that are no equity, below the floor of the form, without a *)
(* size or a price change nothing.                                         *)

Process ==
  /\ trades < MaxTrades
  /\ trades' = trades + 1
  /\ UNCHANGED congress

today == trades + 1

(* Mutant: what was estimated stays when the account is closed.            *)
CloseLotsOnly(b, accounts) ==
  [b EXCEPT !.lots = Only(@, Outside(@, accounts))]

_clear_account(b, accounts) ==
  [lots |-> Only(b.lots, Outside(b.lots, accounts)),
   estimates |-> [a \in Owner |-> IF a \in accounts THEN NoEstimate ELSE b.estimates[a]],
   ineligible |-> b.ineligible \ accounts]

Book == [lots |-> lots, estimates |-> estimates, ineligible |-> ineligible]

PutBook(b) ==
  /\ lots' = b.lots /\ estimates' = b.estimates /\ ineligible' = b.ineligible

(* `band` is false for a size filed exactly and for the floor of an        *)
(* open-ended band.                                                        *)
Buy(account, shares, price, band) ==
  /\ Process
  /\ PutBook([lots |-> [row \in DOMAIN lots \union {today} |->
                IF row = today THEN [shares |-> shares, price |-> price, account |-> account, bought |-> shares]
                ELSE lots[row]],
             estimates |-> IF congress /\ band
               THEN [estimates EXCEPT ![account] = [value |-> @.value + shares * price, sold |-> @.sold,
                                                    shares |-> @.shares + shares]]
               ELSE estimates,
             ineligible |-> IF congress /\ ~band THEN ineligible \union {account} ELSE ineligible])
  /\ buyDays' = buyDays \union {today}
  /\ named' = NoSale
  /\ UNCHANGED closedOn

Held == DOMAIN lots # {}
Closing == closedOn' = IF Held /\ ~Held' THEN today ELSE closedOn

FullSale(account) ==
  /\ Process
  /\ PutBook(_clear_account(Book, IF account = NoAccount THEN Owner ELSE {account}))
  /\ Closing
  /\ named' = NoSale
  /\ UNCHANGED buyDays

Matches(account, lot) == account \in {NoAccount, lot.account}

Relief(account, sold) == [row \in DOMAIN lots |->
  LET earlier == {r \in DOMAIN lots : r < row /\ Matches(account, lots[r])}
  IN IF Matches(account, lots[row])
       THEN Min({lots[row].shares, Max({0, sold - Shares(lots, earlier)})}) ELSE 0]

Relieved(relief, a) == Sum([row \in Row |-> IF row \in Of(a, lots) THEN relief[row] ELSE 0])

Remaining(relief) ==
  [row \in {r \in DOMAIN lots : lots[r].shares > relief[r]} |-> [lots[row] EXCEPT !.shares = @ - relief[row]]]

(* The sale enters the estimates of the accounts it relieved, unless its   *)
(* own size is no estimate; accounts it emptied are cleared.               *)
Estimated(relief, price, band) ==
  LET touched == {a \in Owner : Relieved(relief, a) > 0}
      left == Remaining(relief)
      emptied == {a \in touched : Of(a, left) = {}}
      known(a) == band /\ a \in touched /\ estimates[a] # NoEstimate
  IN IF congress
       THEN _clear_account(
              [lots |-> left,
               estimates |-> [a \in Owner |-> IF known(a)
                 THEN [estimates[a] EXCEPT !.sold = @ + price * Relieved(relief, a)] ELSE estimates[a]],
               ineligible |-> IF band THEN ineligible ELSE ineligible \union touched], emptied)
       ELSE [Book EXCEPT !.lots = left]

(* Mutant: what is left over is not looked at.                             *)
IsDustBySold(b, a) ==
  LET e == b.estimates[a]
  IN /\ e.value > 0 /\ a \notin b.ineligible
     /\ e.sold * TolerancePart >= e.value * (TolerancePart - 1)

IsDust(b, a) ==
  LET e == b.estimates[a]
  IN /\ e.value > 0 /\ a \notin b.ineligible
     /\ e.sold * TolerancePart >= e.value * (TolerancePart - 1)
     /\ Shares(b.lots, Of(a, b.lots)) * TolerancePart <= e.shares

Swept(b) == _clear_account(b, {a \in Owner : IsDust(b, a)})

Sell(account, shares, price, band, partial) ==
  LET b == Estimated(Relief(account, shares), price, band)
      kept == IF partial THEN b ELSE Swept(b)
  IN /\ Process
     /\ PutBook(IF DOMAIN kept.lots = {} THEN _clear_account(kept, Owner) ELSE kept)
     /\ Closing
     /\ named' = [account |-> account, shares |-> shares, partial |-> partial]
     /\ UNCHANGED buyDays

PositionsNext ==
  \E account \in Owner :
    \/ FullSale(account)
    \/ \E shares \in Size, price \in Price, band \in BOOLEAN :
         \/ Buy(account, shares, price, band)
         \/ \E partial \in BOOLEAN : Sell(account, shares, price, band, partial)

PositionsSpec == PositionsInit /\ [][PositionsNext]_positionVars

-----------------------------------------------------------------------------
(* What is made of the position. *)

FirstBuy == Min(DOMAIN lots)

(* gate_closed_events: an entry dated `day` is blocked.                    *)
Stale(day) == Held => day < FirstBuy

-----------------------------------------------------------------------------
(* Properties. *)

(* Of one account only the oldest lot can have been sold in part, whatever *)
(* accounts sales named.                                                   *)
OldestFirst == \A first, row \in DOMAIN lots :
  first < row /\ lots[first].account = lots[row].account => lots[row].shares = lots[row].bought

(* An account without lots keeps nothing by which later lots are judged,   *)
(* and the estimate of an eligible account covers all its lots.            *)
EstimatesFitLots == \A a \in Owner :
  /\ estimates[a] # NoEstimate \/ a \in ineligible => Of(a, lots) # {}
  /\ congress /\ a \notin ineligible => Shares(lots, Of(a, lots)) <= estimates[a].shares

(* A purchase made before the position was last closed is blocked; one     *)
(* whose lot is still open passes.                                         *)
ClosedIsBlocked ==
  /\ \A day \in buyDays : day < closedOn => Stale(day)
  /\ \A row \in DOMAIN lots : ~Stale(row)

(* The lots, the estimates beside them and what is decided from them agree *)
(* after any sequence of purchases and sales of any accounts.              *)
PositionsAreSound == OldestFirst /\ EstimatesFitLots /\ ClosedIsBlocked

Fall(a) == Shares(lots, Of(a, lots)) - Shares(lots', Of(a, lots'))

SaleTakesWhatItNames ==
  LET sale == named'
      namedFor(a) == IF Matches(sale.account, [account |-> a]) THEN sale.shares ELSE 0
      dust(a) == IF sale.partial THEN 0 ELSE estimates[a].shares
  IN sale.shares > 0 =>
       /\ \A a \in Owner : Fall(a) * TolerancePart <= namedFor(a) * TolerancePart + dust(a)
       /\ sale.partial => Shares(lots, DOMAIN lots) - Shares(lots', DOMAIN lots') <= sale.shares

(* What a sale takes beyond the shares it names is dust, at most the       *)
(* tolerated part of what the account had bought; a partial sale takes     *)
(* nothing beyond, and only a full sale takes whole accounts.              *)
SalesTakeWhatTheyName == [][SaleTakesWhatItNames]_positionVars
=============================================================================
