----------------------------- MODULE EntryClose -----------------------------
(* The close at which a filed trade is priced: the first one on or after   *)
(* the transaction date, known by the decision day and no more than MaxGap *)
(* days away; and the close at which a position is valued.  Both exist     *)
(* twice in the code: by their definition over the frame of prices, and as *)
(* a memoized search over its dates.  The history grows day by day; a day  *)
(* may have no bar, or a bar without a close.                              *)
EXTENDS Integers, Sequences, FiniteSets, FiniteSetsExt

CONSTANTS ClosePrice, MaxDay, MaxGap

ASSUME EntryCloseAssumption == ClosePrice \subseteq Nat \ {0} /\ MaxDay \in Nat /\ MaxGap \in Nat

VARIABLE market

NoBar == 0 - 1
NaN == 0
None == 0

MarketInit == market = <<>>

Trade(value) == Len(market) < MaxDay /\ market' = Append(market, value)

MarketNext == \E value \in {NoBar, NaN} \union ClosePrice : Trade(value)

MarketSpec == MarketInit /\ [][MarketNext]_market

Day == 1..Len(market)
Priced(days) == {d \in days : market[d] \in ClosePrice}

entry_close(day, asOf) ==
  LET closes == Priced(day..asOf)
  IN IF closes = {} \/ Min(closes) - day > MaxGap THEN None ELSE market[Min(closes)]

_current_close(asOf) ==
  LET closes == Priced(1..asOf) IN IF closes = {} THEN None ELSE market[Max(closes)]

-----------------------------------------------------------------------------
(* The dates of the frame, in their order.                                 *)
Barred(asOf) == {d \in 1..asOf : market[d] # NoBar}
Bars(asOf) ==
  [k \in 1..Cardinality(Barred(asOf)) |->
     CHOOSE d \in Barred(asOf) : Cardinality({e \in Barred(asOf) : e < d}) = k - 1]

searchsorted_left(bars, day) == Cardinality({i \in DOMAIN bars : bars[i] < day})
searchsorted_right(bars, day) == Cardinality({i \in DOMAIN bars : bars[i] <= day})

WithClose(bars, positions) == {k \in positions : market[bars[k]] # NaN}

(* Mutant: the upper bound excludes the last day of the gap.               *)
ShortGap(day, asOf) ==
  LET bars == Bars(asOf)
      found == WithClose(bars, searchsorted_left(bars, day) + 1 .. searchsorted_left(bars, day + MaxGap))
  IN IF found = {} THEN None ELSE market[bars[Min(found)]]

_compute(day, asOf) ==
  LET bars == Bars(asOf)
      found == WithClose(bars, searchsorted_left(bars, day) + 1 .. searchsorted_left(bars, day + MaxGap + 1))
  IN IF found = {} THEN None ELSE market[bars[Min(found)]]

_current_compute(asOf) ==
  LET bars == Bars(asOf)
      found == WithClose(bars, 1..searchsorted_right(bars, asOf))
  IN IF found = {} THEN None ELSE market[bars[Max(found)]]

-----------------------------------------------------------------------------
(* The search returns what the definition returns, for any history and     *)
(* dates; so the memo of EntryCloseLookup can stand for entry_close.       *)
LookupIsExact == \A asOf \in Day :
  /\ _current_compute(asOf) = _current_close(asOf)
  /\ \A day \in Day : _compute(day, asOf) = entry_close(day, asOf)

(* A trade once priced keeps its price on every later decision day: prices *)
(* that come to light afterwards cannot change it.                         *)
PricedStaysPriced == \A day, asOf, later \in Day :
  asOf <= later /\ entry_close(day, asOf) # None => entry_close(day, later) = entry_close(day, asOf)

EntryIsSound == LookupIsExact /\ PricedStaysPriced
=============================================================================
