--------------------------- MODULE KellyTargets ----------------------------
(* The research evaluation of weighted targets: Kelly fractions from dated *)
(* estimates, capped per ticker, per member and in total, and their        *)
(* execution against one cash account in fractional shares: all or skip,   *)
(* entries and exits that may wait for a quote, marks that may be stale,   *)
(* zero as a total loss.  Weights are thousandths and money whole units,   *)
(* both rounded down.  Slippage and the statistics of the curve are left   *)
(* out.                                                                    *)
EXTENDS Integers, FiniteSets, FiniteSetsExt, Functions

CONSTANTS
  Sizable,          \* tickers
  PricePath,        \* the prices a ticker may have: [observed day -> Nat], days without a price left out
  NyseDay,          \* the days the exchange is open
  PlaceOf(_, _),    \* where a day's target of a ticker stands when the targets are sorted
  SizingPlan,       \* inputs: the recommended <<day, ticker>> and the dated estimates
  Bank, ThousandUnits,
  MAX_TICKER, MAX_MEMBER, TOTAL_EXPOSURE, KELLY_FLOOR,
  HORIZON_DAYS, MAX_DELAY, MAX_STALENESS

ASSUME KellyAssumption ==
  /\ NyseDay \subseteq Nat /\ IsFiniteSet(Sizable) /\ Bank \in Nat \ {0} /\ ThousandUnits \in Nat \ {0}
  /\ \A path \in PricePath : /\ IsFiniteSet(DOMAIN path) /\ DOMAIN path \subseteq Nat
                             /\ \A d \in DOMAIN path : path[d] \in Nat
  /\ \A plan \in SizingPlan :
       /\ IsFiniteSet(plan.picks) /\ IsFiniteSet(plan.sizing)
       /\ plan.picks \subseteq [day : Nat, ticker : Sizable]
       /\ \A p \in plan.picks : \E s \in NyseDay : s > p.day
       /\ \A p, q \in plan.picks :
            /\ PlaceOf(p.day, p.ticker) \in Nat
            /\ p.day = q.day /\ PlaceOf(p.day, p.ticker) = PlaceOf(q.day, q.ticker) => p.ticker = q.ticker
       /\ \A e \in plan.sizing : /\ e.day \in Nat /\ e.ticker \in Sizable /\ e.win \in 1 .. ThousandUnits - 1
                                 /\ e.gain \in Nat \ {0} /\ e.loss \in Nat \ {0}
  /\ {MAX_TICKER, MAX_MEMBER, TOTAL_EXPOSURE} \subseteq 1 .. ThousandUnits
  /\ KELLY_FLOOR \in Nat /\ HORIZON_DAYS \in Nat \ {0} /\ MAX_DELAY \in Nat /\ MAX_STALENESS \in Nat

VARIABLES
  research,  \* the inputs: prices, targets, and the days with a price
  day,       \* the price date being simulated, and the step of the day
  account,   \* cash, positions, closed positions, the answer to every target
  rows,      \* the equity curve
  whole      \* history: the curve over the whole price frame

kellyVars == <<research, day, account, rows, whole>>
NoInputs == [status |-> "none"]
NewAccount == [cash |-> Bank, open |-> {}, closed |-> {}, answers |-> {}]
KellyInit ==
  /\ research = NoInputs /\ day = [at |-> 0, step |-> "idle"] /\ account = NewAccount
  /\ rows = {} /\ whole = NoInputs

-----------------------------------------------------------------------------
(* Sizing.                                                                 *)

(* The estimate of a ticker is the latest one dated at or before the       *)
(* decision; without one the builder abstains.                             *)
(* Mutant: whatever its date.                                              *)
EstimateOfAnyDay(sizing, at, ticker) == {e \in sizing : e.ticker = ticker}

EstimateFor(sizing, at, ticker) == {e \in sizing : e.day <= at /\ e.ticker = ticker}

Latest(estimates) == CHOOSE e \in estimates : \A other \in estimates : other.day <= e.day
(* Half of (p b - q) / b, with b the average win over the average loss.    *)
HalfKelly(e) ==
  Max({0, ((e.win * e.gain - (ThousandUnits - e.win) * e.loss) \div e.gain) \div 2})
Estimated(plan, at) ==
  {[day |-> at, ticker |-> e.ticker, member |-> e.member, weight |-> HalfKelly(e)] :
     e \in {Latest(EstimateFor(plan.sizing, at, r.ticker)) :
              r \in {p \in plan.picks : p.day = at /\ EstimateFor(plan.sizing, at, p.ticker) # {}}}}
TotalWeight(targets) == SumFunction([t \in targets |-> t.weight])
ScaledTo(weight, cap, total) == IF total > cap THEN (weight * cap) \div total ELSE weight
(* Mutant: freed exposure is given to the others.                          *)
Normalized(weight, cap, total) == (weight * cap) \div total

Scaled(weight, cap, total) == ScaledTo(weight, cap, total)

CappedBy(group, cap) ==
  {[t EXCEPT !.weight = Scaled(@, cap, TotalWeight({o \in DOMAIN group : group[o] = group[t]}))] : t \in DOMAIN group}
ByTicker(targets) == [t \in targets |-> t.ticker]
ByMember(targets) == [t \in targets |-> t.member]
Together(targets) == [t \in targets |-> TRUE]
Above(targets) == {t \in targets : t.weight > KELLY_FLOOR}
Portfolio(plan, at) ==
  LET perTicker == CappedBy(ByTicker(Above(Estimated(plan, at))), MAX_TICKER)
      perMember == CappedBy(ByMember(perTicker), MAX_MEMBER)
  IN  CappedBy(Together(perMember), TOTAL_EXPOSURE)
WeightedTargets(plan) == {t \in UNION {Portfolio(plan, p.day) : p \in plan.picks} : t.weight > 0}

-----------------------------------------------------------------------------
(* Execution.                                                              *)
PriceAt(ticker, at) == research.prices[ticker][at]
SessionAfter(at) == Min({s \in NyseDay : s > at})
SessionBy(at) == Max({s \in NyseDay : s <= at})
(* The first positive price from the next session on, if it is not too     *)
(* late: the targets by execution day.                                     *)
Eligible(t, prices, until) ==
  {d \in DOMAIN prices[t.ticker] : d \in SessionAfter(t.day) .. until /\ prices[t.ticker][d] > 0}
Schedule(targets, prices, until) ==
  {[target |-> t, on |-> Min(Eligible(t, prices, until))] :
     t \in {u \in targets : /\ Eligible(u, prices, until) # {}
                            /\ Min(Eligible(u, prices, until)) - u.day <= MAX_DELAY}}
LastEntry(schedule, start) == IF schedule = {} THEN start ELSE Max({e.on : e \in schedule})
AllDates(prices) == UNION {DOMAIN prices[t] : t \in Sizable}
EventDates(schedule, start, prices, until) ==
  {d \in AllDates(prices) :
     d <= until /\ d \in start .. LastEntry(schedule, start) + HORIZON_DAYS + MAX_DELAY}

Prepared(plan, targets, prices, until) ==
  LET start == Min({t.day : t \in targets})
      schedule == Schedule(targets, prices, until)
  IN  [status |-> "set", plan |-> plan, targets |-> targets, prices |-> prices, until |-> until,
       schedule |-> schedule, lastEntry |-> LastEntry(schedule, start),
       dates |-> EventDates(schedule, start, prices, until)]
Simulate(plan, prices) ==
  /\ day.step = "idle" /\ WeightedTargets(plan) # {} /\ AllDates(prices) # {}
  /\ research' = Prepared(plan, WeightedTargets(plan), prices, Max(AllDates(prices)))
  /\ day' = [at |-> 0, step |-> "next"]
  /\ UNCHANGED <<account, rows, whole>>

(* The next price date, until the horizon of the last entry has passed or  *)
(* nothing is open any more.                                               *)
Remaining == {d \in research.dates : d > day.at}
CurveEnded == Remaining = {} \/ (rows # {} /\ day.at >= research.lastEntry /\ account.open = {})
NextDate ==
  /\ day.step = "next" /\ ~CurveEnded
  /\ day' = [at |-> Min(Remaining), step |-> "exit"]
  /\ UNCHANGED <<research, account, rows, whole>>
FinishCurve ==
  /\ day.step = "next" /\ CurveEnded
  /\ day' = [day EXCEPT !.step = "done"]
  /\ account' = [account EXCEPT !.answers = @ \cup {<<t, "no_price">> : t \in research.targets \ {e.target : e \in research.schedule}}]
  /\ UNCHANGED <<research, rows, whole>>

Value(p, price) == (p.cost * price) \div p.price
Exits == {p \in account.open : /\ day.at >= p.exitTarget /\ day.at - p.exitTarget <= MAX_DELAY
                               /\ day.at \in DOMAIN research.prices[p.target.ticker]}
ClosedNow(p) == [position |-> p, on |-> day.at, proceeds |-> Value(p, PriceAt(p.target.ticker, day.at))]
ExitDue ==
  /\ day.step = "exit" /\ day' = [day EXCEPT !.step = "enter"]
  /\ account' = [account EXCEPT !.cash = @ + SumFunction([p \in Exits |-> ClosedNow(p).proceeds]),
                                !.open = @ \ Exits, !.closed = @ \cup {ClosedNow(p) : p \in Exits}]
  /\ UNCHANGED <<research, rows, whole>>

(* A mark is the last price there is, if it is recent enough; one position *)
(* without a mark makes the equity unavailable.                            *)
Observed(p) == {d \in DOMAIN research.prices[p.target.ticker] : d <= day.at}
FreshMark(p) == Observed(p) # {} /\ day.at - Max(Observed(p)) <= MAX_STALENESS
MarketValue == SumFunction([p \in account.open |-> Value(p, PriceAt(p.target.ticker, Max(Observed(p))))])
Valued == \A p \in account.open : FreshMark(p)
Requested(t) == ((account.cash + MarketValue) * t.weight) \div ThousandUnits
Waiting ==
  {e.target : e \in {f \in research.schedule : f.on = day.at /\ \A a \in account.answers : a[1] # f.target}}
(* Targets of one weight are taken in the order in which the one frame of  *)
(* targets is sorted, whatever prices they meet.                           *)
First(t, u) ==
  \/ t.day < u.day
  \/ t.day = u.day /\ t.weight > u.weight
  \/ t.day = u.day /\ t.weight = u.weight /\ PlaceOf(t.day, t.ticker) < PlaceOf(u.day, u.ticker)
(* Mutant: what the cash cannot pay is bought on credit.                   *)
AnswerOnCredit(t) ==
  CASE \E p \in account.open : p.target.ticker = t.ticker -> "already_open"
    [] ~Valued                                            -> "no_valuation"
    [] Requested(t) <= 0                                  -> "no_cash"
    [] OTHER                                              -> "executed"

Answer(t) ==
  CASE \E p \in account.open : p.target.ticker = t.ticker      -> "already_open"
    [] ~Valued                                                 -> "no_valuation"
    [] Requested(t) <= 0 \/ Requested(t) > account.cash        -> "no_cash"
    [] OTHER                                                   -> "executed"

Bought(t) == [target |-> t, entered |-> day.at, price |-> PriceAt(t.ticker, day.at), cost |-> Requested(t),
              exitTarget |-> SessionBy(day.at + HORIZON_DAYS)]
FillTarget(t) ==
  /\ day.step = "enter" /\ t \in Waiting /\ (\A u \in Waiting \ {t} : ~First(u, t))
  /\ account' = IF Answer(t) = "executed"
                THEN [account EXCEPT !.cash = @ - Requested(t), !.open = @ \cup {Bought(t)},
                                     !.answers = @ \cup {<<t, "executed">>}]
                ELSE [account EXCEPT !.answers = @ \cup {<<t, Answer(t)>>}]
  /\ UNCHANGED <<research, day, rows, whole>>
RecordRow ==
  /\ day.step = "enter" /\ Waiting = {}
  /\ rows' = rows \cup {[on |-> day.at, cash |-> account.cash, open |-> account.open, complete |-> Valued,
                         equity |-> IF Valued THEN account.cash + MarketValue ELSE -1]}
  /\ day' = [day EXCEPT !.step = "next"]
  /\ UNCHANGED <<research, account, whole>>

(* The same targets on a price frame that ends earlier.                    *)
SimulateUntil ==
  /\ day.step = "done" /\ whole = NoInputs
  /\ \E until \in AllDates(research.prices) :
       until < research.until /\ research' = Prepared(research.plan, research.targets, research.prices, until)
  /\ whole' = [status |-> "set", rows |-> rows]
  /\ day' = [at |-> 0, step |-> "next"] /\ account' = NewAccount /\ rows' = {}
Forget ==
  /\ day.step = "done"
  /\ research' = NoInputs /\ day' = [at |-> 0, step |-> "idle"] /\ account' = NewAccount
  /\ rows' = {} /\ whole' = NoInputs

KellyNext ==
  \/ (\E plan \in SizingPlan, prices \in [Sizable -> PricePath] : Simulate(plan, prices))
  \/ NextDate \/ ExitDue \/ RecordRow \/ FinishCurve \/ SimulateUntil \/ Forget
  \/ (day.step = "enter" /\ \E t \in Waiting : FillTarget(t))
KellySpec == KellyInit /\ [][KellyNext]_kellyVars

-----------------------------------------------------------------------------
CostOf(positions) == SumFunction([p \in positions |-> p.cost])
(* One cash account: it never goes below zero, and with the cost of what   *)
(* is open it is the bank and what was realized.                           *)
AccountBalances ==
  /\ account.cash >= 0
  /\ account.cash + CostOf(account.open) =
       Bank + SumFunction([c \in account.closed |-> c.proceeds - c.position.cost])
(* Caps only ever reduce a fraction: each holds for the targets of a day   *)
(* after the others were applied, and no target exceeds its own estimate.  *)
CapsHold ==
  day = [at |-> 0, step |-> "next"] => \A at \in {t.day : t \in research.targets} :
    LET ofDay == {t \in research.targets : t.day = at}
    IN  /\ TotalWeight(ofDay) <= TOTAL_EXPOSURE
        /\ \A t \in ofDay : /\ t.weight <= MAX_TICKER
                            /\ TotalWeight({u \in ofDay : u.member = t.member}) <= MAX_MEMBER
                            /\ \E e \in research.plan.sizing :
                                 /\ e.ticker = t.ticker /\ e.member = t.member /\ e.day <= at
                                 /\ t.weight <= HalfKelly(e)
(* Every target is executed or skipped, once, by the end of the curve.     *)
TargetsAreAnswered ==
  /\ \A a, b \in account.answers : a[1] = b[1] => a = b
  /\ day.step = "done" => {a[1] : a \in account.answers} = research.targets
  /\ Cardinality({a \in account.answers : a[2] = "executed"}) =
       Cardinality(account.open) + Cardinality(account.closed)
  /\ \A p, q \in account.open : p.target.ticker = q.target.ticker => p = q
(* Waiting is bounded at both ends, and a position that is open when the   *)
(* curve ends had no price while it could have been closed.                *)
WaitsAreBounded ==
  /\ \A p \in account.open \cup {c.position : c \in account.closed} :
       p.entered - p.target.day \in 1 .. MAX_DELAY /\ p.exitTarget - p.entered <= HORIZON_DAYS
  /\ \A c \in account.closed : c.on - c.position.exitTarget \in 0 .. MAX_DELAY
  /\ day.step = "done" =>
       \A p \in account.open :
         {d \in DOMAIN research.prices[p.target.ticker] : d \in p.entered + 1 .. research.until /\ d - p.exitTarget \in 0 .. MAX_DELAY} = {}
(* A day of the curve rests on no later price.                             *)
CurveIsAPrefix ==
  whole # NoInputs => \A r \in rows : r \in whole.rows

(* The weighted-target evaluation respects its caps, its cash and its      *)
(* bounds (portfolio/kelly.py, portfolio/simulation.py).                   *)
TargetsAreKept == day.step # "idle" => AccountBalances /\ CapsHold /\ TargetsAreAnswered /\ WaitsAreBounded
(* And its curve looks at no later price.                                  *)
KellyIsSound == TargetsAreKept /\ CurveIsAPrefix
=============================================================================
