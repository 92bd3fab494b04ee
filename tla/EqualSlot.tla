----------------------------- MODULE EqualSlot -----------------------------
(* The equal-slot evaluation behind `analyzer portfolio`: one cash         *)
(* account, whole shares, at most max_positions positions, entries at the  *)
(* session after a signal and exits at the last session of the holding     *)
(* period, a liquidation value for every calendar day, and the metrics     *)
(* that may be shown at the end.  Prices and slippage are whole numbers    *)
(* (Unit is a hundred percent), so that the accounting is exact; the       *)
(* statistics computed from the curve and the SPY benchmark are left out.  *)
EXTENDS Integers, FiniteSets, FiniteSetsExt, Functions

CONSTANTS
  Slotted,        \* tickers
  QuotePath,      \* the prices a ticker may have: [quoted session -> Nat], 0 for none that is usable
  TradingDay,     \* the days the exchange is open
  WindowEnd,      \* the days an evaluation may end at
  SignalPlan,     \* what may be recommended: sets of [day, ticker, score]
  SlotCount,      \* the values of max_positions
  RowOf(_, _),    \* where a day's recommendation of a ticker stands when the day's rows are sorted
  Capital, Unit, EntrySlippage, ExitSlippage,
  HOLD_PERIOD, REBALANCE_FREQ

ASSUME EqualSlotAssumption ==
  /\ TradingDay \subseteq Nat /\ SlotCount \subseteq Nat \ {0}
  /\ WindowEnd \subseteq Nat \ {0} /\ WindowEnd # {} /\ IsFiniteSet(WindowEnd)
  /\ \A d \in WindowEnd : \E s \in TradingDay : s > d
  /\ \A path \in QuotePath : \A s \in DOMAIN path : path[s] \in Nat
  /\ \A plan \in SignalPlan :
       /\ IsFiniteSet(plan) /\ plan \subseteq [day : Nat, ticker : Slotted, score : Int]
       /\ \A r, s \in plan :
            /\ RowOf(r.day, r.ticker) \in Nat
            /\ r.day = s.day /\ RowOf(r.day, r.ticker) = RowOf(s.day, s.ticker) => r.ticker = s.ticker
  /\ Capital \in Nat \ {0} /\ HOLD_PERIOD \in Nat \ {0} /\ REBALANCE_FREQ \in Nat \ {0}
  /\ Unit \in Nat /\ EntrySlippage \in 0 .. Unit - 1 /\ ExitSlippage \in 0 .. Unit - 1

VARIABLES
  task,     \* the inputs of the run: quotes, recommendations, slots and last day
  clock,    \* the day being evaluated and the step of the day
  book,     \* cash, positions, pending entries, closed positions, rejected orders
  curve,    \* daily snapshots, and the days that could not be valued
  metrics,  \* what compute_metrics returned
  longer    \* history: the curve of the same evaluation over a longer window

slotVars == <<task, clock, book, curve, metrics, longer>>
FirstDay == 1
Unset == [status |-> "none"]
EmptyBook ==
  [cash |-> Capital, positions |-> {}, pending |-> {}, closed |-> {}, rejected |-> {}, scheduled |-> {}]
EmptyCurve == [snapshots |-> {}, gaps |-> {}]

SlotInit ==
  /\ task = Unset /\ clock = [day |-> FirstDay, step |-> "idle"] /\ book = EmptyBook
  /\ curve = EmptyCurve /\ metrics = Unset /\ longer = Unset

NextSession(day) == Min({s \in TradingDay : s > day})
PreviousSession(day) == Max({s \in TradingDay : s <= day})
(* Quotes are loaded up to the end of the window.                          *)
Quote(ticker, session) ==
  IF session \in DOMAIN task.quotes[ticker] /\ session <= task.end THEN task.quotes[ticker][session] ELSE 0

Start(quotes, recommendations, slots, end) ==
  /\ task' = [status |-> "set", quotes |-> quotes, signals |-> recommendations, slots |-> slots, end |-> end]
  /\ clock' = [day |-> FirstDay, step |-> "exit"]
  /\ book' = EmptyBook /\ curve' = EmptyCurve /\ metrics' = Unset

(* Exits: the planned session is fixed at entry, and only its own quote    *)
(* executes it.                                                            *)
ExpectedExit(p) == PreviousSession(p.entered + HOLD_PERIOD)
ExitQuote(p) == Quote(p.ticker, ExpectedExit(p))
Expired == {p \in book.positions : clock.day >= ExpectedExit(p) /\ ExitQuote(p) > 0}
Liquidation(shares, price) == shares * price * (Unit - ExitSlippage)
Closed(p) == [position |-> p, exited |-> ExpectedExit(p), proceeds |-> Liquidation(p.shares, ExitQuote(p))]
ExitExpired ==
  /\ clock.step = "exit"
  /\ clock' = [clock EXCEPT !.step = "enter"]
  /\ book' = [book EXCEPT !.cash = @ + SumFunction([p \in Expired |-> Closed(p).proceeds]),
                          !.positions = @ \ Expired, !.closed = @ \cup {Closed(p) : p \in Expired}]
  /\ UNCHANGED <<task, curve, metrics, longer>>

(* Marks: the quote of the last session, and no older one.                 *)
(* Mutant: a position is marked at the next close.                         *)
MarkAhead(p) == Quote(p.ticker, NextSession(clock.day))

Mark(p) == Quote(p.ticker, PreviousSession(clock.day))

AllMarked == \A p \in book.positions : Mark(p) > 0
Exposure == SumFunction([p \in book.positions |-> Liquidation(p.shares, Mark(p))])
Spent == SumFunction([p \in book.positions |-> p.cost])
Realized == SumFunction([c \in book.closed |-> c.proceeds - c.position.cost])

(* Entries: a slot's share of the liquidation value, limited by the cash,  *)
(* in whole shares.                                                        *)
Due == {o \in book.pending : o.execution <= clock.day}
EntryPrice(o) == Quote(o.ticker, o.execution) * (Unit + EntrySlippage)
(* Mutant: a whole slot is spent whatever cash is left.                    *)
SharesOfTheSlot(o) == ((book.cash + Exposure) \div task.slots) \div EntryPrice(o)

Shares(o) == Min({(book.cash + Exposure) \div task.slots, book.cash}) \div EntryPrice(o)

(* Orders of one score are taken as they were scheduled; the rows of a day *)
(* are sorted alike whenever the same frame is evaluated.                  *)
Before(o, p) ==
  \/ o.score > p.score
  \/ o.score = p.score /\ o.signalled < p.signalled
  \/ o.score = p.score /\ o.signalled = p.signalled /\ RowOf(o.signalled, o.ticker) < RowOf(p.signalled, p.ticker)
Obstacle(o) ==
  CASE Cardinality(book.positions) >= task.slots -> "max_positions"
    [] o.execution # clock.day                   -> "execution_date_mismatch"
    [] ~AllMarked                                -> "portfolio_valuation_unavailable"
    [] Shares(o) = 0                             -> "insufficient_cash"
    [] OTHER                                     -> "none"
Entered(o) ==
  [ticker |-> o.ticker, signalled |-> o.signalled, entered |-> clock.day, shares |-> Shares(o),
   cost |-> Shares(o) * EntryPrice(o)]
Rejection(ticker, reason) == [ticker |-> ticker, day |-> clock.day, reason |-> reason]
ExecutePending(o) ==
  /\ clock.step = "enter" /\ o \in Due /\ (\A p \in Due \ {o} : ~Before(p, o))
  /\ book' = IF Obstacle(o) = "none"
             THEN [book EXCEPT !.cash = @ - Entered(o).cost, !.positions = @ \cup {Entered(o)},
                               !.pending = @ \ {o}]
             ELSE [book EXCEPT !.pending = @ \ {o}, !.rejected = @ \cup {Rejection(o.ticker, Obstacle(o))}]
  /\ UNCHANGED <<task, clock, curve, metrics, longer>>

(* End of the day: on a rebalance day the signals are scheduled, the best  *)
(* row of a ticker standing for all, and the day is valued.                *)
Candidates ==
  {r \in task.signals : /\ (clock.day - FirstDay) % REBALANCE_FREQ = 0 /\ r.day = clock.day
                        /\ \A other \in task.signals :
                             (other.day = r.day /\ other.ticker = r.ticker) => other.score <= r.score}
(* Mutant: a pending entry does not count.                                 *)
Held(ticker) == \E p \in book.positions : p.ticker = ticker

Taken(ticker) == \E p \in book.positions \cup book.pending : p.ticker = ticker

Hindrance(r) ==
  CASE Taken(r.ticker)                                      -> "already_held_or_pending"
    [] \A s \in TradingDay : Quote(r.ticker, s) = 0         -> "no_price_history"
    [] Quote(r.ticker, NextSession(clock.day)) = 0          -> "no_next_tradable_session"
    [] OTHER                                                -> "none"
Order(r) == [ticker |-> r.ticker, signalled |-> clock.day, execution |-> NextSession(clock.day), score |-> r.score]
Snapshot ==
  [day |-> clock.day, cash |-> book.cash, total |-> book.cash + Exposure, held |-> book.positions,
   realized |-> Realized, unrealized |-> Exposure - Spent]
EndDay ==
  /\ clock.step = "enter" /\ Due = {}
  /\ book' = [book EXCEPT !.pending = @ \cup {Order(r) : r \in {c \in Candidates : Hindrance(c) = "none"}},
                          !.rejected = @ \cup {Rejection(r.ticker, Hindrance(r)) :
                                                 r \in {c \in Candidates : Hindrance(c) # "none"}},
                          !.scheduled = @ \cup {<<clock.day, r.ticker>> : r \in Candidates}]
  /\ curve' = IF AllMarked THEN [curve EXCEPT !.snapshots = @ \cup {Snapshot}]
                           ELSE [curve EXCEPT !.gaps = @ \cup {clock.day}]
  /\ clock' = IF clock.day = task.end THEN [clock EXCEPT !.step = "done"]
                                      ELSE [day |-> clock.day + 1, step |-> "exit"]
  /\ UNCHANGED <<task, metrics, longer>>

(* Metrics: none of them while an open position is past its exit or has no *)
(* mark.                                                                   *)
Unresolved == {p \in book.positions : clock.day >= ExpectedExit(p) \/ Mark(p) = 0}
LastSnapshot == CHOOSE s \in curve.snapshots : \A other \in curve.snapshots : other.day <= s.day
ComputeMetrics ==
  /\ clock.step = "done"
  /\ clock' = [clock EXCEPT !.step = "reported"]
  /\ metrics' = IF Unresolved # {} THEN [status |-> "unavailable"]
                ELSE [status |-> IF curve.gaps = {} THEN "complete" ELSE "after_gaps",
                      final |-> LastSnapshot.total, on |-> LastSnapshot.day, open |-> Exposure]
  /\ UNCHANGED <<task, book, curve, longer>>

Evaluate ==
  /\ clock.step = "idle"
  /\ \E quotes \in [Slotted -> QuotePath], signals \in SignalPlan, slots \in SlotCount :
       Start(quotes, signals, slots, Max(WindowEnd))
  /\ UNCHANGED longer
(* The same command with an earlier --end.                                 *)
EvaluateShorter ==
  /\ clock.step = "reported" /\ longer = Unset
  /\ \E end \in WindowEnd : end < task.end /\ Start(task.quotes, task.signals, task.slots, end)
  /\ longer' = curve
Leave ==
  /\ clock.step = "reported"
  /\ task' = Unset /\ clock' = [day |-> FirstDay, step |-> "idle"] /\ book' = EmptyBook
  /\ curve' = EmptyCurve /\ metrics' = Unset /\ longer' = Unset

SlotNext ==
  \/ Evaluate \/ ExitExpired \/ (\E o \in book.pending : ExecutePending(o)) \/ EndDay
  \/ ComputeMetrics \/ EvaluateShorter \/ Leave
SlotSpec == SlotInit /\ [][SlotNext]_slotVars

-----------------------------------------------------------------------------
Positions == book.positions \cup {c.position : c \in book.closed}
(* No step makes or loses money beside the prices: the cash is never       *)
(* negative, and with the cost of what is held it is the capital and what  *)
(* the closed positions realized.                                          *)
BooksBalance ==
  /\ book.cash >= 0
  /\ book.cash + Spent = Capital + Realized
  /\ \A s \in curve.snapshots : s.total = Capital + s.realized + s.unrealized
(* Over many days of overlapping periods, a ticker takes one slot, held or *)
(* pending, and the slots are never more than configured.                  *)
SlotsAreDistinct ==
  /\ book.positions # {} => Cardinality(book.positions) <= task.slots
  /\ \A p, q \in book.positions \cup book.pending : p.ticker = q.ticker => p = q
(* An order that was scheduled is pending, filled once or rejected once.   *)
EveryOrderIsAnswered ==
  Cardinality(book.scheduled) = Cardinality(book.pending) + Cardinality(book.rejected) + Cardinality(Positions)
(* Fills happen at a quote of the very session they were planned for: the  *)
(* next one after the signal, the last one within the holding period.      *)
FillsAreExact ==
  /\ \A p \in Positions : /\ p.entered = NextSession(p.signalled)
                          /\ p.cost = p.shares * Quote(p.ticker, p.entered) * (Unit + EntrySlippage)
                          /\ p.shares > 0 /\ p.cost > 0
  /\ \A c \in book.closed : c.exited \in c.position.entered .. c.position.entered + HOLD_PERIOD /\ c.proceeds > 0
(* A position held over its planned exit is one whose exit session has no  *)
(* quote; unless it was entered that very day (a holding period shorter    *)
(* than a weekend).                                                        *)
ExitsAreTimely ==
  \A p \in book.positions :
    (clock.step # "exit" /\ p.entered < clock.day /\ ExpectedExit(p) <= clock.day) => ExitQuote(p) = 0
(* Each day of the window is either valued or counted as a gap.            *)
DaysAreAccounted ==
  LET valued == {s.day : s \in curve.snapshots}
      past == FirstDay .. (IF clock.step \in {"done", "reported"} THEN clock.day ELSE clock.day - 1)
  IN  valued \cup curve.gaps = past /\ valued \cap curve.gaps = {}
(* What is shown is the value of the last day, whatever days could not be  *)
(* valued before, and no position in it outlived its holding period.       *)
MetricsAreOfTheEnd ==
  metrics.status \in {"complete", "after_gaps"} =>
    /\ metrics.on = task.end /\ metrics.final = book.cash + metrics.open
    /\ \A p \in book.positions : ExpectedExit(p) > task.end
(* Nothing in a day's value comes from a later quote: an evaluation that   *)
(* ends earlier has the same days.                                         *)
ShorterIsAPrefix ==
  longer # Unset =>
    /\ curve.snapshots = {s \in longer.snapshots : s.day < clock.day \/ s \in curve.snapshots}
    /\ curve.gaps = {d \in longer.gaps : d < clock.day \/ d \in curve.gaps}

(* The equal-slot simulator keeps its books, its calendar and its metrics  *)
(* (portfolio/equal_slot.py).                                              *)
SlotsKeepBooks ==
  clock.step # "idle" =>
    /\ BooksBalance /\ SlotsAreDistinct /\ EveryOrderIsAnswered /\ FillsAreExact /\ ExitsAreTimely
    /\ DaysAreAccounted /\ MetricsAreOfTheEnd
(* And its curve looks at no later quote.                                  *)
EqualSlotIsSound == SlotsKeepBooks /\ ShorterIsAPrefix
=============================================================================
