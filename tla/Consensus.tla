----------------------------- MODULE Consensus -----------------------------
(* The consensus recommendation: made live at the end of a day from the    *)
(* disclosures known by then, and replayed later by the backtest, after    *)
(* rows were ingested, retired and released from quarantine and quotes     *)
(* arrived late.                                                           *)
EXTENDS Integers, FiniteSets, Sequences, FiniteSetsExt, SequencesExt

CONSTANTS
  Filing, Standing,   \* trades that may be ingested, as filed; those of the first day
  Old, New,           \* a ticker and what it is called from RenameDay on
  Gone,               \* a company acquired on AcquiredDay
  Listed,             \* a symbol reused by a company listed on ListingDay
  Alphabet,           \* all tickers, in the order of the alphabet
  Spy, RenameDay, AcquiredDay, ListingDay,
  Abbreviation,       \* full middle name -> its initial
  NoName,             \* no middle name, no filed member
  NoDay, NoTicker,
  Patchy,             \* symbols whose quotes may be missing for a while
  Session,            \* days on which the exchange is open
  MaxDecisions,       \* days that end with a recommendation
  LOOKBACK, MIN_BUYERS, TopN, Horizon,
  MaxKnown,           \* rows that are admitted
  MaxUpsets,          \* of them retired or released, or quotes missing
  FirstBacktest, MaxBacktests  \* the day from which backtests run, and how many

Ticker == Range(Alphabet)
Today0 == 1
LastDay == Max(Session)

ASSUME ConsensusAssumption ==
  /\ {Old, New, Gone, Listed} \subseteq Ticker /\ NoTicker \notin Ticker /\ Spy \notin Ticker
  /\ Old # New /\ Gone \notin {Old, New} /\ Listed \notin {Old, New, Gone}
  /\ Len(Alphabet) = Cardinality(Ticker)
  /\ Session \subseteq Nat \ {0} /\ NoDay \notin Nat \ {0}
  /\ {MIN_BUYERS, TopN, Horizon} \subseteq Nat \ {0}
  /\ {LOOKBACK, MaxDecisions, MaxKnown, MaxUpsets, FirstBacktest, MaxBacktests} \subseteq Nat
  /\ Standing \subseteq Filing /\ IsFiniteSet(Filing) /\ Alphabet \in Seq(Ticker)
  /\ {RenameDay, AcquiredDay, ListingDay} \subseteq Nat
  /\ \A f \in Filing : f.ticker \in Ticker \cup {NoTicker}

VARIABLES
  known,       \* filing -> the day its row was admitted
  retired,     \* filing -> the day its row was retired
  released,    \* anomalous Senate reports whose fence a later refresh lifted
  gaps,        \* quotes of past sessions that were not delivered
  date,        \* the day that is running
  recommended, \* what was recommended at the end of each earlier day
  backtests    \* for each run of the backtest, what it observed on each of them
consensusVars == <<known, retired, released, gaps, date, recommended, backtests>>

-----------------------------------------------------------------------------
(* Tickers.                                                                *)

(* TickerResolver.resolve: the symbol to price, and whether the ticker may *)
(* be used; day is NoDay where the caller gives none.                      *)
Resolve(t, day) ==
  [symbol |-> IF t = Old /\ day # NoDay /\ day >= RenameDay THEN New ELSE t,
   status |-> CASE t = Listed /\ day = NoDay -> "date_required"
                [] t = Listed /\ day # NoDay /\ day < ListingDay -> "pre_listing"
                [] t = Gone /\ day = NoDay -> "date_required"
                [] t = Gone /\ day # NoDay /\ day > AcquiredDay -> "acquired"
                [] OTHER -> "usable"]

Tradable(t, day) == Resolve(t, day).status = "usable"

(* _ticker_family_symbols.                                                 *)
TickerFamily(t) == IF t \in {Old, New} THEN {Old, New} ELSE {t}

(* Mutant: the family is resolved under the symbol that was filed.         *)
AsFiled(family, day) ==
  LET seed == CHOOSE t \in family : \A u \in family : u = New \/ t # New
  IN  IF Tradable(seed, day) THEN {seed} ELSE {}

(* resolve_consensus_ticker, of the seed of a family: the old alias of a   *)
(* renamed one.  Empty when it is not tradable at the decision.            *)
TradedAs(family, day) ==
  LET seed == IF Old \in family THEN Old ELSE CHOOSE t \in family : TRUE
  IN  IF Tradable(seed, day) THEN {Resolve(seed, day).symbol} ELSE {}

-----------------------------------------------------------------------------
(* Members.  A name is a surname with a middle name, an initial or neither.*)

MiddlesAgree(m, n) ==
  \/ m = NoName \/ n = NoName \/ m = n
  \/ m \in DOMAIN Abbreviation /\ Abbreviation[m] = n
  \/ n \in DOMAIN Abbreviation /\ Abbreviation[n] = m
SameMember(m, n) == m.last = n.last /\ MiddlesAgree(m.middle, n.middle)

(* member_identity_groups: the spellings of one member; none for a         *)
(* spelling that could be of two different ones.                           *)
Spellings(m, names) == {n \in names : SameMember(m, n)}
Ambiguous(m, names) ==
  \E a, b \in Spellings(m, names) : ~SameMember(a, b)
(* Mutant: a short form joins the full names it could stand for.           *)
Bridged(m, names) == Spellings(m, names)

MemberGroup(m, names) ==
  IF Ambiguous(m, names) THEN {} ELSE {n \in Spellings(m, names) : ~Ambiguous(n, names)}

-----------------------------------------------------------------------------
(* Purchases.                                                              *)

Legacy == {"house", "senate"}

BelowFloor(f) == f.source \in Legacy /\ f.small

(* The day by which a row's ticker is resolved.                            *)
ReferenceDay(f) == IF f.ticker = Listed THEN f.disclosed ELSE f.traded
ResolvedSymbol ==
  [f \in Filing |->
     IF f.equity /\ f.ticker # NoTicker /\ Tradable(f.ticker, ReferenceDay(f))
     THEN Resolve(f.ticker, ReferenceDay(f)).symbol ELSE NoTicker]

(* prepare_consensus_purchases.                                            *)
Purchases(frame) ==
  {f \in frame : /\ f.buys /\ ~BelowFloor(f)
                 /\ f.traded # NoDay /\ f.disclosed # NoDay /\ f.traded <= f.disclosed
                 /\ ResolvedSymbol[f] # NoTicker /\ f.member # NoName}

LegacyPurchases(frame) == {f \in Purchases(frame) : f.source \in Legacy}
Buyers(family, frame) ==
  LET rows == LegacyPurchases(frame)
      names == {f.member : f \in rows}
  IN  {MemberGroup(f.member, names) : f \in {r \in rows : ResolvedSymbol[r] \in family}} \ {{}}

(* get_consensus_candidate_tickers.                                        *)
Candidates(frame, minimum, day) ==
  LET families == {TickerFamily(ResolvedSymbol[f]) : f \in LegacyPurchases(frame)}
  IN  UNION {TradedAs(family, day) :
               family \in {x \in families : Cardinality(Buyers(x, frame)) >= minimum}}

(* score_ticker_by_buyers: who is counted, when there are enough.          *)
Score(t, frame, day) ==
  LET buyers == Buyers(TickerFamily(t), {f \in frame : f.disclosed # NoDay /\ f.disclosed <= day})
  IN  IF Cardinality(buyers) < MIN_BUYERS THEN {} ELSE buyers

Place(t) == CHOOSE i \in DOMAIN Alphabet : Alphabet[i] = t

(* The best TopN, by score and then by ticker.                             *)
Scored(candidates, frame, day) ==
  {r \in {[ticker |-> t, buyers |-> Score(t, frame, day)] : t \in candidates} : r.buyers # {}}
Better(q, r) ==
  \/ Cardinality(q.buyers) > Cardinality(r.buyers)
  \/ Cardinality(q.buyers) = Cardinality(r.buyers) /\ Place(q.ticker) < Place(r.ticker)
Best(scored) ==
  [i \in 1 .. Min({TopN, Cardinality(scored)}) |->
     CHOOSE r \in scored : Cardinality({q \in scored : Better(q, r)}) = i - 1]
Ranked(candidates, frame, day) == Best(Scored(candidates, frame, day))

-----------------------------------------------------------------------------
(* Reads, live and under canonical_as_of.                                  *)

ShownOn(day) ==
  {f \in DOMAIN known : known[f] <= day /\ (f \in DOMAIN retired => retired[f] > day)}
Fenced(f) == f.source = "senate" /\ f.oversized /\ f \notin released

Window(day, first) == {f \in ShownOn(day) : f.disclosed # NoDay /\ first <= f.disclosed /\ f.disclosed <= day}

(* prepare_live_consensus_data and run_recent_ticker_scoring.              *)
LiveFrame(day) == {f \in Window(day, day - LOOKBACK) : ~Fenced(f) /\ f.ticker # NoTicker}
Recommend(day) == Ranked(Candidates(LiveFrame(day), 1, day), LiveFrame(day), day)

(* run_ticker_analysis, asked about one symbol.                            *)
Query(t, day) ==
  LET symbols == TradedAs(TickerFamily(t), day)
  IN  {[ticker |-> s, buyers |-> Score(s, LiveFrame(day), day)] : s \in symbols}

(* Mutant: the replay reads the rows as they are now.                      *)
DecisionFrameOfToday(day, start) ==
  {f \in Window(date, Max({start, day - LOOKBACK})) : ~Fenced(f)}

(* decision_history: one frame for each decision.                          *)
DecisionFrame(day, start) ==
  {f \in Window(day, Max({start, day - LOOKBACK})) : ~Fenced(f)}

(* backtest_recommendations.                                               *)
Replayed(day, start) ==
  LET frame == DecisionFrame(day, start)
      recent == {f \in frame : f.disclosed >= day - LOOKBACK /\ f.disclosed <= day /\ f.buys}
  IN  Ranked(Candidates(recent, MIN_BUYERS, day), recent, day)

-----------------------------------------------------------------------------
(* Outcomes.                                                               *)

NextSession(day) == Min({s \in Session : s > day} \cup {LastDay + 1})
PreviousSession(day) == Max({s \in Session : s <= day})
Entry(day) == NextSession(day)
Exit(day) == PreviousSession(Entry(day) + Horizon)

(* A renamed ticker has quotes under its old name until it is renamed, and *)
(* under its new one of all times; an acquired one stops.                  *)
Exists(symbol, s) ==
  /\ symbol = Old => s < RenameDay
  /\ symbol = Gone => s <= AcquiredDay
  /\ symbol = Listed => s >= ListingDay
Quoted(symbol, s) == s \in Session /\ s < date /\ Exists(symbol, s) /\ <<symbol, s>> \notin gaps

(* _evaluate_one_recommendation: the exact quotes or none.                 *)
Evaluable(symbol, day) ==
  /\ Quoted(symbol, Entry(day)) /\ Exit(day) >= Entry(day) /\ Quoted(symbol, Exit(day))
  /\ Quoted(Spy, Entry(day)) /\ Quoted(Spy, Exit(day))
BenchmarkReturn(day) == Evaluable(Spy, day)

(* evaluate_backtest: the recommendations that have an outcome.            *)
Evaluated(recs, day) == {i \in DOMAIN recs : Evaluable(recs[i].ticker, day)}

Cash == [status |-> "cash", reason |-> "no_recommendations", recommendations |-> <<>>]
Unobserved == [status |-> "skipped", reason |-> "none", recommendations |-> <<>>]

(* Mutant: what can be evaluated of a basket is funded.                    *)
FundWhatIsQuoted(day, start) ==
  LET recs == Replayed(day, start)
      valid == SelectSeq(recs, LAMBDA r : Evaluable(r.ticker, day))
  IN  CASE recs = <<>> /\ ~BenchmarkReturn(day) -> Unobserved
        [] recs = <<>> /\ BenchmarkReturn(day) -> Cash
        [] recs # <<>> /\ valid # <<>> -> [status |-> "invested", reason |-> "none", recommendations |-> valid]
        [] OTHER -> [status |-> "unavailable", reason |-> "no_evaluable_recommendations", recommendations |-> recs]

(* One date of run_backtest_pipeline: all of the basket or none of it.     *)
Observation(day, start) ==
  LET recs == Replayed(day, start)
      funded == BenchmarkReturn(day) /\ Evaluated(recs, day) = DOMAIN recs
      reason == CASE funded -> "none"
                  [] ~BenchmarkReturn(day) -> "benchmark_unavailable"
                  [] BenchmarkReturn(day) /\ Evaluated(recs, day) = {} -> "no_evaluable_recommendations"
                  [] OTHER -> "incomplete_basket"
  IN  CASE recs = <<>> /\ ~BenchmarkReturn(day) -> Unobserved
        [] recs = <<>> /\ BenchmarkReturn(day) -> Cash
        [] OTHER -> [status |-> IF funded THEN "invested" ELSE "unavailable", reason |-> reason, recommendations |-> recs]

(* A backtest over the days that have ended; it refuses to run without     *)
(* transactions and without prices.                                        *)
Decisions == DOMAIN recommended
TransactionsStart == Today0 - LOOKBACK
HasTransactions == {d \in Decisions : DecisionFrame(d, TransactionsStart) # {}} # {}
HasPrices ==
  {s \in Entry(Today0) .. Exit(Len(recommended)) : \E x \in Ticker \cup {Spy} : Quoted(x, s)} # {}
RunBacktest ==
  /\ Decisions # {} /\ HasTransactions /\ HasPrices
  /\ date >= FirstBacktest /\ Len(backtests) < MaxBacktests
  /\ backtests' = Append(backtests, [d \in Decisions |-> Observation(d, TransactionsStart)])
  /\ UNCHANGED <<known, retired, released, gaps, date, recommended>>

-----------------------------------------------------------------------------
Upsets == Cardinality(DOMAIN retired) + Cardinality(released) + Cardinality(gaps)
(* Filings that have a date keep it.                                       *)
With(dates, filings) ==
  [f \in DOMAIN dates \cup filings |-> IF f \in DOMAIN dates THEN dates[f] ELSE date]

(* A later refresh of the Senate gives the report a new generation, to     *)
(* which the old rows do not belong.                                       *)
LiftFence(f) ==
  /\ f \in DOMAIN known /\ Fenced(f) /\ Upsets < MaxUpsets
  /\ released' = released \cup {f}
  /\ UNCHANGED <<known, retired, gaps, date, recommended, backtests>>

(* A day ends: what it admitted and retired, the recommendation that is    *)
(* made on it, and the quotes its session lacks.                           *)
EndOfDay(new, gone, missing) ==
  /\ date <= LastDay
  /\ Cardinality(DOMAIN known \cup new) <= MaxKnown /\ gone \cap DOMAIN retired = {}
  /\ missing # {} => date \in Session
  /\ Upsets + Cardinality(gone) + Cardinality(missing) <= MaxUpsets
  /\ known' = With(known, new)
  /\ retired' = With(retired, gone)
  /\ gaps' = gaps \cup missing
  /\ UNCHANGED <<released, backtests>>
  /\ \E day \in {date} :
       recommended' = IF day <= MaxDecisions THEN Append(recommended, Recommend(day)') ELSE recommended
  /\ date' = date + 1

DeliverQuote(gap) ==
  /\ gap \in gaps
  /\ gaps' = gaps \ {gap}
  /\ UNCHANGED <<known, retired, released, date, recommended, backtests>>

ConsensusInit ==
  /\ known = <<>> /\ retired = <<>> /\ released = {} /\ gaps = {}
  /\ date = Today0 /\ recommended = <<>> /\ backtests = <<>>

(* At most two rows a day, besides those of the first.                     *)
News ==
  LET first == IF date = Today0 THEN Standing ELSE {}
      rest == Filing \ (Standing \cup DOMAIN known)
  IN  {first} \cup {first \cup {f, g} : f, g \in IF date <= LastDay THEN rest ELSE {}}
AtMostOne(set) == {{}} \cup {{x} : x \in set}

ConsensusNext ==
  \/ \E new \in News : \E gone \in AtMostOne(DOMAIN known), missing \in AtMostOne(Patchy \X {date}) :
       EndOfDay(new, gone, missing)
  \/ \E f \in Filing : LiftFence(f)
  \/ \E gap \in gaps : DeliverQuote(gap)
  \/ RunBacktest

ConsensusSpec == ConsensusInit /\ [][ConsensusNext]_consensusVars

-----------------------------------------------------------------------------
(* Frames that a lifted fence has changed are not claimed.                 *)
Unreleased(d) == \A f \in released : f \notin Window(d, d - LOOKBACK)

(* What a backtest observed of a day that ended is what was recommended    *)
(* live on that day, whatever was learned in between.                      *)
ReplayMatchesLive ==
  \A run \in Range(backtests) : \A d \in DOMAIN run :
    run[d].status # "skipped" /\ Unreleased(d) => run[d].recommendations = recommended[d]

(* No score counts one person twice: no two of the buyers counted may be   *)
(* spellings of the same member.                                           *)
ScoresCountPersons ==
  \A d \in Decisions : \A i \in DOMAIN recommended[d] :
    \A g, h \in recommended[d][i].buyers : g # h => \A m \in g, n \in h : ~SameMember(m, n)

(* What is recommended exists under that name on the day of the decision,  *)
(* and no security is recommended under two names.                         *)
RecommendedIsTradable ==
  \A d \in Decisions : \A i, j \in DOMAIN recommended[d] :
    /\ Exists(recommended[d][i].ticker, d)
    /\ recommended[d][i].ticker = New => d >= RenameDay
    /\ i # j => TickerFamily(recommended[d][i].ticker) # TickerFamily(recommended[d][j].ticker)

(* Asked that day about either name of what is recommended, the query      *)
(* gives the same buyers.                                                  *)
QueriesAgree ==
  \A d \in Decisions \cap {date - 1} : Unreleased(d) =>
    \A r \in Range(recommended[d]) : \A t \in TickerFamily(r.ticker) : Query(t, d) = {r}

(* Once a date is held in cash or invested, no later backtest finds that   *)
(* anything else was bought, or that it was not.                           *)
Funded(observation) == observation.status \in {"cash", "invested"}
FundedIsFinal ==
  \A i, j \in DOMAIN backtests : \A d \in DOMAIN backtests[i] :
    i < j /\ Unreleased(d) /\ Funded(backtests[i][d]) => backtests[j][d] = backtests[i][d]

ConsensusIsSound == ReplayMatchesLive /\ FundedIsFinal /\ ScoresCountPersons /\ RecommendedIsTradable /\ QueriesAgree
=============================================================================
