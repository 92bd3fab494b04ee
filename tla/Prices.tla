------------------------------- MODULE Prices -------------------------------
(***************************************************************************)
(* Adjusted prices of a ticker and the generations that are the evidence   *)
(* for them (price_source.py, scripts/refresh_prices.py and the three      *)
(* maintenance scripts of the price generations).                          *)
(*                                                                         *)
(* A corporate action scales the closes of all earlier days in every later *)
(* download, so a close stands here as the number of the known actions     *)
(* after its day: the raw price is constant and each action larger than    *)
(* the tolerances.  Every writer owns the database, hence is one step; a   *)
(* fetch that is not in a transaction may stop after any of its writes.    *)
(***************************************************************************)
EXTENDS Naturals, Integers, FiniteSets

CONSTANTS
  LastDay,   (* bound on the sessions                                      *)
  Actions,   (* days on which a split or a dividend takes effect           *)
  Starts,    (* first days of the windows that are asked for               *)
  MaxRepairs (* bound on the runs of the maintenance scripts               *)

ASSUME PriceAssumption ==
  /\ LastDay \in Nat \ {0} /\ Actions \subseteq 1 .. LastDay /\ Starts \subseteq 1 .. LastDay
  /\ MaxRepairs \in Nat

VARIABLES
  today,      (* the last completed session                                *)
  prices,     (* table prices: the closes of the ticker, by day            *)
  evidence,   (* price_generations and price_generation_values             *)
  state,      (* price_generation_state                                    *)
  temp,       (* the database of a refresh that is not yet merged          *)
  repairs     (* runs of the maintenance scripts so far                    *)

priceVars == <<today, prices, evidence, state, temp, repairs>>

Day == 1 .. LastDay
Series == UNION {[days -> 0 .. Cardinality(Actions)] : days \in SUBSET Day}
Empty == [d \in {} |-> 0]

(* A generation is named after the series whose hash it is.                *)
Id == [kind : {"yahoo", "legacy", "none"}, of : Series]
NoId == [kind |-> "none", of |-> Empty]
Yahoo(series) == [kind |-> "yahoo", of |-> series]
Legacy(series) == IF series = Empty THEN NoId ELSE [kind |-> "legacy", of |-> series]

PriceTypeOK ==
  /\ today \in Day
  /\ prices \in Series
  /\ DOMAIN evidence \subseteq Id /\ \A g \in DOMAIN evidence : evidence[g] \in Series \ {Empty}
  /\ state \in [served : Id, comparable : BOOLEAN, alternate : Id, rebased : BOOLEAN, row : BOOLEAN]
  /\ temp \in Series /\ repairs \in 0 .. MaxRepairs

(* What the provider returns today for a window.                           *)
Download(first, last) ==
  [d \in first .. last |-> Cardinality({a \in Actions : d < a /\ a <= today})]

Overlap(a, b) == DOMAIN a \intersect DOMAIN b
Conflict(a, b) == \E d \in Overlap(a, b) : a[d] # b[d]

(* The closes of a series, and those of another on the days it lacks.      *)
Over(a, b) ==
  [d \in DOMAIN a \union DOMAIN b |-> IF d \in DOMAIN a THEN a[d] ELSE b[d]]

(* Mutant: the generation is replaced by the rows that are given.          *)
StoreOnly(ev, g, series) ==
  [h \in DOMAIN ev \union {g} |-> IF h = g THEN series ELSE ev[h]]

(* Rows of a generation are inserted or updated, never removed.            *)
Store(ev, g, series) ==
  [h \in DOMAIN ev \union {g} |->
     IF h = g THEN Over(series, IF g \in DOMAIN ev THEN ev[g] ELSE Empty) ELSE ev[h]]

Served == IF state.row THEN state.served ELSE Legacy(prices)
Row(served, comparable, alternate) ==
  [served |-> served, comparable |-> comparable, alternate |-> alternate,
   rebased |-> FALSE, row |-> TRUE]

-----------------------------------------------------------------------------
NextSession ==
  /\ today < LastDay
  /\ today' = today + 1
  /\ UNCHANGED <<prices, evidence, state, temp>>

Diverges(incoming) ==
  prices # Empty /\ (Conflict(prices, incoming) \/ Overlap(prices, incoming) = {})

(* _merge_price_generation, on a window with a day that is not there yet:  *)
(* the writes of the two cases, each in the order in which they are made.  *)
Fetch(first, last) ==
  /\ first \in Starts /\ last <= today /\ ~ (first .. last \subseteq DOMAIN prices)
  /\ LET incoming == Download(first, last)
         merged == Over(incoming, prices)
         both == Store(Store(evidence, Served, prices), Yahoo(incoming), incoming)
     IN
     IF Diverges(incoming)
     THEN /\ prices' = prices
          /\ \/ evidence' = Store(evidence, Served, prices) /\ state' = state
             \/ evidence' = both /\ state' \in {state, Row(Served, FALSE, Yahoo(incoming))}
     ELSE /\ prices' = merged
          /\ \/ evidence' = evidence /\ state' = state
             \/ /\ evidence' = Store(evidence, Yahoo(merged), merged)
                /\ state' \in {state, Row(Yahoo(merged), TRUE, NoId)}
  /\ UNCHANGED <<today, temp>>

(* refresh_prices: a new throwaway database gets the whole window.         *)
Refresh(first) ==
  /\ first \in Starts /\ first <= today
  /\ temp' = Download(first, today)
  /\ UNCHANGED <<today, prices, evidence, state>>

(* Mutant: a series without a common day is appended.                      *)
HeldBackWhereItOverlaps(db, source) ==
  (db.prices # Empty /\ Conflict(db.prices, source)) \/ (db.state.row /\ db.state.alternate # NoId)

HeldBack(db, source) ==
  \/ db.prices # Empty /\ (Conflict(db.prices, source) \/ Overlap(db.prices, source) = {})
  \/ db.state.row /\ db.state.alternate # NoId

(* merge_temp_into_canonical: one transaction.  Only days that are missing *)
(* are inserted, and the generation of the refresh is that of the result.  *)
Merged(db, source) ==
  LET served == IF db.state.row THEN db.state.served ELSE Legacy(db.prices)
      whole == Over(db.prices, source)
      base == IF db.prices = Empty THEN db.evidence ELSE Store(db.evidence, served, db.prices)
  IN IF HeldBack(db, source)
     THEN [prices |-> db.prices, evidence |-> Store(base, Yahoo(source), source),
           state |-> Row(served, FALSE, Yahoo(source))]
     ELSE [prices |-> whole, evidence |-> Store(db.evidence, Yahoo(source), whole),
           state |-> Row(Yahoo(source), TRUE, NoId)]

Database == [prices |-> prices, evidence |-> evidence, state |-> state]

MergeRefresh ==
  /\ temp # Empty
  /\ LET db == Merged(Database, temp) IN
     prices' = db.prices /\ evidence' = db.evidence /\ state' = db.state
  /\ UNCHANGED <<today, temp>>

-----------------------------------------------------------------------------
(* Certification.  A scale is free: the closes of two fetches may differ   *)
(* by a factor on the days they share.                                     *)

(* A series is what one download could have returned, up to its scale: the *)
(* return between two of its days counts the actions between them.  The    *)
(* reconstruction of the actions accepts no other one: a step of the       *)
(* factors that no dividend or split explains refuses the ticker, and so   *)
(* does an action without its step.                                        *)
OneDownload(series) ==
  \A d, e \in DOMAIN series :
    d < e => series[d] - series[e] = Cardinality({a \in Actions : d < a /\ a <= e})

Adjusted == {g \in DOMAIN evidence : g.kind = "yahoo"}
SameReturns(a, b) ==
  /\ Cardinality(Overlap(a, b)) >= 2
  /\ \A d, e \in Overlap(a, b) : a[d] - a[e] = b[d] - b[e]

Agrees(gens) ==
  Cardinality(gens) >= 2 /\ \A g, h \in gens : g = h \/ SameReturns(evidence[g], evidence[h])

LastOf(series) == CHOOSE d \in DOMAIN series : \A e \in DOMAIN series : e <= d
Newest(gens) ==
  {g \in gens : \A h \in gens :
     \/ LastOf(evidence[h]) < LastOf(evidence[g])
     \/ /\ LastOf(evidence[h]) = LastOf(evidence[g])
        /\ Cardinality(DOMAIN evidence[h]) <= Cardinality(DOMAIN evidence[g])}

(* The reconstruction of the actions may refuse what the fetches agree on. *)
Certify ==
  /\ Adjusted # {}
  /\ \E g \in Newest(Adjusted), explained \in BOOLEAN :
       /\ explained => \A h \in Adjusted : OneDownload(evidence[h])
       /\ state' = IF explained /\ Agrees(Adjusted)
                   THEN Row(g, TRUE, NoId)
                   ELSE Row(IF state.row THEN state.served ELSE NoId, FALSE, g)
  /\ UNCHANGED <<today, prices, evidence, temp>>

(* The alternate replaces the prices; fetches that disagree with it go.    *)
Rebaseline ==
  /\ state.alternate \in Adjusted
  /\ \E kept \in SUBSET {g \in Adjusted : Agrees({g, state.alternate})} :
       evidence' = [g \in (DOMAIN evidence \ Adjusted) \union kept \union {state.alternate} |-> evidence[g]]
  /\ prices' = evidence[state.alternate]
  /\ state' = [Row(state.alternate, FALSE, NoId) EXCEPT !.rebased = TRUE]
  /\ UNCHANGED <<today, temp>>

(* store_second_fetch_generations                                          *)
StoreSecondFetch ==
  /\ state.rebased /\ Cardinality(Adjusted) < 2
  /\ temp # Empty /\ Yahoo(temp) # state.served
  /\ evidence' = Store(evidence, Yahoo(temp), temp)
  /\ UNCHANGED <<today, prices, state, temp>>

PriceInit ==
  /\ today = 1
  /\ prices = Empty /\ temp = Empty /\ repairs = 0
  /\ evidence = [g \in {} |-> Empty]
  /\ state = [Row(NoId, FALSE, NoId) EXCEPT !.row = FALSE]

Regular ==
  \/ NextSession
  \/ \E first, last \in Day : Fetch(first, last)
  \/ \E first \in Day : Refresh(first)
  \/ MergeRefresh

Repair == Certify \/ Rebaseline \/ StoreSecondFetch

PriceNext ==
  \/ Regular /\ repairs' = repairs
  \/ repairs < MaxRepairs /\ Repair /\ repairs' = repairs + 1

PriceSpec == PriceInit /\ [][PriceNext]_priceVars

-----------------------------------------------------------------------------
(* Until a maintenance script runs, prices that are said to be comparable  *)
(* never mix two bases, and neither does the generation they are served    *)
(* under: no return is off by a split or a dividend, in whatever order     *)
(* fetches and merges came and wherever a fetch stopped.                   *)
ComparableIsAdjusted ==
  repairs = 0 /\ state.comparable => OneDownload(prices) /\ OneDownload(evidence[state.served])

(* What the state names can be looked up.                                  *)
StateIsBacked ==
  /\ state.comparable => state.served \in DOMAIN evidence /\ state.alternate = NoId
  /\ state.alternate # NoId => state.alternate \in DOMAIN evidence

(* Merging the same refresh twice changes nothing.                         *)
MergeIsIdempotent ==
  temp # Empty =>
    LET once == Merged(Database, temp) IN Merged(once, temp) = once

(* The closes of a generation are evidence: until a maintenance script     *)
(* runs, none of them is rewritten or lost.                                *)
FetchesKeepEvidence ==
  [][repairs' = 0 => \A g \in DOMAIN evidence :
       /\ g \in DOMAIN evidence'
       /\ \A d \in DOMAIN evidence[g] :
            d \in DOMAIN evidence'[g] /\ evidence'[g][d] = evidence[g][d]]_priceVars

(* What scores and labels read from the prices of a ticker: one adjusted   *)
(* series, that can be looked up and that a repeated merge leaves alone.   *)
PriceInvariant ==
  PriceTypeOK /\ ComparableIsAdjusted /\ StateIsBacked /\ MergeIsIdempotent
=============================================================================
