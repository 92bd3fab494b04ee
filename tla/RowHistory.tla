----------------------------- MODULE RowHistory -----------------------------
(* The rows and parse runs of one filing through time, and the two views   *)
(* over them: canonical_transactions as it is now, and canonical_as_of,    *)
(* which reconstructs what it was at the end of an earlier day.  Writers   *)
(* archive what they retire; a transaction has one instant for             *)
(* CURRENT_TIMESTAMP (its start) and a later one for datetime.now().       *)
EXTENDS Integers, FiniteSets, Sequences, FiniteSetsExt

CONSTANTS
  Content,        \* what a valid row says
  Undated,        \* a row without official filing date
  Bad,            \* a row whose dates contradict each other
  HouseRecipe, OcrRecipe, ManualReview, Restored,
  Sha,            \* contents of the filing's PDF
  NotListed,
  MaxKey, MaxGenerations, MaxTransactions, MaxDays

ASSUME HistoryAssumption ==
  /\ Undated \notin Content /\ Bad \notin Content /\ Undated # Bad
  /\ NotListed \notin Sha /\ Sha # {}
  /\ HouseRecipe # ManualReview /\ {HouseRecipe, ManualReview} \cap (OcrRecipe \cup {Restored}) = {}
  /\ Restored \notin OcrRecipe
  /\ MaxKey \in Nat \ {0} /\ {MaxGenerations, MaxTransactions, MaxDays} \subseteq Nat

VARIABLES
  filing,     \* generation -> PDF, instant of promotion, whether it is complete
  rows,       \* transactions
  oldRows,    \* transaction_versions
  parses,     \* pdf_parse_runs
  oldParses,  \* parse_run_versions
  verdict,    \* the effective decision on the OCR result of the filing
  baseline,   \* an earlier published copy
  now, days,  \* the clock, and the first instant after each day that ended
  shownAt     \* what the live view showed when each of them ended

tables == <<filing, rows, oldRows, parses, oldParses>>
historyVars == <<tables, verdict, baseline, now, days, shownAt>>

Start == now + 1
Wall == now + 2
Never == 2 * MaxTransactions + 3
NoInstant == -1

Newest == Len(filing)
Listed(g) == filing[g].sha # NotListed

(* HOUSE_PARSE_SOURCE: the family a run speaks for.                        *)
Family(p) == IF p.recipe \in {HouseRecipe, ManualReview} THEN "house_pdf" ELSE "gemini_ocr"
Of(table, g, source) == {t \in table : t.gen = g /\ t.source = source}
RowsOf(p, table) == Of(table, p.gen, Family(p))
MaxCreated(set) == IF set = {} THEN NoInstant ELSE Max({t.created : t \in set})

-----------------------------------------------------------------------------
(* canonical_transactions, over given rows, runs and generations.          *)

Counted(p, table) == p.count = Cardinality(RowsOf(p, table))

Settles(p, table) ==
  /\ Counted(p, table)
  /\ \/ p.status = "no_txs"
     \/ p.status = "invalid" /\ {t \in table : t.gen = p.gen} = {}
     \/ p.status = "success" /\ p.count > 0 /\ \A t \in RowsOf(p, table) : t.says \in Content

(* The row's own family must have been accepted; only OCR rows must carry  *)
(* an official filing date.                                                *)
Binds(p, t, table) ==
  /\ p.gen = t.gen /\ Family(p) = t.source /\ p.status = "success" /\ Counted(p, table)
  /\ \A x \in RowsOf(p, table) : x.says # Bad /\ (t.source = "gemini_ocr" => x.says # Undated)

AcceptedGenerations(table, decisions, generations) ==
  {g \in generations : Listed(g) /\ \E p \in decisions : p.gen = g /\ Settles(p, table)}

Admissible(table, decisions, generations) ==
  LET accepted == AcceptedGenerations(table, decisions, generations)
  IN  {t \in table : accepted # {} /\ t.gen = Max(accepted) /\ \E p \in decisions : Binds(p, t, table)}

View(table, decisions, generations) ==
  LET admitted == Admissible(table, decisions, generations)
  IN  {t \in admitted : t.source = "house_pdf" => \A x \in admitted : x.source # "gemini_ocr"}

Live == View(rows, parses, 1 .. Newest)

-----------------------------------------------------------------------------
(* canonical_as_of.                                                        *)

RowsAt(cutoff) ==
  {t \in rows \cup {o.was : o \in {x \in oldRows : x.retired >= cutoff}} : t.created < cutoff}
ParsesAt(cutoff) == parses \cup {o.was : o \in {x \in oldParses : x.retired >= cutoff}}

EndOfDay(instant) ==
  LET ends == {days[d] : d \in DOMAIN days} IN
  IF \E e \in ends : e > instant THEN Min({e \in ends : e > instant}) - 1 ELSE Never

(* A run without watermark speaks for the rows that stood just before the  *)
(* first repair of its rowset.                                             *)
RepairsOf(p) == {o.retired : o \in {x \in oldRows : /\ x.retired > p.parsed /\ x.was.gen = p.gen
                                                    /\ x.was.source = Family(p)}}
StoodAt(p, repaired) ==
  {t \in RowsOf(p, rows) : t.created < repaired}
    \cup RowsOf(p, {o.was : o \in {x \in oldRows : /\ x.retired >= repaired
                                                   /\ x.was.created < repaired \/ x.retired = repaired}})
Watermark(p) ==
  IF p.watermark # NoInstant THEN p.watermark
  ELSE IF RepairsOf(p) = {} THEN EndOfDay(p.parsed)
  ELSE Min({EndOfDay(p.parsed), MaxCreated(StoodAt(p, Min(RepairsOf(p))))})

(* A run authorizes the rows that were there when it was recorded.         *)
ActedOn(p, table, cutoff) ==
  /\ p.parsed < cutoff
  /\ \A t \in RowsOf(p, table) : t.created <= Watermark(p)

AsOf(cutoff) ==
  LET table == RowsAt(cutoff)
  IN  View(table, {p \in ParsesAt(cutoff) : ActedOn(p, table, cutoff)},
           {g \in 1 .. Newest : filing[g].promoted < cutoff})

-----------------------------------------------------------------------------
(* One committed transaction.                                              *)

Archived(set) == {[was |-> x, retired |-> Start] : x \in set}

Commit(newRows, goneRows, newParses, goneParses) ==
  /\ now < 2 * MaxTransactions /\ now' = now + 2
  /\ rows' = newRows /\ oldRows' = oldRows \cup Archived(goneRows)
  /\ parses' = newParses /\ oldParses' = oldParses \cup Archived(goneParses)
  /\ UNCHANGED <<baseline, days, shownAt>>

Parse(recipe, g, status, count, watermark) ==
  [recipe |-> recipe, gen |-> g, status |-> status, count |-> count,
   parsed |-> Wall, watermark |-> watermark]
SameIdentity(recipe, g) == {p \in parses : p.recipe = recipe /\ p.gen = g}

NewRow(g, source, key, says, created) ==
  [id |-> Start, gen |-> g, source |-> source, key |-> key, says |-> says, created |-> created]
Reading == UNION {[1 .. n -> Content] : n \in 1 .. MaxKey}
HouseReading == Reading \cup {<<Undated>>, <<Bad>>}

Bound(g) == Newest > 0 /\ g = Newest /\ Listed(g)

(* replace_transactions_for_docs: nonzero or verified-empty results.       *)
SaveParse(g, reading) ==
  LET gone == Of(rows, g, "house_pdf")
      new == {NewRow(g, "house_pdf", k, reading[k], Wall) : k \in DOMAIN reading}
      old == SameIdentity(HouseRecipe, g)
  IN  /\ Bound(g)
      /\ Commit((rows \ gone) \cup new, gone,
                (parses \ old) \cup {Parse(HouseRecipe, g, IF new = {} THEN "no_txs" ELSE "success",
                                           Cardinality(new), MaxCreated(new))}, old)
      /\ UNCHANGED <<filing, verdict>>

(* A failed parse leaves the rows, and the run if it settled something.    *)
FailParse(g) ==
  LET old == SameIdentity(HouseRecipe, g) IN
  /\ Bound(g)
  /\ \A p \in old : p.status \notin {"success", "no_txs"}
  /\ Commit(rows, {}, (parses \ old) \cup {Parse(HouseRecipe, g, "error", 0, MaxCreated(Of(rows, g, "house_pdf")))}, old)
  /\ UNCHANGED <<filing, verdict>>

(* House rows that fail the semantic check are retired by an accepted      *)
(* reading, and what recorded them is invalidated.                         *)
RetiredHouse(g) ==
  LET house == Of(rows, g, "house_pdf") IN IF \A t \in house : t.says \in Content THEN {} ELSE house
RetiredParses(g) ==
  {p \in parses : /\ RetiredHouse(g) # {} /\ p.gen = g /\ Family(p) = "house_pdf"
                  /\ p.status \in {"success", "no_txs"}}
Invalidated(set) == {[p EXCEPT !.status = "invalidated", !.count = 0, !.parsed = Wall] : p \in set}

Ocr == {t \in rows : t.source = "gemini_ocr"}
Matched(g, reading) == {t \in Ocr : t.gen = g /\ t.key \in DOMAIN reading}

(* Mutant: a row corrected in place keeps its time of creation.            *)
CorrectedQuietly(g, reading) == {[t EXCEPT !.says = reading[t.key]] : t \in Matched(g, reading)}

Corrected(g, reading) ==
  {[t EXCEPT !.says = reading[t.key], !.created = Wall] : t \in Matched(g, reading)}

Added(g, reading) ==
  {NewRow(g, "gemini_ocr", k, reading[k], Start) :
     k \in DOMAIN reading \ {t.key : t \in Matched(g, reading)}}

(* _replace_accepted_ocr_rows; the empty reading of _insert_transactions   *)
(* leaves the House rows alone.                                            *)
AdmitReading(g, recipe, reading) ==
  LET new == Corrected(g, reading) \cup Added(g, reading)
      house == IF reading = <<>> THEN {} ELSE RetiredHouse(g)
      void == IF reading = <<>> THEN {} ELSE RetiredParses(g)
      old == SameIdentity(recipe, g)
  IN  /\ Bound(g)
      /\ Commit((rows \ (Ocr \cup house)) \cup new, Ocr \cup house,
                (parses \ (void \cup old)) \cup Invalidated(void)
                  \cup {Parse(recipe, g, IF new = {} THEN "no_txs" ELSE "success", Cardinality(new), MaxCreated(new))},
                void \cup old)
      /\ verdict' = [state |-> IF new = {} THEN "verified_empty" ELSE "accepted", recipe |-> recipe, gen |-> g, at |-> Start]
      /\ UNCHANGED filing

(* Mutant: the rows of a refused reading are deleted without a copy.       *)
RejectQuietly(g, recipe) ==
  LET old == SameIdentity(recipe, g) IN
  /\ Bound(g)
  /\ Commit(rows \ Of(rows, g, "gemini_ocr"), {}, (parses \ old) \cup {Parse(recipe, g, "error", 0, NoInstant)}, old)
  /\ verdict' = [state |-> "needs_review", recipe |-> recipe, gen |-> g, at |-> Start]
  /\ UNCHANGED filing

(* record_failed_ocr_attempt.                                              *)
RejectReading(g, recipe) ==
  LET gone == Of(rows, g, "gemini_ocr")
      old == SameIdentity(recipe, g)
  IN  /\ Bound(g)
      /\ Commit(rows \ gone, gone, (parses \ old) \cup {Parse(recipe, g, "error", 0, NoInstant)}, old)
      /\ verdict' = [state |-> "needs_review", recipe |-> recipe, gen |-> g, at |-> Start]
      /\ UNCHANGED filing

(* promote_house_archive: rows and runs of an unchanged filing are copied  *)
(* from the last complete generation; the copies keep their time of        *)
(* creation, the runs get this one and no watermark.                       *)
CompleteGenerations == {g \in 1 .. Newest : filing[g].complete}
CarriesFrom(sha) ==
  {g \in CompleteGenerations : g = Max(CompleteGenerations) /\ sha # NotListed /\ filing[g].sha = sha}

Promote(sha) ==
  LET from == CarriesFrom(sha) IN
  /\ Newest < MaxGenerations
  /\ filing' = Append(filing, [sha |-> sha, promoted |-> Start, complete |-> FALSE])
  /\ Commit(rows \cup {[t EXCEPT !.gen = Newest + 1, !.id = Start] : t \in {x \in rows : x.gen \in from}}, {},
            parses \cup {[p EXCEPT !.gen = Newest + 1, !.parsed = Start, !.watermark = NoInstant] :
                           p \in {x \in parses : x.gen \in from}}, {})
  /\ UNCHANGED verdict

(* mark_house_generation_parse_complete; the rows of a filing that is no   *)
(* longer listed go.                                                       *)
Complete ==
  LET g == Newest
      gone == IF g > 1 /\ ~Listed(g) /\ Listed(g - 1) THEN {t \in rows : t.gen # g} ELSE {}
  IN  /\ g > 0 /\ ~filing[g].complete
      /\ Listed(g) => \E p \in parses : p.gen = g /\ Settles(p, rows)
      /\ filing' = [filing EXCEPT ![g].complete = TRUE]
      /\ Commit(rows \ gone, gone, parses, {})
      /\ UNCHANGED verdict

MarkInvalid(g) ==
  /\ g \in 1 .. Newest /\ Listed(g)
  /\ Commit(rows, {}, parses \cup {[Parse(ManualReview, g, "invalid", 0, NoInstant) EXCEPT !.parsed = Start]}, {})
  /\ UNCHANGED <<filing, verdict>>

(* preserve_repair_history and accept_corrections around a script that     *)
(* changes or deletes rows: acceptances of the rowsets advance with them.  *)
RepairedParses(touched) ==
  {p \in parses : p.status = "success" /\ RowsOf(p, touched) # {}}

Repair(touched, left) ==
  LET after == (rows \ touched) \cup left
      advanced == RepairedParses(touched)
  IN  /\ touched # {}
      /\ Commit(after, touched,
                (parses \ advanced) \cup {[p EXCEPT !.parsed = Start, !.watermark = Start,
                                              !.count = Cardinality(RowsOf(p, after))] : p \in advanced},
                advanced)
      /\ UNCHANGED <<filing, verdict>>

Rewrite(t, says) == t.says # says /\ Repair({t}, {[t EXCEPT !.says = says, !.created = Start]})
DeleteRow(t) == Repair({t}, {})

(* purge_unaccepted_house_rowsets: stricter than the view about dates.     *)
Unaccepted ==
  {t \in rows : /\ Listed(t.gen)
                /\ ~\E p \in parses : Binds(p, t, rows) /\ \A x \in RowsOf(p, rows) : x.says \in Content}
PurgeUnaccepted ==
  /\ Unaccepted # {}
  /\ Commit(rows \ Unaccepted, Unaccepted, parses, {})
  /\ UNCHANGED <<filing, verdict>>

-----------------------------------------------------------------------------
(* quarantine_model_admissions: an accepted reading goes back to what the  *)
(* baseline had, as a new observation.                                     *)

OcrParses(set) == {p \in set : Family(p) = "gemini_ocr"}
Untimed(view) == {[t EXCEPT !.created = 0] : t \in view}
FrozenParse == [recipe |-> verdict.recipe, gen |-> verdict.gen, status |-> "success",
                count |-> Cardinality(Ocr), watermark |-> verdict.at]
IsFrozen(p) == \A f \in DOMAIN FrozenParse : p[f] = FrozenParse[f]

QuarantineAdmission ==
  LET back == {[t EXCEPT !.created = Start] : t \in {x \in baseline.rows : x.source = "gemini_ocr"}}
      backParses == {[p EXCEPT !.recipe = Restored, !.parsed = Start, !.watermark = Start] :
                       p \in OcrParses(baseline.parses)}
      current == OcrParses(parses)
  IN  /\ baseline.taken /\ verdict.state = "accepted"
      /\ Ocr # {} /\ \A t \in Ocr : t.created = verdict.at /\ t.gen = verdict.gen
      /\ LET frozen == SameIdentity(verdict.recipe, verdict.gen)
         IN  Cardinality(frozen) = 1 /\ \A p \in frozen : IsFrozen(p)
      /\ {p \in current : p.recipe # verdict.recipe} = OcrParses(baseline.parses)
      /\ Commit((rows \ Ocr) \cup back, Ocr, (parses \ current) \cup backParses, current)
      /\ UNCHANGED filing
      /\ Untimed(Live') = Untimed(baseline.canonical)
      /\ verdict' = [verdict EXCEPT !.state = "needs_review", !.at = Start]

TakeBaseline ==
  /\ ~baseline.taken /\ rows # {}
  /\ baseline' = [taken |-> TRUE, rows |-> rows, parses |-> parses, canonical |-> Live]
  /\ UNCHANGED <<tables, verdict, now, days, shownAt>>

EndDay ==
  /\ Len(days) < MaxDays /\ (days # <<>> => days[Len(days)] <= now)
  /\ days' = Append(days, now + 1)
  /\ shownAt' = Append(shownAt, Live)
  /\ UNCHANGED <<tables, verdict, baseline, now>>

HistoryInit ==
  /\ filing = <<[sha |-> CHOOSE sha \in Sha : TRUE, promoted |-> 0, complete |-> FALSE]>>
  /\ rows = {} /\ oldRows = {} /\ parses = {} /\ oldParses = {}
  /\ verdict = [state |-> "none", recipe |-> Restored, gen |-> 0, at |-> NoInstant]
  /\ baseline = [taken |-> FALSE, rows |-> {}, parses |-> {}, canonical |-> {}]
  /\ now = 0 /\ days = <<>> /\ shownAt = <<>>

SettleFiling ==
  \E g \in 1 .. Newest :
    \/ \E reading \in HouseReading \cup {<<>>} : SaveParse(g, reading)
    \/ FailParse(g) \/ MarkInvalid(g)
    \/ \E recipe \in OcrRecipe :
         RejectReading(g, recipe) \/ \E reading \in Reading \cup {<<>>} : AdmitReading(g, recipe, reading)

Maintain ==
  \/ \E t \in rows : DeleteRow(t) \/ \E says \in Content : Rewrite(t, says)
  \/ PurgeUnaccepted \/ QuarantineAdmission \/ TakeBaseline

HistoryNext ==
  \/ \E sha \in Sha \cup {NotListed} : Promote(sha)
  \/ Complete \/ SettleFiling \/ Maintain \/ EndDay

HistorySpec == HistoryInit /\ [][HistoryNext]_historyVars

-----------------------------------------------------------------------------
RowsStored ==
  \A t, u \in rows : t # u => <<t.gen, t.source, t.key>> # <<u.gen, u.source, u.key>>

(* Whatever happened since, the view of a day that has ended shows what    *)
(* the live view showed when that day ended: nothing learned, admitted,    *)
(* repaired, retired or removed later reaches an earlier day.              *)
PastIsFixed == \A d \in DOMAIN days : AsOf(days[d]) = shownAt[d]

(* Nothing is shown today on the word of a run that saw other rows: the    *)
(* live view and the view of the day that is running agree.                *)
TodayAgrees == AsOf(Never) = Live

HistoryIsFaithful == RowsStored /\ PastIsFixed /\ TodayAgrees

(* No row and no run disappears: what leaves a table is in its history.    *)
NothingIsLost ==
  [][/\ \A t \in rows \ rows' : \E o \in oldRows' : o.was = t
     /\ \A p \in parses \ parses' : \E o \in oldParses' : o.was = p
     /\ oldRows \subseteq oldRows' /\ oldParses \subseteq oldParses']_historyVars
=============================================================================
