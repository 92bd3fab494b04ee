--------------------------- MODULE SenateRefresh ---------------------------
(* Refreshing the Senate's periodic transaction reports: the search over   *)
(* pages of a live index, the fetch of each report found, the sealed       *)
(* bundle of a sweep, the merge of rows and the replacement of the report  *)
(* inventory in one transaction, and the audit of the rebuilt database.    *)
(*                                                                         *)
(* Reports are numbered in filing order and the index shows the newest     *)
(* first.  A page is a table of `size` rows (0: a paper filing); `version` *)
(* counts the revisions in which the Senate put a row above the others.    *)
EXTENDS Integers, FiniteSets

CONSTANTS MaxReports, MaxRows, MaxVersion,
          SEARCH_PAGE_SIZE, MAX_RETRY_ATTEMPTS, MAX_ACCEPTED_ROW_COUNT,
          MaxRefreshes, MaxWithdrawn

ASSUME SenateAssumption ==
  /\ {MaxReports, MaxRows, SEARCH_PAGE_SIZE, MAX_RETRY_ATTEMPTS} \subseteq Nat \ {0}
  /\ {MaxVersion, MAX_ACCEPTED_ROW_COUNT, MaxRefreshes, MaxWithdrawn} \subseteq Nat

VARIABLES
  page,         \* the report pages of eFD; version -1 before publication
  listed,       \* the reports its index lists
  withdrawn,    \* reports taken out of the index since
  refresh,      \* the refresh under way
  refreshes,    \* refreshes begun
  bundle,       \* the sealed bundle of the last sweep
  efdRows,      \* senate_efd rows of the table transactions
  efdReports,   \* senate_efd entries of the table source_reports
  phases,       \* the manifest of the rebuild: phases senate and senate_window
  owed,         \* reports the standing inventory had to contain
  frame,        \* rows the last committed refresh presented
  authorities   \* generations committed so far

efdVars == <<page, listed, withdrawn, refresh, refreshes, bundle,
             efdRows, efdReports, phases, owed, frame, authorities>>

Report == 1..MaxReports
ReportOutcome == {"parsed", "paper_only", "unavailable", "failed"}
NoPhase == [status |-> "none", generation |-> 0, found |-> 0]
IdleRefresh == [step |-> "idle"]
NewRequest == [attempt |-> 1, refreshed |-> FALSE]
NoSweep == [status |-> "none"]

SenateInit ==
  /\ page \in [Report -> [size : 0..MaxRows, version : {0}]]
  /\ listed = 1..(MaxReports - 1)
  /\ withdrawn = {} /\ refresh = IdleRefresh /\ refreshes = 0 /\ bundle = NoSweep
  /\ efdRows = {} /\ efdReports = {}
  /\ phases = [senate |-> NoPhase, window |-> NoPhase]
  /\ owed = {} /\ frame = {} /\ authorities = {}

-----------------------------------------------------------------------------
(* The site. *)

PublishReport(r) ==
  /\ r \notin listed \union withdrawn
  /\ listed' = listed \union {r}
  /\ UNCHANGED <<page, withdrawn, refresh, refreshes, bundle, efdRows, efdReports, phases, owed, frame, authorities>>

RevisePage(r) ==
  /\ page[r].version < MaxVersion /\ page[r].size \in 1..(MaxRows - 1)
  /\ page' = [page EXCEPT ![r] = [size |-> @.size + 1, version |-> @.version + 1]]
  /\ UNCHANGED <<listed, withdrawn, refresh, refreshes, bundle, efdRows, efdReports, phases, owed, frame, authorities>>

Withdraw(r) ==
  /\ Cardinality(withdrawn) < MaxWithdrawn /\ r \in listed
  /\ listed' = listed \ {r} /\ withdrawn' = withdrawn \union {r}
  /\ UNCHANGED <<page, refresh, refreshes, bundle, efdRows, efdReports, phases, owed, frame, authorities>>

-----------------------------------------------------------------------------
(* The fetch.  A request that was refused refreshes the session once; the  *)
(* search request it then repeats carries the token of the old session,    *)
(* which the site refuses.                                                 *)

Searching == refresh.step = "search"
Fetching == refresh.step = "fetch" /\ refresh.found # {}

Listing(start) == {r \in listed : r >= start}

(* How many lines of the index stand above the one of a report.            *)
Above(r, listing) == Cardinality({q \in listing : q > r})

Authority(target) == IF target = "phase" THEN 0 ELSE refreshes + 1

StartRefresh(target, start) ==
  /\ refresh = IdleRefresh /\ refreshes < MaxRefreshes
  /\ target = "bundle" => bundle = NoSweep
  /\ refresh' = [step |-> "search", target |-> target, generation |-> Authority(target),
                 start |-> start, offset |-> 0, owed |-> Listing(start),
                 found |-> {}, inventory |-> {}, rows |-> {}, request |-> NewRequest]
  /\ refreshes' = refreshes + 1
  /\ UNCHANGED <<page, listed, withdrawn, bundle, efdRows, efdReports, phases, owed, frame, authorities>>

Answered(next) ==
  /\ refresh' = next
  /\ UNCHANGED <<page, listed, withdrawn, refreshes, bundle, efdRows, efdReports, phases, owed, frame, authorities>>

(* A transport error, 429 or 5xx with attempts left.                       *)
Backoff ==
  /\ Searching \/ Fetching
  /\ refresh.request.attempt < MAX_RETRY_ATTEMPTS
  /\ ~(Searching /\ refresh.request.refreshed)
  /\ Answered([refresh EXCEPT !.request.attempt = @ + 1])

(* 401 or 403: a new session, once.                                        *)
RefreshSession ==
  /\ Searching \/ Fetching
  /\ ~refresh.request.refreshed /\ refresh.request.attempt < MAX_RETRY_ATTEMPTS
  /\ Answered([refresh EXCEPT !.request = [attempt |-> @.attempt + 1, refreshed |-> TRUE]])

SearchPage ==
  LET matching == Listing(refresh.start)
      upTo == refresh.offset + SEARCH_PAGE_SIZE
      lines == {r \in matching : Above(r, matching) >= refresh.offset /\ Above(r, matching) < upTo}
  IN /\ Searching /\ ~refresh.request.refreshed
     /\ Answered([refresh EXCEPT
          !.step = IF upTo >= Cardinality(matching) THEN "fetch" ELSE @,
          !.offset = upTo, !.found = @ \union lines, !.request = NewRequest])

Rows(r, generation) ==
  {[record |-> r, row |-> i, version |-> page[r].version, generation |-> generation] :
     i \in 1..page[r].size}

(* What a report's page is classified as: a full table is parsed, a paper  *)
(* filing keeps its scan, a missing page is unavailable, and a page, row   *)
(* or scan that does not meet the checks is a failure.  The search found   *)
(* the newest first, on every page, and they are fetched in that order.    *)
FetchReport(r, outcome) ==
  LET parsed == outcome = "parsed"
  IN /\ Fetching /\ r \in refresh.found /\ \A q \in refresh.found : q <= r
     /\ parsed => page[r].size > 0
     /\ outcome = "paper_only" => page[r].size = 0
     /\ Answered([refresh EXCEPT
          !.found = @ \ {r}, !.request = NewRequest,
          !.inventory = @ \union {[record |-> r, generation |-> refresh.generation, outcome |-> outcome,
                                   accepted |-> IF parsed THEN page[r].size ELSE 0]},
          !.rows = IF parsed THEN @ \union Rows(r, refresh.generation) ELSE @])

Contents(r) == [generation |-> r.generation, owed |-> r.owed, inventory |-> r.inventory, rows |-> r.rows]
NoContents == [generation |-> 0, owed |-> {}, inventory |-> {}, rows |-> {}]

Fetched == refresh.step = "fetch" /\ refresh.found = {}
complete == \A e \in refresh.inventory : e.outcome \notin {"unavailable", "failed"}

Summary(status, generation, inventory) ==
  [status |-> status, generation |-> generation, found |-> Cardinality(inventory)]

(* A blocked request, an index that does not add up, or an incomplete set  *)
(* of reports ends the refresh; the rebuild records the quarantine, unless *)
(* the error is none of the source's own or the process was killed, and a  *)
(* sweep publishes what it has as a quarantined bundle.                    *)
FailRefresh(recorded) ==
  /\ refresh # IdleRefresh
  /\ recorded => ~(Fetched /\ complete)
  /\ refresh' = IdleRefresh
  /\ phases' = IF recorded /\ refresh.target = "phase"
                THEN [phases EXCEPT !.senate = Summary("quarantined", 0, {})] ELSE phases
  /\ bundle' = IF recorded /\ refresh.target = "bundle" /\ refresh.inventory # {}
                 THEN [status |-> "quarantined", contents |-> NoContents] ELSE bundle
  /\ UNCHANGED <<page, listed, withdrawn, refreshes, efdRows, efdReports, owed, frame, authorities>>

-----------------------------------------------------------------------------
(* The commit. *)

Identity(t) == <<t.record, t.row>>

Presentable(rows) == \A s, t \in rows : Identity(s) = Identity(t) => s = t

ReportsAddUp(inventory, rows) == \A e \in inventory :
  /\ e.accepted = Cardinality({t \in rows : t.record = e.record})
  /\ (e.outcome = "parsed") = (e.accepted > 0)

RowsAreBound(inventory, rows) == \A t \in rows : \E e \in inventory :
  e.record = t.record /\ e.generation = t.generation /\ e.outcome = "parsed"

Replaceable(inventory) ==
  /\ inventory # {}
  /\ \A e, f \in inventory : e.generation = f.generation /\ (e.record = f.record => e = f)
  /\ \A e \in inventory : e.outcome \in {"parsed", "paper_only"}

Bound(inventory, rows) ==
  /\ Replaceable(inventory) /\ Presentable(rows)
  /\ ReportsAddUp(inventory, rows) /\ RowsAreBound(inventory, rows)

(* Mutant: the rows of the source are replaced, as they once were.         *)
ReplaceRows(stored, rows) == rows

MergeRows(stored, rows) ==
  stored \union {t \in rows : \A s \in stored : Identity(s) # Identity(t)}

(* Mutant: rows already stored are matched within a generation only.       *)
CommitByGeneration(from) ==
  /\ Bound(from.inventory, from.rows)
  /\ efdRows' = efdRows \union
       {t \in from.rows : \A s \in efdRows : <<Identity(s), s.generation>> # <<Identity(t), t.generation>>}
  /\ efdReports' = from.inventory
  /\ owed' = from.owed /\ frame' = from.rows
  /\ authorities' = authorities \union {from.generation}

persist_source_refresh(from) ==
  /\ Bound(from.inventory, from.rows)
  /\ efdRows' = MergeRows(efdRows, from.rows)
  /\ efdReports' = from.inventory
  /\ owed' = from.owed /\ frame' = from.rows
  /\ authorities' = authorities \union {from.generation}

Save(recorded) ==
  /\ Fetched /\ complete /\ refresh.target # "bundle"
  /\ persist_source_refresh(refresh)
  /\ phases' = IF recorded /\ refresh.target = "phase"
                THEN [phases EXCEPT !.senate = Summary("persisted", 0, refresh.inventory)] ELSE phases
  /\ refresh' = IdleRefresh
  /\ UNCHANGED <<page, listed, withdrawn, refreshes, bundle>>

SealBundle ==
  /\ Fetched /\ complete /\ refresh.target = "bundle" /\ refresh.inventory # {}
  /\ bundle' = [status |-> "complete", contents |-> Contents(refresh)]
  /\ refresh' = IdleRefresh
  /\ UNCHANGED <<page, listed, withdrawn, refreshes, efdRows, efdReports, phases, owed, frame, authorities>>

IngestBundle(recorded) ==
  /\ refresh = IdleRefresh
  /\ bundle.status = "complete"
  /\ \E e \in bundle.contents.inventory : e.outcome = "parsed"
  /\ persist_source_refresh(bundle.contents)
  /\ phases' = IF recorded
                THEN [phases EXCEPT !.window =
                        Summary("ingested", bundle.contents.generation, bundle.contents.inventory)]
                ELSE phases
  /\ UNCHANGED <<page, listed, withdrawn, refresh, refreshes, bundle>>

-----------------------------------------------------------------------------
(* What readers and the audit make of the tables. *)

anomalous(t) == \E e \in efdReports :
  /\ <<e.generation, e.record>> = <<t.generation, t.record>>
  /\ e.accepted > MAX_ACCEPTED_ROW_COUNT

Intended == IF phases.senate.status # "persisted" /\ phases.window.status = "ingested"
              THEN phases.window ELSE phases.senate

_verify_senate_phase ==
  LET g == Intended.generation
      mine(e) == {t \in efdRows : t.generation = g /\ t.record = e.record}
  IN /\ Intended.status \in {"persisted", "ingested"}
     /\ {e.generation : e \in efdReports} \union {t.generation : t \in efdRows} = {g}
     /\ efdReports # {} /\ Cardinality(efdReports) = Intended.found
     /\ \A e \in efdReports : e.accepted = Cardinality(mine(e))
     /\ \A t \in efdRows : \E e \in efdReports : e.record = t.record

-----------------------------------------------------------------------------
(* Properties. *)

(* A row of a report is stored once, whatever generations presented it.    *)
IdentitiesAreUnique == \A s, t \in efdRows : Identity(s) = Identity(t) => s = t

(* What is stored was shown by the Senate at that place of that report.    *)
RowsWereServed == \A t \in efdRows :
  LET p == page[t.record]
  IN t.version <= p.version /\ t.row <= p.size - (p.version - t.version)

(* Each report of the standing inventory has its rows: all it counted, and *)
(* no others if the Senate never revised it.                               *)
ReportsAreStored == \A e \in efdReports :
  LET rows == {t.row : t \in {s \in efdRows : s.record = e.record}}
  IN /\ 1..e.accepted \subseteq rows
     /\ page[e.record].version = 0 => rows = 1..e.accepted

(* Unless reports were taken out of the index, which shifts its pages, the *)
(* standing inventory has every report listed when its search began.       *)
InventoryIsComplete == withdrawn = {} => owed \subseteq {e.record : e \in efdReports}

(* A database the audit passes holds the rows the last refresh presented   *)
(* and no others: none of a window or generation before it.                *)
VerifiedIsOneRefresh ==
  _verify_senate_phase => {Identity(t) : t \in efdRows} = {Identity(t) : t \in frame}

(* The rows of a report of anomalous size are held back, as long as one    *)
(* generation has been committed.                                          *)
AnomaliesAreHeld == Cardinality(authorities) = 1 =>
  \A t \in efdRows, e \in efdReports :
    e.record = t.record /\ e.accepted > MAX_ACCEPTED_ROW_COUNT => anomalous(t)

(* What the tables of the Senate say after any sequence of refreshes,      *)
(* failed, killed, repeated or taken from a bundle sealed before.          *)
SenateIsSound ==
  /\ IdentitiesAreUnique /\ RowsWereServed /\ ReportsAreStored
  /\ InventoryIsComplete /\ VerifiedIsOneRefresh /\ AnomaliesAreHeld

(* No refresh takes a row away or changes it (merge_source_refresh: a      *)
(* narrow window must never erase history outside it).                     *)
SenateRowsStay == [][efdRows \subseteq efdRows']_efdVars

-----------------------------------------------------------------------------
SenateNext ==
  \/ \E r \in Report : PublishReport(r) \/ RevisePage(r) \/ Withdraw(r)
  \/ \E target \in {"phase", "manual", "bundle"}, start \in Report : StartRefresh(target, start)
  \/ Backoff \/ RefreshSession \/ SearchPage
  \/ \E r \in Report, outcome \in ReportOutcome : FetchReport(r, outcome)
  \/ \E recorded \in BOOLEAN : FailRefresh(recorded) \/ Save(recorded) \/ IngestBundle(recorded)
  \/ SealBundle

SenateSpec == SenateInit /\ [][SenateNext]_efdVars
=============================================================================
