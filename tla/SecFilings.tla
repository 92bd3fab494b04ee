----------------------------- MODULE SecFilings ----------------------------
(* What is fetched from the SEC: the sweep over the daily indices of       *)
(* Form 4, the filings of one issuer, and the quarterly 13F positions of a *)
(* manager as snapshots or as discovered increases; and the filing rows    *)
(* they save, each fetch under a generation of its own.  Several sources   *)
(* may run in the process.  XML and identifiers are abstract: a filing is  *)
(* the record of what its document says.                                   *)
EXTENDS Integers, FiniteSets, FiniteSetsExt

CONSTANTS
  Fetcher,        \* the source instances of the process
  Form4Filing,    \* [name, filed, issuer, ciks, officer, trades]: what is filed, and under how many CIKs
  Holding13F,     \* [name, quarter, filed, shares]: the 13F filings of the manager by the end of its quarter, shares by CUSIP
  Watched,        \* the CUSIPs whose issuer matches one ticker of the watchlist
  Resolvable,     \* the CUSIPs that discovery can give a ticker
  LastDate, DAYS_BACK, FILING_LIMIT, CONTROL_DAYS,
  MaxGenerations, MaxBlocks

ASSUME SecAssumption ==
  /\ DAYS_BACK \in Nat \ {0} /\ FILING_LIMIT \in Nat \ {0} /\ CONTROL_DAYS \in Nat
  /\ \A f \in Form4Filing \cup Holding13F : f.filed \in Nat
  /\ \A f \in Form4Filing : f.ciks \in Nat \ {0}
  \* positions are reported once their quarter is over
  /\ \A h \in Holding13F : h.quarter \in 0 .. h.filed
  \* a name is an accession number of the SEC
  /\ \A f, g \in Form4Filing : f.name = g.name => f = g
  /\ \A f, g \in Holding13F : f.name = g.name => f = g
  /\ LastDate \in Nat /\ MaxGenerations \in Nat /\ MaxBlocks \in Nat

VARIABLES
  sec,      \* the SEC: the date, the indices published, whether it grants access
  fetcher,  \* what each source does, whether it has proved that it has access, and lost it since
  saved,    \* the filing rows of the database
  promised, \* history: rows that the sweeps that ended well were to find
  computed  \* history: per 13F refresh that ended well, the position rows it computed

secVars == <<sec, fetcher, saved, promised, computed>>
NoErrand == [kind |-> "none"]
SecInit ==
  /\ sec = [date |-> 1, published |-> {}, access |-> TRUE, blocks |-> 0, generation |-> 0]
  /\ fetcher = [f \in Fetcher |-> [step |-> "idle", control |-> "unknown", stale |-> FALSE, errand |-> NoErrand]]
  /\ saved = {} /\ promised = {} /\ computed = {}

-----------------------------------------------------------------------------
(* The SEC publishes the index of a day late or never,                    *)
(* and rejects clients it does not accept with the same HTTP 403 with      *)
(* which it answers for an index it does not have.                         *)
RowsUnchanged == UNCHANGED <<saved, promised, computed>>
Midnight ==
  /\ sec.date < LastDate /\ sec' = [sec EXCEPT !.date = @ + 1]
  /\ UNCHANGED fetcher /\ RowsUnchanged
PublishIndex(d) ==
  /\ d <= sec.date /\ d \notin sec.published
  /\ sec' = [sec EXCEPT !.published = @ \cup {d}]
  /\ UNCHANGED fetcher /\ RowsUnchanged
LoseAccess ==
  /\ sec.access /\ sec.blocks < MaxBlocks
  /\ sec' = [sec EXCEPT !.access = FALSE, !.blocks = @ + 1]
  /\ fetcher' = [f \in Fetcher |-> [fetcher[f] EXCEPT !.stale = @ \/ fetcher[f].control = "proved"]]
  /\ RowsUnchanged
RegainAccess ==
  /\ ~sec.access /\ sec' = [sec EXCEPT !.access = TRUE]
  /\ UNCHANGED fetcher /\ RowsUnchanged

Entries(d) == UNION {{[filing |-> f, cik |-> c] : c \in 1 .. f.ciks} : f \in {g \in Form4Filing : g.filed = d}}
Row(source, f, row, body) == [source |-> source, record |-> f.name, row |-> row, body |-> body]
TradeRows(f) == {Row("form4", f, n, f.trades[n]) : n \in DOMAIN f.trades}
Window(from) == {d \in from - DAYS_BACK + 1 .. from : d > 0}
(* What a sweep is to find: the officers' trades of the indices that are   *)
(* out when it starts.                                                     *)
Findable(from) ==
  UNION {TradeRows(f) : f \in {g \in Form4Filing : g.officer /\ g.filed \in Window(from) \cap sec.published}}

Move(f, step, errand) == fetcher' = [fetcher EXCEPT ![f].step = step, ![f].errand = errand]
GiveUp(f) == Move(f, "idle", NoErrand)
NewGeneration == sec' = [sec EXCEPT !.generation = @ + 1]
MayStart(f) == fetcher[f].step = "idle" /\ sec.generation < MaxGenerations

(* A source opened anew has proved nothing.                                *)
Reopen(f) ==
  /\ fetcher[f].step = "idle" /\ fetcher[f].control # "unknown"
  /\ fetcher' = [fetcher EXCEPT ![f].control = "unknown", ![f].stale = FALSE]
  /\ UNCHANGED sec /\ RowsUnchanged

-----------------------------------------------------------------------------
(* The sweep of recent days.                                               *)
StartSweep(f) ==
  /\ MayStart(f) /\ NewGeneration
  /\ Move(f, "index", [kind |-> "sweep", from |-> sec.date, day |-> sec.date, entries |-> {},
                      generation |-> sec.generation + 1, wanted |-> Findable(sec.date), cut |-> FALSE,
                      rows |-> {}, all |-> {}])
  /\ RowsUnchanged

(* The positive control: this source has fetched a published index since   *)
(* it was opened.  Its outcome is remembered, whichever it is.             *)
Reachable == sec.access /\ \E d \in sec.published : d \in sec.date - CONTROL_DAYS .. sec.date - 1
(* Mutant: every 403 is an index that does not exist.                      *)
NoControl(f) == TRUE

Trusts403(f) == IF fetcher[f].control = "unknown" THEN Reachable ELSE fetcher[f].control = "proved"

Controlled(f) == IF Trusts403(f) THEN "proved" ELSE "failed"

GoOn(f, entries, control) ==
  LET t == fetcher[f].errand
  IN  fetcher' = [fetcher EXCEPT ![f] =
        [@ EXCEPT !.step = IF t.day - 1 \in Window(t.from) THEN "index" ELSE "filings", !.control = control,
                  !.errand = [t EXCEPT !.day = @ - 1, !.entries = @ \cup entries]]]
RequestIndex(f) ==
  LET t == fetcher[f].errand
  IN  /\ fetcher[f].step = "index"
      /\ \/ sec.access /\ t.day \in sec.published /\ GoOn(f, Entries(t.day), fetcher[f].control)
         \/ sec.access /\ t.day \notin sec.published /\ GoOn(f, {}, fetcher[f].control)  \* HTTP 404
         \/ /\ ~sec.access \/ t.day \notin sec.published                                 \* HTTP 403
            /\ IF Trusts403(f) THEN GoOn(f, {}, Controlled(f))
               ELSE fetcher' = [fetcher EXCEPT ![f].step = "idle", ![f].control = Controlled(f), ![f].errand = NoErrand]
      /\ UNCHANGED sec /\ RowsUnchanged

(* The newest entries up to the limit; each is fetched, and one that fails *)
(* fails the sweep.                                                        *)
Newest(entries, chosen) ==
  /\ Cardinality(chosen) = Min({Cardinality(entries), FILING_LIMIT})
  /\ \A e \in chosen, other \in entries \ chosen : e.filing.filed >= other.filing.filed
FetchFilings(f) ==
  LET t == fetcher[f].errand
  IN  /\ fetcher[f].step = "filings"
      /\ \/ ~sec.access /\ t.entries # {} /\ GiveUp(f)
         \/ /\ sec.access \/ t.entries = {}
            /\ \E chosen \in SUBSET t.entries :
                 /\ Newest(t.entries, chosen)
                 /\ Move(f, "save", [t EXCEPT !.rows = UNION {TradeRows(e.filing) : e \in {c \in chosen : c.filing.officer}},
                                             !.cut = chosen # t.entries])
      /\ UNCHANGED sec /\ RowsUnchanged

(* The filings of one issuer, whoever filed them.                          *)
FetchTicker(f, issuer) ==
  /\ MayStart(f) /\ NewGeneration
  /\ IF sec.access
     THEN Move(f, "save", [kind |-> "issuer", generation |-> sec.generation + 1,
                          rows |-> UNION {TradeRows(g) : g \in {h \in Form4Filing : h.issuer = issuer /\ h.filed <= sec.date}},
                          all |-> {}])
     ELSE UNCHANGED fetcher
  /\ RowsUnchanged

-----------------------------------------------------------------------------
(* 13F: the two latest quarters, each by its latest filing.                *)
Known13F == {h \in Holding13F : h.filed <= sec.date}
FilingOf(q) == CHOOSE h \in Known13F : h.quarter = q /\ \A o \in Known13F : o.quarter = q => h.filed >= o.filed
Quarters == {h.quarter : h \in Known13F}
CurrentQuarter == Max(Quarters)
PreviousQuarter == Max(Quarters \ {CurrentQuarter})
SharesOf(h, cusip) == IF cusip \in DOMAIN h.shares THEN h.shares[cusip] ELSE 0
SnapshotRows(current, previous) ==
  {Row("13f", current, c, [held |-> SharesOf(current, c), change |-> SharesOf(current, c) - SharesOf(previous, c)]) :
     c \in (DOMAIN current.shares \cup DOMAIN previous.shares) \cap Watched}
IncreaseRows(current, previous) ==
  {Row("13f", current, c, [added |-> SharesOf(current, c) - SharesOf(previous, c)]) :
     c \in {d \in DOMAIN current.shares \cap Resolvable : SharesOf(current, d) > SharesOf(previous, d)}}
Fetch13F(f, discover) ==
  /\ MayStart(f) /\ NewGeneration
  /\ IF sec.access /\ Cardinality(Quarters) >= 2
     THEN LET current == FilingOf(CurrentQuarter)
              previous == FilingOf(PreviousQuarter)
          IN  Move(f, "save", [kind |-> IF discover THEN "increases" ELSE "snapshot", generation |-> sec.generation + 1,
                              rows |-> IF discover THEN IncreaseRows(current, previous)
                                                   ELSE SnapshotRows(current, previous),
                              all |-> {}])
     ELSE UNCHANGED fetcher
  /\ RowsUnchanged

-----------------------------------------------------------------------------
(* Saving: a row whose filing and position are stored is not stored again. *)
(* Lookup and insertion are under one lock of the process.                 *)
Key(r) == <<r.source, r.record, r.row>>
NotStored(rows) == {r \in rows : \A s \in saved : Key(s) # Key(r)}
(* Mutant: the lookup does not wait for the other's insertion.             *)
NobodyWaits(f) == TRUE

LockFree(f) == \A g \in Fetcher \ {f} : fetcher[g].step # "insert"

LookUp(f) ==
  LET t == fetcher[f].errand
  IN  /\ fetcher[f].step = "save" /\ LockFree(f)
      /\ Move(f, "insert", [t EXCEPT !.rows = NotStored(@), !.all = t.rows])
      /\ UNCHANGED sec /\ RowsUnchanged
Insert(f) ==
  LET t == fetcher[f].errand
  IN  /\ fetcher[f].step = "insert"
      /\ saved' = saved \cup {[source |-> r.source, record |-> r.record, row |-> r.row, body |-> r.body,
                               generation |-> t.generation] : r \in t.rows}
      /\ promised' = IF t.kind = "sweep" /\ ~t.cut /\ ~fetcher[f].stale THEN promised \cup {Key(r) : r \in t.wanted} ELSE promised
      /\ computed' = IF t.kind = "snapshot" THEN computed \cup t.all ELSE computed
      /\ GiveUp(f) /\ UNCHANGED sec

SecNext ==
  \/ Midnight \/ LoseAccess \/ RegainAccess \/ (\E d \in 1 .. LastDate : PublishIndex(d))
  \/ \E f \in Fetcher :
       \/ Reopen(f) \/ StartSweep(f) \/ RequestIndex(f) \/ FetchFilings(f) \/ LookUp(f) \/ Insert(f)
       \/ (\E issuer \in {g.issuer : g \in Form4Filing} : FetchTicker(f, issuer))
       \/ (\E discover \in BOOLEAN : Fetch13F(f, discover))
SecSpec == SecInit /\ [][SecNext]_secVars

-----------------------------------------------------------------------------
(* However often a filing is fetched, by whom and under how many CIKs it   *)
(* is listed, each of its rows is stored once.                             *)
FiledOnce == \A r, s \in saved : Key(r) = Key(s) => r = s
(* A sweep that ended well below its limit missed nothing that was         *)
(* published when it started: an index it was denied was not taken for one *)
(* that does not exist.  Access that is lost after the source proved it is *)
(* not noticed, since the proof is remembered.                             *)
SweepsMissNothing == promised \subseteq {Key(r) : r \in saved}
(* The positions of the newest filing are known after a refresh; an        *)
(* increase discovered before takes the place of the position.             *)
PositionsAreKnown ==
  \A r \in computed : \E s \in saved :
    /\ Key(s) = Key(r)
    /\ "held" \in DOMAIN s.body => s.body.held = r.body.held
(* Filing rows are stored once, a sweep that ends well is complete, and    *)
(* 13F positions are those of the filing they name (form4.py, form13f.py,  *)
(* transaction_repository.py).                                             *)
SecIsSound == FiledOnce /\ SweepsMissNothing /\ PositionsAreKnown
=============================================================================
