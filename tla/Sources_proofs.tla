-------------------------- MODULE Sources_proofs --------------------------
(* Proofs about what is fetched and not read from documents: the filing    *)
(* rows that sources of the SEC store under a lock, and the results of     *)
(* Capitol Trades, which are read page by page from a list that changes.   *)
EXTENDS SecFilings, CapitolPages, SequenceTheorems, FiniteSetTheorems, WellFoundedInduction, TLAPS

-----------------------------------------------------------------------------
(* Fetching from the SEC.                                                  *)

Entry4 == [filing : Form4Filing, cik : Nat]
Rows4 == UNION {TradeRows(g) : g \in Form4Filing}
Snapshots == UNION {SnapshotRows(h, k) : h \in Holding13F, k \in Holding13F}
Increases == UNION {IncreaseRows(h, k) : h \in Holding13F, k \in Holding13F}
Rows13 == Snapshots \cup Increases
AnyRow == Rows4 \cup Rows13

SweepErrand ==
  [kind : {"sweep"}, from : Nat, day : Nat, entries : SUBSET Entry4, generation : Nat, wanted : SUBSET Rows4,
   cut : BOOLEAN, rows : SUBSET Rows4, all : SUBSET Rows4]
OtherErrand ==
  [kind : {"issuer", "snapshot", "increases"}, generation : Nat, rows : SUBSET AnyRow, all : SUBSET AnyRow]
FetcherType ==
  [step : {"idle", "index", "filings", "save", "insert"}, control : {"unknown", "proved", "failed"}, stale : BOOLEAN,
   errand : {NoErrand} \cup SweepErrand \cup OtherErrand]

SecTypes ==
  /\ sec \in [date : Nat \ {0}, published : SUBSET Nat, access : BOOLEAN, blocks : Nat, generation : Nat]
  /\ fetcher \in [Fetcher -> FetcherType]

DistinctRows(set) == \A r, q \in set : Key(r) = Key(q) => r = q
StoredKeys == {Key(s) : s \in saved}
HeldRow(r) == r \in Rows13 /\ "held" \in DOMAIN r.body

(* What a sweep has under way: nothing it is to find is behind it, unless  *)
(* it lost access after it had proved it.                                  *)
SweepGoesWell(x) ==
  LET t == x.errand
  IN  /\ x.step = "index" =>
           \A r \in t.wanted : \E g \in Form4Filing :
             /\ r \in TradeRows(g) /\ g.officer /\ g.filed \in Window(t.from) \cap sec.published
             /\ g.filed > t.day => Entries(g.filed) \subseteq t.entries
      /\ x.step = "filings" =>
           \A r \in t.wanted : \E e \in t.entries : e.filing.officer /\ r \in TradeRows(e.filing)
      /\ x.step = "save" /\ t.kind = "sweep" /\ ~t.cut => t.wanted \subseteq t.rows
      /\ x.step = "insert" /\ t.kind = "sweep" /\ ~t.cut => t.wanted \subseteq t.all

(* What a source has in hand fits its step.                                *)
InHand(x) ==
  LET t == x.errand
  IN  /\ x \in FetcherType
      /\ x.step \in {"index", "filings"} => t \in SweepErrand
      /\ x.step = "index" => t.day \in Window(t.from)
      /\ x.step \in {"save", "insert"} => t \in SweepErrand \cup OtherErrand /\ DistinctRows(t.rows)
      /\ x.step = "save" /\ t.kind = "snapshot" => \A r \in t.rows : HeldRow(r)
      /\ x.step = "insert" /\ t.kind = "snapshot" => \A r \in t.all : HeldRow(r)

(* Between lookup and insertion nobody else stores a row.                  *)
LookedUp(x) ==
  x.step = "insert" =>
    /\ \A r \in x.errand.rows : Key(r) \notin StoredKeys
    /\ \A r \in x.errand.all : r \in x.errand.rows \/ Key(r) \in StoredKeys

AccessIsKnown(x) == x.control = "proved" /\ ~x.stale => sec.access

Bare(s) == [source |-> s.source, record |-> s.record, row |-> s.row, body |-> s.body]

SecInv ==
  /\ SecTypes
  /\ \A f \in Fetcher : InHand(fetcher[f]) /\ LookedUp(fetcher[f]) /\ AccessIsKnown(fetcher[f])
                         /\ (~fetcher[f].stale => SweepGoesWell(fetcher[f]))
  /\ \A f, g \in Fetcher : fetcher[f].step = "insert" /\ fetcher[g].step = "insert" => f = g
  /\ \A s \in saved : Bare(s) \in AnyRow
  /\ FiledOnce /\ promised \subseteq StoredKeys
  /\ \A r \in computed : HeldRow(r) /\ Key(r) \in StoredKeys

-----------------------------------------------------------------------------
(* Rows and what names them.                                               *)

LEMMA KeyIs ==
  ASSUME NEW r, NEW q
  PROVE  Key(r) = Key(q) <=> r.source = q.source /\ r.record = q.record /\ r.row = q.row
<1>1. ASSUME Key(r) = Key(q) PROVE r.source = q.source /\ r.record = q.record /\ r.row = q.row
  <2>1. /\ Key(r)[1] = r.source /\ Key(r)[2] = r.record /\ Key(r)[3] = r.row
        /\ Key(q)[1] = q.source /\ Key(q)[2] = q.record /\ Key(q)[3] = q.row
    BY DEF Key
  <2> QED BY <1>1, <2>1
<1>2. ASSUME r.source = q.source, r.record = q.record, r.row = q.row PROVE Key(r) = Key(q)
  BY <1>2 DEF Key
<1> QED BY <1>1, <1>2

TradeRow(g, n) == Row("form4", g, n, g.trades[n])
PositionRow(h, k, c) == Row("13f", h, c, [held |-> SharesOf(h, c), change |-> SharesOf(h, c) - SharesOf(k, c)])
IncreaseRow(h, k, c) == Row("13f", h, c, [added |-> SharesOf(h, c) - SharesOf(k, c)])

LEMMA TradeRowIs ==
  ASSUME NEW g
  PROVE  \A r \in TradeRows(g) : r = TradeRow(g, r.row) /\ r.source = "form4" /\ r.record = g.name
<1> SUFFICES ASSUME NEW r \in TradeRows(g)
             PROVE  r = TradeRow(g, r.row) /\ r.source = "form4" /\ r.record = g.name
  OBVIOUS
<1>1. PICK n : r = TradeRow(g, n)
  BY DEF TradeRows, TradeRow
<1>2. r.source = "form4" /\ r.record = g.name /\ r.row = n
  BY <1>1 DEF TradeRow, Row
<1> QED BY <1>1, <1>2

LEMMA PositionRowIs ==
  ASSUME NEW h, NEW k
  PROVE  \A r \in SnapshotRows(h, k) :
           /\ r = PositionRow(h, k, r.row) /\ r.source = "13f" /\ r.record = h.name
           /\ "held" \in DOMAIN r.body /\ r.body.held = SharesOf(h, r.row)
<1> SUFFICES ASSUME NEW r \in SnapshotRows(h, k)
             PROVE  /\ r = PositionRow(h, k, r.row) /\ r.source = "13f" /\ r.record = h.name
                    /\ "held" \in DOMAIN r.body /\ r.body.held = SharesOf(h, r.row)
  OBVIOUS
<1>1. PICK c : r = PositionRow(h, k, c)
  BY DEF SnapshotRows, PositionRow
<1>2. /\ r.source = "13f" /\ r.record = h.name /\ r.row = c
      /\ r.body = [held |-> SharesOf(h, c), change |-> SharesOf(h, c) - SharesOf(k, c)]
  BY <1>1 DEF PositionRow, Row
<1>3. "held" \in DOMAIN r.body /\ r.body.held = SharesOf(h, c)
  BY <1>2
<1> QED BY <1>1, <1>2, <1>3

LEMMA IncreaseRowIs ==
  ASSUME NEW h, NEW k
  PROVE  \A r \in IncreaseRows(h, k) :
           /\ r = IncreaseRow(h, k, r.row) /\ r.source = "13f" /\ r.record = h.name
           /\ "held" \notin DOMAIN r.body
<1> SUFFICES ASSUME NEW r \in IncreaseRows(h, k)
             PROVE  /\ r = IncreaseRow(h, k, r.row) /\ r.source = "13f" /\ r.record = h.name
                    /\ "held" \notin DOMAIN r.body
  OBVIOUS
<1>1. PICK c : r = IncreaseRow(h, k, c)
  BY DEF IncreaseRows, IncreaseRow
<1>2. r.source = "13f" /\ r.record = h.name /\ r.row = c /\ r.body = [added |-> SharesOf(h, c) - SharesOf(k, c)]
  BY <1>1 DEF IncreaseRow, Row
<1>3. DOMAIN r.body = {"added"}
  BY <1>2
<1>4. "held" \notin DOMAIN r.body
  BY <1>3
<1> QED BY <1>1, <1>2, <1>4

LEMMA TradesAreNamed == DistinctRows(Rows4)
<1> SUFFICES ASSUME NEW r \in Rows4, NEW q \in Rows4, Key(r) = Key(q) PROVE r = q
  BY DEF DistinctRows
<1>1. PICK g \in Form4Filing : r \in TradeRows(g)
  BY DEF Rows4
<1>2. PICK h \in Form4Filing : q \in TradeRows(h)
  BY DEF Rows4
<1>3. r.record = q.record /\ r.row = q.row
  BY KeyIs
<1>4. g.name = h.name
  BY <1>1, <1>2, <1>3, TradeRowIs
<1>5. g = h
  BY <1>4, SecAssumption
<1> QED BY <1>1, <1>2, <1>3, <1>5, TradeRowIs

LEMMA DistinctInOneFiling ==
  ASSUME NEW h, NEW k
  PROVE  DistinctRows(SnapshotRows(h, k)) /\ DistinctRows(IncreaseRows(h, k))
<1>1. ASSUME NEW r \in SnapshotRows(h, k), NEW q \in SnapshotRows(h, k), Key(r) = Key(q) PROVE r = q
  <2>1. r.row = q.row
    BY <1>1, KeyIs
  <2> QED BY <2>1, PositionRowIs
<1>2. ASSUME NEW r \in IncreaseRows(h, k), NEW q \in IncreaseRows(h, k), Key(r) = Key(q) PROVE r = q
  <2>1. r.row = q.row
    BY <1>2, KeyIs
  <2> QED BY <2>1, IncreaseRowIs
<1> QED BY <1>1, <1>2 DEF DistinctRows

LEMMA HeldRowIs ==
  ASSUME NEW r \in Rows13, "held" \in DOMAIN r.body
  PROVE  \E h \in Holding13F : r.source = "13f" /\ r.record = h.name /\ r.body.held = SharesOf(h, r.row)
<1>1. CASE r \in Snapshots
  <2>1. PICK a \in Holding13F, b \in Holding13F : r \in SnapshotRows(a, b)
    BY <1>1 DEF Snapshots
  <2> QED BY <2>1, PositionRowIs
<1>2. CASE r \in Increases
  <2>1. PICK a \in Holding13F, b \in Holding13F : r \in IncreaseRows(a, b)
    BY <1>2 DEF Increases
  <2>2. "held" \notin DOMAIN r.body
    BY <2>1, IncreaseRowIs
  <2> QED BY <2>2
<1> QED BY <1>1, <1>2 DEF Rows13

(* A position says what the filing it names says.                          *)
LEMMA HeldIs ==
  ASSUME NEW r \in AnyRow, "held" \in DOMAIN r.body, NEW q \in AnyRow, HeldRow(q), Key(r) = Key(q)
  PROVE  r.body.held = q.body.held
<1>1. PICK h \in Holding13F : q.source = "13f" /\ q.record = h.name /\ q.body.held = SharesOf(h, q.row)
  BY HeldRowIs DEF HeldRow
<1>2. r.source = q.source /\ r.record = q.record /\ r.row = q.row
  BY KeyIs
<1>3. r \in Rows13
  <2>1. CASE r \in Rows4
    <3>1. PICK g \in Form4Filing : r \in TradeRows(g)
      BY <2>1 DEF Rows4
    <3>2. r.source = "form4"
      BY <3>1, TradeRowIs
    <3> QED BY <1>1, <1>2, <3>2
  <2> QED BY <2>1 DEF AnyRow
<1>4. PICK a \in Holding13F : r.record = a.name /\ r.body.held = SharesOf(a, r.row)
  BY <1>3, HeldRowIs
<1>5. a = h
  BY <1>1, <1>2, <1>4, SecAssumption
<1> QED BY <1>1, <1>2, <1>4, <1>5

LEMMA BareKey == \A s : Key(Bare(s)) = Key(s) /\ Bare(s).body = s.body
  BY DEF Key, Bare

LEMMA InvIsEnough == SecInv => SecIsSound
<1> SUFFICES ASSUME SecInv PROVE SecIsSound
  OBVIOUS
<1>1. PositionsAreKnown
  <2> SUFFICES ASSUME NEW r \in computed
               PROVE  \E s \in saved : Key(s) = Key(r) /\ ("held" \in DOMAIN s.body => s.body.held = r.body.held)
    BY DEF PositionsAreKnown
  <2>1. PICK s \in saved : Key(s) = Key(r)
    BY DEF SecInv, StoredKeys
  <2>2. HeldRow(r) /\ r \in AnyRow /\ Bare(s) \in AnyRow
    BY DEF SecInv, HeldRow, AnyRow
  <2>3. "held" \in DOMAIN s.body => s.body.held = r.body.held
    BY <2>1, <2>2, HeldIs, BareKey
  <2> QED BY <2>1, <2>3
<1> QED BY <1>1 DEF SecInv, SecIsSound, SweepsMissNothing, StoredKeys

-----------------------------------------------------------------------------
(* One source moves.                                                       *)

(* What the others have in hand is not touched.                            *)
LEMMA OthersKeep ==
  ASSUME NEW x, InHand(x), LookedUp(x), ~x.stale => SweepGoesWell(x), sec.published \subseteq sec.published',
         saved' = saved \/ x.step # "insert"
  PROVE  InHand(x)' /\ LookedUp(x)' /\ (~x.stale => SweepGoesWell(x)')
<1>1. InHand(x)'
  BY DEF InHand
<1>2. LookedUp(x)'
  BY DEF LookedUp, StoredKeys
<1>3. ASSUME ~x.stale PROVE SweepGoesWell(x)'
  BY <1>3 DEF SweepGoesWell
<1> QED BY <1>1, <1>2, <1>3

LEMMA Moved ==
  ASSUME SecTypes, NEW f \in Fetcher, NEW step, NEW errand, Move(f, step, errand)
  PROVE  /\ fetcher'[f].step = step /\ fetcher'[f].errand = errand
         /\ fetcher'[f].control = fetcher[f].control /\ fetcher'[f].stale = fetcher[f].stale
         /\ fetcher'[f] = [step |-> step, control |-> fetcher[f].control, stale |-> fetcher[f].stale, errand |-> errand]
         /\ fetcher' = [fetcher EXCEPT ![f] = fetcher'[f]]
         /\ \A g \in Fetcher \ {f} : fetcher'[g] = fetcher[g]
<1>1. PICK x \in FetcherType : x = fetcher[f]
  BY DEF SecTypes
<1>2. PICK y : y = [x EXCEPT !.step = step]
  OBVIOUS
<1>3. PICK z : z = [y EXCEPT !.errand = errand]
  OBVIOUS
<1>4. z = [step |-> step, control |-> x.control, stale |-> x.stale, errand |-> errand]
  BY <1>1, <1>2, <1>3 DEF FetcherType
<1>5. fetcher' = [fetcher EXCEPT ![f] = z]
  BY <1>1, <1>2, <1>3 DEF Move, SecTypes
<1>6. fetcher'[f] = z /\ \A g \in Fetcher \ {f} : fetcher'[g] = fetcher[g]
  BY <1>5 DEF SecTypes
<1>7. fetcher' = [fetcher EXCEPT ![f] = fetcher'[f]]
  BY <1>5, <1>6
<1>8. z.step = step /\ z.errand = errand /\ z.control = x.control /\ z.stale = x.stale
  BY <1>4
<1> QED BY <1>1, <1>4, <1>6, <1>7, <1>8

(* The step of one source that leaves the stored rows as they are.         *)
SourceIs(f, x) == fetcher' = [fetcher EXCEPT ![f] = x]
Good(x) == InHand(x) /\ LookedUp(x) /\ AccessIsKnown(x) /\ (~x.stale => SweepGoesWell(x))
SecStays == sec' = sec \/ NewGeneration

LEMMA SecStaysIs ==
  ASSUME SecTypes, SecStays
  PROVE  /\ sec' \in [date : Nat \ {0}, published : SUBSET Nat, access : BOOLEAN, blocks : Nat, generation : Nat]
         /\ sec'.published = sec.published /\ sec'.access = sec.access
  BY DEF SecTypes, SecStays, NewGeneration

LEMMA SourceSteps ==
  ASSUME SecInv, NEW f \in Fetcher, NEW x, SourceIs(f, x), Good(x)', x.step = "insert" => LockFree(f),
         SecStays, RowsUnchanged
  PROVE  SecInv'
<1>1. fetcher'[f] = x /\ \A g \in Fetcher \ {f} : fetcher'[g] = fetcher[g]
  BY DEF SecInv, SecTypes, SourceIs
<1>2. saved' = saved /\ promised' = promised /\ computed' = computed
  BY DEF RowsUnchanged
<1>3. SecTypes'
  <2>1. x \in FetcherType
    BY DEF Good, InHand
  <2>2. fetcher' \in [Fetcher -> FetcherType]
    BY <2>1 DEF SecInv, SecTypes, SourceIs
  <2> QED BY <2>2, SecStaysIs DEF SecInv, SecTypes
<1>4. ASSUME NEW g \in Fetcher
      PROVE  /\ InHand(fetcher[g])' /\ LookedUp(fetcher[g])' /\ AccessIsKnown(fetcher[g])'
             /\ ~fetcher'[g].stale => SweepGoesWell(fetcher[g])'
  <2>1. CASE g = f
    BY <1>1, <2>1 DEF Good
  <2>2. CASE g # f
    <3>1. PICK y : y = fetcher[g]
      OBVIOUS
    <3>2. fetcher'[g] = y
      BY <1>1, <2>2, <3>1
    <3>3. InHand(y) /\ LookedUp(y) /\ AccessIsKnown(y) /\ (~y.stale => SweepGoesWell(y))
      BY <3>1 DEF SecInv
    <3>4. sec'.access = sec.access /\ sec.published \subseteq sec'.published
      BY SecStaysIs DEF SecInv
    <3>5. InHand(y)' /\ LookedUp(y)' /\ (~y.stale => SweepGoesWell(y)')
      BY <1>2, <3>3, <3>4, OthersKeep
    <3>6. AccessIsKnown(y)'
      BY <3>3, <3>4 DEF AccessIsKnown
    <3> QED BY <3>2, <3>5, <3>6
  <2> QED BY <2>1, <2>2
<1>5. \A g, h \in Fetcher : fetcher'[g].step = "insert" /\ fetcher'[h].step = "insert" => g = h
  BY <1>1 DEF SecInv, LockFree
<1>6. StoredKeys' = StoredKeys /\ FiledOnce'
  BY <1>2 DEF StoredKeys, FiledOnce, SecInv
<1> QED BY <1>2, <1>3, <1>4, <1>5, <1>6 DEF SecInv

(* A move to a step before the lookup.                                     *)
LEMMA MoveKeeps ==
  ASSUME SecInv, NEW f \in Fetcher, NEW step \in {"idle", "index", "filings", "save"}, NEW errand, Move(f, step, errand),
         NEW x, x = [step |-> step, control |-> fetcher[f].control, stale |-> fetcher[f].stale, errand |-> errand],
         InHand(x), ~x.stale => SweepGoesWell(x)', SecStays, RowsUnchanged
  PROVE  SecInv'
<1>1. SourceIs(f, x)
  BY Moved DEF SecInv, SourceIs
<1>2. x.step # "insert" /\ x.control = fetcher[f].control /\ x.stale = fetcher[f].stale
  OBVIOUS
<1>3. InHand(x)' /\ LookedUp(x)'
  BY <1>2 DEF InHand, LookedUp
<1>4. AccessIsKnown(x)'
  <2>1. AccessIsKnown(fetcher[f]) /\ sec'.access = sec.access
    BY SecStaysIs DEF SecInv
  <2> QED BY <1>2, <2>1 DEF AccessIsKnown
<1>5. Good(x)'
  BY <1>3, <1>4 DEF Good
<1> QED BY <1>1, <1>2, <1>5, SourceSteps

(* The fetch that SEC refuses at once.                                     *)
LEMMA NothingFetched ==
  ASSUME SecInv, UNCHANGED fetcher, SecStays, RowsUnchanged
  PROVE  SecInv'
<1>1. CASE Fetcher = {}
  <2>1. saved' = saved /\ promised' = promised /\ computed' = computed
    BY DEF RowsUnchanged
  <2>2. StoredKeys' = StoredKeys /\ FiledOnce'
    BY <2>1 DEF StoredKeys, FiledOnce, SecInv
  <2>3. SecTypes'
    BY SecStaysIs DEF SecInv, SecTypes
  <2> QED BY <1>1, <2>1, <2>2, <2>3 DEF SecInv
<1>2. CASE Fetcher # {}
  <2>1. PICK f \in Fetcher : TRUE
    BY <1>2
  <2>2. PICK x : x = fetcher[f]
    OBVIOUS
  <2>3. SourceIs(f, x)
    BY <2>2 DEF SourceIs, SecInv, SecTypes
  <2>4. InHand(x) /\ LookedUp(x) /\ AccessIsKnown(x) /\ (~x.stale => SweepGoesWell(x))
    BY <2>2 DEF SecInv
  <2>5. sec'.access = sec.access /\ sec.published \subseteq sec'.published /\ saved' = saved
    BY SecStaysIs DEF SecInv, RowsUnchanged
  <2>6. InHand(x)' /\ LookedUp(x)' /\ (~x.stale => SweepGoesWell(x)')
    BY <2>4, <2>5, OthersKeep
  <2>7. Good(x)'
    BY <2>4, <2>5, <2>6 DEF Good, AccessIsKnown
  <2>8. x.step = "insert" => LockFree(f)
    BY <2>2 DEF SecInv, LockFree
  <2> QED BY <2>3, <2>7, <2>8, SourceSteps
<1> QED BY <1>1, <1>2

-----------------------------------------------------------------------------
(* The SEC.                                                                *)

LEMMA SecStarts == SecInit => SecInv
<1> SUFFICES ASSUME SecInit PROVE SecInv
  OBVIOUS
<1>1. SecTypes
  BY DEF SecInit, SecTypes, FetcherType
<1>2. \A f \in Fetcher :
        fetcher[f] = [step |-> "idle", control |-> "unknown", stale |-> FALSE, errand |-> NoErrand]
  BY DEF SecInit
<1>3. ASSUME NEW f \in Fetcher
      PROVE  InHand(fetcher[f]) /\ LookedUp(fetcher[f]) /\ AccessIsKnown(fetcher[f]) /\ SweepGoesWell(fetcher[f])
  BY <1>1, <1>2 DEF InHand, LookedUp, AccessIsKnown, SweepGoesWell, SecTypes
<1>4. saved = {} /\ promised = {} /\ computed = {}
  BY DEF SecInit
<1> QED BY <1>1, <1>2, <1>3, <1>4 DEF SecInv, FiledOnce

LEMMA OutsideKeeps ==
  ASSUME SecInv, Midnight \/ (\E d \in 1 .. LastDate : PublishIndex(d)) \/ RegainAccess
  PROVE  SecInv'
<1>1. fetcher' = fetcher /\ saved' = saved /\ promised' = promised /\ computed' = computed
  BY DEF Midnight, PublishIndex, RegainAccess, RowsUnchanged
<1>2. sec.published \subseteq sec'.published /\ (sec.access => sec'.access) /\ SecTypes'
  <2>1. CASE Midnight
    BY <1>1, <2>1 DEF Midnight, SecInv, SecTypes
  <2>2. CASE \E d \in 1 .. LastDate : PublishIndex(d)
    <3>1. PICK d \in 1 .. LastDate : sec' = [sec EXCEPT !.published = @ \cup {d}]
      BY <2>2 DEF PublishIndex
    <3>2. d \in Nat
      BY SecAssumption
    <3> QED BY <1>1, <3>1, <3>2 DEF SecInv, SecTypes
  <2>3. CASE RegainAccess
    BY <1>1, <2>3 DEF RegainAccess, SecInv, SecTypes
  <2> QED BY <2>1, <2>2, <2>3
<1>3. ASSUME NEW f \in Fetcher
      PROVE  /\ InHand(fetcher[f])' /\ LookedUp(fetcher[f])' /\ AccessIsKnown(fetcher[f])'
             /\ ~fetcher[f].stale => SweepGoesWell(fetcher[f])'
  <2>1. PICK x : x = fetcher[f]
    OBVIOUS
  <2>2. InHand(x) /\ LookedUp(x) /\ AccessIsKnown(x) /\ (~x.stale => SweepGoesWell(x))
    BY <2>1 DEF SecInv
  <2>3. InHand(x)' /\ LookedUp(x)' /\ (~x.stale => SweepGoesWell(x)')
    BY <1>1, <1>2, <2>2, OthersKeep
  <2>4. AccessIsKnown(x)'
    BY <1>2, <2>2 DEF AccessIsKnown
  <2> QED BY <1>1, <2>1, <2>3, <2>4
<1>4. StoredKeys' = StoredKeys /\ FiledOnce'
  BY <1>1 DEF StoredKeys, FiledOnce, SecInv
<1> QED BY <1>1, <1>2, <1>3, <1>4 DEF SecInv

(* Access that is lost makes a proof of it stale.                          *)
LEMMA LoseAccessKeeps ==
  ASSUME SecInv, LoseAccess
  PROVE  SecInv'
<1>1. saved' = saved /\ promised' = promised /\ computed' = computed
      /\ sec' = [sec EXCEPT !.access = FALSE, !.blocks = @ + 1]
  BY DEF LoseAccess, RowsUnchanged
<1>2. ASSUME NEW f \in Fetcher
      PROVE  /\ fetcher'[f] \in FetcherType
             /\ fetcher'[f] = [fetcher[f] EXCEPT !.stale = @ \/ fetcher[f].control = "proved"]
  <2>1. fetcher[f] \in FetcherType
    BY DEF SecInv, SecTypes
  <2>2. fetcher'[f] = [fetcher[f] EXCEPT !.stale = @ \/ fetcher[f].control = "proved"]
    BY DEF LoseAccess
  <2>3. PICK stale \in BOOLEAN : stale = (fetcher[f].stale \/ fetcher[f].control = "proved")
    OBVIOUS
  <2>4. fetcher'[f] = [fetcher[f] EXCEPT !.stale = stale]
    BY <2>1, <2>2, <2>3 DEF FetcherType
  <2> QED BY <2>1, <2>2, <2>4 DEF FetcherType
<1>3. SecTypes' /\ sec'.published = sec.published /\ ~sec'.access
  <2>1. fetcher' \in [Fetcher -> FetcherType]
    <3>1. DOMAIN fetcher' = Fetcher /\ fetcher' = [g \in Fetcher |-> fetcher'[g]]
      BY DEF LoseAccess
    <3> QED BY <1>2, <3>1
  <2>2. PICK one : one = [sec EXCEPT !.access = FALSE]
    OBVIOUS
  <2>3. one \in [date : Nat \ {0}, published : SUBSET Nat, access : BOOLEAN, blocks : Nat, generation : Nat]
        /\ one.published = sec.published /\ one.access = FALSE
    BY <2>2 DEF SecInv, SecTypes
  <2>4. sec' = [one EXCEPT !.blocks = @ + 1]
    BY <1>1, <2>2
  <2> QED BY <2>1, <2>3, <2>4 DEF SecTypes
<1>4. ASSUME NEW f \in Fetcher
      PROVE  /\ InHand(fetcher[f])' /\ LookedUp(fetcher[f])' /\ AccessIsKnown(fetcher[f])'
             /\ ~fetcher'[f].stale => SweepGoesWell(fetcher[f])'
  <2>1. PICK x, y : x = fetcher[f] /\ y = fetcher'[f]
    OBVIOUS
  <2>2. InHand(x) /\ LookedUp(x) /\ AccessIsKnown(x) /\ (~x.stale => SweepGoesWell(x))
    BY <2>1 DEF SecInv
  <2>3. InHand(x)' /\ LookedUp(x)' /\ (~x.stale => SweepGoesWell(x)')
    BY <1>1, <1>3, <2>2, OthersKeep
  <2>4. /\ y.step = x.step /\ y.errand = x.errand /\ y.control = x.control /\ y \in FetcherType
        /\ ~y.stale => ~x.stale /\ x.control # "proved"
    BY <1>2, <2>1, <2>2 DEF InHand, FetcherType
  <2>5. InHand(y)' /\ LookedUp(y)' /\ (~y.stale => SweepGoesWell(y)')
    BY <2>3, <2>4 DEF InHand, LookedUp, SweepGoesWell
  <2>6. AccessIsKnown(y)'
    BY <2>4 DEF AccessIsKnown
  <2> QED BY <2>1, <2>5, <2>6
<1>5. \A f, g \in Fetcher : fetcher'[f].step = "insert" /\ fetcher'[g].step = "insert" => f = g
  <2>1. ASSUME NEW f \in Fetcher PROVE fetcher'[f].step = fetcher[f].step
    <3>1. fetcher[f] \in FetcherType
      BY DEF SecInv, SecTypes
    <3> QED BY <1>2, <3>1 DEF FetcherType
  <2> QED BY <2>1 DEF SecInv
<1>6. StoredKeys' = StoredKeys /\ FiledOnce'
  BY <1>1 DEF StoredKeys, FiledOnce, SecInv
<1> QED BY <1>1, <1>3, <1>4, <1>5, <1>6 DEF SecInv

-----------------------------------------------------------------------------
(* The sweep.                                                              *)

LEMMA ReopenKeeps ==
  ASSUME SecInv, NEW f \in Fetcher, Reopen(f)
  PROVE  SecInv'
<1>1. PICK x : x = fetcher[f]
  OBVIOUS
<1>2. x \in FetcherType /\ x.step = "idle"
  BY <1>1 DEF Reopen, SecInv, SecTypes
<1>3. PICK one : one = [x EXCEPT !.control = "unknown"]
  OBVIOUS
<1>4. PICK y : y = [one EXCEPT !.stale = FALSE]
  OBVIOUS
<1>5. SourceIs(f, y)
  BY <1>1, <1>3, <1>4 DEF Reopen, SourceIs, SecInv, SecTypes
<1>6. y \in FetcherType /\ y.step = "idle" /\ y.control = "unknown"
  BY <1>2, <1>3, <1>4 DEF FetcherType
<1>7. Good(y)'
  BY <1>6 DEF Good, InHand, LookedUp, AccessIsKnown, SweepGoesWell
<1> QED BY <1>5, <1>6, <1>7, SourceSteps DEF Reopen, SecStays

LEMMA TradeRowsIn == \A g \in Form4Filing : TradeRows(g) \subseteq Rows4
  BY DEF Rows4

LEMMA EntriesIn ==
  ASSUME NEW d
  PROVE  /\ Entries(d) \subseteq Entry4
         /\ \A g \in Form4Filing : g.filed = d => [filing |-> g, cik |-> 1] \in Entries(d)
<1>1. ASSUME NEW e \in Entries(d) PROVE e \in Entry4
  <2>1. PICK g \in Form4Filing : e \in {[filing |-> g, cik |-> c] : c \in 1 .. g.ciks}
    BY DEF Entries
  <2>2. g.ciks \in Nat
    BY SecAssumption
  <2> QED BY <2>1, <2>2 DEF Entry4
<1>2. ASSUME NEW g \in Form4Filing, g.filed = d PROVE [filing |-> g, cik |-> 1] \in Entries(d)
  <2>1. 1 \in 1 .. g.ciks
    BY SecAssumption
  <2>2. [filing |-> g, cik |-> 1] \in {[filing |-> g, cik |-> c] : c \in 1 .. g.ciks}
    BY <2>1
  <2> QED BY <1>2, <2>2 DEF Entries
<1> QED BY <1>1, <1>2

LEMMA StartSweepKeeps ==
  ASSUME SecInv, NEW f \in Fetcher, StartSweep(f)
  PROVE  SecInv'
<1>1. PICK t : t = [kind |-> "sweep", from |-> sec.date, day |-> sec.date, entries |-> {},
                    generation |-> sec.generation + 1, wanted |-> Findable(sec.date), cut |-> FALSE,
                    rows |-> {}, all |-> {}]
  OBVIOUS
<1>2. Move(f, "index", t) /\ SecStays /\ RowsUnchanged
  BY <1>1 DEF StartSweep, SecStays
<1>3. sec.date \in Nat \ {0} /\ sec.generation \in Nat /\ fetcher[f] \in FetcherType
  BY DEF SecInv, SecTypes
<1>4. Findable(sec.date) \subseteq Rows4
  BY TradeRowsIn DEF Findable
<1>5. t \in SweepErrand
  BY <1>1, <1>3, <1>4 DEF SweepErrand
<1>6. PICK x : x = [step |-> "index", control |-> fetcher[f].control, stale |-> fetcher[f].stale, errand |-> t]
  OBVIOUS
<1>7. x \in FetcherType /\ x.step = "index" /\ x.errand = t
  BY <1>3, <1>5, <1>6 DEF FetcherType
<1>8. t.day \in Window(t.from) /\ \A d \in Window(t.from) : d <= t.day
  BY <1>1, <1>3, SecAssumption DEF Window
<1>9. InHand(x)
  BY <1>5, <1>7, <1>8 DEF InHand
<1>10. SweepGoesWell(x)'
  <2>1. ASSUME NEW r \in t.wanted
        PROVE  \E g \in Form4Filing :
                 /\ r \in TradeRows(g) /\ g.officer /\ g.filed \in Window(t.from) \cap sec'.published
                 /\ g.filed > t.day => Entries(g.filed) \subseteq t.entries
    <3>1. PICK g \in Form4Filing : r \in TradeRows(g) /\ g.officer /\ g.filed \in Window(sec.date) \cap sec.published
      BY <1>1 DEF Findable
    <3>2. t.from = sec.date /\ sec'.published = sec.published
      BY <1>1, <1>2, SecStaysIs DEF SecInv
    <3>3. g.filed \in Nat /\ g.filed <= t.day /\ t.day \in Nat
      BY <1>1, <1>3, <1>8, <3>1, <3>2, SecAssumption
    <3> QED BY <3>1, <3>2, <3>3
  <2> QED BY <1>7, <2>1 DEF SweepGoesWell
<1> QED BY <1>2, <1>6, <1>9, <1>10, MoveKeeps

(* What is known of access when a 403 is taken for an index that does not  *)
(* exist.                                                                  *)
LEMMA TrustIsEarned ==
  ASSUME SecInv, NEW f \in Fetcher, Trusts403(f), ~fetcher[f].stale
  PROVE  sec.access
<1>1. AccessIsKnown(fetcher[f]) /\ fetcher[f] \in FetcherType
  BY DEF SecInv, SecTypes
<1>2. CASE fetcher[f].control = "unknown"
  BY <1>2 DEF Trusts403, Reachable
<1>3. CASE fetcher[f].control = "proved"
  BY <1>1, <1>3 DEF AccessIsKnown
<1> QED BY <1>2, <1>3 DEF Trusts403

LEMMA WindowIs ==
  ASSUME NEW from \in Nat
  PROVE  \A d \in Window(from) : d \in Nat \ {0} /\ from - DAYS_BACK < d /\ d <= from
  BY SecAssumption DEF Window

(* The day is behind the sweep: its index is read, or did not exist.       *)
LEMMA GoesOn ==
  ASSUME SecInv, NEW f \in Fetcher, fetcher[f].step = "index", NEW entries \in SUBSET Entry4,
         NEW control \in {"proved", "failed", "unknown"}, GoOn(f, entries, control), UNCHANGED sec, RowsUnchanged,
         control = "proved" /\ ~fetcher[f].stale => sec.access,
         ~fetcher[f].stale /\ fetcher[f].errand.day \in sec.published => Entries(fetcher[f].errand.day) \subseteq entries
  PROVE  SecInv'
<1>1. PICK x : x = fetcher[f]
  OBVIOUS
<1>2. PICK t : t = x.errand
  OBVIOUS
<1>3. /\ x \in FetcherType /\ x.step = "index" /\ t \in SweepErrand /\ t.day \in Window(t.from)
      /\ ~x.stale => SweepGoesWell(x)
  BY <1>1, <1>2 DEF SecInv, InHand
<1>4. t.day \in Nat \ {0} /\ t.from \in Nat /\ t.from - DAYS_BACK < t.day /\ t.day <= t.from
  BY <1>3, WindowIs DEF SweepErrand
<1>5. PICK next : next = IF t.day - 1 \in Window(t.from) THEN "index" ELSE "filings"
  OBVIOUS
<1>6. PICK u : u = [t EXCEPT !.day = @ - 1, !.entries = @ \cup entries]
  OBVIOUS
<1>7. PICK later : later = [t EXCEPT !.day = @ - 1]
  OBVIOUS
<1>8. later \in SweepErrand /\ later.day = t.day - 1 /\ later.entries = t.entries /\ later.wanted = t.wanted
      /\ later.from = t.from
  BY <1>3, <1>4, <1>7 DEF SweepErrand
<1>9. u = [later EXCEPT !.entries = @ \cup entries]
  BY <1>6, <1>7
<1>10. /\ u \in SweepErrand /\ u.day = t.day - 1 /\ u.entries = t.entries \cup entries /\ u.wanted = t.wanted
       /\ u.from = t.from
  BY <1>8, <1>9 DEF SweepErrand
<1>11. PICK y : y = [x EXCEPT !.step = next, !.control = control, !.errand = u]
  OBVIOUS
<1>12. y \in FetcherType /\ y.step = next /\ y.control = control /\ y.errand = u /\ y.stale = x.stale
  <2>1. PICK one : one = [x EXCEPT !.step = next]
    OBVIOUS
  <2>2. PICK two : two = [one EXCEPT !.control = control]
    OBVIOUS
  <2>3. y = [two EXCEPT !.errand = u]
    BY <1>11, <2>1, <2>2
  <2>4. one \in FetcherType /\ one.step = next /\ one.stale = x.stale
    BY <1>3, <1>5, <2>1 DEF FetcherType
  <2>5. two \in FetcherType /\ two.step = next /\ two.stale = x.stale /\ two.control = control
    BY <2>2, <2>4 DEF FetcherType
  <2> QED BY <1>10, <2>3, <2>5 DEF FetcherType
<1>13. SourceIs(f, y)
  BY <1>1, <1>2, <1>5, <1>6, <1>11 DEF GoOn, SourceIs
<1>14. next = "index" => u.day \in Window(u.from)
  BY <1>5, <1>10
<1>15. next \in {"index", "filings"}
  BY <1>5
<1>16. InHand(y)
  BY <1>10, <1>12, <1>14, <1>15 DEF InHand
<1>17. ASSUME ~x.stale, NEW r \in t.wanted
       PROVE  \E g \in Form4Filing :
                /\ r \in TradeRows(g) /\ g.officer /\ g.filed \in Window(t.from) \cap sec.published
                /\ g.filed > t.day - 1 => Entries(g.filed) \subseteq u.entries
  <2>1. PICK g \in Form4Filing :
          /\ r \in TradeRows(g) /\ g.officer /\ g.filed \in Window(t.from) \cap sec.published
          /\ g.filed > t.day => Entries(g.filed) \subseteq t.entries
    BY <1>2, <1>3, <1>17 DEF SweepGoesWell
  <2>2. CASE g.filed > t.day
    BY <1>10, <2>1, <2>2
  <2>3. CASE g.filed = t.day
    BY <1>1, <1>2, <1>10, <1>17, <2>1, <2>3
  <2>4. g.filed \in Nat
    BY SecAssumption
  <2> QED BY <1>4, <2>1, <2>2, <2>3, <2>4
<1>18. ASSUME ~x.stale, next = "filings", NEW r \in t.wanted
       PROVE  \E e \in u.entries : e.filing.officer /\ r \in TradeRows(e.filing)
  <2>1. PICK g \in Form4Filing :
          /\ r \in TradeRows(g) /\ g.officer /\ g.filed \in Window(t.from) \cap sec.published
          /\ g.filed > t.day - 1 => Entries(g.filed) \subseteq u.entries
    BY <1>17, <1>18
  <2>2. t.day - 1 \notin Window(t.from)
    BY <1>5, <1>18
  <2>3. g.filed \in Nat \ {0} /\ t.from - DAYS_BACK < g.filed
    BY <1>4, <2>1, WindowIs
  <2>4. g.filed > t.day - 1
    <3>1. CASE t.day - 1 = 0
      BY <2>3, <3>1
    <3>2. CASE t.day - 1 # 0
      <4>1. ~(t.day - 1 \in t.from - DAYS_BACK + 1 .. t.from)
        BY <1>4, <2>2, <3>2 DEF Window
      <4> QED BY <1>4, <2>3, <4>1, SecAssumption
    <3> QED BY <3>1, <3>2
  <2>5. [filing |-> g, cik |-> 1] \in u.entries
    BY <2>1, <2>4, EntriesIn
  <2> QED BY <2>1, <2>5
<1>19. ~y.stale => SweepGoesWell(y)'
  <2>1. sec' = sec /\ y.step \in {"index", "filings"}
    BY <1>12, <1>15
  <2> QED BY <1>10, <1>12, <1>17, <1>18, <2>1 DEF SweepGoesWell
<1>20. Good(y)'
  <2>1. InHand(y)' /\ LookedUp(y)'
    BY <1>12, <1>15, <1>16 DEF InHand, LookedUp
  <2>2. AccessIsKnown(y)'
    BY <1>1, <1>12 DEF AccessIsKnown
  <2> QED BY <1>19, <2>1, <2>2 DEF Good
<1> QED BY <1>12, <1>13, <1>15, <1>20, SourceSteps DEF SecStays

LEMMA RequestIndexKeeps ==
  ASSUME SecInv, NEW f \in Fetcher, RequestIndex(f)
  PROVE  SecInv'
<1>1. PICK t : t = fetcher[f].errand
  OBVIOUS
<1>2. fetcher[f].step = "index" /\ UNCHANGED sec /\ RowsUnchanged /\ fetcher[f] \in FetcherType
      /\ AccessIsKnown(fetcher[f])
  BY DEF RequestIndex, SecInv, SecTypes
<1>3. fetcher[f].control \in {"unknown", "proved", "failed"}
  BY <1>2 DEF FetcherType
<1>4. CASE sec.access /\ t.day \in sec.published /\ GoOn(f, Entries(t.day), fetcher[f].control)
  BY <1>1, <1>2, <1>3, <1>4, EntriesIn, GoesOn
<1>5. CASE sec.access /\ t.day \notin sec.published /\ GoOn(f, {}, fetcher[f].control)
  BY <1>1, <1>2, <1>3, <1>5, GoesOn
<1>6. CASE (~sec.access \/ t.day \notin sec.published) /\ Trusts403(f) /\ GoOn(f, {}, Controlled(f))
  <2>1. ~fetcher[f].stale => sec.access
    BY <1>6, TrustIsEarned
  <2>2. Controlled(f) = "proved"
    BY <1>6 DEF Controlled
  <2>3. GoOn(f, {}, "proved")
    BY <1>6, <2>2
  <2> QED BY <1>1, <1>2, <1>6, <2>1, <2>3, GoesOn
<1>7. CASE ~Trusts403(f) /\ fetcher' = [fetcher EXCEPT ![f].step = "idle", ![f].control = Controlled(f), ![f].errand = NoErrand]
  <2>1. PICK x : x = fetcher[f]
    OBVIOUS
  <2>2. PICK one : one = [x EXCEPT !.step = "idle"]
    OBVIOUS
  <2>3. PICK two : two = [one EXCEPT !.control = "failed"]
    OBVIOUS
  <2>4. PICK y : y = [two EXCEPT !.errand = NoErrand]
    OBVIOUS
  <2>5. Controlled(f) = "failed"
    BY <1>7 DEF Controlled
  <2>6. fetcher \in [Fetcher -> FetcherType]
    BY DEF SecInv, SecTypes
  <2>7. SourceIs(f, y)
    BY <1>7, <2>1, <2>2, <2>3, <2>4, <2>5, <2>6 DEF SourceIs
  <2>8. one \in FetcherType /\ one.step = "idle"
    BY <1>2, <2>1, <2>2 DEF FetcherType
  <2>9. two \in FetcherType /\ two.step = "idle" /\ two.control = "failed"
    BY <2>3, <2>8 DEF FetcherType
  <2>10. y \in FetcherType /\ y.step = "idle" /\ y.control = "failed"
    BY <2>4, <2>9 DEF FetcherType
  <2>11. Good(y)'
    BY <2>10 DEF Good, InHand, LookedUp, AccessIsKnown, SweepGoesWell
  <2> QED BY <1>2, <2>7, <2>10, <2>11, SourceSteps DEF SecStays
<1> QED BY <1>1, <1>4, <1>5, <1>6, <1>7 DEF RequestIndex

LEMMA FetchFilingsKeeps ==
  ASSUME SecInv, NEW f \in Fetcher, FetchFilings(f)
  PROVE  SecInv'
<1>1. PICK t : t = fetcher[f].errand
  OBVIOUS
<1>2. /\ fetcher[f].step = "filings" /\ UNCHANGED sec /\ RowsUnchanged /\ fetcher[f] \in FetcherType
      /\ t \in SweepErrand /\ (~fetcher[f].stale => SweepGoesWell(fetcher[f]))
  BY <1>1 DEF FetchFilings, SecInv, SecTypes, InHand
<1>3. CASE GiveUp(f)
  <2>1. PICK x : x = [step |-> "idle", control |-> fetcher[f].control, stale |-> fetcher[f].stale, errand |-> NoErrand]
    OBVIOUS
  <2>2. x \in FetcherType /\ x.step = "idle"
    BY <1>2, <2>1 DEF FetcherType
  <2>3. InHand(x) /\ SweepGoesWell(x)'
    BY <2>2 DEF InHand, SweepGoesWell
  <2> QED BY <1>2, <1>3, <2>1, <2>3, MoveKeeps DEF GiveUp, SecStays
<1>4. CASE \E chosen \in SUBSET t.entries :
             Move(f, "save", [t EXCEPT !.rows = UNION {TradeRows(e.filing) : e \in {c \in chosen : c.filing.officer}},
                                       !.cut = chosen # t.entries])
  <2>1. PICK chosen \in SUBSET t.entries :
             Move(f, "save", [t EXCEPT !.rows = UNION {TradeRows(e.filing) : e \in {c \in chosen : c.filing.officer}},
                                       !.cut = chosen # t.entries])
    BY <1>4
  <2>2. PICK rows : rows = UNION {TradeRows(e.filing) : e \in {c \in chosen : c.filing.officer}}
    OBVIOUS
  <2>3. PICK cut \in BOOLEAN : cut = (chosen # t.entries)
    OBVIOUS
  <2>4. t.entries \subseteq Entry4
    BY <1>2 DEF SweepErrand
  <2>5. rows \subseteq Rows4
    <3> SUFFICES ASSUME NEW r \in rows PROVE r \in Rows4
      OBVIOUS
    <3>1. PICK e \in chosen : r \in TradeRows(e.filing)
      BY <2>2
    <3>2. e.filing \in Form4Filing
      BY <2>4, <3>1 DEF Entry4
    <3> QED BY <3>1, <3>2, TradeRowsIn
  <2>6. PICK one : one = [t EXCEPT !.rows = rows]
    OBVIOUS
  <2>7. PICK u : u = [one EXCEPT !.cut = cut]
    OBVIOUS
  <2>8. one \in SweepErrand /\ one.rows = rows /\ one.wanted = t.wanted
    BY <1>2, <2>5, <2>6 DEF SweepErrand
  <2>9. u \in SweepErrand /\ u.rows = rows /\ u.wanted = t.wanted /\ u.cut = cut /\ u.kind = "sweep"
    BY <2>7, <2>8 DEF SweepErrand
  <2>10. Move(f, "save", u)
    BY <2>1, <2>2, <2>3, <2>6, <2>7
  <2>11. PICK x : x = [step |-> "save", control |-> fetcher[f].control, stale |-> fetcher[f].stale, errand |-> u]
    OBVIOUS
  <2>12. x \in FetcherType /\ x.step = "save" /\ x.errand = u /\ x.stale = fetcher[f].stale
    BY <1>2, <2>9, <2>11 DEF FetcherType
  <2>13. DistinctRows(rows)
    BY <2>5, TradesAreNamed DEF DistinctRows
  <2>14. InHand(x)
    BY <2>9, <2>12, <2>13 DEF InHand
  <2>15. ASSUME ~x.stale, ~cut, NEW r \in t.wanted PROVE r \in rows
    <3>1. PICK e \in t.entries : e.filing.officer /\ r \in TradeRows(e.filing)
      BY <1>1, <1>2, <2>12, <2>15 DEF SweepGoesWell
    <3>2. e \in chosen
      BY <2>3, <2>15, <3>1
    <3> QED BY <2>2, <3>1, <3>2
  <2>16. ~x.stale => SweepGoesWell(x)'
    BY <2>9, <2>12, <2>15 DEF SweepGoesWell
  <2> QED BY <1>2, <2>10, <2>11, <2>14, <2>16, MoveKeeps DEF SecStays
<1> QED BY <1>1, <1>3, <1>4 DEF FetchFilings

-----------------------------------------------------------------------------
(* The filings of an issuer and of a manager.                              *)

(* What is saved as it was found.                                          *)
LEMMA FoundKeeps ==
  ASSUME SecInv, NEW f \in Fetcher, NEW t \in OtherErrand, Move(f, "save", t), DistinctRows(t.rows),
         t.kind = "snapshot" => \A r \in t.rows : HeldRow(r), SecStays, RowsUnchanged
  PROVE  SecInv'
<1>1. PICK x : x = [step |-> "save", control |-> fetcher[f].control, stale |-> fetcher[f].stale, errand |-> t]
  OBVIOUS
<1>2. fetcher[f] \in FetcherType
  BY DEF SecInv, SecTypes
<1>3. x \in FetcherType /\ x.step = "save" /\ x.errand = t /\ t.kind # "sweep"
  BY <1>1, <1>2 DEF FetcherType, OtherErrand
<1>4. InHand(x) /\ SweepGoesWell(x)'
  BY <1>3 DEF InHand, SweepGoesWell
<1> QED BY <1>1, <1>4, MoveKeeps

LEMMA FetchTickerKeeps ==
  ASSUME SecInv, NEW f \in Fetcher, NEW issuer, FetchTicker(f, issuer)
  PROVE  SecInv'
<1>1. SecStays /\ RowsUnchanged /\ sec.generation \in Nat
  BY DEF FetchTicker, SecStays, SecInv, SecTypes
<1>2. CASE sec.access
  <2>1. PICK rows : rows = UNION {TradeRows(g) : g \in {h \in Form4Filing : h.issuer = issuer /\ h.filed <= sec.date}}
    OBVIOUS
  <2>2. PICK t : t = [kind |-> "issuer", generation |-> sec.generation + 1, rows |-> rows, all |-> {}]
    OBVIOUS
  <2>3. rows \subseteq Rows4
    BY <2>1, TradeRowsIn
  <2>4. t \in OtherErrand /\ t.rows = rows /\ t.kind = "issuer"
    BY <1>1, <2>2, <2>3 DEF OtherErrand, AnyRow
  <2>5. Move(f, "save", t)
    BY <1>2, <2>1, <2>2 DEF FetchTicker
  <2>6. DistinctRows(rows)
    BY <2>3, TradesAreNamed DEF DistinctRows
  <2> QED BY <1>1, <2>4, <2>5, <2>6, FoundKeeps
<1>3. CASE ~sec.access
  BY <1>1, <1>3, NothingFetched DEF FetchTicker
<1> QED BY <1>2, <1>3

LEMMA LeastOf ==
  ASSUME NEW S \in SUBSET Nat, S # {}
  PROVE  Min(S) \in S /\ \A n \in S : Min(S) <= n
<1> DEFINE R == OpToRel(<, Nat)
<1>1. IsWellFoundedOn(R, Nat)
  BY NatLessThanWellFounded
<1>2. \A x, y \in Nat : x < y => <<x, y>> \in R
  BY DEF OpToRel
<1> HIDE DEF R
<1>3. PICK x \in S : \A y \in S : ~(<<y, x>> \in R)
  BY <1>1, WFMin
<1>4. ASSUME NEW y \in S PROVE x <= y
  <2>1. x \in Nat /\ y \in Nat /\ ~(<<y, x>> \in R)
    BY <1>3
  <2>2. ~(y < x)
    BY <1>2, <2>1
  <2> QED BY <2>1, <2>2
<1> QED BY <1>3, <1>4 DEF Min

LEMMA GreatestOf ==
  ASSUME NEW n \in Nat, NEW S \in SUBSET (0 .. n), S # {}
  PROVE  Max(S) \in S /\ \A m \in S : m <= Max(S)
<1> DEFINE T == {n - m : m \in S}
<1>1. T \in SUBSET Nat /\ T # {}
  <2>1. \A m \in S : m \in Int /\ n - m \in Nat
    OBVIOUS
  <2> QED BY <2>1
<1>2. Min(T) \in T /\ \A k \in T : Min(T) <= k
  BY <1>1, LeastOf
<1>3. PICK x \in S : Min(T) = n - x
  BY <1>2
<1>4. ASSUME NEW m \in S PROVE x >= m
  <2>1. n - m \in T /\ m \in Int /\ x \in Int
    OBVIOUS
  <2>2. n - x <= n - m
    BY <1>2, <1>3, <2>1
  <2> QED BY <2>1, <2>2
<1> QED BY <1>4 DEF Max

LEMMA QuartersKnown ==
  ASSUME SecTypes, Cardinality(Quarters) >= 2
  PROVE  CurrentQuarter \in Quarters /\ PreviousQuarter \in Quarters
<1>1. sec.date \in Nat
  BY DEF SecTypes
<1>2. Quarters \subseteq 0 .. sec.date
  <2> SUFFICES ASSUME NEW q \in Quarters PROVE q \in 0 .. sec.date
    OBVIOUS
  <2>1. PICK h \in Holding13F : q = h.quarter /\ h.filed <= sec.date
    BY DEF Quarters, Known13F
  <2>2. h.quarter \in 0 .. h.filed /\ h.filed \in Nat
    BY SecAssumption
  <2> QED BY <1>1, <2>1, <2>2
<1>3. Quarters # {}
  BY FS_EmptySet
<1>4. CurrentQuarter \in Quarters
  BY <1>1, <1>2, <1>3, GreatestOf DEF CurrentQuarter
<1>5. Quarters \ {CurrentQuarter} # {}
  <2>1. ASSUME Quarters \ {CurrentQuarter} = {} PROVE FALSE
    <3>1. Quarters = {CurrentQuarter}
      BY <1>4, <2>1
    <3>2. Cardinality({CurrentQuarter}) = 1
      BY FS_Singleton
    <3> QED BY <3>1, <3>2
  <2> QED BY <2>1
<1>6. Quarters \ {CurrentQuarter} \in SUBSET (0 .. sec.date)
  BY <1>2
<1>7. PreviousQuarter \in Quarters \ {CurrentQuarter}
  BY <1>1, <1>5, <1>6, GreatestOf DEF PreviousQuarter
<1> QED BY <1>4, <1>7

LEMMA FilingIsKnown ==
  ASSUME SecTypes, NEW q \in Quarters
  PROVE  FilingOf(q) \in Holding13F
<1>1. sec.date \in Nat
  BY DEF SecTypes
<1>2. PICK times : times = {h.filed : h \in {o \in Known13F : o.quarter = q}}
  OBVIOUS
<1>3. times # {}
  BY <1>2 DEF Quarters
<1>4. times \in SUBSET (0 .. sec.date)
  <2> SUFFICES ASSUME NEW m \in times PROVE m \in 0 .. sec.date
    OBVIOUS
  <2>1. PICK h \in Holding13F : m = h.filed /\ h.filed <= sec.date
    BY <1>2 DEF Known13F
  <2>2. h.filed \in Nat
    BY SecAssumption
  <2> QED BY <1>1, <2>1, <2>2
<1>5. Max(times) \in times /\ \A m \in times : m <= Max(times)
  BY <1>1, <1>3, <1>4, GreatestOf
<1>6. PICK h \in Known13F : h.quarter = q /\ h.filed = Max(times)
  BY <1>2, <1>5
<1>7. ASSUME NEW o \in Known13F, o.quarter = q PROVE h.filed >= o.filed
  <2>1. o.filed \in times
    BY <1>2, <1>7
  <2>2. o.filed <= Max(times) /\ o.filed \in 0 .. sec.date /\ Max(times) \in 0 .. sec.date
    BY <1>4, <1>5, <2>1
  <2> QED BY <1>6, <2>2
<1>8. FilingOf(q) \in Known13F
  BY <1>6, <1>7 DEF FilingOf
<1> QED BY <1>8 DEF Known13F

LEMMA Fetch13FKeeps ==
  ASSUME SecInv, NEW f \in Fetcher, NEW discover \in BOOLEAN, Fetch13F(f, discover)
  PROVE  SecInv'
<1>1. SecStays /\ RowsUnchanged /\ sec.generation \in Nat
  BY DEF Fetch13F, SecStays, SecInv, SecTypes
<1>2. CASE sec.access /\ Cardinality(Quarters) >= 2
  <2>1. PICK current, previous : current = FilingOf(CurrentQuarter) /\ previous = FilingOf(PreviousQuarter)
    OBVIOUS
  <2>2. current \in Holding13F /\ previous \in Holding13F
    BY <1>2, <2>1, QuartersKnown, FilingIsKnown DEF SecInv
  <2>3. CASE discover
    <3>1. PICK rows : rows = IncreaseRows(current, previous)
      OBVIOUS
    <3>2. PICK t : t = [kind |-> "increases", generation |-> sec.generation + 1, rows |-> rows, all |-> {}]
      OBVIOUS
    <3>3. rows \subseteq Increases
      BY <2>2, <3>1 DEF Increases
    <3>4. rows \subseteq AnyRow
      BY <3>3 DEF Rows13, AnyRow
    <3>5. t \in OtherErrand /\ t.rows = rows /\ t.kind = "increases"
      BY <1>1, <3>2, <3>4 DEF OtherErrand
    <3>6. Move(f, "save", t)
      BY <1>2, <2>1, <2>3, <3>1, <3>2 DEF Fetch13F
    <3>7. DistinctRows(rows)
      BY <3>1, DistinctInOneFiling
    <3> QED BY <1>1, <3>5, <3>6, <3>7, FoundKeeps
  <2>4. CASE ~discover
    <3>1. PICK rows : rows = SnapshotRows(current, previous)
      OBVIOUS
    <3>2. PICK t : t = [kind |-> "snapshot", generation |-> sec.generation + 1, rows |-> rows, all |-> {}]
      OBVIOUS
    <3>3. rows \subseteq Snapshots
      BY <2>2, <3>1 DEF Snapshots
    <3>4. rows \subseteq AnyRow /\ rows \subseteq Rows13
      BY <3>3 DEF Rows13, AnyRow
    <3>5. t \in OtherErrand /\ t.rows = rows
      BY <1>1, <3>2, <3>4 DEF OtherErrand
    <3>6. Move(f, "save", t)
      BY <1>2, <2>1, <2>4, <3>1, <3>2 DEF Fetch13F
    <3>7. DistinctRows(rows)
      BY <3>1, DistinctInOneFiling
    <3>8. \A r \in rows : HeldRow(r)
      BY <3>1, <3>4, PositionRowIs DEF HeldRow
    <3> QED BY <1>1, <3>5, <3>6, <3>7, <3>8, FoundKeeps
  <2> QED BY <2>3, <2>4
<1>3. CASE ~(sec.access /\ Cardinality(Quarters) >= 2)
  BY <1>1, <1>3, NothingFetched DEF Fetch13F
<1> QED BY <1>2, <1>3

-----------------------------------------------------------------------------
(* Lookup and insertion.                                                   *)

LEMMA LookUpKeeps ==
  ASSUME SecInv, NEW f \in Fetcher, LookUp(f)
  PROVE  SecInv'
<1>1. PICK t : t = fetcher[f].errand
  OBVIOUS
<1>2. PICK u : u = [t EXCEPT !.rows = NotStored(t.rows), !.all = t.rows]
  OBVIOUS
<1>3. /\ fetcher[f].step = "save" /\ LockFree(f) /\ UNCHANGED sec /\ RowsUnchanged /\ fetcher[f] \in FetcherType
      /\ t \in SweepErrand \cup OtherErrand /\ DistinctRows(t.rows)
      /\ t.kind = "snapshot" => \A r \in t.rows : HeldRow(r)
      /\ ~fetcher[f].stale => SweepGoesWell(fetcher[f])
      /\ AccessIsKnown(fetcher[f])
  BY <1>1 DEF LookUp, SecInv, SecTypes, InHand
<1>4. PICK one : one = [t EXCEPT !.rows = NotStored(t.rows)]
  OBVIOUS
<1>5. u = [one EXCEPT !.all = t.rows]
  BY <1>2, <1>4
<1>6. NotStored(t.rows) \subseteq t.rows
  BY DEF NotStored
<1>7. /\ u \in SweepErrand \cup OtherErrand /\ u.rows = NotStored(t.rows) /\ u.all = t.rows /\ u.kind = t.kind
      /\ t.kind = "sweep" => u.wanted = t.wanted /\ u.cut = t.cut
  <2>1. CASE t \in SweepErrand
    <3>1. one \in SweepErrand /\ one.rows = NotStored(t.rows) /\ one.wanted = t.wanted /\ one.cut = t.cut
      BY <1>4, <1>6, <2>1 DEF SweepErrand
    <3>2. t.rows \subseteq Rows4 /\ t.kind = "sweep"
      BY <2>1 DEF SweepErrand
    <3>3. u \in SweepErrand /\ u.rows = one.rows /\ u.wanted = t.wanted /\ u.cut = t.cut /\ u.all = t.rows
      BY <1>5, <3>1, <3>2 DEF SweepErrand
    <3>4. u.kind = "sweep"
      BY <3>3 DEF SweepErrand
    <3> QED BY <3>1, <3>2, <3>3, <3>4
  <2>2. CASE t \in OtherErrand
    <3>1. one \in OtherErrand /\ one.rows = NotStored(t.rows) /\ one.kind = t.kind
      BY <1>4, <1>6, <2>2 DEF OtherErrand
    <3>2. t.rows \subseteq AnyRow /\ t.kind # "sweep"
      BY <2>2 DEF OtherErrand
    <3>3. u \in OtherErrand /\ u.rows = one.rows /\ u.all = t.rows /\ u.kind = t.kind
      BY <1>5, <3>1, <3>2 DEF OtherErrand
    <3> QED BY <3>1, <3>2, <3>3
  <2> QED BY <1>3, <2>1, <2>2
<1>8. Move(f, "insert", u)
  BY <1>1, <1>2 DEF LookUp
<1>9. PICK x : x = [step |-> "insert", control |-> fetcher[f].control, stale |-> fetcher[f].stale, errand |-> u]
  OBVIOUS
<1>10. SourceIs(f, x)
  BY <1>8, <1>9, Moved DEF SecInv, SourceIs
<1>11. x \in FetcherType /\ x.step = "insert" /\ x.errand = u /\ x.stale = fetcher[f].stale /\ x.control = fetcher[f].control
  BY <1>3, <1>7, <1>9 DEF FetcherType
<1>12. InHand(x)'
  <2>1. DistinctRows(u.rows)
    BY <1>3, <1>6, <1>7 DEF DistinctRows
  <2> QED BY <1>3, <1>7, <1>11, <2>1 DEF InHand
<1>13. LookedUp(x)'
  <2>1. saved' = saved
    BY <1>3 DEF RowsUnchanged
  <2>2. \A r \in u.rows : Key(r) \notin StoredKeys
    BY <1>7 DEF NotStored, StoredKeys
  <2>3. \A r \in u.all : r \in u.rows \/ Key(r) \in StoredKeys
    BY <1>7 DEF NotStored, StoredKeys
  <2>4. StoredKeys' = StoredKeys
    BY <2>1 DEF StoredKeys
  <2> QED BY <1>11, <2>2, <2>3, <2>4 DEF LookedUp
<1>14. AccessIsKnown(x)'
  BY <1>3, <1>11 DEF AccessIsKnown
<1>15. ~x.stale => SweepGoesWell(x)'
  BY <1>1, <1>3, <1>7, <1>11 DEF SweepGoesWell
<1>16. Good(x)'
  BY <1>12, <1>13, <1>14, <1>15 DEF Good
<1> QED BY <1>3, <1>10, <1>16, SourceSteps DEF SecStays

StoredAs(r, n) == [source |-> r.source, record |-> r.record, row |-> r.row, body |-> r.body, generation |-> n]

LEMMA StoredIs ==
  ASSUME NEW n
  PROVE  \A r \in AnyRow : Key(StoredAs(r, n)) = Key(r) /\ Bare(StoredAs(r, n)) = r
<1> SUFFICES ASSUME NEW r \in AnyRow PROVE Key(StoredAs(r, n)) = Key(r) /\ Bare(StoredAs(r, n)) = r
  OBVIOUS
<1>1. PICK s : s = StoredAs(r, n)
  OBVIOUS
<1>2. s.source = r.source /\ s.record = r.record /\ s.row = r.row /\ s.body = r.body
  BY <1>1 DEF StoredAs
<1>3. Key(s) = Key(r)
  BY <1>2, KeyIs
<1>4. \E source, g, n1, body : r = Row(source, g, n1, body)
  <2>1. CASE r \in Rows4
    <3>1. PICK g \in Form4Filing : r \in TradeRows(g)
      BY <2>1 DEF Rows4
    <3> QED BY <3>1, TradeRowIs DEF TradeRow
  <2>2. CASE r \in Snapshots
    <3>1. PICK a \in Holding13F, b \in Holding13F : r \in SnapshotRows(a, b)
      BY <2>2 DEF Snapshots
    <3>2. PICK body : body = [held |-> SharesOf(a, r.row), change |-> SharesOf(a, r.row) - SharesOf(b, r.row)]
      OBVIOUS
    <3>3. r = Row("13f", a, r.row, body)
      BY <3>1, <3>2, PositionRowIs DEF PositionRow
    <3> QED BY <3>3
  <2>3. CASE r \in Increases
    <3>1. PICK a \in Holding13F, b \in Holding13F : r \in IncreaseRows(a, b)
      BY <2>3 DEF Increases
    <3>2. PICK body : body = [added |-> SharesOf(a, r.row) - SharesOf(b, r.row)]
      OBVIOUS
    <3>3. r = Row("13f", a, r.row, body)
      BY <3>1, <3>2, IncreaseRowIs DEF IncreaseRow
    <3> QED BY <3>3
  <2> QED BY <2>1, <2>2, <2>3 DEF AnyRow, Rows13
<1>5. r = [source |-> r.source, record |-> r.record, row |-> r.row, body |-> r.body]
  BY <1>4 DEF Row
<1>6. Bare(s) = [source |-> r.source, record |-> r.record, row |-> r.row, body |-> r.body]
  BY <1>2 DEF Bare
<1> QED BY <1>1, <1>3, <1>5, <1>6

LEMMA InsertKeeps ==
  ASSUME SecInv, NEW f \in Fetcher, Insert(f)
  PROVE  SecInv'
<1>1. PICK t, n : t = fetcher[f].errand /\ n = t.generation
  OBVIOUS
<1>2. PICK fresh : fresh = {StoredAs(r, n) : r \in t.rows}
  OBVIOUS
<1>3. /\ fetcher[f].step = "insert" /\ UNCHANGED sec /\ GiveUp(f) /\ fetcher[f] \in FetcherType
      /\ saved' = saved \cup fresh
      /\ promised' = IF t.kind = "sweep" /\ ~t.cut /\ ~fetcher[f].stale THEN promised \cup {Key(r) : r \in t.wanted}
                     ELSE promised
      /\ computed' = IF t.kind = "snapshot" THEN computed \cup t.all ELSE computed
  BY <1>1, <1>2 DEF Insert, SecInv, SecTypes, StoredAs
<1>4. /\ t \in SweepErrand \cup OtherErrand /\ DistinctRows(t.rows)
      /\ t.kind = "snapshot" => \A r \in t.all : HeldRow(r)
      /\ ~fetcher[f].stale /\ t.kind = "sweep" /\ ~t.cut => t.wanted \subseteq t.all
      /\ \A r \in t.rows : Key(r) \notin StoredKeys
      /\ \A r \in t.all : r \in t.rows \/ Key(r) \in StoredKeys
  BY <1>1, <1>3 DEF SecInv, InHand, LookedUp, SweepGoesWell
<1>5. t.rows \subseteq AnyRow
  BY <1>4 DEF SweepErrand, OtherErrand, AnyRow
<1>6. \A s \in fresh : \E r \in t.rows : s = StoredAs(r, n) /\ Key(s) = Key(r) /\ Bare(s) = r
  BY <1>2, <1>5, StoredIs
<1>7. \A r \in t.rows : Key(r) \in StoredKeys'
  <2> SUFFICES ASSUME NEW r \in t.rows PROVE Key(r) \in StoredKeys'
    OBVIOUS
  <2>1. StoredAs(r, n) \in saved' /\ Key(StoredAs(r, n)) = Key(r)
    BY <1>2, <1>3, <1>5, StoredIs
  <2> QED BY <2>1 DEF StoredKeys
<1>8. StoredKeys \subseteq StoredKeys'
  BY <1>3 DEF StoredKeys
<1>9. \A r \in t.all : Key(r) \in StoredKeys'
  BY <1>4, <1>7, <1>8
<1>10. FiledOnce'
  <2> SUFFICES ASSUME NEW s \in saved', NEW o \in saved', Key(s) = Key(o) PROVE s = o
    BY DEF FiledOnce
  <2>1. CASE s \in saved /\ o \in saved
    BY <2>1 DEF SecInv, FiledOnce
  <2>2. CASE s \in fresh /\ o \in saved
    BY <1>4, <1>6, <2>2 DEF StoredKeys
  <2>3. CASE s \in saved /\ o \in fresh
    BY <1>4, <1>6, <2>3 DEF StoredKeys
  <2>4. CASE s \in fresh /\ o \in fresh
    <3>1. PICK r \in t.rows : s = StoredAs(r, n) /\ Key(s) = Key(r)
      BY <1>6, <2>4
    <3>2. PICK q \in t.rows : o = StoredAs(q, n) /\ Key(o) = Key(q)
      BY <1>6, <2>4
    <3>3. r = q
      BY <1>4, <3>1, <3>2 DEF DistinctRows
    <3> QED BY <3>1, <3>2, <3>3
  <2> QED BY <1>3, <2>1, <2>2, <2>3, <2>4
<1>11. \A s \in saved' : Bare(s) \in AnyRow
  BY <1>3, <1>5, <1>6 DEF SecInv
<1>12. promised' \subseteq StoredKeys'
  <2>1. promised \subseteq StoredKeys'
    BY <1>8 DEF SecInv
  <2>2. CASE t.kind = "sweep" /\ ~t.cut /\ ~fetcher[f].stale
    BY <1>3, <1>4, <1>9, <2>1, <2>2
  <2>3. CASE ~(t.kind = "sweep" /\ ~t.cut /\ ~fetcher[f].stale)
    BY <1>3, <2>1, <2>3
  <2> QED BY <2>2, <2>3
<1>13. \A r \in computed' : HeldRow(r) /\ Key(r) \in StoredKeys'
  <2>1. \A r \in computed : HeldRow(r) /\ Key(r) \in StoredKeys'
    BY <1>8 DEF SecInv
  <2>2. CASE t.kind = "snapshot"
    BY <1>3, <1>4, <1>9, <2>1, <2>2
  <2>3. CASE t.kind # "snapshot"
    BY <1>3, <2>1, <2>3
  <2> QED BY <2>2, <2>3
<1>14. PICK x : x = [step |-> "idle", control |-> fetcher[f].control, stale |-> fetcher[f].stale, errand |-> NoErrand]
  OBVIOUS
<1>15. x \in FetcherType /\ x.step = "idle" /\ x.control = fetcher[f].control /\ x.stale = fetcher[f].stale
  BY <1>3, <1>14 DEF FetcherType
<1>16. fetcher' = [fetcher EXCEPT ![f] = x]
  BY <1>3, <1>14, Moved DEF GiveUp, SecInv
<1>17. fetcher'[f] = x /\ \A g \in Fetcher \ {f} : fetcher'[g] = fetcher[g]
  BY <1>16 DEF SecInv, SecTypes
<1>18. SecTypes'
  BY <1>3, <1>15, <1>16 DEF SecInv, SecTypes
<1>19. ASSUME NEW g \in Fetcher
       PROVE  /\ InHand(fetcher[g])' /\ LookedUp(fetcher[g])' /\ AccessIsKnown(fetcher[g])'
              /\ ~fetcher'[g].stale => SweepGoesWell(fetcher[g])'
  <2>1. CASE g = f
    <3>1. AccessIsKnown(fetcher[f])
      BY DEF SecInv
    <3>2. AccessIsKnown(x)'
      BY <1>3, <1>15, <3>1 DEF AccessIsKnown
    <3>3. InHand(x)' /\ LookedUp(x)' /\ SweepGoesWell(x)'
      BY <1>15 DEF InHand, LookedUp, SweepGoesWell
    <3> QED BY <1>17, <2>1, <3>2, <3>3
  <2>2. CASE g # f
    <3>1. PICK y : y = fetcher[g]
      OBVIOUS
    <3>2. fetcher'[g] = y
      BY <1>17, <2>2, <3>1
    <3>3. /\ InHand(y) /\ LookedUp(y) /\ AccessIsKnown(y) /\ (~y.stale => SweepGoesWell(y))
          /\ y.step # "insert"
      BY <1>3, <2>2, <3>1 DEF SecInv
    <3>4. InHand(y)' /\ LookedUp(y)' /\ (~y.stale => SweepGoesWell(y)')
      BY <1>3, <3>3, OthersKeep
    <3>5. AccessIsKnown(y)'
      BY <1>3, <3>3 DEF AccessIsKnown
    <3> QED BY <3>2, <3>4, <3>5
  <2> QED BY <2>1, <2>2
<1>20. \A g, h \in Fetcher : fetcher'[g].step = "insert" /\ fetcher'[h].step = "insert" => g = h
  BY <1>15, <1>17 DEF SecInv
<1> QED BY <1>10, <1>11, <1>12, <1>13, <1>18, <1>19, <1>20 DEF SecInv

-----------------------------------------------------------------------------
(* All of it.                                                              *)

LEMMA SecSteps == SecInv /\ [SecNext]_secVars => SecInv'
<1> SUFFICES ASSUME SecInv, [SecNext]_secVars PROVE SecInv'
  OBVIOUS
<1>1. CASE Midnight \/ (\E d \in 1 .. LastDate : PublishIndex(d)) \/ RegainAccess
  BY <1>1, OutsideKeeps
<1>2. CASE LoseAccess
  BY <1>2, LoseAccessKeeps
<1>3. ASSUME NEW f \in Fetcher,
             \/ Reopen(f) \/ StartSweep(f) \/ RequestIndex(f) \/ FetchFilings(f) \/ LookUp(f) \/ Insert(f)
             \/ (\E issuer \in {g.issuer : g \in Form4Filing} : FetchTicker(f, issuer))
             \/ (\E discover \in BOOLEAN : Fetch13F(f, discover))
      PROVE  SecInv'
  <2>1. CASE Reopen(f)
    BY <2>1, ReopenKeeps
  <2>2. CASE StartSweep(f)
    BY <2>2, StartSweepKeeps
  <2>3. CASE RequestIndex(f)
    BY <2>3, RequestIndexKeeps
  <2>4. CASE FetchFilings(f)
    BY <2>4, FetchFilingsKeeps
  <2>5. CASE LookUp(f)
    BY <2>5, LookUpKeeps
  <2>6. CASE Insert(f)
    BY <2>6, InsertKeeps
  <2>7. CASE \E issuer \in {g.issuer : g \in Form4Filing} : FetchTicker(f, issuer)
    BY <2>7, FetchTickerKeeps
  <2>8. CASE \E discover \in BOOLEAN : Fetch13F(f, discover)
    BY <2>8, Fetch13FKeeps
  <2> QED BY <1>3, <2>1, <2>2, <2>3, <2>4, <2>5, <2>6, <2>7, <2>8
<1>4. CASE UNCHANGED secVars
  <2>1. UNCHANGED fetcher /\ SecStays /\ RowsUnchanged
    BY <1>4 DEF secVars, SecStays, RowsUnchanged
  <2> QED BY <2>1, NothingFetched
<1> QED BY <1>1, <1>2, <1>3, <1>4 DEF SecNext

(* Whatever is filed, whenever access is lost and however the sources      *)
(* interleave, each row of a filing is stored once, a sweep that ends well *)
(* below its limit has stored what it was to find, and the positions a     *)
(* refresh computed are those of the filing they name (form4.py,           *)
(* form13f.py, transaction_repository.py).                                 *)
THEOREM FilingsAreSound == SecSpec => []SecIsSound
<1>1. SecInit => SecInv
  BY SecStarts
<1>2. SecInv /\ [SecNext]_secVars => SecInv'
  BY SecSteps
<1>3. SecInv => SecIsSound
  BY InvIsEnough
<1> QED BY <1>1, <1>2, <1>3, PTL DEF SecSpec

-----------------------------------------------------------------------------
(* Capitol Trades.                                                         *)

Announced == [state : {"seen"}, total : Nat, pages : Nat]
Retained ==
  [state : {"retained"}, records : SUBSET Trade, raw : Seq(Trade), total : Nat, filtered : Int,
   steady : SUBSET Trade, withdrawn : BOOLEAN]
Written == [state : {"written"}, name : Output, content : Retained]
Readers ==
  [step : {"idle", "read", "select", "link"}, page : Nat, meta : Announced \union {Nothing}, got : Seq(Trade),
   retained : Retained \union {Nothing}, temporary : Written \union {Nothing},
   steady : SUBSET Trade, withdrawn : BOOLEAN]

CapitolTypeOK ==
  /\ listed \in Seq(Trade)
  /\ reader \in [Process -> Readers]
  /\ linked \subseteq Output \X Retained

(* The part of the list that a reader has yet to read.                     *)
Below(list, read) == {list[i] : i \in read + 1 .. Len(list)}

(* A page that is not the last is full, so what a reader has is as long as *)
(* the pages it passed; and what stays listed is read or is below them, as *)
(* long as the list only grows.                                            *)
ReadInOrder(r) ==
  r.step = "read" =>
    /\ r.page >= 1 /\ Len(r.got) = (r.page - 1) * PER_PAGE
    /\ ~Repeated(r.got)
    /\ ~r.withdrawn => r.steady \subseteq ToSet(r.got) \union Below(listed, Len(r.got))

ReadWhole(r) ==
  r.step = "select" =>
    /\ r.meta \in Announced /\ Len(r.got) = r.meta.total
    /\ ~Repeated(r.got)
    /\ ~r.withdrawn => r.steady \subseteq ToSet(r.got)

(* A result as it may be retained and written.                             *)
IsExact(c) ==
  /\ Len(c.raw) = c.total /\ ~Repeated(c.raw)
  /\ c.records = Emitted(c.raw) /\ c.filtered = c.total - Cardinality(c.records)
  /\ ~c.withdrawn => c.steady \subseteq ToSet(c.raw)

ReaderIsSound(r) ==
  /\ ReadInOrder(r) /\ ReadWhole(r)
  /\ r.retained # Nothing => IsExact(r.retained)
  /\ r.temporary # Nothing => IsExact(r.temporary.content)
  /\ r.step = "link" => r.temporary # Nothing

CapitolInv ==
  /\ CapitolTypeOK
  /\ \A p \in Process : ReaderIsSound(reader[p])
  /\ \A f \in linked : IsExact(f[2])
  /\ FilesAreWrittenOnce

LEMMA NothingIsNoRecord == Nothing \notin Announced /\ Nothing \notin Retained /\ Nothing \notin Written
  BY DEF Nothing, Announced, Retained, Written

LEMMA RestingIsSound == Resting \in Readers /\ ReaderIsSound(Resting)
  <1>1. Resting \in Readers
    BY DEF Resting, Readers
  <1>2. /\ Resting.step = "idle" /\ Resting.retained = Nothing /\ Resting.temporary = Nothing
    BY DEF Resting
  <1> QED BY <1>1, <1>2 DEF ReaderIsSound, ReadInOrder, ReadWhole

(* A list that gets a trade keeps the others, at their place or below.     *)
LEMMA ListingPushesDown ==
  ASSUME NEW list \in Seq(Trade), NEW i \in 1 .. Len(list) + 1, NEW t \in Trade, NEW read \in Nat
  PROVE  /\ InsertAt(list, i, t) \in Seq(Trade)
         /\ Below(list, read) \subseteq Below(InsertAt(list, i, t), read)
  <1> DEFINE new == InsertAt(list, i, t)
             before == SubSeq(list, 1, i - 1)
             after == SubSeq(list, i, Len(list))
  <1>1. /\ before \in Seq(Trade) /\ Len(before) = i - 1
        /\ \A k \in 1 .. i - 1 : before[k] = list[k]
    BY SubSeqProperties
  <1>2. /\ after \in Seq(Trade) /\ Len(after) = Len(list) - i + 1
        /\ \A k \in 1 .. Len(list) - i + 1 : after[k] = list[i + k - 1]
    BY SubSeqProperties
  <1>3. new = (before \o <<t>>) \o after
    BY DEF InsertAt
  <1> HIDE DEF before, after, new
  <1>4. /\ before \o <<t>> \in Seq(Trade) /\ Len(before \o <<t>>) = i
        /\ \A k \in 1 .. i - 1 : (before \o <<t>>)[k] = list[k]
    BY <1>1
  <1>5. /\ new \in Seq(Trade) /\ Len(new) = Len(list) + 1
        /\ \A k \in 1 .. Len(list) + 1 : new[k] = IF k <= i THEN (before \o <<t>>)[k] ELSE after[k - i]
    <2>1. PICK first \in Seq(Trade) : first = before \o <<t>> /\ Len(first) = i
      BY <1>4
    <2>2. new = first \o after
      BY <1>3, <2>1
    <2>3. /\ first \o after \in Seq(Trade) /\ Len(first \o after) = i + Len(after)
          /\ \A k \in 1 .. i + Len(after) : (first \o after)[k] = IF k <= i THEN first[k] ELSE after[k - i]
      BY <1>2, <2>1, ConcatProperties
    <2>4. i + Len(after) = Len(list) + 1
      BY <1>2
    <2> QED BY <2>1, <2>2, <2>3, <2>4
  <1>6. ASSUME NEW k \in read + 1 .. Len(list) PROVE list[k] \in Below(new, read)
    <2>1. CASE k < i
      <3>1. new[k] = list[k] /\ k \in read + 1 .. Len(new)
        BY <1>4, <1>5, <2>1
      <3> QED BY <3>1 DEF Below
    <2>2. CASE k >= i
      <3>1. k + 1 - i \in 1 .. Len(list) - i + 1 /\ i + (k + 1 - i) - 1 = k
        BY <2>2
      <3>2. after[k + 1 - i] = list[k]
        BY <1>2, <3>1
      <3>3. k + 1 \in read + 1 .. Len(new) /\ k + 1 \in 1 .. Len(list) + 1 /\ ~(k + 1 <= i)
        BY <1>5, <2>2
      <3>4. new[k + 1] = list[k]
        BY <1>5, <3>2, <3>3
      <3> QED BY <3>3, <3>4 DEF Below
    <2> QED BY <2>1, <2>2
  <1> QED BY <1>5, <1>6 DEF Below, new

LEMMA WithdrawingKeepsType ==
  ASSUME NEW list \in Seq(Trade), NEW i \in DOMAIN list
  PROVE  RemoveAt(list, i) \in Seq(Trade)
  <1>1. SubSeq(list, 1, i - 1) \in Seq(Trade) /\ SubSeq(list, i + 1, Len(list)) \in Seq(Trade)
    OBVIOUS
  <1> QED BY <1>1 DEF RemoveAt

(* The list changes under the readers.                                     *)
LEMMA ChangesKeepReaders ==
  ASSUME CapitolInv, NEW list \in Seq(Trade), NEW withdrawn \in BOOLEAN, ChangeTo(list, withdrawn),
         ~withdrawn => \A read \in Nat : Below(listed, read) \subseteq Below(list, read)
  PROVE  CapitolInv'
  <1>1. listed' = list /\ linked' = linked
    BY DEF ChangeTo
  <1>2. ASSUME NEW p \in Process
        PROVE  reader'[p] \in Readers /\ ReaderIsSound(reader[p])'
    <2>1. PICK r \in Readers : r = reader[p]
      BY DEF CapitolInv, CapitolTypeOK
    <2>2. PICK one : one = [r EXCEPT !.steady = r.steady \cap ToSet(list)]
      OBVIOUS
    <2>3. PICK two : two = [one EXCEPT !.withdrawn = r.withdrawn \/ withdrawn]
      OBVIOUS
    <2>4. /\ one \in Readers /\ one.withdrawn = r.withdrawn
          /\ one.step = r.step /\ one.page = r.page /\ one.meta = r.meta /\ one.got = r.got
          /\ one.retained = r.retained /\ one.temporary = r.temporary /\ one.steady \subseteq r.steady
      BY <2>2 DEF Readers
    <2>5. /\ two \in Readers /\ two.withdrawn = (r.withdrawn \/ withdrawn)
          /\ two.step = r.step /\ two.page = r.page /\ two.meta = r.meta /\ two.got = r.got
          /\ two.retained = r.retained /\ two.temporary = r.temporary /\ two.steady \subseteq r.steady
      BY <2>3, <2>4 DEF Readers
    <2>6. reader'[p] = two
      BY <2>1, <2>2, <2>3 DEF ChangeTo, Stays
    <2>7. ReaderIsSound(r) /\ Len(r.got) \in Nat
      BY <2>1 DEF CapitolInv, Readers
    <2>8. ASSUME r.step = "read", ~two.withdrawn
          PROVE  two.steady \subseteq ToSet(two.got) \union Below(list, Len(two.got))
      BY <2>5, <2>7, <2>8 DEF ReaderIsSound, ReadInOrder
    <2>9. ReadInOrder(two)'
      BY <1>1, <2>5, <2>7, <2>8 DEF ReaderIsSound, ReadInOrder
    <2>10. ReadWhole(two)
      BY <2>5, <2>7 DEF ReaderIsSound, ReadWhole
    <2>11. ReaderIsSound(two)'
      BY <2>5, <2>7, <2>9, <2>10 DEF ReaderIsSound, ReadWhole
    <2> QED BY <2>5, <2>6, <2>11
  <1>3. reader' \in [Process -> Readers]
    BY <1>2 DEF ChangeTo
  <1> QED BY <1>1, <1>2, <1>3 DEF CapitolInv, CapitolTypeOK, FilesAreWrittenOnce, ReaderIsSound

(* One reader moves, over a list that stays.                               *)
LEMMA ReaderMoves ==
  ASSUME CapitolInv, NEW p \in Process, NEW e \in Readers, ReaderIsSound(e),
         reader' = [reader EXCEPT ![p] = e], listed' = listed
  PROVE  /\ reader' \in [Process -> Readers]
         /\ \A q \in Process : ReaderIsSound(reader[q])'
  <1>1. \A q \in Process : reader'[q] = IF q = p THEN e ELSE reader[q]
    BY DEF CapitolInv, CapitolTypeOK
  <1>2. reader' \in [Process -> Readers]
    BY DEF CapitolInv, CapitolTypeOK
  <1> QED BY <1>1, <1>2 DEF CapitolInv, ReaderIsSound, ReadInOrder, ReadWhole

LEMMA ReaderMovesAlone ==
  ASSUME CapitolInv, NEW p \in Process, NEW e \in Readers, ReaderIsSound(e),
         reader' = [reader EXCEPT ![p] = e], listed' = listed, linked' = linked
  PROVE  CapitolInv'
  <1>1. /\ reader' \in [Process -> Readers]
        /\ \A q \in Process : ReaderIsSound(reader[q])'
    BY ReaderMoves
  <1> QED BY <1>1 DEF CapitolInv, CapitolTypeOK, FilesAreWrittenOnce

(* A page that is taken: what was read grows by it.                        *)
LEMMA PagesAreFull ==
  ASSUME listed \in Seq(Trade), NEW n \in Nat \ {0}, n <= Meta.pages, CapitolAssumption
  PROVE  /\ Meta \in Announced /\ Meta.total = Len(listed)
         /\ PageOf(n) \in Seq(Trade)
         /\ \A i \in 1 .. Len(PageOf(n)) : PageOf(n)[i] = listed[(n - 1) * PER_PAGE + i]
         /\ n # Meta.pages => /\ Len(PageOf(n)) = PER_PAGE
                              /\ n * PER_PAGE = (n - 1) * PER_PAGE + PER_PAGE
                              /\ n * PER_PAGE < Len(listed)
  <1> DEFINE all == Len(listed)
             begin == (n - 1) * PER_PAGE
             end == IF n * PER_PAGE < all THEN n * PER_PAGE ELSE all
  <1>1. /\ all \in Nat /\ PER_PAGE \in Nat \ {0} /\ begin \in Nat /\ n * PER_PAGE \in Nat
        /\ n * PER_PAGE = begin + PER_PAGE
    BY CapitolAssumption
  <1>2. Meta.pages = (IF listed = <<>> THEN 1 ELSE (all + PER_PAGE - 1) \div PER_PAGE) /\ Meta.total = all
    BY DEF Meta
  <1>3. (all + PER_PAGE - 1) \div PER_PAGE \in Nat
        /\ ((all + PER_PAGE - 1) \div PER_PAGE) * PER_PAGE <= all + PER_PAGE - 1
    BY <1>1
  <1>4. Meta \in Announced
    BY <1>1, <1>2, <1>3 DEF Meta, Announced
  <1> HIDE DEF all, begin
  <1>5. end \in Nat /\ end <= all
    BY <1>1
  <1>6. \A i \in begin + 1 .. end : listed[i] \in Trade
    BY <1>1, <1>5 DEF all
  <1>7. /\ SubSeq(listed, begin + 1, end) \in Seq(Trade)
        /\ Len(SubSeq(listed, begin + 1, end)) = IF begin + 1 <= end THEN end - (begin + 1) + 1 ELSE 0
        /\ \A i \in 1 .. end - (begin + 1) + 1 : SubSeq(listed, begin + 1, end)[i] = listed[begin + 1 + i - 1]
    <2>1. begin + 1 \in Int /\ end \in Int
      BY <1>1, <1>5
    <2> HIDE DEF end
    <2> QED BY <1>6, <2>1, SubSeqProperties
  <1>8. PageOf(n) = SubSeq(listed, begin + 1, end)
    BY DEF PageOf, begin, all
  <1>9. ASSUME n # Meta.pages PROVE n * PER_PAGE < all
    <2>1. listed # <<>>
      BY <1>2, <1>9
    <2>2. PICK q \in Nat : q = (all + PER_PAGE - 1) \div PER_PAGE
      BY <1>3
    <2>3. n + 1 <= q /\ q * PER_PAGE <= all + PER_PAGE - 1
      BY <1>2, <1>3, <1>9, <2>1, <2>2
    <2>4. (n + 1) * PER_PAGE <= q * PER_PAGE
      BY <1>1, <2>3
    <2>5. (n + 1) * PER_PAGE = n * PER_PAGE + PER_PAGE
      BY <1>1
    <2>6. q * PER_PAGE \in Nat
      BY <1>1
    <2> QED BY <1>1, <2>3, <2>4, <2>5, <2>6
  <1>10. ASSUME n # Meta.pages PROVE Len(PageOf(n)) = PER_PAGE
    BY <1>1, <1>7, <1>8, <1>9, <1>10
  <1>11. \A i \in 1 .. Len(PageOf(n)) : PageOf(n)[i] = listed[begin + i]
    <2>1. ASSUME NEW i \in 1 .. Len(PageOf(n)) PROVE PageOf(n)[i] = listed[begin + i]
      <3>1. PICK m \in Nat : m = begin + i
        BY <1>1, <1>7, <1>8
      <3>2. i \in 1 .. end - (begin + 1) + 1 /\ begin + 1 + i - 1 = m
        BY <1>1, <1>5, <1>7, <1>8, <3>1
      <3>3. PageOf(n)[i] = listed[m]
        BY <1>7, <1>8, <3>2
      <3> QED BY <3>1, <3>3
    <2> QED BY <2>1
  <1> QED BY <1>1, <1>2, <1>4, <1>7, <1>8, <1>9, <1>10, <1>11 DEF begin, all

(* A fetch reads every page of one length of the list.                     *)
LEMMA PagesAreRead ==
  ASSUME CapitolInv, CapitolAssumption, NEW p \in Process, ReadPage(p)
  PROVE  CapitolInv'
  <1>1. PICK r \in Readers : r = reader[p]
    BY DEF CapitolInv, CapitolTypeOK
  <1>2. PICK trades : trades = r.got \o PageOf(r.page)
    OBVIOUS
  <1>3. PICK n \in Nat \ {0} : n = r.page
    BY <1>1 DEF ReadPage, CapitolInv, ReaderIsSound, ReadInOrder, Readers
  <1>4. /\ listed \in Seq(Trade) /\ r.step = "read" /\ listed' = listed /\ linked' = linked
        /\ r.got \in Seq(Trade) /\ Len(r.got) = (n - 1) * PER_PAGE /\ (n - 1) * PER_PAGE \in Nat
        /\ ~r.withdrawn => r.steady \subseteq ToSet(r.got) \union Below(listed, Len(r.got))
    <2>1. listed \in Seq(Trade) /\ r.step = "read" /\ listed' = listed /\ linked' = linked /\ r.got \in Seq(Trade)
      BY <1>1 DEF ReadPage, CapitolInv, CapitolTypeOK, Readers
    <2>2. ReadInOrder(r)
      BY <1>1 DEF CapitolInv, ReaderIsSound
    <2>3. Len(r.got) \in Nat
      BY <2>1
    <2> QED BY <1>3, <2>1, <2>2, <2>3 DEF ReadInOrder
  <1>5. CASE Refuse(p)
    BY <1>4, <1>5, RestingIsSound, ReaderMovesAlone DEF Refuse
  <1>6. CASE ~Refuse(p)
    <2>1. /\ n <= Meta.pages /\ ~Repeated(trades) /\ (n = Meta.pages => Len(trades) = Meta.total)
          /\ reader' = [reader EXCEPT ![p].page = @ + 1, ![p].meta = Meta, ![p].got = trades,
                                      ![p].step = IF r.page = Meta.pages THEN "select" ELSE "read"]
      <3>1. Meta.pages \in Nat
        BY <1>4, CapitolAssumption DEF Meta
      <3>2. ~(\/ r.page > Meta.pages \/ (r.meta # Nothing /\ r.meta # Meta) \/ Repeated(trades)
              \/ (r.page = Meta.pages /\ Len(trades) # Meta.total))
        BY <1>1, <1>2, <1>6 DEF ReadPage
      <3>3. reader' = [reader EXCEPT ![p].page = @ + 1, ![p].meta = Meta, ![p].got = trades,
                                    ![p].step = IF r.page = Meta.pages THEN "select" ELSE "read"]
        BY <1>1, <1>2, <1>6, <3>2 DEF ReadPage
      <3> QED BY <1>3, <3>1, <3>2, <3>3
    <2>2. /\ Meta \in Announced /\ Meta.total = Len(listed) /\ PageOf(n) \in Seq(Trade)
          /\ \A i \in 1 .. Len(PageOf(n)) : PageOf(n)[i] = listed[(n - 1) * PER_PAGE + i]
          /\ n # Meta.pages => /\ Len(PageOf(n)) = PER_PAGE
                               /\ n * PER_PAGE = (n - 1) * PER_PAGE + PER_PAGE
                               /\ n * PER_PAGE < Len(listed)
      BY <1>4, <2>1, PagesAreFull
    <2>3. /\ trades \in Seq(Trade) /\ Len(trades) = (n - 1) * PER_PAGE + Len(PageOf(n))
          /\ \A i \in 1 .. Len(r.got) : trades[i] = r.got[i]
          /\ \A i \in 1 .. Len(PageOf(n)) : trades[(n - 1) * PER_PAGE + i] = PageOf(n)[i]
      <3>1. trades = r.got \o PageOf(n)
        BY <1>2, <1>3
      <3>2. /\ trades \in Seq(Trade) /\ Len(trades) = Len(r.got) + Len(PageOf(n))
            /\ \A i \in 1 .. Len(r.got) + Len(PageOf(n)) : trades[i] =
                  IF i <= Len(r.got) THEN r.got[i] ELSE PageOf(n)[i - Len(r.got)]
        <4>1. PICK page \in Seq(Trade) : page = PageOf(n)
          BY <2>2
        <4>2. PICK old \in Seq(Trade) : old = r.got
          BY <1>4
        <4>3. /\ old \o page \in Seq(Trade) /\ Len(old \o page) = Len(old) + Len(page)
              /\ \A i \in 1 .. Len(old) + Len(page) : (old \o page)[i] =
                    IF i <= Len(old) THEN old[i] ELSE page[i - Len(old)]
          BY ConcatProperties
        <4> QED BY <3>1, <4>1, <4>2, <4>3
      <3>3. Len(PageOf(n)) \in Nat /\ Len(r.got) \in Nat
        BY <1>4, <2>2
      <3>4. ASSUME NEW i \in 1 .. Len(r.got) PROVE trades[i] = r.got[i]
        BY <3>2, <3>3
      <3>5. ASSUME NEW i \in 1 .. Len(PageOf(n)) PROVE trades[Len(r.got) + i] = PageOf(n)[i]
        <4>1. PICK passed \in Nat : passed = Len(r.got)
          BY <3>3
        <4>2. PICK k \in Nat : k = passed + i
          BY <3>3, <4>1
        <4>3. k \in 1 .. Len(r.got) + Len(PageOf(n)) /\ ~(k <= Len(r.got)) /\ k - Len(r.got) = i
          BY <3>3, <4>1, <4>2
        <4>4. trades[k] = PageOf(n)[i]
          BY <3>2, <4>3
        <4> QED BY <4>1, <4>2, <4>4
      <3> QED BY <1>4, <3>2, <3>4, <3>5
    <2>4. PICK read \in Nat : read = (n - 1) * PER_PAGE
      BY <1>4
    <2>5. PICK size \in Nat : size = Len(PageOf(n))
      BY <2>2
    <2>6. ToSet(r.got) \subseteq ToSet(trades)
      <3>1. \A i \in DOMAIN r.got : i \in DOMAIN trades /\ trades[i] = r.got[i]
        BY <1>4, <2>3, <2>4, <2>5
      <3> QED BY <3>1 DEF ToSet
    <2>7. ASSUME NEW i \in read + 1 .. Len(listed), i <= Len(trades) PROVE listed[i] \in ToSet(trades)
      <3>1. i - read \in 1 .. size /\ read + (i - read) = i /\ i \in DOMAIN trades
        BY <2>3, <2>4, <2>5, <2>7
      <3> QED BY <2>2, <2>3, <2>4, <2>5, <3>1 DEF ToSet
    <2>8. Below(listed, read) \subseteq ToSet(trades) \union Below(listed, Len(trades))
      <3>1. Len(trades) \in Nat /\ Len(listed) \in Nat
        BY <1>4, <2>3
      <3>2. ASSUME NEW i \in read + 1 .. Len(listed), ~(i <= Len(trades)) PROVE listed[i] \in Below(listed, Len(trades))
        BY <3>1, <3>2 DEF Below
      <3> QED BY <2>7, <3>2 DEF Below
    <2>9. ~r.withdrawn => r.steady \subseteq ToSet(trades) \union Below(listed, Len(trades))
      BY <1>4, <2>4, <2>6, <2>8
    <2>10. PICK step \in {"read", "select"} : step = IF n = Meta.pages THEN "select" ELSE "read"
      OBVIOUS
    <2>11. PICK one : one = [r EXCEPT !.page = n + 1]
      OBVIOUS
    <2>12. PICK two : two = [one EXCEPT !.meta = Meta]
      OBVIOUS
    <2>13. PICK three : three = [two EXCEPT !.got = trades]
      OBVIOUS
    <2>14. PICK four : four = [three EXCEPT !.step = step]
      OBVIOUS
    <2>15. /\ one \in Readers /\ one.page = n + 1 /\ one.withdrawn = r.withdrawn /\ one.steady = r.steady
           /\ one.retained = r.retained /\ one.temporary = r.temporary
      <3>1. n + 1 \in Nat
        OBVIOUS
      <3> QED BY <2>11, <3>1 DEF Readers
    <2>16. /\ two \in Readers /\ two.meta = Meta
           /\ two.page = n + 1 /\ two.withdrawn = r.withdrawn /\ two.steady = r.steady
           /\ two.retained = r.retained /\ two.temporary = r.temporary
      BY <2>2, <2>12, <2>15 DEF Readers
    <2>17. /\ three \in Readers /\ three.got = trades /\ three.meta = Meta
           /\ three.page = n + 1 /\ three.withdrawn = r.withdrawn /\ three.steady = r.steady
           /\ three.retained = r.retained /\ three.temporary = r.temporary
      BY <2>3, <2>13, <2>16 DEF Readers
    <2>18. /\ four \in Readers /\ four.step = step /\ four.got = trades /\ four.meta = Meta
           /\ four.page = n + 1 /\ four.withdrawn = r.withdrawn /\ four.steady = r.steady
           /\ four.retained = r.retained /\ four.temporary = r.temporary
      BY <2>10, <2>14, <2>17 DEF Readers
    <2>19. reader' = [reader EXCEPT ![p] = four]
      BY <1>1, <1>3, <2>1, <2>10, <2>11, <2>12, <2>13, <2>14 DEF CapitolInv, CapitolTypeOK
    <2>20. ASSUME n # Meta.pages PROVE Len(trades) = ((n + 1) - 1) * PER_PAGE
      <3>1. (n + 1) - 1 = n
        OBVIOUS
      <3> QED BY <2>2, <2>3, <2>20, <3>1
    <2>21. ReadInOrder(four)
      BY <2>1, <2>9, <2>10, <2>18, <2>20 DEF ReadInOrder
    <2>22. ReadWhole(four)
      <3>1. ASSUME n = Meta.pages PROVE Below(listed, Len(trades)) = {}
        BY <1>4, <2>1, <2>2, <3>1 DEF Below
      <3> QED BY <2>1, <2>2, <2>9, <2>10, <2>18, <3>1 DEF ReadWhole
    <2>23. ReaderIsSound(r)
      BY <1>1 DEF CapitolInv
    <2>24. ReaderIsSound(four)
      BY <2>10, <2>18, <2>21, <2>22, <2>23 DEF ReaderIsSound
    <2> QED BY <1>4, <2>18, <2>19, <2>24, ReaderMovesAlone
  <1> QED BY <1>5, <1>6

(* What is retained has each trade once.                                   *)
LEMMA TradesAreDistinct ==
  ASSUME NEW trades \in Seq(Trade), ~Repeated(trades)
  PROVE  /\ Cardinality({<<t.hasId, t.key>> : t \in ToSet(trades)}) = Len(trades)
         /\ IsFiniteSet(ToSet(trades)) /\ Cardinality(ToSet(trades)) = Len(trades)
  <1> DEFINE identity == [i \in 1 .. Len(trades) |-> <<trades[i].hasId, trades[i].key>>]
             place == [i \in 1 .. Len(trades) |-> trades[i]]
             keys == {<<t.hasId, t.key>> : t \in ToSet(trades)}
  <1>1. /\ IsFiniteSet(1 .. Len(trades)) /\ Cardinality(1 .. Len(trades)) = Len(trades)
        /\ Len(trades) \in Nat /\ DOMAIN trades = 1 .. Len(trades)
    <2>1. Len(trades) \in Nat /\ DOMAIN trades = 1 .. Len(trades)
      OBVIOUS
    <2> QED BY <2>1, FS_Interval
  <1>2. ASSUME NEW i \in 1 .. Len(trades), NEW j \in 1 .. Len(trades), i # j
        PROVE  trades[i].hasId # trades[j].hasId \/ trades[i].key # trades[j].key
    <2>1. i < j \/ j < i
      BY <1>2
    <2> QED BY <1>1, <2>1 DEF Repeated
  <1>3. identity \in Bijection(1 .. Len(trades), keys)
    <2>1. ASSUME NEW i \in 1 .. Len(trades) PROVE identity[i] \in keys
      BY <1>1 DEF ToSet
    <2>2. identity \in [1 .. Len(trades) -> keys]
      BY <2>1
    <2>3. \A i, j \in 1 .. Len(trades) : identity[i] = identity[j] => i = j
      BY <1>2
    <2>4. ASSUME NEW k \in keys PROVE \E i \in 1 .. Len(trades) : identity[i] = k
      BY <1>1 DEF ToSet
    <2> HIDE DEF identity, keys
    <2> QED BY <2>2, <2>3, <2>4 DEF Bijection, Injection, IsInjective, Surjection
  <1>4. place \in Bijection(1 .. Len(trades), ToSet(trades))
    <2>1. place \in [1 .. Len(trades) -> ToSet(trades)]
      BY <1>1 DEF ToSet
    <2>2. \A i, j \in 1 .. Len(trades) : place[i] = place[j] => i = j
      BY <1>2
    <2>3. \A t \in ToSet(trades) : \E i \in 1 .. Len(trades) : place[i] = t
      BY <1>1 DEF ToSet
    <2> HIDE DEF place
    <2> QED BY <2>1, <2>2, <2>3 DEF Bijection, Injection, IsInjective, Surjection
  <1> HIDE DEF identity, place, keys
  <1>5. Cardinality(keys) = Len(trades)
    BY <1>1, <1>3, FS_Bijection DEF ExistsBijection
  <1>6. IsFiniteSet(ToSet(trades)) /\ Cardinality(ToSet(trades)) = Len(trades)
    BY <1>1, <1>4, FS_Bijection DEF ExistsBijection
  <1> QED BY <1>5, <1>6 DEF keys

LEMMA ResultsAreRetained ==
  ASSUME CapitolInv, NEW p \in Process, Finalize(p)
  PROVE  CapitolInv'
  <1>1. PICK r \in Readers : r = reader[p]
    BY DEF CapitolInv, CapitolTypeOK
  <1>2. r.step = "select" /\ listed' = listed /\ linked' = linked /\ ReaderIsSound(r)
    BY <1>1 DEF Finalize, CapitolInv
  <1>3. /\ r.meta \in Announced /\ Len(r.got) = r.meta.total /\ ~Repeated(r.got)
        /\ ~r.withdrawn => r.steady \subseteq ToSet(r.got)
        /\ r.got \in Seq(Trade) /\ r.meta.total \in Nat
    BY <1>2 DEF ReaderIsSound, ReadWhole, Readers, Announced
  <1>4. CASE Refuse(p)
    BY <1>2, <1>4, RestingIsSound, ReaderMovesAlone DEF Refuse
  <1>5. CASE ~Refuse(p)
    <2>1. PICK kept : kept = Emitted(r.got)
      OBVIOUS
    <2>2. kept \subseteq Trade /\ Cardinality(kept) \in Nat
      <3>1. IsFiniteSet(ToSet(r.got))
        BY <1>3, TradesAreDistinct
      <3>2. kept \subseteq ToSet(r.got)
        BY <2>1 DEF Emitted
      <3>3. ToSet(r.got) \subseteq Trade
        BY <1>3 DEF ToSet
      <3> QED BY <3>1, <3>2, <3>3, FS_Subset, FS_CardinalityType
    <2>3. PICK c : c = [state |-> "retained", records |-> kept, raw |-> r.got, total |-> r.meta.total,
                        filtered |-> Len(r.got) - Cardinality(kept), steady |-> r.steady, withdrawn |-> r.withdrawn]
      OBVIOUS
    <2>4. c \in Retained
      <3>1. r.steady \in SUBSET Trade /\ r.withdrawn \in BOOLEAN
        BY DEF Readers
      <3>2. Len(r.got) - Cardinality(kept) \in Int
        BY <1>3, <2>2
      <3> QED BY <1>3, <2>2, <2>3, <3>1, <3>2 DEF Retained
    <2>5. IsExact(c)
      BY <1>3, <2>1, <2>3 DEF IsExact
    <2>6. PICK one : one = [r EXCEPT !.step = "idle"]
      OBVIOUS
    <2>7. PICK two : two = [one EXCEPT !.retained = c]
      OBVIOUS
    <2>8. one \in Readers /\ one.step = "idle" /\ one.temporary = r.temporary
      BY <2>6 DEF Readers
    <2>9. two \in Readers /\ two.step = "idle" /\ two.temporary = r.temporary /\ two.retained = c
      BY <2>4, <2>7, <2>8 DEF Readers
    <2>10. reader' = [reader EXCEPT ![p] = two]
      BY <1>1, <1>5, <2>1, <2>3, <2>6, <2>7 DEF Finalize, CapitolInv, CapitolTypeOK
    <2>11. ReaderIsSound(two)
      BY <1>2, <2>5, <2>9 DEF ReaderIsSound, ReadInOrder, ReadWhole
    <2> QED BY <1>2, <2>9, <2>10, <2>11, ReaderMovesAlone
  <1> QED BY <1>4, <1>5

LEMMA TemporaryIsWritten ==
  ASSUME CapitolInv, NEW p \in Process, NEW name \in Output, WriteTemporary(p, name)
  PROVE  CapitolInv'
  <1>1. PICK r \in Readers : r = reader[p]
    BY DEF CapitolInv, CapitolTypeOK
  <1>2. /\ r.step = "idle" /\ r.retained # Nothing /\ r.retained \in Retained
        /\ listed' = listed /\ linked' = linked /\ ReaderIsSound(r)
    BY <1>1 DEF WriteTemporary, CapitolInv, Readers
  <1>3. PICK w : w = [state |-> "written", name |-> name, content |-> r.retained]
    OBVIOUS
  <1>4. w \in Written /\ w.content = r.retained
    BY <1>2, <1>3 DEF Written
  <1>5. PICK one : one = [r EXCEPT !.step = "link"]
    OBVIOUS
  <1>6. PICK two : two = [one EXCEPT !.temporary = w]
    OBVIOUS
  <1>7. one \in Readers /\ one.step = "link" /\ one.retained = r.retained
    BY <1>5 DEF Readers
  <1>8. two \in Readers /\ two.step = "link" /\ two.retained = r.retained /\ two.temporary = w
    BY <1>4, <1>6, <1>7 DEF Readers
  <1>9. reader' = [reader EXCEPT ![p] = two]
    BY <1>1, <1>3, <1>5, <1>6 DEF WriteTemporary, CapitolInv, CapitolTypeOK
  <1>10. ReaderIsSound(two)
    BY <1>2, <1>4, <1>8, NothingIsNoRecord DEF ReaderIsSound, ReadInOrder, ReadWhole
  <1> QED BY <1>2, <1>8, <1>9, <1>10, ReaderMovesAlone

LEMMA ArtifactIsLinked ==
  ASSUME CapitolInv, NEW p \in Process, LinkArtifact(p)
  PROVE  CapitolInv'
  <1>1. PICK r \in Readers : r = reader[p]
    BY DEF CapitolInv, CapitolTypeOK
  <1>2. /\ r.step = "link" /\ listed' = listed /\ ReaderIsSound(r)
        /\ linked' = IF Exists(r.temporary.name) THEN linked
                     ELSE linked \cup {<<r.temporary.name, r.temporary.content>>}
    BY <1>1 DEF LinkArtifact, CapitolInv
  <1>3. r.temporary \in Written /\ IsExact(r.temporary.content)
    BY <1>2 DEF ReaderIsSound, Readers
  <1>4. PICK one : one = [r EXCEPT !.step = "idle"]
    OBVIOUS
  <1>5. PICK two : two = [one EXCEPT !.temporary = Nothing]
    OBVIOUS
  <1>6. one \in Readers /\ one.step = "idle" /\ one.retained = r.retained
    BY <1>4 DEF Readers
  <1>7. two \in Readers /\ two.step = "idle" /\ two.retained = r.retained /\ two.temporary = Nothing
    BY <1>5, <1>6 DEF Readers
  <1>8. reader' = [reader EXCEPT ![p] = two]
    BY <1>1, <1>4, <1>5 DEF LinkArtifact, CapitolInv, CapitolTypeOK
  <1>9. ReaderIsSound(two)
    BY <1>2, <1>7 DEF ReaderIsSound, ReadInOrder, ReadWhole
  <1>10. /\ reader' \in [Process -> Readers]
         /\ \A q \in Process : ReaderIsSound(reader[q])'
    BY <1>2, <1>7, <1>8, <1>9, ReaderMoves
  <1>11. linked' \subseteq Output \X Retained /\ \A f \in linked' : IsExact(f[2])
    <2>1. <<r.temporary.name, r.temporary.content>> \in Output \X Retained
      BY <1>3 DEF Written
    <2> QED BY <1>2, <1>3, <2>1 DEF CapitolInv, CapitolTypeOK
  <1>12. FilesAreWrittenOnce'
    BY <1>2 DEF CapitolInv, FilesAreWrittenOnce, Exists
  <1> QED BY <1>2, <1>10, <1>11, <1>12 DEF CapitolInv, CapitolTypeOK

LEMMA CapitolStarts == CapitolInit => CapitolInv
  <1> SUFFICES ASSUME CapitolInit PROVE CapitolInv
    OBVIOUS
  <1>1. listed \in Seq(Trade) /\ linked = {}
    BY DEF CapitolInit
  <1>2. reader \in [Process -> Readers] /\ \A p \in Process : reader[p] = Resting
    BY RestingIsSound DEF CapitolInit
  <1> QED BY <1>1, <1>2, RestingIsSound DEF CapitolInv, CapitolTypeOK, FilesAreWrittenOnce

LEMMA CapitolKeepsInv ==
  ASSUME CapitolAssumption, CapitolInv, [CapitolNext]_capitolVars
  PROVE  CapitolInv'
  <1>1. CASE UNCHANGED capitolVars
    <2>1. listed' = listed /\ reader' = reader /\ linked' = linked
      BY <1>1 DEF capitolVars
    <2> QED BY <2>1 DEF CapitolInv, CapitolTypeOK, FilesAreWrittenOnce, ReaderIsSound, ReadInOrder, ReadWhole
  <1>2. ASSUME NEW t \in Trade, NEW i \in 1 .. Len(listed) + 1, List(t, i) PROVE CapitolInv'
    <2>1. listed \in Seq(Trade)
      BY DEF CapitolInv, CapitolTypeOK
    <2>2. /\ InsertAt(listed, i, t) \in Seq(Trade)
          /\ \A read \in Nat : Below(listed, read) \subseteq Below(InsertAt(listed, i, t), read)
      BY <2>1, ListingPushesDown
    <2> QED BY <1>2, <2>2, ChangesKeepReaders DEF List
  <1>3. ASSUME NEW i \in DOMAIN listed, Withdraw(i) PROVE CapitolInv'
    <2>1. RemoveAt(listed, i) \in Seq(Trade)
      BY WithdrawingKeepsType DEF CapitolInv, CapitolTypeOK
    <2> QED BY <1>3, <2>1, ChangesKeepReaders DEF Withdraw
  <1>4. ASSUME NEW p \in Process, Begin(p) PROVE CapitolInv'
    <2>1. PICK steady \in SUBSET Trade : steady = ToSet(listed)
      <3>1. listed \in Seq(Trade)
        BY DEF CapitolInv, CapitolTypeOK
      <3>2. ToSet(listed) \subseteq Trade
        BY <3>1 DEF ToSet
      <3> QED BY <3>2
    <2>2. PICK e : e = [Resting EXCEPT !.step = "read", !.page = 1, !.steady = steady]
      OBVIOUS
    <2>3. e \in Readers
      <3>1. e = [step |-> "read", page |-> 1, meta |-> Nothing, got |-> <<>>, retained |-> Nothing,
                 temporary |-> Nothing, steady |-> steady, withdrawn |-> FALSE]
        BY <2>2 DEF Resting
      <3>2. <<>> \in Seq(Trade)
        OBVIOUS
      <3> QED BY <2>1, <3>1, <3>2 DEF Readers
    <2>4. /\ e.step = "read" /\ e.page = 1 /\ e.got = <<>> /\ e.steady = steady /\ e.retained = Nothing
          /\ e.temporary = Nothing
      BY <2>2 DEF Resting
    <2>5. ~Repeated(<<>>) /\ Len(<<>>) = 0 /\ (1 - 1) * PER_PAGE = 0
      BY <1>4, CapitolAssumption DEF Repeated
    <2>6. steady \subseteq Below(listed, 0)
      BY <2>1 DEF ToSet, Below, CapitolInv, CapitolTypeOK
    <2>7. ReaderIsSound(e)
      BY <2>4, <2>5, <2>6 DEF ReaderIsSound, ReadInOrder, ReadWhole
    <2> QED BY <1>4, <2>1, <2>2, <2>3, <2>7, ReaderMovesAlone DEF Begin
  <1>5. ASSUME NEW p \in Process, ReadPage(p) PROVE CapitolInv'
    BY <1>5, PagesAreRead
  <1>6. ASSUME NEW p \in Process, Finalize(p) PROVE CapitolInv'
    BY <1>6, ResultsAreRetained
  <1>7. ASSUME NEW p \in Process, LinkArtifact(p) PROVE CapitolInv'
    BY <1>7, ArtifactIsLinked
  <1>8. ASSUME NEW p \in Process, Die(p) PROVE CapitolInv'
    BY <1>8, RestingIsSound, ReaderMovesAlone DEF Die, Refuse
  <1>9. ASSUME NEW p \in Process, NEW name \in Output, WriteTemporary(p, name) PROVE CapitolInv'
    BY <1>9, TemporaryIsWritten
  <1> QED BY <1>1, <1>2, <1>3, <1>4, <1>5, <1>6, <1>7, <1>8, <1>9 DEF CapitolNext

LEMMA SoundResults == CapitolInv => CapitolIsSound
  <1> SUFFICES ASSUME CapitolInv PROVE CapitolIsSound
    OBVIOUS
  <1>1. ASSUME NEW c \in Results PROVE c \in Retained /\ IsExact(c)
    <2>1. CASE \E f \in linked : c = f[2]
      BY <2>1 DEF CapitolInv, CapitolTypeOK
    <2>2. CASE \E p \in Process : c = reader[p].retained /\ c # Nothing
      BY <2>2 DEF CapitolInv, CapitolTypeOK, ReaderIsSound, Readers
    <2> QED BY <2>1, <2>2 DEF Results
  <1>2. ASSUME NEW c \in Results
        PROVE  /\ Cardinality({<<t.hasId, t.key>> : t \in ToSet(c.raw)}) = c.total
               /\ c.filtered >= 0 /\ Cardinality(c.records) + c.filtered = c.total
    <2>1. c.raw \in Seq(Trade) /\ ~Repeated(c.raw) /\ c.total \in Nat /\ Len(c.raw) = c.total
      BY <1>1 DEF Retained, IsExact
    <2>2. /\ Cardinality({<<t.hasId, t.key>> : t \in ToSet(c.raw)}) = c.total
          /\ IsFiniteSet(ToSet(c.raw)) /\ Cardinality(ToSet(c.raw)) = c.total
      BY <2>1, TradesAreDistinct
    <2>3. c.records \subseteq ToSet(c.raw) /\ c.filtered = c.total - Cardinality(c.records)
      BY <1>1 DEF IsExact, Emitted
    <2>4. Cardinality(c.records) \in Nat /\ Cardinality(c.records) <= c.total
      BY <2>2, <2>3, FS_Subset, FS_CardinalityType
    <2> QED BY <2>1, <2>2, <2>3, <2>4
  <1>3. ResultsAreComplete
    BY <1>1 DEF ResultsAreComplete, IsExact
  <1> QED BY <1>2, <1>3 DEF CapitolIsSound, ResultsAreExact, CapitolInv

(* The reconciliation of Capitol Trades is exact and complete or returns   *)
(* nothing, and its artifacts are never overwritten (capitol_trades.py),   *)
(* for any list of the service, page size, processes and changes.          *)
THEOREM ResultsAreSound == CapitolSpec => []CapitolIsSound
  <1>1. CapitolInv /\ [CapitolNext]_capitolVars => CapitolInv'
    BY CapitolKeepsInv, CapitolAssumption
  <1>2. CapitolInit => CapitolInv
    BY CapitolStarts
  <1>3. CapitolInv => CapitolIsSound
    BY SoundResults
  <1> QED BY <1>1, <1>2, <1>3, PTL DEF CapitolSpec
=============================================================================
