---------------------------- MODULE CapitolPages ---------------------------
(* The reconciliation fetch from Capitol Trades: a paginated list that     *)
(* changes while it is read, the exact result that is retained or nothing, *)
(* and the artifact that may be written from it, once per file.  A trade   *)
(* is what identifies it (a source id, or without one its fingerprint) and *)
(* whether the selection keeps it.                                         *)
EXTENDS Integers, Sequences, FiniteSets, SequencesExt

CONSTANTS
  Process,     \* the commands that run
  Trade,       \* [key, hasId, kept]: trades without an id may share a key
  Output,      \* file names
  PER_PAGE, MaxListed, MaxChanges, MaxFetches

ASSUME CapitolAssumption ==
  PER_PAGE \in Nat \ {0} /\ MaxListed \in Nat /\ MaxChanges \in Nat /\ MaxFetches \in Nat

VARIABLES
  listed,   \* the trades of the service, in its order
  changes,  \* how often the list changed; fetches begun
  reader,   \* per process: the pages read, the result retained, the temporary file
  linked    \* every <<file, content>> that was ever put in place

capitolVars == <<listed, changes, reader, linked>>
Nothing == [state |-> "none"]
Resting == [step |-> "idle", page |-> 0, meta |-> Nothing, got |-> <<>>, retained |-> Nothing, temporary |-> Nothing,
            steady |-> {}, withdrawn |-> FALSE]
CapitolInit ==
  /\ listed = <<>> /\ changes = [made |-> 0, fetches |-> 0]
  /\ reader = [p \in Process |-> Resting] /\ linked = {}

(* The service lists a new trade anywhere, or withdraws one; what a reader *)
(* can count on are the trades that stay while it reads.                   *)
Stays(r, list, withdrawn) ==
  [r EXCEPT !.steady = @ \cap ToSet(list), !.withdrawn = @ \/ withdrawn]
ChangeTo(list, withdrawn) ==
  /\ changes.made < MaxChanges /\ changes' = [changes EXCEPT !.made = @ + 1]
  /\ listed' = list
  /\ reader' = [p \in Process |-> Stays(reader[p], list, withdrawn)]
  /\ UNCHANGED linked
List(t, i) == t \notin ToSet(listed) /\ Len(listed) < MaxListed /\ ChangeTo(InsertAt(listed, i, t), FALSE)
Withdraw(i) == ChangeTo(RemoveAt(listed, i), TRUE)

Meta == [state |-> "seen", total |-> Len(listed),
         pages |-> IF listed = <<>> THEN 1 ELSE (Len(listed) + PER_PAGE - 1) \div PER_PAGE]
PageOf(n) == SubSeq(listed, (n - 1) * PER_PAGE + 1, IF n * PER_PAGE < Len(listed) THEN n * PER_PAGE ELSE Len(listed))

(* A fetch forgets the result before.                                      *)
Begin(p) ==
  /\ reader[p].step = "idle" /\ changes.fetches < MaxFetches
  /\ changes' = [changes EXCEPT !.fetches = @ + 1]
  /\ reader' = [reader EXCEPT ![p] = [Resting EXCEPT !.step = "read", !.page = 1, !.steady = ToSet(listed)]]
  /\ UNCHANGED <<listed, linked>>
(* A page or a record that is not as announced fails the whole fetch.      *)
Refuse(p) == reader' = [reader EXCEPT ![p] = Resting]

(* Mutant: only source ids are compared.                                   *)
RepeatedId(trades) ==
  \E i, j \in DOMAIN trades : i < j /\ trades[i].hasId /\ trades[j].hasId /\ trades[i].key = trades[j].key

Repeated(trades) ==
  \E i, j \in DOMAIN trades : i < j /\ trades[i].hasId = trades[j].hasId /\ trades[i].key = trades[j].key

(* One page: its count and metadata are as announced, and no record of it  *)
(* was read before.                                                        *)
ReadPage(p) ==
  LET r == reader[p]
      trades == r.got \o PageOf(r.page)
  IN  /\ r.step = "read"
      /\ IF \/ r.page > Meta.pages \/ (r.meta # Nothing /\ r.meta # Meta) \/ Repeated(trades)
            \/ (r.page = Meta.pages /\ Len(trades) # Meta.total)
         THEN Refuse(p)
         ELSE reader' = [reader EXCEPT ![p].page = @ + 1, ![p].meta = Meta, ![p].got = trades,
                                       ![p].step = IF r.page = Meta.pages THEN "select" ELSE "read"]
      /\ UNCHANGED <<listed, changes, linked>>
(* Normalising and filtering; dates in the wrong order are only noticed    *)
(* now.                                                                    *)
Emitted(trades) == {t \in ToSet(trades) : t.kept}
Finalize(p) ==
  LET r == reader[p]
  IN  /\ r.step = "select"
      /\ \/ Refuse(p)
         \/ reader' = [reader EXCEPT ![p].step = "idle", ![p].retained =
              [state |-> "retained", records |-> Emitted(r.got), raw |-> r.got, total |-> r.meta.total,
               filtered |-> Len(r.got) - Cardinality(Emitted(r.got)), steady |-> r.steady, withdrawn |-> r.withdrawn]]
      /\ UNCHANGED <<listed, changes, linked>>

(* The artifact: a temporary file first, then a link that fails where a    *)
(* file is.                                                                *)
Exists(name) == \E f \in linked : f[1] = name
WriteTemporary(p, name) ==
  /\ reader[p].step = "idle" /\ ~Exists(name) /\ reader[p].retained # Nothing
  /\ reader' = [reader EXCEPT ![p].step = "link",
                              ![p].temporary = [state |-> "written", name |-> name, content |-> reader[p].retained]]
  /\ UNCHANGED <<listed, changes, linked>>
(* Mutant: the temporary file is renamed over what is there.               *)
RenameOver(p) ==
  /\ reader[p].step = "link"
  /\ linked' = linked \cup {<<reader[p].temporary.name, reader[p].temporary.content>>}
  /\ reader' = [reader EXCEPT ![p].step = "idle", ![p].temporary = Nothing]
  /\ UNCHANGED <<listed, changes>>

LinkArtifact(p) ==
  /\ reader[p].step = "link"
  /\ linked' = IF Exists(reader[p].temporary.name) THEN linked
               ELSE linked \cup {<<reader[p].temporary.name, reader[p].temporary.content>>}
  /\ reader' = [reader EXCEPT ![p].step = "idle", ![p].temporary = Nothing]
  /\ UNCHANGED <<listed, changes>>

Die(p) == reader[p] # Resting /\ Refuse(p) /\ UNCHANGED <<listed, changes, linked>>

CapitolNext ==
  \/ (\E t \in Trade, i \in 1 .. Len(listed) + 1 : List(t, i)) \/ (\E i \in DOMAIN listed : Withdraw(i))
  \/ \E p \in Process :
       Begin(p) \/ ReadPage(p) \/ Finalize(p) \/ LinkArtifact(p) \/ Die(p)
       \/ (\E name \in Output : WriteTemporary(p, name))
CapitolSpec == CapitolInit /\ [][CapitolNext]_capitolVars

-----------------------------------------------------------------------------
Results == {f[2] : f \in linked} \cup {r \in {reader[p].retained : p \in Process} : r # Nothing}
(* A result that is retained or written is exact: no trade twice, as many  *)
(* as the service announced, each emitted or filtered.                     *)
ResultsAreExact ==
  \A c \in Results : /\ Cardinality({<<t.hasId, t.key>> : t \in ToSet(c.raw)}) = c.total
                     /\ c.filtered >= 0 /\ Cardinality(c.records) + c.filtered = c.total
(* And complete: every trade that was listed all the while is in it, even  *)
(* when others were added, unless one was withdrawn meanwhile (a trade     *)
(* added at the same time hides that in the total).                        *)
ResultsAreComplete == \A c \in Results : ~c.withdrawn => c.steady \subseteq ToSet(c.raw)
(* No file is replaced, whoever writes at the same time.                   *)
FilesAreWrittenOnce == \A f, g \in linked : f[1] = g[1] => f = g

(* The reconciliation of Capitol Trades returns exact results or none, and *)
(* its artifacts are never overwritten (capitol_trades.py).                *)
CapitolIsSound == ResultsAreExact /\ ResultsAreComplete /\ FilesAreWrittenOnce
=============================================================================
