----------------------- MODULE DecisionLedger_proofs ------------------------
(***************************************************************************)
(* Proofs about the publication of decisions, for any decisions and any    *)
(* number of publishers, kills, short writes and losses of power.          *)
(*                                                                         *)
(* Only the last line of the ledger can be broken: whoever appends has     *)
(* read the whole chain under the lock.  The proof therefore carries what  *)
(* the properties say of a readable ledger through unreadable ones, line   *)
(* by line, because a loss of power can take the broken line away again.   *)
(*                                                                         *)
(* After them, the proofs about the other record that is only ever added   *)
(* to, the history of the rows and parse runs of a filing (RowHistory):    *)
(* no view of an earlier day moves, and nothing that is retired is lost.   *)
(***************************************************************************)
EXTENDS DecisionLedger, RowHistory, WellFoundedInduction, FunctionTheorems,
        FiniteSetTheorems, SequenceTheorems, TLAPS

Lines == 1 .. Len(ledger)
Whole(i) == ledger[i].entry # Unreadable
Recorded(i) == ledger[i].entry.decision
Before(i) == [j \in 1 .. i - 1 |-> Recorded(j)]

(* The decision a publisher works on, and the receipts it answers for.     *)
Working(p, stage, d) == pub[p].at = stage /\ pub[p].decision = d

LinesExtend ==
  \A i \in Lines :
    /\ i < Len(ledger) => Whole(i) /\ ledger[i].ended
    /\ Whole(i) => ledger[i].entry \in Entry /\ ledger[i].entry.prev = Before(i)

OneLineEach == \A i, j \in Lines : Recorded(i) = Recorded(j) => i = j

DamageIsKnown == ~torn => \A i \in Lines : Whole(i) /\ ledger[i].ended

HolderHasRead ==
  \A p \in Publisher :
    /\ pub[p].at # "idle" => pub[p].decision \in Decision
    /\ pub[p].at \in {"loaded", "linked", "anchored"} =>
         /\ \A i \in Lines : Whole(i)
         /\ pub[p].seen = Before(Len(ledger) + 1)

(* A receipt is on the disk, or its publisher is about to flush it, or it  *)
(* died before it could.                                                   *)
ReceiptsAreKept ==
  /\ \A d \in receipts \ (kept \union doubtful) : \E p \in Publisher : Working(p, "linked", d)
  /\ \A p \in Publisher :
       /\ pub[p].at = "linked" => pub[p].decision \in receipts
       /\ pub[p].at = "anchored" => pub[p].decision \in kept \union doubtful

LinesAreBacked == \A i \in Lines : Whole(i) => Recorded(i) \in kept \union doubtful

(* Likewise a line.                                                        *)
LinesAreFlushed ==
  \A i \in flushed + 1 .. Len(ledger) :
    Whole(i) => \/ Recorded(i) \in doubtful
                \/ \E p \in Publisher : Working(p, "appended", Recorded(i))

(* What was served is among the lines that no loss of power takes away; if *)
(* its line was broken by a later append, the ledger stays unreadable.     *)
ServedIsFlushed ==
  \A d \in served \ doubtful :
    /\ d \in kept
    /\ \E i \in 1 .. flushed : Recorded(i) = d \/ ~Whole(i)

LedgerInv ==
  /\ LedgerTypeOK
  /\ LinesExtend /\ OneLineEach /\ DamageIsKnown
  /\ HolderHasRead
  /\ ReceiptsAreKept /\ LinesAreBacked /\ LinesAreFlushed /\ ServedIsFlushed

-----------------------------------------------------------------------------
(* Facts about the lines.                                                  *)

LEMMA LinesAreTyped ==
  ASSUME LedgerTypeOK
  PROVE  /\ ledger \in Seq(Line) /\ Len(ledger) \in Nat
         /\ \A i \in Lines : ledger[i] \in Line
  BY DEF LedgerTypeOK, Lines

LEMMA Entries ==
  /\ Unreadable \notin Entry
  /\ \A line \in Line : line.entry # Unreadable => line.entry \in Entry
  /\ Unreadable.decision \notin Decision
  BY LedgerAssumption DEF Unreadable, Entry, Line

LEMMA BeforeIsPrefix ==
  ASSUME LedgerTypeOK
  PROVE  /\ \A i \in 1 .. Len(ledger) + 1 : SubSeq(Decisions, 1, i - 1) = Before(i)
         /\ Decisions = Before(Len(ledger) + 1)
         /\ Range(Decisions) = {Recorded(i) : i \in Lines}
<1> DEFINE D == UNION {{Recorded(i)} : i \in Lines}
<1>1. Len(ledger) \in Nat
  BY LinesAreTyped
<1>2. ASSUME NEW i \in 1 .. Len(ledger) + 1 PROVE SubSeq(Decisions, 1, i - 1) = Before(i)
  <2>1. \A j \in 1 .. i - 1 : Decisions[j] = Recorded(j) /\ Recorded(j) \in D
    BY <1>1, <1>2 DEF Decisions, Lines, Recorded
  <2>2. /\ SubSeq(Decisions, 1, i - 1) \in Seq(D)
        /\ Len(SubSeq(Decisions, 1, i - 1)) = i - 1
        /\ \A j \in 1 .. i - 1 : SubSeq(Decisions, 1, i - 1)[j] = Recorded(j)
    <3> HIDE DEF D
    <3>1. /\ SubSeq(Decisions, 1, i - 1) \in Seq(D)
          /\ Len(SubSeq(Decisions, 1, i - 1)) = IF 1 <= i - 1 THEN (i - 1) - 1 + 1 ELSE 0
          /\ \A j \in 1 .. (i - 1) - 1 + 1 :
               SubSeq(Decisions, 1, i - 1)[j] = Decisions[1 + j - 1]
      BY <1>1, <2>1, SubSeqProperties
    <3> QED BY <1>1, <2>1, <3>1
  <2>3. SubSeq(Decisions, 1, i - 1) = [j \in 1 .. i - 1 |-> SubSeq(Decisions, 1, i - 1)[j]]
    BY <1>1, <2>2, LenProperties
  <2> QED BY <1>1, <2>2, <2>3 DEF Before
<1>3. Decisions = Before(Len(ledger) + 1)
  BY <1>1 DEF Decisions, Before, Recorded
<1>4. Range(Decisions) = {Recorded(i) : i \in Lines}
  BY DEF Range, Decisions, Recorded, Lines
<1> QED BY <1>2, <1>3, <1>4

LEMMA ReadableIsWhole ==
  ASSUME LedgerTypeOK, LinesExtend
  PROVE  Readable <=> \A i \in Lines : Whole(i)
<1>1. \A i \in Lines : SubSeq(Decisions, 1, i - 1) = Before(i)
  BY LinesAreTyped, BeforeIsPrefix DEF Lines
<1> QED BY <1>1 DEF Readable, LinesExtend, Whole, Lines

(* The invariant is what the properties say of a readable ledger.          *)
LEMMA InvariantIsEnough ==
  ASSUME LedgerInv PROVE LedgerIsSound
<1>1. /\ LedgerTypeOK /\ Len(ledger) \in Nat
      /\ Readable <=> \A i \in Lines : Whole(i)
      /\ Range(Decisions) = {Recorded(i) : i \in Lines}
      /\ \A i \in Lines : Decisions[i] = Recorded(i)
  BY LinesAreTyped, ReadableIsWhole, BeforeIsPrefix DEF LedgerInv, Decisions, Recorded, Lines
<1>2. OneChain
  BY <1>1 DEF LedgerInv, OneChain, DamageIsKnown
<1>3. RecordedOnce
  BY <1>1 DEF LedgerInv, RecordedOnce, OneLineEach, Lines
<1>4. LinesHaveReceipts
  BY <1>1 DEF LedgerInv, LinesHaveReceipts, LinesAreBacked, LedgerTypeOK
<1>5. ServedIsAnchored
  <2> SUFFICES ASSUME Readable, NEW d \in served \ doubtful
               PROVE  d \in receipts /\ d \in Range(Decisions)
    BY DEF ServedIsAnchored, Verifies
  <2>1. d \in kept /\ \E i \in 1 .. flushed : Recorded(i) = d \/ ~Whole(i)
    BY DEF LedgerInv, ServedIsFlushed
  <2>2. 1 .. flushed \subseteq Lines
    BY <1>1 DEF LedgerTypeOK, Lines
  <2> QED BY <1>1, <2>1, <2>2 DEF LedgerTypeOK
<1> QED BY <1>1, <1>2, <1>3, <1>4, <1>5 DEF LedgerIsSound

-----------------------------------------------------------------------------
(* What a step makes of the lines.                                         *)

LEMMA LinesStay ==
  ASSUME UNCHANGED ledger
  PROVE  /\ Lines' = Lines /\ \A i : Recorded(i)' = Recorded(i) /\ Before(i)' = Before(i)
         /\ \A i : Whole(i)' <=> Whole(i)
         /\ LinesExtend => LinesExtend'
         /\ OneLineEach => OneLineEach'
  BY DEF Lines, Recorded, Before, Whole, LinesExtend, OneLineEach

(* The ledger is cut, or its last line is broken, cut or added.            *)
LEMMA LastLineStep ==
  ASSUME LedgerTypeOK, LinesExtend, OneLineEach,
         ledger' \in Seq(Line), NEW n \in Nat, n = Len(ledger'),
         \A i \in 1 .. n - 1 : i \in Lines /\ ledger'[i] = ledger[i] /\ Whole(i) /\ ledger[i].ended,
         n > 0 => \/ ledger'[n].entry = Unreadable
                  \/ n \in Lines /\ ledger'[n].entry = ledger[n].entry
                  \/ /\ ledger'[n].entry \in Entry
                     /\ ledger'[n].entry.prev = Before(n)
                     /\ \A i \in 1 .. n - 1 : Recorded(i) # ledger'[n].entry.decision
  PROVE  LinesExtend' /\ OneLineEach'
<1>1. /\ \A i \in 1 .. n - 1 : Recorded(i)' = Recorded(i) /\ Whole(i)' /\ ledger'[i].ended
      /\ \A i \in 1 .. n - 1 : Recorded(i) \in Decision
      /\ Lines' = 1 .. n
  BY Entries, LinesAreTyped DEF Recorded, Whole, Lines, Entry
<1>2. \A i \in 1 .. n : Before(i)' = Before(i)
  <2> SUFFICES ASSUME NEW i \in 1 .. n PROVE Before(i)' = Before(i)
    OBVIOUS
  <2>1. \A j \in 1 .. i - 1 : Recorded(j)' = Recorded(j)
    BY <1>1
  <2> QED BY <2>1 DEF Before
<1>3. ASSUME NEW i \in Lines'
      PROVE  /\ i < n => Whole(i)' /\ ledger'[i].ended
             /\ Whole(i)' => ledger'[i].entry \in Entry /\ ledger'[i].entry.prev = Before(i)'
  <2>1. CASE i < n
    <3>1. i \in 1 .. n - 1 /\ i \in Lines
      BY <1>1, <2>1
    <3>2. Whole(i) /\ ledger'[i] = ledger[i] /\ Before(i)' = Before(i)
      BY <1>1, <1>2, <3>1
    <3>3. ledger[i].entry \in Entry /\ ledger[i].entry.prev = Before(i)
      BY <3>1, <3>2 DEF LinesExtend
    <3> QED BY <1>1, <3>1, <3>2, <3>3
  <2>2. CASE i = n
    <3>1. Before(n)' = Before(n)
      BY <1>1, <1>2, <2>2
    <3> QED BY <1>1, <2>2, <3>1 DEF LinesExtend, Whole
  <2> QED BY <1>1, <2>1, <2>2
<1>4. LinesExtend'
  BY <1>3 DEF LinesExtend
<1>5. \A i \in 1 .. n - 1 : Recorded(n)' # Recorded(i)'
  <2> SUFFICES ASSUME NEW i \in 1 .. n - 1 PROVE Recorded(n)' # Recorded(i)'
    OBVIOUS
  <2>1. i \in Lines /\ i # n /\ n > 0 /\ Recorded(i)' = Recorded(i) /\ Recorded(i) \in Decision
    BY <1>1
  <2>2. CASE ledger'[n].entry = Unreadable
    BY <2>1, <2>2, Entries DEF Recorded
  <2>3. CASE n \in Lines /\ ledger'[n].entry = ledger[n].entry
    BY <2>1, <2>3 DEF OneLineEach, Recorded
  <2>4. CASE Recorded(i) # ledger'[n].entry.decision
    BY <2>1, <2>4 DEF Recorded
  <2> QED BY <2>1, <2>2, <2>3, <2>4
<1>6. \A i, j \in 1 .. n - 1 : Recorded(i)' = Recorded(j)' => i = j
  BY <1>1 DEF OneLineEach
<1>7. OneLineEach'
  <2> SUFFICES ASSUME NEW i \in 1 .. n, NEW j \in 1 .. n, Recorded(i)' = Recorded(j)' PROVE i = j
    BY <1>1 DEF OneLineEach
  <2> QED BY <1>5, <1>6
<1> QED BY <1>4, <1>7

LEMMA WrittenLines ==
  ASSUME LedgerTypeOK, NEW line \in Line,
         NEW cut, cut = (ledger # <<>> /\ ~Last(ledger).ended)
  PROVE  /\ Written(line) \in Seq(Line)
         /\ Len(Written(line)) = IF cut THEN Len(ledger) ELSE Len(ledger) + 1
         /\ Len(Written(line)) \in Nat \ {0}
         /\ \A i \in 1 .. Len(Written(line)) - 1 : i \in Lines /\ Written(line)[i] = ledger[i]
         /\ LET last == Written(line)[Len(Written(line))] IN
              /\ last.entry = IF cut THEN Unreadable ELSE line.entry
              /\ last.ended = line.ended
         /\ cut => Len(ledger) \in Lines /\ ~ledger[Len(ledger)].ended
         /\ ~cut /\ Len(ledger) > 0 => ledger[Len(ledger)].ended
<1>1. /\ ledger \in Seq(Line) /\ Len(ledger) \in Nat
      /\ \A i \in Lines : ledger[i] \in Line
      /\ ledger # <<>> <=> Len(ledger) > 0
  BY LinesAreTyped, EmptySeq
<1>2. CASE cut
  <2> DEFINE broken == [entry |-> Unreadable, ended |-> line.ended]
             rest == SubSeq(ledger, 1, Len(ledger) - 1)
  <2>1. Len(ledger) > 0 /\ ~ledger[Len(ledger)].ended /\ Written(line) = Append(rest, broken)
    BY <1>1, <1>2 DEF Written, Last, Front
  <2>2. /\ rest \in Seq(Line) /\ Len(rest) = Len(ledger) - 1
        /\ \A i \in 1 .. Len(ledger) - 1 : rest[i] = ledger[i]
    <3>1. \A i \in 1 .. Len(ledger) - 1 : ledger[i] \in Line
      BY <1>1, <2>1 DEF Lines
    <3>2. /\ rest \in Seq(Line)
          /\ Len(rest) = IF 1 <= Len(ledger) - 1 THEN (Len(ledger) - 1) - 1 + 1 ELSE 0
          /\ \A i \in 1 .. (Len(ledger) - 1) - 1 + 1 : rest[i] = ledger[1 + i - 1]
      BY <1>1, <3>1, SubSeqProperties
    <3> HIDE DEF rest
    <3> DEFINE k == Len(ledger)
               m == Len(rest)
    <3>3. m = k - 1
      <4>1. k \in Nat /\ k > 0 /\ m = IF 1 <= k - 1 THEN (k - 1) - 1 + 1 ELSE 0
        BY <1>1, <2>1, <3>2
      <4> HIDE DEF k, m
      <4> QED BY <4>1
    <3>4. ASSUME NEW i \in 1 .. Len(ledger) - 1 PROVE rest[i] = ledger[i]
      <4>1. rest[i] = ledger[1 + i - 1]
        BY <1>1, <2>1, <3>2
      <4>2. 1 + i - 1 = i
        BY <1>1
      <4> QED BY <4>1, <4>2
    <3> QED BY <3>2, <3>3, <3>4
  <2>3. broken \in Line
    BY DEF Line
  <2> HIDE DEF broken, rest
  <2>4. /\ Written(line) \in Seq(Line) /\ Len(Written(line)) = Len(ledger)
        /\ \A i \in 1 .. Len(ledger) - 1 : Written(line)[i] = ledger[i]
        /\ Written(line)[Len(ledger)] = broken
    BY <1>1, <2>1, <2>2, <2>3
  <2> QED BY <1>1, <1>2, <2>1, <2>4 DEF broken, Lines
<1>3. CASE ~cut
  <2>1. Written(line) = Append(ledger, line)
    BY <1>3 DEF Written
  <2>2. Len(ledger) > 0 => ledger[Len(ledger)].ended
    BY <1>1, <1>3 DEF Last
  <2> QED BY <1>1, <1>3, <2>1, <2>2 DEF Lines
<1> QED BY <1>2, <1>3

(* What is left of the ledger after a loss of power: n whole lines, and    *)
(* perhaps a part of the next one.                                         *)
CutTo(n) ==
  /\ ledger' \in Seq(Line)
  /\ Len(ledger') \in {n, n + 1}
  /\ \A i \in 1 .. n : i \in Lines /\ ledger'[i] = ledger[i]
  /\ Len(ledger') = n => torn' = torn
  /\ Len(ledger') = n + 1 =>
       /\ torn' = TRUE /\ n + 1 \in Lines
       /\ ledger'[n + 1].entry \in {Unreadable, ledger[n + 1].entry}

LEMMA CutLines ==
  ASSUME LedgerTypeOK, NEW line \in Line, NEW part \in Cut(line)
  PROVE  part \in Line /\ part.entry \in {Unreadable, line.entry} /\ ~part.ended
<1>1. CASE part = [entry |-> Unreadable, ended |-> FALSE]
  BY <1>1 DEF Line
<1>2. CASE part = [line EXCEPT !.ended = FALSE]
  BY <1>2 DEF Line
<1> QED BY <1>1, <1>2 DEF Cut

LEMMA PowerLossCuts ==
  ASSUME LedgerTypeOK, PowerLoss
  PROVE  \E n \in flushed .. Len(ledger) : CutTo(n)
<1>1. /\ ledger \in Seq(Line) /\ Len(ledger) \in Nat /\ flushed \in 0 .. Len(ledger)
      /\ \A i \in Lines : ledger[i] \in Line
  BY LinesAreTyped DEF LedgerTypeOK
<1>2. PICK n \in flushed .. Len(ledger) :
        \/ ledger' = SubSeq(ledger, 1, n) /\ torn' = torn
        \/ /\ n < Len(ledger)
           /\ \E line \in Cut(ledger[n + 1]) : ledger' = Append(SubSeq(ledger, 1, n), line)
           /\ torn' = TRUE
  BY DEF PowerLoss
<1> DEFINE whole == SubSeq(ledger, 1, n)
<1>3. /\ whole \in Seq(Line) /\ Len(whole) = n
      /\ \A i \in 1 .. n : i \in Lines /\ whole[i] = ledger[i]
  <2>1. \A i \in 1 .. n : i \in Lines /\ ledger[i] \in Line
    BY <1>1 DEF Lines
  <2>2. /\ whole \in Seq(Line)
        /\ Len(whole) = IF 1 <= n THEN n - 1 + 1 ELSE 0
        /\ \A i \in 1 .. n - 1 + 1 : whole[i] = ledger[1 + i - 1]
    BY <1>1, <2>1, SubSeqProperties
  <2> HIDE DEF whole
  <2> QED BY <1>1, <2>1, <2>2
<1> HIDE DEF whole
<1>4. CASE ledger' = whole /\ torn' = torn
  BY <1>1, <1>3, <1>4 DEF CutTo
<1>5. ASSUME n < Len(ledger), NEW line \in Cut(ledger[n + 1]), ledger' = Append(whole, line), torn' = TRUE
      PROVE  CutTo(n)
  <2>1. n + 1 \in Lines /\ n \in Nat
    BY <1>1, <1>5 DEF Lines
  <2>2. line \in Line /\ line.entry \in {Unreadable, ledger[n + 1].entry}
    BY <1>1, <1>5, <2>1, CutLines
  <2>3. /\ ledger' \in Seq(Line) /\ Len(ledger') = n + 1
        /\ \A i \in 1 .. n : ledger'[i] = whole[i]
        /\ ledger'[n + 1] = line
    BY <1>3, <1>5, <2>1, <2>2
  <2>4. \A i \in 1 .. n : i \in Lines /\ ledger'[i] = ledger[i]
    BY <1>3, <2>3
  <2>5. Len(ledger') # n
    BY <2>1, <2>3
  <2> QED BY <1>5, <2>1, <2>2, <2>3, <2>4, <2>5 DEF CutTo
<1> QED BY <1>2, <1>4, <1>5 DEF whole

-----------------------------------------------------------------------------
(* Typing.                                                                 *)

LEMMA HolderIsAlone ==
  ASSUME LedgerTypeOK, NEW p \in Publisher, pub[p].at \notin {"idle", "waiting"}
  PROVE  holder = p /\ \A q \in Publisher : q # p => pub[q].at \in {"idle", "waiting"}
  BY DEF LedgerTypeOK

(* A publisher that appends has a decision to append.                      *)
LEMMA NewLineIsTyped ==
  ASSUME LedgerTypeOK, HolderHasRead, NEW p \in Publisher, pub[p].at = "anchored"
  PROVE  /\ NewLine(p) \in Line /\ NewLine(p).ended
         /\ NewLine(p).entry \in Entry /\ NewLine(p).entry # Unreadable
         /\ NewLine(p).entry.decision = pub[p].decision
         /\ NewLine(p).entry.prev = Before(Len(ledger) + 1)
<1>1. pub[p].decision \in Decision /\ pub[p].seen = Before(Len(ledger) + 1) /\ pub[p].seen \in Seq(Decision)
  BY DEF HolderHasRead, LedgerTypeOK
<1>2. NewLine(p).entry \in Entry
  BY <1>1 DEF NewLine, Entry
<1> QED BY <1>1, <1>2, Entries DEF NewLine, Line

LEMMA ChainIsTyped ==
  ASSUME LedgerTypeOK, LinesExtend, Readable PROVE Decisions \in Seq(Decision)
<1>1. \A i \in Lines : Recorded(i) \in Decision
  BY ReadableIsWhole DEF LinesExtend, Recorded, Entry
<1>2. Len(ledger) \in Nat
  BY LinesAreTyped
<1>3. [i \in 1 .. Len(ledger) |-> ledger[i].entry.decision] \in [1 .. Len(ledger) -> Decision]
  BY <1>1 DEF Lines, Recorded
<1> QED BY <1>2, <1>3, SeqDef DEF Decisions

LEMMA TypeStep ==
  ASSUME LedgerTypeOK, LinesExtend, HolderHasRead, ReceiptsAreKept, [LedgerNext]_ledgerVars
  PROVE  LedgerTypeOK'
<1> USE LedgerAssumption
<1>1. CASE UNCHANGED ledgerVars
  BY <1>1 DEF LedgerTypeOK, ledgerVars
<1>2. ASSUME NEW p \in Publisher, NEW d \in Decision, Decide(p, d) PROVE LedgerTypeOK'
  <2>1. <<>> \in Seq(Decision)
    BY EmptySeq
  <2> QED BY <1>2, <2>1 DEF Decide, LedgerTypeOK, files, history, Stage
<1>3. ASSUME NEW p \in Publisher, Enter(p) PROVE LedgerTypeOK'
  <2>1. /\ pub[p].at = "waiting" /\ holder = Nobody /\ holder' = p
        /\ pub' = [pub EXCEPT ![p].at = "loaded", ![p].seen = Decisions]
        /\ Decisions \in Seq(Decision)
        /\ UNCHANGED <<ledger, flushed, receipts, kept, served, torn, doubtful>>
    BY <1>3, ChainIsTyped DEF Enter, files, history
  <2> DEFINE Slot == [at : Stage, decision : Decision \union {Nobody}, seen : Seq(Decision)]
             mid == [pub EXCEPT ![p].at = "loaded"]
  <2>2. /\ mid \in [Publisher -> Slot]
        /\ \A q \in Publisher : mid[q].at = IF q = p THEN "loaded" ELSE pub[q].at
    <3>1. pub \in [Publisher -> Slot] /\ "loaded" \in Stage
      BY DEF LedgerTypeOK, Stage
    <3> QED BY <3>1
  <2>3. pub' = [mid EXCEPT ![p].seen = Decisions]
    BY <2>1
  <2> HIDE DEF mid
  <2>4. /\ pub' \in [Publisher -> Slot]
        /\ \A q \in Publisher : pub'[q].at = mid[q].at
    <3>1. Decisions \in Seq(Decision)
      BY <2>1
    <3> QED BY <2>2, <2>3, <3>1
  <2>5. \A q \in Publisher : pub'[q].at = IF q = p THEN "loaded" ELSE pub[q].at
    BY <2>2, <2>4
  <2> QED BY <2>1, <2>4, <2>5 DEF LedgerTypeOK
<1>4. ASSUME NEW p \in Publisher, EnterRefused(p) \/ Refuse(p) \/ Serve(p) \/ Kill(p) PROVE LedgerTypeOK'
  <2>1. Idle.at = "idle" /\ Idle.decision = Nobody /\ Idle.seen \in Seq(Decision)
    BY EmptySeq DEF Idle
  <2>2. UNCHANGED <<ledger, flushed, receipts, kept, torn>>
    BY <1>4 DEF EnterRefused, Refuse, Serve, Kill, files, history
  <2>3. pub' = [pub EXCEPT ![p] = Idle]
    BY <1>4 DEF EnterRefused, Refuse, Serve, Kill, Give
  <2>4. \A q \in Publisher : holder' = q <=> pub'[q].at \notin {"idle", "waiting"}
    <3>1. holder' = IF holder = p \/ holder = Nobody THEN Nobody ELSE holder
      BY <1>4, HolderIsAlone DEF EnterRefused, Refuse, Serve, Kill, Give, LedgerTypeOK
    <3> QED BY <2>1, <2>3, <3>1 DEF LedgerTypeOK
  <2>5. holder' \in Publisher \union {Nobody}
    BY <1>4 DEF EnterRefused, Refuse, Serve, Kill, Give, LedgerTypeOK
  <2>6. served' \subseteq Decision /\ doubtful' \subseteq Decision
    <3>1. pub[p].at # "idle" /\ pub[p].decision \in Decision
      BY <1>4 DEF EnterRefused, Refuse, Serve, Kill, HolderHasRead
    <3> QED BY <1>4, <3>1 DEF EnterRefused, Refuse, Serve, Kill, LedgerTypeOK, history
  <2>7. pub' \in [Publisher -> [at : Stage, decision : Decision \union {Nobody}, seen : Seq(Decision)]]
    <3>1. Idle \in [at : Stage, decision : Decision \union {Nobody}, seen : Seq(Decision)]
      BY <2>1 DEF Idle, Stage
    <3> QED BY <2>3, <3>1 DEF LedgerTypeOK
  <2> QED BY <2>2, <2>4, <2>5, <2>6, <2>7 DEF LedgerTypeOK
<1>5. ASSUME NEW p \in Publisher,
             \/ Link(p) \/ FlushReceipt(p) \/ Found(p) \/ Repeat(p) \/ FlushLedger(p)
      PROVE  LedgerTypeOK'
  <2>1. pub[p].decision \in Decision
    BY <1>5 DEF Link, FlushReceipt, Found, Repeat, FlushLedger, HolderHasRead
  <2>2. PICK stage \in Stage \ {"idle", "waiting"} : Move(p, stage)
    BY <1>5 DEF Link, FlushReceipt, Found, Repeat, FlushLedger, Stage
  <2>3. /\ pub' \in [Publisher -> [at : Stage, decision : Decision \union {Nobody}, seen : Seq(Decision)]]
        /\ \A q \in Publisher : pub'[q].at = IF q = p THEN stage ELSE pub[q].at
    <3>1. stage \in Stage /\ pub' = [pub EXCEPT ![p].at = stage]
      BY <2>2 DEF Move
    <3>2. pub \in [Publisher -> [at : Stage, decision : Decision \union {Nobody}, seen : Seq(Decision)]]
      BY DEF LedgerTypeOK
    <3> QED BY <3>1, <3>2
  <2>4. pub[p].at \notin {"idle", "waiting"} /\ holder' = holder /\ ledger' = ledger
    BY <1>5 DEF Link, FlushReceipt, Found, Repeat, FlushLedger, files, history
  <2>5. /\ kept' \subseteq receipts' /\ receipts' \subseteq Decision /\ flushed' \in 0 .. Len(ledger')
        /\ UNCHANGED history
    <3>1. CASE FlushReceipt(p)
      <4>1. pub[p].decision \in receipts
        BY <3>1 DEF FlushReceipt, ReceiptsAreKept
      <4> QED BY <3>1, <4>1 DEF FlushReceipt, LedgerTypeOK
    <3>2. CASE FlushLedger(p)
      BY <3>2, LinesAreTyped DEF FlushLedger, LedgerTypeOK
    <3>3. CASE Link(p) \/ Found(p) \/ Repeat(p)
      BY <2>1, <3>3 DEF Link, Found, Repeat, LedgerTypeOK, files
    <3> QED BY <1>5, <3>1, <3>2, <3>3
  <2> QED BY <2>2, <2>3, <2>4, <2>5 DEF LedgerTypeOK, history
<1>6. ASSUME NEW p \in Publisher, AppendLine(p) \/ ShortWrite(p) PROVE LedgerTypeOK'
  <2>1. pub[p].at = "anchored" /\ Move(p, "appended") /\ UNCHANGED <<flushed, receipts, kept, holder, served, doubtful>>
    BY <1>6 DEF AppendLine, ShortWrite, history
  <2>2. /\ pub' \in [Publisher -> [at : Stage, decision : Decision \union {Nobody}, seen : Seq(Decision)]]
        /\ \A q \in Publisher : pub'[q].at = IF q = p THEN "appended" ELSE pub[q].at
    BY <2>1 DEF Move, LedgerTypeOK, Stage
  <2>3. \E line \in Line : ledger' = Written(line)
    BY <1>6, <2>1, NewLineIsTyped, CutLines DEF AppendLine, ShortWrite
  <2>4. ledger' \in Seq(Line) /\ Len(ledger') \in Nat /\ Len(ledger') >= Len(ledger)
    <3>1. PICK line \in Line : ledger' = Written(line)
      BY <2>3
    <3>2. /\ Written(line) \in Seq(Line) /\ Len(Written(line)) \in Nat
          /\ Len(Written(line)) \in {Len(ledger), Len(ledger) + 1}
      BY WrittenLines
    <3> QED BY <3>1, <3>2, LinesAreTyped
  <2>5. torn' \in BOOLEAN
    BY <1>6 DEF AppendLine, ShortWrite, LedgerTypeOK, history
  <2>6. flushed' \in 0 .. Len(ledger')
    BY <2>1, <2>4, LinesAreTyped DEF LedgerTypeOK
  <2>7. \A q \in Publisher : holder' = q <=> pub'[q].at \notin {"idle", "waiting"}
    BY <2>1, <2>2 DEF LedgerTypeOK
  <2> QED BY <2>1, <2>2, <2>4, <2>5, <2>6, <2>7 DEF LedgerTypeOK
<1>7. CASE PowerLoss
  <2>1. PICK n \in flushed .. Len(ledger) : CutTo(n)
    BY <1>7, PowerLossCuts
  <2>2. /\ ledger' \in Seq(Line) /\ Len(ledger') \in Nat /\ flushed' = Len(ledger')
        /\ kept' = receipts' /\ receipts' \subseteq Decision /\ torn' \in BOOLEAN
        /\ holder' = Nobody /\ served' = served /\ doubtful' = doubtful
        /\ pub' = [p \in Publisher |-> Idle]
    <3>1. ledger' \in Seq(Line) /\ Len(ledger') \in Nat /\ torn' \in BOOLEAN
      <4>1. n \in Nat
        BY LinesAreTyped DEF LedgerTypeOK
      <4>2. Len(ledger') = n \/ Len(ledger') = n + 1
        BY <2>1 DEF CutTo
      <4>3. torn' = torn \/ torn' = TRUE
        BY <2>1, <4>2 DEF CutTo
      <4>4. Len(ledger') \in Nat
        BY <4>1, <4>2
      <4>5. torn' \in BOOLEAN
        BY <4>3 DEF LedgerTypeOK
      <4> QED BY <2>1, <4>4, <4>5 DEF CutTo
    <3>2. \E some \in SUBSET receipts : receipts' = kept \union some
      BY <1>7 DEF PowerLoss
    <3> QED BY <1>7, <3>1, <3>2 DEF PowerLoss, LedgerTypeOK
  <2>3. Idle \in [at : Stage, decision : Decision \union {Nobody}, seen : Seq(Decision)]
    BY EmptySeq DEF Idle, Stage
  <2> QED BY <2>2, <2>3 DEF LedgerTypeOK, Idle
<1> QED BY <1>1, <1>2, <1>3, <1>4, <1>5, <1>6, <1>7 DEF LedgerNext, Publish

-----------------------------------------------------------------------------
(* The chain.                                                              *)

AppendsNothing(p) ==
  \/ \E d \in Decision : Decide(p, d)
  \/ Enter(p) \/ EnterRefused(p) \/ Link(p) \/ FlushReceipt(p) \/ Found(p) \/ Repeat(p)
  \/ FlushLedger(p) \/ Serve(p) \/ Refuse(p) \/ Kill(p)

LEMMA StepKinds ==
  ASSUME LedgerNext
  PROVE  \/ \E p \in Publisher : AppendsNothing(p) \/ AppendLine(p) \/ ShortWrite(p)
         \/ PowerLoss
  BY DEF LedgerNext, Publish, AppendsNothing

LEMMA NothingAppended ==
  ASSUME NEW p, AppendsNothing(p) PROVE UNCHANGED <<ledger, torn>>
  BY DEF AppendsNothing, Decide, Enter, EnterRefused, Link, FlushReceipt, Found, Repeat,
    FlushLedger, Serve, Refuse, Kill, files, history

(* What an append makes of the lines: nothing that was whole is touched,   *)
(* unless the last line had no end.                                        *)
LEMMA AppendStep ==
  ASSUME LedgerInv, NEW p \in Publisher, pub[p].at = "anchored", ~Already(p),
         NEW line \in Line, line.entry \in {Unreadable, NewLine(p).entry}, ledger' = Written(line),
         NEW n, n = Len(ledger')
  PROVE  /\ LinesExtend' /\ OneLineEach'
         /\ n \in Nat \ {0} /\ Lines' = 1 .. n /\ n \in {Len(ledger), Len(ledger) + 1}
         /\ \A i \in 1 .. n - 1 : i \in Lines /\ ledger'[i] = ledger[i]
         /\ Whole(n)' => Recorded(n)' = pub[p].decision /\ n = Len(ledger) + 1
         /\ ~torn /\ line = NewLine(p) => \A i \in Lines' : Whole(i)' /\ ledger'[i].ended
<1> DEFINE cut == ledger # <<>> /\ ~Last(ledger).ended
<1>1. /\ LedgerTypeOK /\ LinesExtend /\ OneLineEach /\ Len(ledger) \in Nat
      /\ \A i \in Lines : Whole(i)
      /\ pub[p].seen = Before(Len(ledger) + 1)
  BY LinesAreTyped DEF LedgerInv, HolderHasRead
<1>2. cut \in BOOLEAN
  OBVIOUS
<1> HIDE DEF cut
<1>3. /\ Written(line) \in Seq(Line)
      /\ Len(Written(line)) = IF cut THEN Len(ledger) ELSE Len(ledger) + 1
      /\ Len(Written(line)) \in Nat \ {0}
      /\ \A i \in 1 .. Len(Written(line)) - 1 : i \in Lines /\ Written(line)[i] = ledger[i]
      /\ LET last == Written(line)[Len(Written(line))] IN
           /\ last.entry = IF cut THEN Unreadable ELSE line.entry
           /\ last.ended = line.ended
      /\ cut => Len(ledger) \in Lines /\ ~ledger[Len(ledger)].ended
      /\ ~cut /\ Len(ledger) > 0 => ledger[Len(ledger)].ended
  BY <1>1, WrittenLines DEF cut
<1>4. /\ ledger' \in Seq(Line) /\ n \in Nat \ {0} /\ Lines' = 1 .. n
      /\ n = IF cut THEN Len(ledger) ELSE Len(ledger) + 1
      /\ \A i \in 1 .. n - 1 : i \in Lines /\ ledger'[i] = ledger[i]
      /\ ledger'[n].entry = IF cut THEN Unreadable ELSE line.entry
      /\ ledger'[n].ended = line.ended
  BY <1>3 DEF Lines
<1>5. \A i \in 1 .. n - 1 : Whole(i) /\ ledger[i].ended
  <2> SUFFICES ASSUME NEW i \in 1 .. n - 1 PROVE ledger[i].ended
    BY <1>1, <1>4
  <2>1. CASE i < Len(ledger)
    BY <1>1, <1>4, <2>1 DEF LinesExtend
  <2>2. CASE i = Len(ledger)
    BY <1>1, <1>3, <1>4, <2>2
  <2>3. i <= Len(ledger)
    BY <1>1, <1>4
  <2> QED BY <1>1, <1>4, <2>1, <2>2, <2>3
<1>6. CASE ledger'[n].entry = Unreadable
  <2>1. LinesExtend' /\ OneLineEach'
    BY <1>1, <1>4, <1>5, <1>6, LastLineStep
  <2>2. ~Whole(n)'
    BY <1>6 DEF Whole
  <2>3. line = NewLine(p) => ~(~torn)
    <3> SUFFICES ASSUME line = NewLine(p), ~torn PROVE FALSE
      OBVIOUS
    <3>1. line.entry # Unreadable
      BY <1>1, NewLineIsTyped DEF LedgerInv
    <3>2. Len(ledger) \in Lines /\ ~ledger[Len(ledger)].ended
      BY <1>3, <1>4, <1>6, <3>1
    <3> QED BY <3>2 DEF LedgerInv, DamageIsKnown
  <2> QED BY <1>4, <2>1, <2>2, <2>3
<1>7. CASE ledger'[n].entry # Unreadable
  <2>1. n = Len(ledger) + 1 /\ ledger'[n].entry = NewLine(p).entry
    BY <1>4, <1>7
  <2>2. /\ NewLine(p).ended
        /\ NewLine(p).entry \in Entry
        /\ NewLine(p).entry.decision = pub[p].decision
        /\ NewLine(p).entry.prev = Before(n)
    BY <1>1, <2>1, NewLineIsTyped DEF LedgerInv
  <2>3. \A i \in 1 .. n - 1 : Recorded(i) # pub[p].decision
    <3>1. Range(pub[p].seen) = {Recorded(i) : i \in 1 .. n - 1}
      BY <1>1, <2>1 DEF Range, Before
    <3> QED BY <3>1 DEF Already
  <2>4. LinesExtend' /\ OneLineEach'
    BY <1>1, <1>4, <1>5, <2>1, <2>2, <2>3, LastLineStep
  <2>5. \A i \in 1 .. n - 1 : Whole(i)' /\ ledger'[i].ended
    BY <1>4, <1>5 DEF Whole
  <2>6. Recorded(n)' = pub[p].decision
    BY <2>1, <2>2 DEF Recorded
  <2>7. line = NewLine(p) => Whole(n)' /\ ledger'[n].ended
    BY <1>4, <1>7, <2>2 DEF Whole
  <2> QED BY <1>4, <2>1, <2>4, <2>5, <2>6, <2>7
<1> QED BY <1>6, <1>7

(* Both kinds of append.                                                   *)
LEMMA AppendLines ==
  ASSUME LedgerInv, NEW p \in Publisher, AppendLine(p) \/ ShortWrite(p)
  PROVE  /\ pub[p].at = "anchored" /\ ~Already(p) /\ Move(p, "appended")
         /\ UNCHANGED <<flushed, receipts, kept, holder, served, doubtful>>
         /\ \E line \in Line : /\ line.entry \in {Unreadable, NewLine(p).entry}
                               /\ ledger' = Written(line)
                               /\ ~torn' => ~torn /\ line = NewLine(p)
<1>1. pub[p].at = "anchored"
  BY DEF AppendLine, ShortWrite
<1>2. NewLine(p) \in Line
  BY <1>1, NewLineIsTyped DEF LedgerInv
<1>3. CASE AppendLine(p)
  BY <1>2, <1>3 DEF AppendLine, history
<1>4. CASE ShortWrite(p)
  BY <1>2, <1>4, CutLines DEF ShortWrite, LedgerInv
<1> QED BY <1>3, <1>4

LEMMA ChainStep ==
  ASSUME LedgerInv, [LedgerNext]_ledgerVars
  PROVE  LinesExtend' /\ OneLineEach' /\ DamageIsKnown'
<1>1. ASSUME UNCHANGED <<ledger, torn>> PROVE LinesExtend' /\ OneLineEach' /\ DamageIsKnown'
  BY <1>1, LinesStay DEF LedgerInv, DamageIsKnown
<1>2. ASSUME NEW p \in Publisher, AppendLine(p) \/ ShortWrite(p)
      PROVE  LinesExtend' /\ OneLineEach' /\ DamageIsKnown'
  <2>1. PICK line \in Line : /\ line.entry \in {Unreadable, NewLine(p).entry}
                             /\ ledger' = Written(line)
                             /\ ~torn' => ~torn /\ line = NewLine(p)
    BY <1>2, AppendLines
  <2>2. pub[p].at = "anchored" /\ ~Already(p)
    BY <1>2, AppendLines
  <2>3. /\ LinesExtend' /\ OneLineEach'
        /\ ~torn /\ line = NewLine(p) => \A i \in Lines' : Whole(i)' /\ ledger'[i].ended
    BY <2>1, <2>2, AppendStep
  <2> QED BY <2>1, <2>3 DEF DamageIsKnown
<1>3. CASE PowerLoss
  <2>1. /\ LedgerTypeOK /\ LinesExtend /\ OneLineEach /\ Len(ledger) \in Nat
        /\ flushed \in 0 .. Len(ledger)
    BY LinesAreTyped DEF LedgerInv, LedgerTypeOK
  <2>2. PICK n \in flushed .. Len(ledger) : CutTo(n)
    BY <1>3, <2>1, PowerLossCuts
  <2>3. n \in Nat /\ n <= Len(ledger)
    BY <2>1
  <2>4. /\ ledger' \in Seq(Line)
        /\ \A i \in 1 .. n : i \in Lines /\ ledger'[i] = ledger[i]
    BY <2>2 DEF CutTo
  <2>5. CASE Len(ledger') = n
    <3>1. \A i \in 1 .. n - 1 : i \in Lines /\ ledger'[i] = ledger[i] /\ Whole(i) /\ ledger[i].ended
      BY <2>1, <2>3, <2>4 DEF LinesExtend
    <3>2. n > 0 => n \in Lines /\ ledger'[n].entry = ledger[n].entry
      BY <2>3, <2>4
    <3>3. LinesExtend' /\ OneLineEach'
      BY <2>1, <2>3, <2>4, <2>5, <3>1, <3>2, LastLineStep
    <3>4. torn' = torn /\ Lines' = 1 .. n
      BY <2>2, <2>5 DEF CutTo, Lines
    <3>5. DamageIsKnown'
      BY <2>4, <3>4 DEF LedgerInv, DamageIsKnown, Whole
    <3> QED BY <3>3, <3>5
  <2>6. CASE Len(ledger') = n + 1
    <3>1. torn' = TRUE /\ n + 1 \in Lines /\ ledger'[n + 1].entry \in {Unreadable, ledger[n + 1].entry}
      BY <2>2, <2>6 DEF CutTo
    <3>2. \A i \in 1 .. (n + 1) - 1 : i \in Lines /\ ledger'[i] = ledger[i] /\ Whole(i) /\ ledger[i].ended
      BY <2>1, <2>3, <2>4, <3>1 DEF LinesExtend, Lines
    <3>3. LinesExtend' /\ OneLineEach'
      BY <2>1, <2>3, <2>4, <2>6, <3>1, <3>2, LastLineStep
    <3> QED BY <3>1, <3>3 DEF DamageIsKnown
  <2> QED BY <2>2, <2>5, <2>6 DEF CutTo
<1>4. CASE UNCHANGED ledgerVars
  BY <1>1, <1>4 DEF ledgerVars
<1> QED BY <1>1, <1>2, <1>3, <1>4, StepKinds, NothingAppended

-----------------------------------------------------------------------------
(* The publishers.                                                         *)

(* How a publisher goes on, and that no other one moves.                   *)
LEMMA StageStep ==
  ASSUME LedgerTypeOK, NEW p \in Publisher, NEW stage, Move(p, stage)
  PROVE  /\ pub'[p].at = stage /\ pub'[p].decision = pub[p].decision /\ pub'[p].seen = pub[p].seen
         /\ \A q \in Publisher : q # p => pub'[q] = pub[q]
<1>1. /\ pub \in [Publisher -> [at : Stage, decision : Decision \union {Nobody}, seen : Seq(Decision)]]
      /\ pub' = [pub EXCEPT ![p].at = stage]
  BY DEF LedgerTypeOK, Move
<1> QED BY <1>1

LEMMA HolderStep ==
  ASSUME LedgerInv, [LedgerNext]_ledgerVars PROVE HolderHasRead'
<1>1. LedgerTypeOK /\ LinesExtend /\ HolderHasRead
  BY DEF LedgerInv
<1>2. ASSUME NEW p \in Publisher, NEW d \in Decision, Decide(p, d) PROVE HolderHasRead'
  <2>1. /\ UNCHANGED ledger
        /\ pub' = [pub EXCEPT ![p] = [at |-> "waiting", decision |-> d, seen |-> <<>>]]
    BY <1>2 DEF Decide, files
  <2> QED BY <1>1, <2>1, LinesStay DEF HolderHasRead, LedgerTypeOK
<1>3. ASSUME NEW p \in Publisher, Enter(p) PROVE HolderHasRead'
  <2>1. /\ UNCHANGED ledger
        /\ pub' = [pub EXCEPT ![p].at = "loaded", ![p].seen = Decisions]
        /\ \A i \in Lines : Whole(i)
        /\ Decisions = Before(Len(ledger) + 1)
        /\ pub[p].decision \in Decision
    BY <1>1, <1>3, ReadableIsWhole, BeforeIsPrefix DEF Enter, files, HolderHasRead
  <2>2. /\ pub'[p].decision = pub[p].decision /\ pub'[p].seen = Decisions
        /\ \A q \in Publisher : q # p => pub'[q] = pub[q]
    <3> DEFINE mid == [pub EXCEPT ![p].at = "loaded"]
    <3>1. /\ mid \in [Publisher -> [at : Stage, decision : Decision \union {Nobody}, seen : Seq(Decision)]]
          /\ mid[p].decision = pub[p].decision
          /\ \A q \in Publisher : q # p => mid[q] = pub[q]
      <4>1. pub \in [Publisher -> [at : Stage, decision : Decision \union {Nobody}, seen : Seq(Decision)]]
            /\ "loaded" \in Stage
        BY <1>1 DEF LedgerTypeOK, Stage
      <4> QED BY <4>1
    <3>2. pub' = [mid EXCEPT ![p].seen = Decisions]
      BY <2>1
    <3> HIDE DEF mid
    <3> QED BY <3>1, <3>2
  <2>3. Len(ledger') = Len(ledger) /\ Before(Len(ledger) + 1)' = Before(Len(ledger) + 1)
    BY <2>1, LinesStay DEF Before, Recorded
  <2> QED BY <1>1, <2>1, <2>2, <2>3, LinesStay DEF HolderHasRead
<1>4. ASSUME NEW p \in Publisher, EnterRefused(p) \/ Refuse(p) \/ Serve(p) \/ Kill(p) PROVE HolderHasRead'
  <2>1. UNCHANGED ledger /\ pub' = [pub EXCEPT ![p] = Idle]
    BY <1>4 DEF EnterRefused, Refuse, Serve, Kill, Give, files
  <2>2. \A q \in Publisher : pub'[q] = pub[q] \/ pub'[q].at = "idle"
    BY <1>1, <2>1 DEF LedgerTypeOK, Idle
  <2>3. Len(ledger') = Len(ledger) /\ Before(Len(ledger) + 1)' = Before(Len(ledger) + 1)
    BY <2>1, LinesStay DEF Before, Recorded
  <2> QED BY <1>1, <2>1, <2>2, <2>3, LinesStay DEF HolderHasRead
<1>5. ASSUME NEW p \in Publisher,
             \/ Link(p) \/ FlushReceipt(p) \/ Found(p) \/ Repeat(p) \/ FlushLedger(p)
      PROVE  HolderHasRead'
  <2>1. PICK stage \in Stage : Move(p, stage)
    BY <1>5 DEF Link, FlushReceipt, Found, Repeat, FlushLedger, Stage
  <2>2. /\ UNCHANGED ledger
        /\ pub[p].at # "idle"
        /\ stage \in {"loaded", "linked", "anchored"} => pub[p].at \in {"loaded", "linked", "anchored"}
    <3>1. pub'[p].at = stage
      BY <1>1, <2>1, StageStep
    <3>2. /\ pub[p].at \in {"loaded", "linked"} \/ (pub[p].at \in {"anchored", "appended"} /\ Move(p, "written"))
          /\ UNCHANGED ledger
      BY <1>5 DEF Link, FlushReceipt, Found, Repeat, FlushLedger, files
    <3>3. Move(p, "written") => pub'[p].at = "written"
      BY <1>1, StageStep
    <3> QED BY <3>1, <3>2, <3>3
  <2>3. /\ pub'[p].at = stage /\ pub'[p].decision = pub[p].decision /\ pub'[p].seen = pub[p].seen
        /\ \A q \in Publisher : q # p => pub'[q] = pub[q]
    BY <1>1, <2>1, StageStep
  <2>4. Len(ledger') = Len(ledger) /\ Before(Len(ledger) + 1)' = Before(Len(ledger) + 1)
    BY <2>2, LinesStay DEF Before, Recorded
  <2> QED BY <1>1, <2>2, <2>3, <2>4, LinesStay DEF HolderHasRead
<1>6. ASSUME NEW p \in Publisher, AppendLine(p) \/ ShortWrite(p) PROVE HolderHasRead'
  <2>1. pub[p].at = "anchored" /\ Move(p, "appended")
    BY <1>6, AppendLines
  <2>2. /\ pub'[p].at = "appended" /\ pub'[p].decision = pub[p].decision
        /\ \A q \in Publisher : q # p => pub'[q] = pub[q] /\ pub[q].at \in {"idle", "waiting"}
    BY <1>1, <2>1, StageStep, HolderIsAlone
  <2> QED BY <1>1, <2>1, <2>2 DEF HolderHasRead
<1>7. CASE PowerLoss
  BY <1>7 DEF PowerLoss, HolderHasRead, Idle
<1>8. CASE UNCHANGED ledgerVars
  <2>1. Len(ledger') = Len(ledger) /\ Before(Len(ledger) + 1)' = Before(Len(ledger) + 1)
    BY <1>8, LinesStay DEF Before, Recorded, ledgerVars
  <2> QED BY <1>1, <1>8, <2>1, LinesStay DEF HolderHasRead, ledgerVars
<1> QED BY <1>2, <1>3, <1>4, <1>5, <1>6, <1>7, <1>8, StepKinds DEF AppendsNothing

-----------------------------------------------------------------------------
(* What is on the disk.                                                    *)

Backing == ReceiptsAreKept /\ LinesAreBacked /\ LinesAreFlushed /\ ServedIsFlushed

(* A step of p that appends nothing and after which p answers for no       *)
(* receipt and no line that was not already answered for.                  *)
LEMMA AtRestStep ==
  ASSUME LedgerInv, NEW p \in Publisher, UNCHANGED <<files, served>>,
         doubtful \subseteq doubtful',
         \A q \in Publisher : q # p => pub'[q] = pub[q],
         pub[p].at \in {"linked", "appended"} => pub[p].decision \in doubtful',
         pub'[p].at \notin {"linked", "appended"},
         pub'[p].at = "anchored" => pub'[p].decision \in kept \union doubtful'
  PROVE  Backing'
<1>1. /\ UNCHANGED <<ledger, flushed, receipts, kept, served>>
      /\ \A i : Recorded(i)' = Recorded(i) /\ (Whole(i)' <=> Whole(i))
      /\ Lines' = Lines
  BY LinesStay DEF files
<1>2. ReceiptsAreKept'
  BY <1>1 DEF LedgerInv, ReceiptsAreKept, Working
<1>3. LinesAreBacked'
  BY <1>1 DEF LedgerInv, LinesAreBacked
<1>4. LinesAreFlushed'
  BY <1>1 DEF LedgerInv, LinesAreFlushed, Working
<1>5. ServedIsFlushed'
  BY <1>1 DEF LedgerInv, ServedIsFlushed
<1> QED BY <1>2, <1>3, <1>4, <1>5 DEF Backing

LEMMA BackingStep ==
  ASSUME LedgerInv, [LedgerNext]_ledgerVars PROVE Backing'
<1>1. LedgerTypeOK /\ Len(ledger) \in Nat /\ flushed \in 0 .. Len(ledger)
  BY LinesAreTyped DEF LedgerInv, LedgerTypeOK
<1>2. ASSUME NEW p \in Publisher, NEW d \in Decision, Decide(p, d) PROVE Backing'
  <2>1. /\ pub[p].at = "idle" /\ UNCHANGED <<files, served, doubtful>>
        /\ pub'[p].at = "waiting"
        /\ \A q \in Publisher : q # p => pub'[q] = pub[q]
    BY <1>1, <1>2 DEF Decide, LedgerTypeOK, history
  <2> QED BY <2>1, AtRestStep
<1>3. ASSUME NEW p \in Publisher, Enter(p) PROVE Backing'
  <2>1. /\ pub[p].at = "waiting" /\ UNCHANGED <<files, served, doubtful>>
        /\ pub' = [pub EXCEPT ![p].at = "loaded", ![p].seen = Decisions]
    BY <1>3 DEF Enter, history
  <2>2. pub'[p].at = "loaded" /\ \A q \in Publisher : q # p => pub'[q] = pub[q]
    BY <1>1, <2>1 DEF LedgerTypeOK
  <2> QED BY <2>1, <2>2, AtRestStep
<1>4. ASSUME NEW p \in Publisher, EnterRefused(p) \/ Refuse(p) \/ Kill(p) PROVE Backing'
  <2>1. /\ UNCHANGED <<files, served>> /\ pub' = [pub EXCEPT ![p] = Idle]
        /\ doubtful \subseteq doubtful'
        /\ pub[p].at \in {"linked", "appended"} => pub[p].decision \in doubtful'
    BY <1>4 DEF EnterRefused, Refuse, Kill, Give, history
  <2>2. pub'[p].at = "idle" /\ \A q \in Publisher : q # p => pub'[q] = pub[q]
    BY <1>1, <2>1 DEF LedgerTypeOK, Idle
  <2> QED BY <2>1, <2>2, AtRestStep
<1>5. ASSUME NEW p \in Publisher, Found(p) \/ Repeat(p) PROVE Backing'
  <2>1. /\ UNCHANGED <<files, served, doubtful>>
        /\ \/ Move(p, "anchored") /\ pub[p].at = "loaded" /\ pub[p].decision \in receipts
           \/ Move(p, "written") /\ pub[p].at = "anchored"
    BY <1>5 DEF Found, Repeat, history
  <2>2. pub'[p].at \in {"anchored", "written"} /\ \A q \in Publisher : q # p => pub'[q] = pub[q]
    BY <1>1, <2>1, StageStep
  <2>3. pub'[p].decision = pub[p].decision /\ (pub'[p].at = "anchored" => pub[p].at = "loaded" /\ pub[p].decision \in receipts)
    BY <1>1, <2>1, StageStep
  <2>4. ASSUME pub[p].at = "loaded", pub[p].decision \in receipts PROVE pub[p].decision \in kept \union doubtful
    BY <1>1, <2>4, HolderIsAlone DEF LedgerInv, ReceiptsAreKept, Working
  <2> QED BY <2>1, <2>2, <2>3, <2>4, AtRestStep
<1>6. ASSUME NEW p \in Publisher, Link(p) \/ FlushReceipt(p) PROVE Backing'
  <2>1. /\ UNCHANGED <<ledger, flushed, served, doubtful>> /\ pub[p].at \in {"loaded", "linked"}
        /\ Move(p, "linked") \/ Move(p, "anchored")
    BY <1>6 DEF Link, FlushReceipt, history
  <2>2. /\ pub'[p].decision = pub[p].decision /\ pub'[p].at \in {"linked", "anchored"}
        /\ \A q \in Publisher : q # p => pub'[q] = pub[q] /\ pub[q].at \in {"idle", "waiting"}
    BY <1>1, <2>1, StageStep, HolderIsAlone
  <2>3. ReceiptsAreKept'
    <3>1. CASE Link(p)
      <4>1. /\ receipts' = receipts \union {pub[p].decision} /\ kept' = kept /\ pub[p].at = "loaded"
            /\ pub'[p].at = "linked"
        BY <1>1, <3>1, StageStep DEF Link
      <4> QED BY <2>1, <2>2, <4>1 DEF LedgerInv, ReceiptsAreKept, Working
    <3>2. CASE FlushReceipt(p)
      <4>1. /\ kept' = kept \union {pub[p].decision} /\ receipts' = receipts /\ pub[p].at = "linked"
            /\ pub'[p].at = "anchored"
        BY <1>1, <3>2, StageStep DEF FlushReceipt
      <4> QED BY <2>1, <2>2, <4>1 DEF LedgerInv, ReceiptsAreKept, Working
    <3> QED BY <1>6, <3>1, <3>2
  <2>4. kept \subseteq kept'
    BY <1>6 DEF Link, FlushReceipt
  <2>5. \A i : Recorded(i)' = Recorded(i) /\ (Whole(i)' <=> Whole(i)) /\ Lines' = Lines
    BY <2>1, LinesStay
  <2>6. LinesAreBacked' /\ ServedIsFlushed'
    BY <2>1, <2>4, <2>5 DEF LedgerInv, LinesAreBacked, ServedIsFlushed
  <2>7. LinesAreFlushed'
    BY <2>1, <2>2, <2>5 DEF LedgerInv, LinesAreFlushed, Working
  <2> QED BY <2>3, <2>6, <2>7 DEF Backing
<1>7. ASSUME NEW p \in Publisher, AppendLine(p) \/ ShortWrite(p) PROVE Backing'
  <2>1. /\ pub[p].at = "anchored" /\ ~Already(p) /\ Move(p, "appended")
        /\ UNCHANGED <<flushed, receipts, kept, holder, served, doubtful>>
    BY <1>7, AppendLines
  <2>2. PICK line \in Line : line.entry \in {Unreadable, NewLine(p).entry} /\ ledger' = Written(line)
    BY <1>7, AppendLines
  <2>3. PICK n : n = Len(ledger')
    OBVIOUS
  <2>4. /\ n \in Nat \ {0} /\ Lines' = 1 .. n /\ n \in {Len(ledger), Len(ledger) + 1}
        /\ \A i \in 1 .. n - 1 : i \in Lines /\ ledger'[i] = ledger[i]
        /\ Whole(n)' => Recorded(n)' = pub[p].decision /\ n = Len(ledger) + 1
    BY <2>1, <2>2, <2>3, AppendStep
  <2>5. \A i \in 1 .. n - 1 : i \in Lines /\ Recorded(i)' = Recorded(i) /\ (Whole(i)' <=> Whole(i))
    BY <2>4 DEF Recorded, Whole
  <2>6. /\ pub'[p].decision = pub[p].decision /\ pub'[p].at = "appended"
        /\ \A q \in Publisher : q # p => pub'[q] = pub[q] /\ pub[q].at \in {"idle", "waiting"}
    BY <1>1, <2>1, StageStep, HolderIsAlone
  <2>7. pub[p].decision \in kept \union doubtful
    BY <2>1 DEF LedgerInv, ReceiptsAreKept
  <2>8. ReceiptsAreKept'
    BY <2>1, <2>6 DEF LedgerInv, ReceiptsAreKept, Working
  <2>9. LinesAreBacked'
    <3> SUFFICES ASSUME NEW i \in 1 .. n, Whole(i)' PROVE Recorded(i)' \in kept \union doubtful
      BY <2>1, <2>4 DEF LinesAreBacked
    <3>1. CASE i = n
      BY <2>4, <2>7, <3>1
    <3>2. CASE i # n
      BY <2>4, <2>5, <3>2 DEF LedgerInv, LinesAreBacked
    <3> QED BY <3>1, <3>2
  <2>10. LinesAreFlushed'
    <3> SUFFICES ASSUME NEW i \in flushed + 1 .. n, Whole(i)'
                 PROVE  Recorded(i)' \in doubtful \/ Working(p, "appended", Recorded(i))'
      BY <2>1, <2>3 DEF LinesAreFlushed
    <3>1. CASE i = n
      BY <2>4, <2>6, <3>1 DEF Working
    <3>2. CASE i # n
      <4>1. i \in 1 .. n - 1 /\ i \in flushed + 1 .. Len(ledger)
        BY <1>1, <2>4, <3>2
      <4>2. Recorded(i) \in doubtful
        BY <2>1, <2>5, <2>6, <4>1 DEF LedgerInv, LinesAreFlushed, Working
      <4> QED BY <2>5, <4>1, <4>2
    <3> QED BY <3>1, <3>2
  <2>11. ServedIsFlushed'
    <3> SUFFICES ASSUME NEW d \in served \ doubtful
                 PROVE  d \in kept /\ \E i \in 1 .. flushed : Recorded(i)' = d \/ ~Whole(i)'
      BY <2>1 DEF ServedIsFlushed
    <3>1. d \in kept
      BY DEF LedgerInv, ServedIsFlushed
    <3>2. PICK i \in 1 .. flushed : Recorded(i) = d \/ ~Whole(i)
      BY DEF LedgerInv, ServedIsFlushed
    <3>3. i \in Lines
      BY <1>1 DEF Lines
    <3>4. CASE i \in 1 .. n - 1
      BY <2>5, <3>1, <3>2, <3>4
    <3>5. CASE i \notin 1 .. n - 1
      <4>1. i = n /\ n = Len(ledger)
        BY <1>1, <2>4, <3>3, <3>5 DEF Lines
      <4>2. ~Whole(i)'
        BY <1>1, <2>4, <4>1
      <4> QED BY <3>1, <4>2
    <3> QED BY <3>4, <3>5
  <2> QED BY <2>8, <2>9, <2>10, <2>11 DEF Backing
<1>8. ASSUME NEW p \in Publisher, FlushLedger(p) PROVE Backing'
  <2>1. /\ UNCHANGED <<ledger, receipts, kept, served, doubtful>> /\ flushed' = Len(ledger)
        /\ pub[p].at = "appended" /\ Move(p, "written")
    BY <1>8 DEF FlushLedger, history
  <2>2. /\ pub'[p].at = "written" /\ \A q \in Publisher : q # p => pub'[q] = pub[q] /\ pub[q].at \in {"idle", "waiting"}
    BY <1>1, <2>1, StageStep, HolderIsAlone
  <2>3. \A i : Recorded(i)' = Recorded(i) /\ (Whole(i)' <=> Whole(i)) /\ Lines' = Lines
    BY <2>1, LinesStay
  <2>4. ReceiptsAreKept'
    BY <2>1, <2>2 DEF LedgerInv, ReceiptsAreKept, Working
  <2>5. LinesAreBacked'
    BY <2>1, <2>3 DEF LedgerInv, LinesAreBacked
  <2>6. LinesAreFlushed'
    BY <1>1, <2>1 DEF LinesAreFlushed
  <2>7. ServedIsFlushed'
    <3>1. 1 .. flushed \subseteq 1 .. flushed'
      BY <1>1, <2>1
    <3> QED BY <2>1, <2>3, <3>1 DEF LedgerInv, ServedIsFlushed
  <2> QED BY <2>4, <2>5, <2>6, <2>7 DEF Backing
<1>9. ASSUME NEW p \in Publisher, Serve(p) PROVE Backing'
  <2>1. /\ UNCHANGED <<ledger, flushed, receipts, kept, doubtful>>
        /\ pub[p].at = "written" /\ pub' = [pub EXCEPT ![p] = Idle]
        /\ served' = served \union {pub[p].decision}
        /\ pub[p].decision \in receipts /\ pub[p].decision \in Range(Decisions)
    BY <1>9 DEF Serve, Give, files, Verifies
  <2>2. /\ pub'[p].at = "idle"
        /\ \A q \in Publisher : q # p => pub'[q] = pub[q] /\ pub[q].at \in {"idle", "waiting"}
    BY <1>1, <2>1, HolderIsAlone DEF LedgerTypeOK, Idle
  <2>3. \A i : Recorded(i)' = Recorded(i) /\ (Whole(i)' <=> Whole(i)) /\ Lines' = Lines
    BY <2>1, LinesStay
  <2>4. ReceiptsAreKept'
    BY <2>1, <2>2 DEF LedgerInv, ReceiptsAreKept, Working
  <2>5. LinesAreBacked'
    BY <2>1, <2>3 DEF LedgerInv, LinesAreBacked
  <2>6. LinesAreFlushed'
    BY <2>1, <2>2, <2>3 DEF LedgerInv, LinesAreFlushed, Working
  <2>7. ASSUME pub[p].decision \notin doubtful
        PROVE  pub[p].decision \in kept /\ \E i \in 1 .. flushed : Recorded(i) = pub[p].decision
    <3>1. pub[p].decision \in kept
      BY <2>1, <2>2, <2>7 DEF LedgerInv, ReceiptsAreKept, Working
    <3>2. PICK i \in Lines : Recorded(i) = pub[p].decision
      BY <1>1, <2>1, BeforeIsPrefix
    <3>3. Whole(i)
      <4>1. pub[p].decision \in Decision
        BY <2>1 DEF LedgerInv, HolderHasRead
      <4> QED BY <3>2, <4>1, Entries DEF Whole, Recorded
    <3>4. i \notin flushed + 1 .. Len(ledger)
      BY <2>1, <2>2, <2>7, <3>2, <3>3 DEF LedgerInv, LinesAreFlushed, Working
    <3>5. i \in 1 .. flushed
      BY <1>1, <3>4 DEF Lines
    <3> QED BY <3>1, <3>2, <3>5
  <2>8. ServedIsFlushed'
    BY <2>1, <2>3, <2>7 DEF LedgerInv, ServedIsFlushed
  <2> QED BY <2>4, <2>5, <2>6, <2>8 DEF Backing
<1>10. CASE PowerLoss
  <2>1. PICK n \in flushed .. Len(ledger) : CutTo(n)
    BY <1>1, <1>10, PowerLossCuts
  <2>2. /\ flushed' = Len(ledger') /\ kept' = receipts' /\ kept \subseteq kept'
        /\ UNCHANGED <<served, doubtful>>
        /\ \A p \in Publisher : pub'[p].at = "idle"
    BY <1>10 DEF PowerLoss, Idle
  <2>3. /\ n \in Nat /\ flushed <= n /\ Len(ledger') \in Nat
        /\ Len(ledger') \in {n, n + 1}
        /\ \A i \in 1 .. n : i \in Lines /\ ledger'[i] = ledger[i]
        /\ Len(ledger') = n + 1 => n + 1 \in Lines /\ ledger'[n + 1].entry \in {Unreadable, ledger[n + 1].entry}
    <3>1. n \in Nat /\ flushed <= n
      BY <1>1
    <3>2. Len(ledger') = n \/ Len(ledger') = n + 1
      BY <2>1 DEF CutTo
    <3>3. Len(ledger') \in Nat
      BY <3>1, <3>2
    <3> QED BY <2>1, <3>1, <3>3 DEF CutTo
  <2>4. \A i \in 1 .. n : Recorded(i)' = Recorded(i) /\ (Whole(i)' <=> Whole(i))
    BY <2>3 DEF Recorded, Whole
  <2>5. ReceiptsAreKept'
    BY <2>2 DEF ReceiptsAreKept
  <2>6. LinesAreBacked'
    <3> SUFFICES ASSUME NEW i \in Lines', Whole(i)' PROVE Recorded(i)' \in kept \union doubtful
      BY <2>2 DEF LinesAreBacked
    <3>1. i \in Lines /\ ledger'[i].entry = ledger[i].entry
      BY <2>3 DEF Lines, Whole
    <3> QED BY <3>1 DEF LedgerInv, LinesAreBacked, Recorded, Whole
  <2>7. LinesAreFlushed'
    BY <2>2, <2>3 DEF LinesAreFlushed
  <2>8. ServedIsFlushed'
    <3> SUFFICES ASSUME NEW d \in served \ doubtful
                 PROVE  d \in kept /\ \E i \in 1 .. Len(ledger') : Recorded(i)' = d \/ ~Whole(i)'
      BY <2>2 DEF ServedIsFlushed
    <3>1. PICK i \in 1 .. flushed : d \in kept /\ (Recorded(i) = d \/ ~Whole(i))
      BY DEF LedgerInv, ServedIsFlushed
    <3>2. i \in 1 .. n /\ i \in 1 .. Len(ledger')
      BY <1>1, <2>3
    <3> QED BY <2>4, <3>1, <3>2
  <2> QED BY <2>5, <2>6, <2>7, <2>8 DEF Backing
<1>11. CASE UNCHANGED ledgerVars
  <2>1. UNCHANGED <<ledger, flushed, receipts, kept, pub, served, doubtful>>
    BY <1>11 DEF ledgerVars
  <2>2. \A i : Recorded(i)' = Recorded(i) /\ (Whole(i)' <=> Whole(i)) /\ Lines' = Lines
    BY <2>1, LinesStay
  <2> QED BY <2>1, <2>2 DEF LedgerInv, Backing, ReceiptsAreKept, LinesAreBacked, LinesAreFlushed, ServedIsFlushed, Working
<1> QED BY <1>2, <1>3, <1>4, <1>5, <1>6, <1>7, <1>8, <1>9, <1>10, <1>11, StepKinds DEF AppendsNothing

-----------------------------------------------------------------------------
LEMMA InitInv == LedgerInit => LedgerInv
<1> SUFFICES ASSUME LedgerInit PROVE LedgerInv
  OBVIOUS
<1>1. LedgerTypeOK
  <2>1. /\ ledger \in Seq(Line) /\ flushed \in 0 .. Len(ledger)
    BY EmptySeq DEF LedgerInit
  <2>2. Idle \in [at : Stage, decision : Decision \union {Nobody}, seen : Seq(Decision)]
    BY EmptySeq DEF Idle, Stage
  <2>3. \A p \in Publisher : pub[p] = Idle /\ Idle.at = "idle" /\ holder # p
    BY LedgerAssumption DEF LedgerInit, Idle
  <2> QED BY <2>1, <2>2, <2>3 DEF LedgerInit, LedgerTypeOK
<1>2. Lines = {}
  BY EmptySeq DEF LedgerInit, Lines
<1>3. Len(ledger) = 0 /\ flushed = 0
  BY EmptySeq DEF LedgerInit
<1>4. LinesExtend /\ OneLineEach /\ DamageIsKnown /\ LinesAreBacked
  BY <1>2 DEF LinesExtend, OneLineEach, DamageIsKnown, LinesAreBacked
<1>5. LinesAreFlushed /\ ServedIsFlushed
  BY <1>3 DEF LinesAreFlushed, ServedIsFlushed, LedgerInit
<1>6. HolderHasRead /\ ReceiptsAreKept
  BY DEF LedgerInit, HolderHasRead, ReceiptsAreKept, Idle
<1> QED BY <1>1, <1>4, <1>5, <1>6 DEF LedgerInv

LEMMA StepInv == LedgerInv /\ [LedgerNext]_ledgerVars => LedgerInv'
<1> SUFFICES ASSUME LedgerInv, [LedgerNext]_ledgerVars PROVE LedgerInv'
  OBVIOUS
<1>1. LedgerTypeOK'
  BY TypeStep DEF LedgerInv
<1> QED BY <1>1, ChainStep, HolderStep, BackingStep DEF LedgerInv, Backing

(* The ledger can be trusted after any order of publications, kills, short *)
(* writes and losses of power: unless a write was not whole it is one      *)
(* chain; while it can be read it names no decision twice, every line has  *)
(* its receipt, and every decision that was printed is in it.              *)
THEOREM LedgerCanBeTrusted == LedgerSpec => []LedgerIsSound
<1>1. LedgerSpec => []LedgerInv
  BY InitInv, StepInv, PTL DEF LedgerSpec
<1>2. LedgerInv => LedgerIsSound
  BY InvariantIsEnough
<1> QED BY <1>1, <1>2, PTL

-----------------------------------------------------------------------------
(* The history of a filing.                                                *)

Source == {"house_pdf", "gemini_ocr"}
Said == Content \cup {Undated, Bad}
Recipe == {HouseRecipe, ManualReview, Restored} \cup OcrRecipe
Status == {"success", "no_txs", "invalid", "invalidated", "error"}

(* Rows and runs of the first generations, up to a moment.                 *)
RowUpTo(moment, newest) ==
  [id : Nat, gen : 1 .. newest, source : Source, key : Nat, says : Said, created : 0 .. moment]
RunUpTo(moment, newest) ==
  {p \in [recipe : Recipe, gen : 1 .. newest, status : Status, count : Nat, parsed : 0 .. moment,
          watermark : Int] : p.status = "no_txs" => p.count = 0}
FilingUpTo(moment) == [sha : Sha \cup {NotListed}, promoted : 0 .. moment, complete : BOOLEAN]
Retired(set, moment) == [was : set, retired : 0 .. moment]

Distinct(set) == \A t, u \in set : t # u => <<t.gen, t.source, t.key>> # <<u.gen, u.source, u.key>>

HistoryTypes ==
  /\ now \in Nat /\ now <= 2 * MaxTransactions + 1
  /\ filing \in Seq(FilingUpTo(now))
  /\ rows \subseteq RowUpTo(now, Newest) /\ IsFiniteSet(rows)
  /\ oldRows \subseteq Retired(RowUpTo(now, Newest), now)
  /\ parses \subseteq RunUpTo(now, Newest)
  /\ oldParses \subseteq Retired(RunUpTo(now, Newest), now)
  /\ days \in Seq(Nat) /\ shownAt \in Seq(SUBSET RowUpTo(now, Newest)) /\ Len(shownAt) = Len(days)
  /\ \A d \in 1 .. Len(days) : days[d] <= now + 1 /\ \A e \in d + 1 .. Len(days) : days[d] < days[e]
  /\ baseline.rows \subseteq RowUpTo(now, Newest) /\ IsFiniteSet(baseline.rows)
  /\ baseline.parses \subseteq RunUpTo(now, Newest)

(* A run whose word still stands: its watermark reaches the rows there     *)
(* are, or it was copied with them and none has been repaired since.       *)
Covers(q) ==
  IF q.watermark = NoInstant
    THEN RepairsOf(q) = {} /\ \A t \in RowsOf(q, rows) : t.created <= q.parsed
    ELSE \A t \in RowsOf(q, rows) : t.created <= q.watermark

Vouches(q, p, table) ==
  q.gen = p.gen /\ Family(q) = Family(p) /\ q.status = "success" /\ Counted(q, table)

(* Where a run of an earlier reading happens to fit the rows, there is one *)
(* that saw them.                                                          *)
RowsAreCovered ==
  \A p \in parses :
    p.status = "success" /\ Counted(p, rows) /\ RowsOf(p, rows) # {} =>
      \E q \in parses : Vouches(q, p, rows) /\ Covers(q)

HistoryInv ==
  /\ HistoryTypes /\ RowsStored /\ Distinct(baseline.rows) /\ RowsAreCovered /\ PastIsFixed

LEMMA LeastOf ==
  ASSUME NEW S \in SUBSET Nat, S # {}
  PROVE  Min(S) \in S /\ \A n \in S : Min(S) <= n
<1> DEFINE R == OpToRel(<, Nat)
<1>1. IsWellFoundedOn(R, Nat)
  BY NatLessThanWellFounded
<1>2. \A x, y \in Nat : x < y => <<x, y>> \in R
  BY DEF OpToRel
<1> HIDE DEF R
<1>3. PICK x \in S : \A y \in S : ~(<<y, x>> \in R)
  BY <1>1, WFMin
<1>4. ASSUME NEW y \in S PROVE x <= y
  <2>1. x \in Nat /\ y \in Nat /\ ~(<<y, x>> \in R)
    BY <1>3
  <2>2. ~(y < x)
    BY <1>2, <2>1
  <2> QED BY <2>1, <2>2
<1> QED BY <1>3, <1>4 DEF Min

LEMMA GreatestOf ==
  ASSUME NEW n \in Nat, NEW S \in SUBSET (0 .. n), S # {}
  PROVE  Max(S) \in S /\ \A m \in S : m <= Max(S)
<1> DEFINE T == {n - m : m \in S}
<1>1. T \in SUBSET Nat /\ T # {}
  <2>1. \A m \in S : m \in Int /\ n - m \in Nat
    OBVIOUS
  <2> QED BY <2>1
<1>2. Min(T) \in T /\ \A k \in T : Min(T) <= k
  BY <1>1, LeastOf
<1>3. PICK x \in S : Min(T) = n - x
  BY <1>2
<1>4. ASSUME NEW m \in S PROVE x >= m
  <2>1. n - m \in T /\ m \in Int /\ x \in Int
    OBVIOUS
  <2>2. n - x <= n - m
    BY <1>2, <1>3, <2>1
  <2> QED BY <2>1, <2>2
<1> QED BY <1>4 DEF Max

-----------------------------------------------------------------------------
(* Days and watermarks.                                                    *)

LEMMA Moments ==
  ASSUME HistoryTypes
  PROVE  /\ now \in Nat /\ Start = now + 1 /\ Wall = now + 2 /\ Newest \in Nat
         /\ Never > now /\ Never \in Nat
  BY HistoryAssumption, LenProperties DEF HistoryTypes, Start, Wall, Newest, Never

LEMMA RowFields ==
  ASSUME NEW moment, NEW newest, NEW t \in RowUpTo(moment, newest)
  PROVE  /\ t.id \in Nat /\ t.gen \in 1 .. newest /\ t.source \in Source /\ t.key \in Nat
         /\ t.says \in Said /\ t.created \in 0 .. moment
  BY DEF RowUpTo

LEMMA RunFields ==
  ASSUME NEW moment, NEW newest, NEW p \in RunUpTo(moment, newest)
  PROVE  /\ p.recipe \in Recipe /\ p.gen \in 1 .. newest /\ p.status \in Status /\ p.count \in Nat
         /\ p.parsed \in 0 .. moment /\ p.watermark \in Int /\ Family(p) \in Source
         /\ p.status = "no_txs" => p.count = 0
  BY DEF RunUpTo, Family, Source

LEMMA UpToGrows ==
  ASSUME NEW n \in Nat, NEW m \in Nat, NEW g \in Nat, NEW h \in Nat, n <= m, g <= h
  PROVE  /\ RowUpTo(n, g) \subseteq RowUpTo(m, h) /\ RunUpTo(n, g) \subseteq RunUpTo(m, h)
         /\ FilingUpTo(n) \subseteq FilingUpTo(m)
<1>1. 0 .. n \subseteq 0 .. m /\ 1 .. g \subseteq 1 .. h
  OBVIOUS
<1>2. RowUpTo(n, g) \subseteq RowUpTo(m, h)
  BY <1>1 DEF RowUpTo
<1>3. RunUpTo(n, g) \subseteq RunUpTo(m, h)
  BY <1>1 DEF RunUpTo
<1>4. FilingUpTo(n) \subseteq FilingUpTo(m)
  BY <1>1 DEF FilingUpTo
<1> QED BY <1>2, <1>3, <1>4

LEMMA RetiredGrows ==
  ASSUME NEW n \in Nat, NEW m \in Nat, n <= m, NEW S, NEW T, S \subseteq T
  PROVE  Retired(S, n) \subseteq Retired(T, m)
<1>1. 0 .. n \subseteq 0 .. m
  OBVIOUS
<1> QED BY <1>1 DEF Retired

(* The days that ended, and the first of them after an instant.            *)
Ends == {days[d] : d \in DOMAIN days}

LEMMA EndsAreNatural == HistoryTypes => Ends \subseteq Nat /\ \A d \in 1 .. Len(days) : days[d] \in Ends
<1> SUFFICES ASSUME HistoryTypes PROVE Ends \subseteq Nat /\ \A d \in 1 .. Len(days) : days[d] \in Ends
  OBVIOUS
<1>1. days \in Seq(Nat)
  BY DEF HistoryTypes
<1>2. DOMAIN days = 1 .. Len(days) /\ \A d \in 1 .. Len(days) : days[d] \in Nat
  BY <1>1
<1> QED BY <1>2 DEF Ends

LEMMA DayEnds ==
  ASSUME HistoryTypes, NEW instant \in 0 .. now
  PROVE  EndOfDay(instant) \in Nat /\ EndOfDay(instant) >= instant
<1>1. CASE \E e \in Ends : e > instant
  <2> DEFINE later == {e \in Ends : e > instant}
  <2>1. later \in SUBSET Nat /\ later # {}
    BY <1>1, EndsAreNatural
  <2>2. Min(later) \in later
    BY <2>1, LeastOf
  <2>3. EndOfDay(instant) = Min(later) - 1
    BY <1>1 DEF EndOfDay, Ends
  <2> HIDE DEF later
  <2>4. Min(later) \in Nat /\ Min(later) > instant /\ instant \in Nat
    BY <2>1, <2>2, Moments DEF later
  <2> QED BY <2>3, <2>4
<1>2. CASE ~\E e \in Ends : e > instant
  <2>1. EndOfDay(instant) = Never
    BY <1>2 DEF EndOfDay, Ends
  <2> QED BY <2>1, Moments
<1> QED BY <1>1, <1>2

LEMMA MaxCreatedBounds ==
  ASSUME NEW n \in Nat, NEW g, NEW S \in SUBSET RowUpTo(n, g)
  PROVE  /\ MaxCreated(S) \in Int /\ \A t \in S : t.created <= MaxCreated(S)
         /\ S # {} => MaxCreated(S) \in 0 .. n
<1> DEFINE created == {t.created : t \in S}
<1>1. CASE S = {}
  BY <1>1 DEF MaxCreated, NoInstant
<1>2. CASE S # {}
  <2>1. created \in SUBSET (0 .. n) /\ created # {}
    BY <1>2, RowFields
  <2>2. Max(created) \in created /\ \A m \in created : m <= Max(created)
    BY <2>1, GreatestOf
  <2>3. MaxCreated(S) = Max(created)
    BY <1>2 DEF MaxCreated
  <2> QED BY <2>1, <2>2, <2>3
<1> QED BY <1>1, <1>2

-----------------------------------------------------------------------------
(* Today: what covers the rows is among what acted on them, from whatever  *)
(* moment they are looked at.                                              *)

LEMMA NothingIsLater ==
  ASSUME HistoryTypes, NEW cutoff \in Nat, cutoff > now
  PROVE  /\ RowsAt(cutoff) = rows /\ ParsesAt(cutoff) = parses
         /\ {g \in 1 .. Newest : filing[g].promoted < cutoff} = 1 .. Newest
<1>1. ASSUME NEW o \in oldRows \cup oldParses PROVE ~(o.retired >= cutoff)
  <2>1. o.retired \in 0 .. now
    BY <1>1 DEF HistoryTypes, Retired
  <2> QED BY <2>1, Moments
<1>2. ASSUME NEW t \in rows PROVE t.created < cutoff
  <2>1. t.created \in 0 .. now
    BY RowFields DEF HistoryTypes
  <2> QED BY <2>1, Moments
<1>3. RowsAt(cutoff) = rows
  BY <1>1, <1>2 DEF RowsAt
<1>4. ParsesAt(cutoff) = parses
  BY <1>1 DEF ParsesAt
<1>5. ASSUME NEW g \in 1 .. Newest PROVE filing[g].promoted < cutoff
  <2>1. filing[g] \in FilingUpTo(now)
    BY DEF HistoryTypes, Newest
  <2>2. filing[g].promoted \in 0 .. now
    BY <2>1 DEF FilingUpTo
  <2> QED BY <2>2, Moments
<1> QED BY <1>3, <1>4, <1>5

LEMMA CoversIsActing ==
  ASSUME HistoryTypes, NEW q \in parses, Covers(q), NEW cutoff \in Nat, cutoff > now
  PROVE  ActedOn(q, rows, cutoff)
<1>1. q.parsed \in 0 .. now
  BY RunFields DEF HistoryTypes
<1>2. EndOfDay(q.parsed) \in Nat /\ EndOfDay(q.parsed) >= q.parsed
  BY <1>1, DayEnds
<1>3. ASSUME NEW t \in RowsOf(q, rows) PROVE t.created <= Watermark(q)
  <2>1. t.created \in 0 .. now
    BY RowFields DEF HistoryTypes, RowsOf, Of
  <2>2. CASE q.watermark = NoInstant
    <3>1. Watermark(q) = EndOfDay(q.parsed) /\ t.created <= q.parsed
      BY <1>3, <2>2 DEF Covers, Watermark
    <3> QED BY <1>1, <1>2, <2>1, <3>1
  <2>3. CASE q.watermark # NoInstant
    BY <1>3, <2>3 DEF Covers, Watermark
  <2> QED BY <2>2, <2>3
<1>4. q.parsed < cutoff
  BY <1>1, Moments
<1> QED BY <1>3, <1>4 DEF ActedOn

LEMMA SameRowset ==
  ASSUME NEW table, NEW p, NEW q, q.gen = p.gen, Family(q) = Family(p)
  PROVE  RowsOf(q, table) = RowsOf(p, table)
  BY DEF RowsOf

LEMMA ViewIsLive ==
  ASSUME HistoryTypes, RowsAreCovered, NEW cutoff \in Nat, cutoff > now
  PROVE  AsOf(cutoff) = Live
<1> DEFINE acted == {p \in parses : ActedOn(p, rows, cutoff)}
           G == 1 .. Newest
<1>1. AsOf(cutoff) = View(rows, acted, G)
  BY NothingIsLater DEF AsOf
<1>2. \A p \in parses : p.status = "no_txs" => p.count = 0
  BY RunFields DEF HistoryTypes
<1>3. ASSUME NEW p \in parses, RowsOf(p, rows) # {}, p.status = "success", Counted(p, rows)
      PROVE  \E q \in acted : Vouches(q, p, rows)
  <2>1. PICK q \in parses : Vouches(q, p, rows) /\ Covers(q)
    BY <1>3 DEF RowsAreCovered
  <2> QED BY <2>1, CoversIsActing
<1>4. ASSUME NEW p \in parses, RowsOf(p, rows) = {} PROVE p \in acted \/ ~(p.parsed < cutoff)
  BY <1>4 DEF ActedOn
<1>5. \A p \in parses : p.parsed < cutoff
  <2>1. \A p \in parses : p.parsed \in 0 .. now
    BY RunFields DEF HistoryTypes
  <2> QED BY <2>1, Moments
<1>6. AcceptedGenerations(rows, acted, G) = AcceptedGenerations(rows, parses, G)
  <2>1. ASSUME NEW p \in parses, Settles(p, rows) PROVE \E q \in acted : q.gen = p.gen /\ Settles(q, rows)
    <3>1. CASE RowsOf(p, rows) = {}
      BY <1>4, <1>5, <2>1, <3>1
    <3>2. CASE RowsOf(p, rows) # {}
      <4>1. Counted(p, rows)
        BY <2>1 DEF Settles
      <4>2. p.status # "no_txs"
        <5>1. IsFiniteSet(RowsOf(p, rows))
          <6>1. RowsOf(p, rows) \subseteq rows
            BY DEF RowsOf, Of
          <6> QED BY <6>1, FS_Subset DEF HistoryTypes
        <5>2. Cardinality(RowsOf(p, rows)) # 0
          BY <3>2, <5>1, FS_EmptySet
        <5> QED BY <1>2, <4>1, <5>2 DEF Counted
      <4>3. p.status = "success" /\ p.count > 0 /\ \A t \in RowsOf(p, rows) : t.says \in Content
        BY <2>1, <3>2, <4>2 DEF Settles, RowsOf, Of
      <4>4. PICK q \in acted : Vouches(q, p, rows)
        BY <1>3, <3>2, <4>1, <4>3
      <4>5. RowsOf(q, rows) = RowsOf(p, rows) /\ q.count = p.count
        BY <4>1, <4>4, SameRowset DEF Vouches, Counted
      <4> QED BY <4>3, <4>4, <4>5 DEF Settles, Vouches
    <3> QED BY <3>1, <3>2
  <2> QED BY <2>1 DEF AcceptedGenerations
<1>7. ASSUME NEW p \in parses, NEW t \in rows, Binds(p, t, rows) PROVE \E q \in acted : Binds(q, t, rows)
  <2>1. t \in RowsOf(p, rows) /\ p.status = "success" /\ Counted(p, rows)
    BY <1>7 DEF Binds, RowsOf, Of
  <2>2. PICK q \in acted : Vouches(q, p, rows)
    BY <1>3, <2>1
  <2>3. RowsOf(q, rows) = RowsOf(p, rows)
    BY <2>2, SameRowset DEF Vouches
  <2> QED BY <1>7, <2>2, <2>3 DEF Binds, Vouches
<1> HIDE DEF acted, G
<1>8. Admissible(rows, acted, G) = Admissible(rows, parses, G)
  <2>1. \A t \in rows : (\E q \in acted : Binds(q, t, rows)) <=> \E p \in parses : Binds(p, t, rows)
    BY <1>7 DEF acted
  <2> QED BY <1>6, <2>1 DEF Admissible
<1>9. View(rows, acted, G) = View(rows, parses, G)
  BY <1>8 DEF View
<1> QED BY <1>1, <1>9 DEF Live, G

-----------------------------------------------------------------------------
(* The past: what a commit adds is later, and what it takes is archived.   *)

Archives(gone, goneRuns) ==
  /\ gone \subseteq rows /\ rows \ rows' \subseteq gone /\ oldRows' = oldRows \cup Archived(gone)
  /\ goneRuns \subseteq parses /\ parses \ parses' \subseteq goneRuns
  /\ oldParses' = oldParses \cup Archived(goneRuns)

AddsLater ==
  /\ (\A t \in rows' : t.created \in Nat) /\ \A p \in parses' : p.parsed \in Nat
  /\ \A t \in rows' \ rows : t.created >= Start \/ t.gen > Newest
  /\ \A p \in parses' \ parses : p.parsed >= Start
  /\ Newest' \in Nat /\ Newest' >= Newest
  /\ \A g \in 1 .. Newest : filing'[g].sha = filing[g].sha /\ filing'[g].promoted = filing[g].promoted
  /\ \A g \in Newest + 1 .. Newest' : filing'[g].promoted \in Nat /\ filing'[g].promoted >= Start

OneCommit(gone, goneRuns) == Archives(gone, goneRuns) /\ AddsLater /\ UNCHANGED <<days, shownAt>>

LEMMA ArchivedNow ==
  ASSUME NEW S
  PROVE  /\ \A o \in Archived(S) : o.was \in S /\ o.retired = Start
         /\ \A x \in S : \E o \in Archived(S) : o.was = x /\ o.retired = Start
<1>1. ASSUME NEW o \in Archived(S) PROVE o.was \in S /\ o.retired = Start
  <2>1. PICK x \in S : o = [was |-> x, retired |-> Start]
    BY DEF Archived
  <2> QED BY <2>1
<1>2. ASSUME NEW x \in S PROVE \E o \in Archived(S) : o.was = x /\ o.retired = Start
  <2>1. PICK o : o = [was |-> x, retired |-> Start]
    OBVIOUS
  <2>2. o \in Archived(S) /\ o.was = x /\ o.retired = Start
    BY <2>1 DEF Archived
  <2> QED BY <2>2
<1> QED BY <1>1, <1>2

LEMMA PastRows ==
  ASSUME HistoryTypes, NEW gone, NEW goneRuns, OneCommit(gone, goneRuns), NEW c \in Nat, c <= now + 1
  PROVE  RowsAt(c) \subseteq RowsAt(c)' /\ \A t \in RowsAt(c)' \ RowsAt(c) : t.gen > Newest
<1>0. Start >= c /\ Start \in Nat
  BY Moments
<1>1. ASSUME NEW t \in RowsAt(c) PROVE t \in RowsAt(c)'
  <2>1. t.created < c
    BY DEF RowsAt
  <2>2. CASE t \in rows'
    BY <2>1, <2>2 DEF RowsAt
  <2>3. CASE t \in rows /\ t \notin rows'
    <3>1. t \in gone
      BY <2>3 DEF OneCommit, Archives
    <3>2. PICK o \in Archived(gone) : o.was = t /\ o.retired = Start
      BY <3>1, ArchivedNow
    <3>3. o \in oldRows'
      BY <3>2 DEF OneCommit, Archives
    <3> QED BY <1>0, <2>1, <3>2, <3>3 DEF RowsAt
  <2>4. CASE t \notin rows
    <3>1. PICK o \in oldRows : o.was = t /\ o.retired >= c
      BY <2>4 DEF RowsAt
    <3>2. o \in oldRows'
      BY <3>1 DEF OneCommit, Archives
    <3> QED BY <2>1, <3>1, <3>2 DEF RowsAt
  <2> QED BY <2>2, <2>3, <2>4
<1>2. ASSUME NEW t \in RowsAt(c)', t \notin RowsAt(c) PROVE t.gen > Newest
  <2>1. t.created < c
    BY DEF RowsAt
  <2>2. CASE t \in rows'
    <3>1. t \notin rows
      BY <1>2, <2>1 DEF RowsAt
    <3>2. t.created >= Start \/ t.gen > Newest
      BY <2>2, <3>1 DEF OneCommit, AddsLater
    <3>3. t.created \in Nat
      BY <2>2 DEF OneCommit, AddsLater
    <3> QED BY <1>0, <2>1, <3>2, <3>3
  <2>3. CASE t \notin rows'
    <3>1. PICK o \in oldRows' : o.was = t /\ o.retired >= c
      BY <2>3 DEF RowsAt
    <3>2. CASE o \in oldRows
      BY <1>2, <2>1, <3>1, <3>2 DEF RowsAt
    <3>3. CASE o \in Archived(gone)
      <4>1. t \in rows
        BY <3>1, <3>3, ArchivedNow DEF OneCommit, Archives
      <4> QED BY <1>2, <2>1, <4>1 DEF RowsAt
    <3> QED BY <3>1, <3>2, <3>3 DEF OneCommit, Archives
  <2> QED BY <2>2, <2>3
<1> QED BY <1>1, <1>2

LEMMA PastRuns ==
  ASSUME HistoryTypes, NEW gone, NEW goneRuns, OneCommit(gone, goneRuns), NEW c \in Nat, c <= now + 1
  PROVE  {p \in ParsesAt(c) : p.parsed < c}' = {p \in ParsesAt(c) : p.parsed < c}
<1>0. Start >= c /\ Start \in Nat
  BY Moments
<1>1. ASSUME NEW p \in ParsesAt(c), p.parsed < c PROVE p \in ParsesAt(c)'
  <2>1. CASE p \in parses'
    BY <2>1 DEF ParsesAt
  <2>2. CASE p \in parses /\ p \notin parses'
    <3>1. p \in goneRuns
      BY <2>2 DEF OneCommit, Archives
    <3>2. PICK o \in Archived(goneRuns) : o.was = p /\ o.retired = Start
      BY <3>1, ArchivedNow
    <3>3. o \in oldParses'
      BY <3>2 DEF OneCommit, Archives
    <3> QED BY <1>0, <3>2, <3>3 DEF ParsesAt
  <2>3. CASE p \notin parses
    <3>1. PICK o \in oldParses : o.was = p /\ o.retired >= c
      BY <2>3 DEF ParsesAt
    <3>2. o \in oldParses'
      BY <3>1 DEF OneCommit, Archives
    <3> QED BY <3>1, <3>2 DEF ParsesAt
  <2> QED BY <2>1, <2>2, <2>3
<1>2. ASSUME NEW p \in ParsesAt(c)', p.parsed < c PROVE p \in ParsesAt(c)
  <2>1. CASE p \in parses'
    <3>1. p \in parses \/ p.parsed >= Start
      BY <2>1 DEF OneCommit, AddsLater
    <3>2. p.parsed \in Nat
      BY <2>1 DEF OneCommit, AddsLater
    <3> QED BY <1>0, <1>2, <3>1, <3>2 DEF ParsesAt
  <2>2. CASE p \notin parses'
    <3>1. PICK o \in oldParses' : o.was = p /\ o.retired >= c
      BY <2>2 DEF ParsesAt
    <3>2. CASE o \in oldParses
      BY <3>1, <3>2 DEF ParsesAt
    <3>3. CASE o \in Archived(goneRuns)
      <4>1. p \in parses
        BY <3>1, <3>3, ArchivedNow DEF OneCommit, Archives
      <4> QED BY <4>1 DEF ParsesAt
    <3> QED BY <3>1, <3>2, <3>3 DEF OneCommit, Archives
  <2> QED BY <2>1, <2>2
<1> QED BY <1>1, <1>2

LEMMA PastRowsets ==
  ASSUME HistoryTypes, NEW gone, NEW goneRuns, OneCommit(gone, goneRuns), NEW c \in Nat, c <= now + 1,
         NEW g \in 1 .. Newest, NEW s
  PROVE  Of(RowsAt(c), g, s)' = Of(RowsAt(c), g, s) /\ {t \in RowsAt(c) : t.gen = g}' = {t \in RowsAt(c) : t.gen = g}
<1>1. ~(g > Newest)
  BY Moments
<1> QED BY <1>1, PastRows DEF Of

LEMMA LeastOfTwo ==
  ASSUME NEW a \in Int, NEW b \in Int
  PROVE  \A x \in Int : x <= Min({a, b}) <=> x <= a /\ x <= b
<1>1. \E x \in {a, b} : \A y \in {a, b} : x <= y
  OBVIOUS
<1>2. Min({a, b}) \in {a, b} /\ \A y \in {a, b} : Min({a, b}) <= y
  BY <1>1 DEF Min
<1>3. Min({a, b}) \in Int /\ Min({a, b}) <= a /\ Min({a, b}) <= b
  BY <1>2
<1> QED BY <1>2, <1>3

LEMMA RepairsGrow ==
  ASSUME HistoryTypes, NEW gone, NEW goneRuns, OneCommit(gone, goneRuns), NEW p
  PROVE  /\ RepairsOf(p) \subseteq 0 .. now
         /\ RepairsOf(p) \subseteq RepairsOf(p)' /\ RepairsOf(p)' \subseteq RepairsOf(p) \cup {Start}
<1>1. RepairsOf(p) \subseteq 0 .. now
  BY DEF HistoryTypes, RepairsOf, Retired
<1>2. oldRows \subseteq oldRows'
  BY DEF OneCommit, Archives
<1>3. \A o \in oldRows' \ oldRows : o.retired = Start
  BY ArchivedNow DEF OneCommit, Archives
<1>4. RepairsOf(p) \subseteq RepairsOf(p)'
  BY <1>2 DEF RepairsOf
<1>5. RepairsOf(p)' \subseteq RepairsOf(p) \cup {Start}
  BY <1>3 DEF RepairsOf
<1> QED BY <1>1, <1>4, <1>5

(* The rows that stood before an earlier repair.                           *)
LEMMA StoodAtKept ==
  ASSUME HistoryTypes, NEW gone, NEW goneRuns, OneCommit(gone, goneRuns),
         NEW p \in RunUpTo(now, Newest), NEW r \in 0 .. now
  PROVE  StoodAt(p, r)' = StoodAt(p, r) /\ StoodAt(p, r) \subseteq RowUpTo(now, Newest)
<1>0. Start > r /\ Start \in Nat /\ ~(r >= Start)
  BY Moments
<1>1. p.gen \in 1 .. Newest /\ ~(p.gen > Newest)
  BY RunFields, Moments
<1>2. ASSUME NEW t, t.gen = p.gen, t.source = Family(p) PROVE t \in StoodAt(p, r)' <=> t \in StoodAt(p, r)
  <2>1. CASE t \in rows /\ t.created < r
    <3>1. t \in StoodAt(p, r)
      BY <1>2, <2>1 DEF StoodAt, RowsOf, Of
    <3>2. CASE t \in rows'
      BY <1>2, <2>1, <3>1, <3>2 DEF StoodAt, RowsOf, Of
    <3>3. CASE t \notin rows'
      <4>1. t \in gone
        BY <2>1, <3>3 DEF OneCommit, Archives
      <4>2. PICK o \in Archived(gone) : o.was = t /\ o.retired = Start
        BY <4>1, ArchivedNow
      <4>3. o \in oldRows' /\ o.retired >= r
        BY <1>0, <4>2 DEF OneCommit, Archives
      <4> QED BY <1>2, <2>1, <3>1, <4>2, <4>3 DEF StoodAt, RowsOf, Of
    <3> QED BY <3>2, <3>3
  <2>2. ASSUME t \in rows', t.created < r PROVE t \in rows
    <3>1. t.created \in Nat
      BY <2>2 DEF OneCommit, AddsLater
    <3> QED BY <1>0, <1>1, <1>2, <2>2, <3>1 DEF OneCommit, AddsLater
  <2>3. ASSUME NEW o \in oldRows', o \notin oldRows, o.was = t, o.retired >= r,
               o.was.created < r \/ o.retired = r
        PROVE  t \in rows /\ t.created < r
    <3>1. o \in Archived(gone)
      BY <2>3 DEF OneCommit, Archives
    <3>2. t \in gone /\ o.retired = Start
      BY <2>3, <3>1, ArchivedNow
    <3> QED BY <1>0, <2>3, <3>2 DEF OneCommit, Archives
  <2>4. oldRows \subseteq oldRows'
    BY DEF OneCommit, Archives
  <2> QED BY <1>2, <2>1, <2>2, <2>3, <2>4 DEF StoodAt, RowsOf, Of
<1>3. \A t \in StoodAt(p, r) \cup StoodAt(p, r)' : t.gen = p.gen /\ t.source = Family(p)
  BY DEF StoodAt, RowsOf, Of
<1>4. StoodAt(p, r) \subseteq RowUpTo(now, Newest)
  BY DEF StoodAt, RowsOf, Of, HistoryTypes, Retired
<1> QED BY <1>2, <1>3, <1>4

(* What stood before the first repair, if that is this one.                *)
LEMMA StoodAtFirst ==
  ASSUME HistoryTypes, NEW gone, NEW goneRuns, OneCommit(gone, goneRuns),
         NEW p \in RunUpTo(now, Newest), NEW start \in Nat, start = Start
  PROVE  StoodAt(p, start)' = RowsOf(p, rows)
<1>1. p.gen \in 1 .. Newest /\ ~(p.gen > Newest)
  BY RunFields, Moments
<1>2. ASSUME NEW t \in RowsOf(p, rows) PROVE t \in StoodAt(p, start)'
  <2>1. t \in rows /\ t.created < start
    <3>1. t \in rows
      BY DEF RowsOf, Of
    <3>2. t.created \in 0 .. now
      BY <3>1, RowFields DEF HistoryTypes
    <3> QED BY <3>1, <3>2, Moments
  <2>2. CASE t \in rows'
    BY <2>1, <2>2 DEF StoodAt, RowsOf, Of
  <2>3. CASE t \notin rows'
    <3>1. t \in gone
      BY <2>1, <2>3 DEF OneCommit, Archives
    <3>2. PICK o \in Archived(gone) : o.was = t /\ o.retired = Start
      BY <3>1, ArchivedNow
    <3>3. o \in oldRows' /\ o.retired >= start
      BY <3>2 DEF OneCommit, Archives
    <3> QED BY <2>1, <3>2, <3>3 DEF StoodAt, RowsOf, Of
  <2> QED BY <2>2, <2>3
<1>3. ASSUME NEW t \in StoodAt(p, start)' PROVE t \in RowsOf(p, rows)
  <2>1. t.gen = p.gen /\ t.source = Family(p)
    BY DEF StoodAt, RowsOf, Of
  <2>2. CASE t \in rows' /\ t.created < start
    <3>1. t.created \in Nat
      BY <2>2 DEF OneCommit, AddsLater
    <3>2. t \in rows
      BY <1>1, <2>1, <2>2, <3>1 DEF OneCommit, AddsLater
    <3> QED BY <2>1, <3>2 DEF RowsOf, Of
  <2>3. ASSUME NEW o \in oldRows', o.was = t, o.retired >= start PROVE t \in RowsOf(p, rows)
    <3>1. o \notin oldRows
      <4>1. ASSUME o \in oldRows PROVE FALSE
        <5>1. o.retired \in 0 .. now
          BY <4>1 DEF HistoryTypes, Retired
        <5> QED BY <2>3, <5>1, Moments
      <4> QED BY <4>1
    <3>2. o \in Archived(gone)
      BY <3>1 DEF OneCommit, Archives
    <3>3. t \in rows
      BY <2>3, <3>2, ArchivedNow DEF OneCommit, Archives
    <3> QED BY <2>1, <3>3 DEF RowsOf, Of
  <2> QED BY <2>2, <2>3 DEF StoodAt, RowsOf, Of
<1> QED BY <1>2, <1>3

(* Whether a run of an earlier day saw the rows of that day is settled.    *)
LEMMA PastWatermark ==
  ASSUME HistoryTypes, NEW gone, NEW goneRuns, OneCommit(gone, goneRuns), NEW c \in Ends,
         NEW p \in RunUpTo(now, Newest), p.parsed < c, NEW t \in RowsOf(p, RowsAt(c))
  PROVE  t.created <= Watermark(p)' <=> t.created <= Watermark(p)
<1>1. EndOfDay(p.parsed)' = EndOfDay(p.parsed)
  BY DEF EndOfDay, OneCommit
<1>2. EndOfDay(p.parsed) \in Int /\ p.parsed \in 0 .. now
  BY RunFields, DayEnds
<1>3. CASE p.watermark # NoInstant
  BY <1>3 DEF Watermark
<1>4. CASE p.watermark = NoInstant /\ RepairsOf(p) # {}
  <2>1. PICK r : r = Min(RepairsOf(p))
    OBVIOUS
  <2>2. RepairsOf(p) \subseteq 0 .. now /\ RepairsOf(p) \subseteq RepairsOf(p)'
        /\ RepairsOf(p)' \subseteq RepairsOf(p) \cup {Start}
    BY RepairsGrow
  <2>3. r \in RepairsOf(p) /\ \A q \in RepairsOf(p) : r <= q
    <3>1. RepairsOf(p) \in SUBSET Nat
      BY <2>2, Moments
    <3> QED BY <1>4, <2>1, <3>1, LeastOf
  <2>4. r \in 0 .. now /\ r < Start
    BY <2>2, <2>3, Moments
  <2>5. Min(RepairsOf(p)') = r
    <3>1. PICK new : new = RepairsOf(p)'
      OBVIOUS
    <3>2. new \in SUBSET Nat /\ new # {} /\ r \in new /\ \A q \in new : r <= q
      BY <2>2, <2>3, <2>4, <3>1, Moments
    <3>3. Min(new) \in new /\ \A q \in new : Min(new) <= q
      BY <3>2, LeastOf
    <3>4. r <= Min(new) /\ Min(new) <= r /\ Min(new) \in Nat /\ r \in Nat
      BY <2>4, <3>2, <3>3
    <3> QED BY <3>1, <3>4
  <2>6. StoodAt(p, r)' = StoodAt(p, r)
    BY <2>4, StoodAtKept
  <2>7. Watermark(p) = Min({EndOfDay(p.parsed), MaxCreated(StoodAt(p, r))})
    BY <1>4, <2>1 DEF Watermark
  <2>8. Watermark(p)' = Min({EndOfDay(p.parsed)', MaxCreated(StoodAt(p, r)')})
    BY <1>4, <2>2, <2>3, <2>5 DEF Watermark, Min, MaxCreated
  <2> QED BY <1>1, <2>6, <2>7, <2>8
<1>5. CASE p.watermark = NoInstant /\ RepairsOf(p) = {}
  <2>1. Watermark(p) = EndOfDay(p.parsed)
    BY <1>5 DEF Watermark
  <2>2. CASE RepairsOf(p)' = {}
    BY <1>1, <1>5, <2>1, <2>2 DEF Watermark
  <2>3. CASE RepairsOf(p)' # {}
    <3>1. RepairsOf(p)' = {Start} /\ Start \in Nat
      BY <1>5, <2>3, RepairsGrow, Moments
    <3>2. PICK start \in Nat : start = Start
      BY <3>1
    <3>3. Min(RepairsOf(p)') = start
      BY <3>1, <3>2 DEF Min
    <3>4. StoodAt(p, start)' = RowsOf(p, rows)
      BY <3>2, StoodAtFirst
    <3>5. Watermark(p)' = Min({EndOfDay(p.parsed), MaxCreated(RowsOf(p, rows))})
      <4>1. Watermark(p)' = Min({EndOfDay(p.parsed)', MaxCreated(StoodAt(p, start)')})
        BY <1>5, <2>3, <3>3 DEF Watermark, MaxCreated, Min
      <4> QED BY <1>1, <3>4, <4>1
    <3>6. t \in RowsOf(p, rows)
      <4>1. CASE t \in rows
        BY <4>1 DEF RowsOf, Of
      <4>2. CASE t \notin rows
        <5>1. PICK o \in oldRows : o.was = t /\ o.retired >= c
          BY <4>2 DEF RowsAt, RowsOf, Of
        <5>2. o.retired \in Nat /\ c \in Nat /\ o.retired > p.parsed
          <6>1. o.retired \in 0 .. now
            BY DEF HistoryTypes, Retired
          <6>2. c \in Nat
            BY EndsAreNatural
          <6> QED BY <1>2, <5>1, <6>1, <6>2, Moments
        <5>3. t.gen = p.gen /\ t.source = Family(p)
          BY DEF RowsOf, Of
        <5>4. o.retired \in RepairsOf(p)
          BY <5>1, <5>2, <5>3 DEF RepairsOf
        <5> QED BY <1>5, <5>4
      <4> QED BY <4>1, <4>2
    <3>7. t.created <= MaxCreated(RowsOf(p, rows)) /\ MaxCreated(RowsOf(p, rows)) \in Int /\ t.created \in Int
      <4>1. RowsOf(p, rows) \in SUBSET RowUpTo(now, Newest)
        BY DEF HistoryTypes, RowsOf, Of
      <4> QED BY <3>6, <4>1, MaxCreatedBounds, RowFields, Moments
    <3> QED BY <1>2, <2>1, <3>5, <3>7, LeastOfTwo
  <2> QED BY <2>2, <2>3
<1> QED BY <1>3, <1>4, <1>5

LEMMA PastDecisions ==
  ASSUME HistoryTypes, NEW gone, NEW goneRuns, OneCommit(gone, goneRuns), NEW c \in Ends, c <= now + 1
  PROVE  /\ {p \in ParsesAt(c) : ActedOn(p, RowsAt(c), c)}' = {p \in ParsesAt(c) : ActedOn(p, RowsAt(c), c)}
         /\ {p \in ParsesAt(c) : ActedOn(p, RowsAt(c), c)} \subseteq RunUpTo(now, Newest)
<1>0. c \in Nat
  BY EndsAreNatural
<1>1. ParsesAt(c) \subseteq RunUpTo(now, Newest)
  BY DEF ParsesAt, HistoryTypes, Retired
<1>2. \A p : (p \in ParsesAt(c)' /\ p.parsed < c) <=> (p \in ParsesAt(c) /\ p.parsed < c)
  BY <1>0, PastRuns
<1>3. ASSUME NEW p \in ParsesAt(c), p.parsed < c
      PROVE  ActedOn(p, RowsAt(c), c)' <=> ActedOn(p, RowsAt(c), c)
  <2>1. p \in RunUpTo(now, Newest) /\ p.gen \in 1 .. Newest
    BY <1>1, RunFields
  <2>2. RowsOf(p, RowsAt(c))' = RowsOf(p, RowsAt(c))
    BY <1>0, <2>1, PastRowsets DEF RowsOf
  <2>3. \A t \in RowsOf(p, RowsAt(c)) : t.created <= Watermark(p)' <=> t.created <= Watermark(p)
    BY <1>3, <2>1, PastWatermark
  <2> QED BY <2>2, <2>3 DEF ActedOn
<1>4. \A p : /\ p \in {q \in ParsesAt(c) : ActedOn(q, RowsAt(c), c)}' <=> p \in ParsesAt(c)' /\ ActedOn(p, RowsAt(c), c)'
             /\ ActedOn(p, RowsAt(c), c)' => p.parsed < c
             /\ ActedOn(p, RowsAt(c), c) => p.parsed < c
  BY DEF ActedOn
<1>5. ASSUME NEW p
      PROVE  p \in ParsesAt(c)' /\ ActedOn(p, RowsAt(c), c)' <=> p \in ParsesAt(c) /\ ActedOn(p, RowsAt(c), c)
  BY <1>2, <1>3, <1>4
<1> QED BY <1>1, <1>4, <1>5

(* A view of one generation does not see the rows of later ones.           *)
LEMMA ViewOfGenerations ==
  ASSUME NEW newest \in Nat, NEW T, NEW U, T \subseteq U, \A t \in U \ T : t.gen > newest,
         NEW D, NEW G \in SUBSET (1 .. newest),
         \A p \in D : p.gen \in Nat
  PROVE  View(U, D, G) = View(T, D, G)
<1>1. ASSUME NEW g \in 1 .. newest, NEW s PROVE Of(U, g, s) = Of(T, g, s)
  BY DEF Of
<1>2. ASSUME NEW g \in 1 .. newest PROVE {t \in U : t.gen = g} = {t \in T : t.gen = g}
  OBVIOUS
<1>3. ASSUME NEW p \in D, p.gen \in 1 .. newest PROVE RowsOf(p, U) = RowsOf(p, T)
  BY <1>1, <1>3 DEF RowsOf
<1>4. ASSUME NEW p \in D, p.gen \in 1 .. newest PROVE Settles(p, U) <=> Settles(p, T)
  BY <1>2, <1>3, <1>4 DEF Settles, Counted
<1>5. AcceptedGenerations(U, D, G) = AcceptedGenerations(T, D, G)
  BY <1>4 DEF AcceptedGenerations
<1>6. PICK accepted \in SUBSET (1 .. newest) :
        accepted = AcceptedGenerations(U, D, G) /\ accepted = AcceptedGenerations(T, D, G)
  BY <1>5 DEF AcceptedGenerations
<1>7. accepted # {} => Max(accepted) \in 1 .. newest
  <2>1. accepted \in SUBSET (0 .. newest)
    OBVIOUS
  <2> QED BY <1>6, <2>1, GreatestOf
<1>8. ASSUME NEW p \in D, NEW t \in U, t.gen \in 1 .. newest PROVE Binds(p, t, U) <=> Binds(p, t, T)
  <2>1. CASE p.gen = t.gen
    BY <1>3, <1>8, <2>1 DEF Binds, Counted
  <2>2. CASE p.gen # t.gen
    BY <2>2 DEF Binds
  <2> QED BY <2>1, <2>2
<1>9. \A t \in U : t.gen \in 1 .. newest => t \in T
  OBVIOUS
<1>10. Admissible(U, D, G) = Admissible(T, D, G)
  BY <1>6, <1>7, <1>8, <1>9 DEF Admissible
<1> QED BY <1>10 DEF View

LEMMA PastKept ==
  ASSUME HistoryTypes, NEW gone, NEW goneRuns, OneCommit(gone, goneRuns), NEW c \in Ends, c <= now + 1
  PROVE  AsOf(c)' = AsOf(c)
<1>0. c \in Nat
  BY EndsAreNatural
<1>1. PICK D : D = {p \in ParsesAt(c) : ActedOn(p, RowsAt(c), c)}
  OBVIOUS
<1>2. D = {p \in ParsesAt(c) : ActedOn(p, RowsAt(c), c)}' /\ \A p \in D : p.gen \in Nat
  <2>1. \A p \in D : p.gen \in 1 .. Newest
    BY <1>1, PastDecisions, RunFields
  <2> QED BY <1>1, <2>1, PastDecisions, Moments
<1>3. PICK G : G = {g \in 1 .. Newest : filing[g].promoted < c}
  OBVIOUS
<1>4. G = {g \in 1 .. Newest : filing[g].promoted < c}' /\ G \in SUBSET (1 .. Newest)
  <2>1. Newest \in Nat /\ Newest' \in Nat /\ Newest' >= Newest /\ Start \in Nat /\ Start >= c
    BY <1>0, Moments DEF OneCommit, AddsLater
  <2>2. ASSUME NEW g \in 1 .. Newest' PROVE filing'[g].promoted < c <=> g \in G
    <3>1. CASE g \in 1 .. Newest
      BY <1>3, <3>1 DEF OneCommit, AddsLater
    <3>2. CASE g \notin 1 .. Newest
      <4>1. g \in Newest + 1 .. Newest'
        BY <2>1, <3>2
      <4>2. filing'[g].promoted \in Nat /\ filing'[g].promoted >= Start
        BY <4>1 DEF OneCommit, AddsLater
      <4> QED BY <1>0, <1>3, <2>1, <3>2, <4>2
    <3> QED BY <3>1, <3>2
  <2> QED BY <1>3, <2>1, <2>2
<1>5. PICK newest \in Nat : newest = Newest
  BY Moments
<1>6. PICK T, U : T = RowsAt(c) /\ U = RowsAt(c)'
  OBVIOUS
<1>7. T \subseteq U /\ \A t \in U \ T : t.gen > newest
  BY <1>0, <1>5, <1>6, PastRows
<1>8. View(U, D, G) = View(T, D, G)
  BY <1>2, <1>4, <1>5, <1>7, ViewOfGenerations
<1>9. \A g \in 1 .. Newest : Listed(g)' <=> Listed(g)
  BY DEF Listed, OneCommit, AddsLater
<1>10. View(U, D, G)' = View(U, D, G)
  <2>1. AcceptedGenerations(U, D, G)' = AcceptedGenerations(U, D, G)
    BY <1>4, <1>9 DEF AcceptedGenerations
  <2> QED BY <2>1 DEF View, Admissible
<1>11. AsOf(c) = View(T, D, G)
  BY <1>1, <1>3, <1>6 DEF AsOf
<1>12. AsOf(c)' = View(U, D, G)'
  BY <1>2, <1>4, <1>6 DEF AsOf
<1> QED BY <1>8, <1>10, <1>11, <1>12

-----------------------------------------------------------------------------
(* One commit.                                                             *)

FilingGrows ==
  /\ Newest' \in Nat /\ Newest' >= Newest /\ filing' \in Seq(FilingUpTo(now + 2))
  /\ \A g \in 1 .. Newest : filing'[g].sha = filing[g].sha /\ filing'[g].promoted = filing[g].promoted
  /\ \A g \in Newest + 1 .. Newest' : filing'[g].promoted \in Nat /\ filing'[g].promoted >= now + 1

(* The rows and the runs of one rowset stay as they are.                   *)
RowsetStays(g, s, newRows, goneRows, newRuns) ==
  /\ Of(newRows, g, s) = Of(rows, g, s) /\ Of(goneRows, g, s) = {}
  /\ \A q \in parses : q.gen = g /\ Family(q) = s /\ q.status = "success" => q \in newRuns

(* What a commit does that keeps the history right.                        *)
Orderly(newRows, goneRows, newRuns, goneRuns) ==
  /\ Commit(newRows, goneRows, newRuns, goneRuns)
  /\ goneRows \subseteq rows /\ rows \ newRows \subseteq goneRows
  /\ goneRuns \subseteq parses /\ parses \ newRuns \subseteq goneRuns
  /\ newRows \subseteq RowUpTo(now + 2, Newest') /\ IsFiniteSet(newRows) /\ Distinct(newRows)
  /\ newRuns \subseteq RunUpTo(now + 2, Newest')
  /\ \A t \in newRows \ rows : t.created > now \/ t.gen > Newest
  /\ \A p \in newRuns \ parses : p.parsed > now
  /\ \A p \in newRuns :
       p.status = "success" /\ Counted(p, newRows) /\ RowsOf(p, newRows) # {} =>
         \/ \E q \in newRuns : Vouches(q, p, newRows) /\ Covers(q)'
         \/ p \in parses /\ RowsetStays(p.gen, Family(p), newRows, goneRows, newRuns)

ArchivesAll ==
  /\ \A t \in rows \ rows' : \E o \in oldRows' : o.was = t
  /\ \A p \in parses \ parses' : \E o \in oldParses' : o.was = p
  /\ oldRows \subseteq oldRows' /\ oldParses \subseteq oldParses'

LEMMA OrderlyTypes ==
  ASSUME HistoryTypes, FilingGrows, NEW newRows, NEW goneRows, NEW newRuns, NEW goneRuns,
         Orderly(newRows, goneRows, newRuns, goneRuns)
  PROVE  HistoryTypes' /\ now' = now + 2
<1>1. /\ now' = now + 2 /\ now < 2 * MaxTransactions /\ now \in Nat
      /\ rows' = newRows /\ oldRows' = oldRows \cup Archived(goneRows)
      /\ parses' = newRuns /\ oldParses' = oldParses \cup Archived(goneRuns) /\ UNCHANGED <<baseline, days, shownAt>>
  BY Moments DEF Orderly, Commit
<1>2. PICK later \in Nat, more \in Nat : later = now + 2 /\ more = Newest' /\ Newest <= more /\ Newest \in Nat
  BY <1>1, Moments DEF FilingGrows
<1>3. RowUpTo(now, Newest) \subseteq RowUpTo(later, more) /\ RunUpTo(now, Newest) \subseteq RunUpTo(later, more)
  BY <1>1, <1>2, UpToGrows
<1>4. now' \in Nat /\ now' <= 2 * MaxTransactions + 1
  BY <1>1, HistoryAssumption
<1>5. oldRows' \subseteq Retired(RowUpTo(later, more), later)
  <2>1. oldRows \subseteq Retired(RowUpTo(later, more), later)
    <3>1. Retired(RowUpTo(now, Newest), now) \subseteq Retired(RowUpTo(later, more), later)
      BY <1>1, <1>2, <1>3, RetiredGrows
    <3> QED BY <3>1 DEF HistoryTypes
  <2>2. Archived(goneRows) \subseteq Retired(RowUpTo(later, more), later)
    BY <1>1, <1>2, <1>3 DEF Archived, Retired, Start, Orderly, HistoryTypes
  <2> QED BY <1>1, <2>1, <2>2
<1>6. oldParses' \subseteq Retired(RunUpTo(later, more), later)
  <2>1. oldParses \subseteq Retired(RunUpTo(later, more), later)
    <3>1. Retired(RunUpTo(now, Newest), now) \subseteq Retired(RunUpTo(later, more), later)
      BY <1>1, <1>2, <1>3, RetiredGrows
    <3> QED BY <3>1 DEF HistoryTypes
  <2>2. Archived(goneRuns) \subseteq Retired(RunUpTo(later, more), later)
    BY <1>1, <1>2, <1>3 DEF Archived, Retired, Start, Orderly, HistoryTypes
  <2> QED BY <1>1, <2>1, <2>2
<1>7. shownAt' \in Seq(SUBSET RowUpTo(later, more))
  <2>1. SUBSET RowUpTo(now, Newest) \subseteq SUBSET RowUpTo(later, more)
    BY <1>3
  <2> QED BY <1>1, <2>1, SeqMonotonic DEF HistoryTypes
<1>8. \A d \in 1 .. Len(days) : days[d] <= now' + 1
  <2>1. \A d \in 1 .. Len(days) : days[d] \in Nat /\ days[d] <= now + 1
    BY DEF HistoryTypes
  <2> QED BY <1>1, <2>1
<1>9. rows' \subseteq RowUpTo(later, more) /\ parses' \subseteq RunUpTo(later, more) /\ IsFiniteSet(rows')
  BY <1>1, <1>2 DEF Orderly
<1>10. filing' \in Seq(FilingUpTo(later))
  BY <1>2 DEF FilingGrows
<1>11. baseline.rows \subseteq RowUpTo(later, more) /\ baseline.parses \subseteq RunUpTo(later, more)
  BY <1>3 DEF HistoryTypes
<1>12. now' = later /\ Newest' = more
  BY <1>1, <1>2
<1> QED BY <1>1, <1>4, <1>5, <1>6, <1>7, <1>8, <1>9, <1>10, <1>11, <1>12 DEF HistoryTypes

LEMMA CoveredStays ==
  ASSUME HistoryTypes, RowsAreCovered, NEW newRows, NEW goneRows, NEW newRuns, NEW goneRuns,
         Orderly(newRows, goneRows, newRuns, goneRuns)
  PROVE  RowsAreCovered'
<1>1. rows' = newRows /\ parses' = newRuns /\ oldRows' = oldRows \cup Archived(goneRows)
  BY DEF Orderly, Commit
<1> SUFFICES ASSUME NEW p \in newRuns, p.status = "success", Counted(p, newRows), RowsOf(p, newRows) # {}
             PROVE  \E q \in newRuns : Vouches(q, p, newRows) /\ Covers(q)'
  BY <1>1 DEF RowsAreCovered, Vouches, Counted, RowsOf
<1>2. CASE \E q \in newRuns : Vouches(q, p, newRows) /\ Covers(q)'
  BY <1>2
<1>3. CASE p \in parses /\ RowsetStays(p.gen, Family(p), newRows, goneRows, newRuns)
  <2>1. RowsOf(p, rows) = RowsOf(p, newRows)
    BY <1>3 DEF RowsetStays, RowsOf
  <2>2. PICK q \in parses : Vouches(q, p, rows) /\ Covers(q)
    BY <1>3, <2>1 DEF RowsAreCovered, Counted
  <2>3. RowsOf(q, rows) = RowsOf(q, newRows) /\ q \in newRuns
    BY <1>3, <2>2 DEF RowsetStays, RowsOf, Vouches
  <2>4. RepairsOf(q)' = RepairsOf(q)
    <3>1. \A o \in Archived(goneRows) : ~(o.was.gen = q.gen /\ o.was.source = Family(q))
      BY <1>3, <2>2, ArchivedNow DEF RowsetStays, Of, Vouches
    <3> QED BY <1>1, <3>1 DEF RepairsOf
  <2>5. Covers(q)'
    BY <1>1, <2>2, <2>3, <2>4 DEF Covers
  <2> QED BY <2>2, <2>3, <2>5 DEF Vouches, Counted
<1> QED BY <1>2, <1>3 DEF Orderly

LEMMA OrderlyKeeps ==
  ASSUME HistoryInv, FilingGrows, NEW newRows, NEW goneRows, NEW newRuns, NEW goneRuns,
         Orderly(newRows, goneRows, newRuns, goneRuns)
  PROVE  HistoryInv' /\ ArchivesAll
<1>0. HistoryTypes
  BY DEF HistoryInv
<1>1. HistoryTypes' /\ now' = now + 2
  BY <1>0, OrderlyTypes
<1>2. /\ rows' = newRows /\ oldRows' = oldRows \cup Archived(goneRows)
      /\ parses' = newRuns /\ oldParses' = oldParses \cup Archived(goneRuns) /\ UNCHANGED <<baseline, days, shownAt>>
  BY DEF Orderly, Commit
<1>3. Archives(goneRows, goneRuns)
  BY <1>2 DEF Archives, Orderly
<1>4. AddsLater
  <2>1. \A t \in rows' : t.created \in Nat
    <3>1. \A t \in rows' : t.created \in 0 .. now + 2
      BY <1>2, RowFields DEF Orderly
    <3> QED BY <1>0, <3>1, Moments
  <2>2. \A p \in parses' : p.parsed \in Nat
    <3>1. \A p \in parses' : p.parsed \in 0 .. now + 2
      BY <1>2, RunFields DEF Orderly
    <3> QED BY <1>0, <3>1, Moments
  <2>3. \A t \in rows' \ rows : t.created >= Start \/ t.gen > Newest
    BY <1>0, <1>2, <2>1, Moments DEF Orderly
  <2>4. \A p \in parses' \ parses : p.parsed >= Start
    BY <1>0, <1>2, <2>2, Moments DEF Orderly
  <2> QED BY <2>1, <2>2, <2>3, <2>4 DEF AddsLater, FilingGrows, Start
<1>5. OneCommit(goneRows, goneRuns)
  BY <1>2, <1>3, <1>4 DEF OneCommit
<1>6. PastIsFixed'
  <2> SUFFICES ASSUME NEW d \in DOMAIN days, NEW c, c = days[d]
               PROVE  AsOf(c)' = shownAt[d]
    BY <1>2 DEF PastIsFixed, AsOf, RowsAt, ParsesAt
  <2>1. DOMAIN days = 1 .. Len(days)
    BY <1>0 DEF HistoryTypes
  <2>2. c \in Ends /\ c <= now + 1
    BY <1>0, <2>1 DEF HistoryTypes, Ends
  <2>3. AsOf(c)' = AsOf(c)
    BY <1>0, <1>5, <2>2, PastKept
  <2> QED BY <2>3 DEF HistoryInv, PastIsFixed
<1>7. RowsAreCovered'
  BY <1>0, CoveredStays DEF HistoryInv
<1>8. RowsStored' /\ Distinct(baseline.rows)'
  BY <1>2 DEF HistoryInv, Orderly, RowsStored, Distinct
<1>9. ArchivesAll
  <2>1. \A t \in rows \ rows' : \E o \in Archived(goneRows) : o.was = t
    BY <1>3, ArchivedNow DEF Archives
  <2>2. \A p \in parses \ parses' : \E o \in Archived(goneRuns) : o.was = p
    BY <1>3, ArchivedNow DEF Archives
  <2> QED BY <1>2, <2>1, <2>2 DEF ArchivesAll
<1> QED BY <1>1, <1>6, <1>7, <1>8, <1>9 DEF HistoryInv

LEMMA FilingStays ==
  ASSUME HistoryTypes, UNCHANGED filing
  PROVE  FilingGrows /\ Newest' = Newest
<1>1. Newest' = Newest /\ Newest \in Nat
  BY Moments DEF Newest
<1>2. filing' \in Seq(FilingUpTo(now + 2))
  <2>1. PICK later \in Nat : later = now + 2
    BY Moments
  <2>2. FilingUpTo(now) \subseteq FilingUpTo(later)
    BY <2>1, Moments, UpToGrows
  <2> QED BY <2>1, <2>2, SeqMonotonic DEF HistoryTypes
<1>3. ~\E g \in Newest + 1 .. Newest' : TRUE
  BY <1>1
<1> QED BY <1>1, <1>2, <1>3 DEF FilingGrows

-----------------------------------------------------------------------------
(* New rows, and rows and runs that are altered.                           *)

LEMMA HistoryStarts == HistoryInit => HistoryInv
<1> SUFFICES ASSUME HistoryInit PROVE HistoryInv
  OBVIOUS
<1>1. PICK first : first = [sha |-> CHOOSE sha \in Sha : TRUE, promoted |-> 0, complete |-> FALSE]
  OBVIOUS
<1>2. first \in FilingUpTo(0)
  <2>1. (CHOOSE sha \in Sha : TRUE) \in Sha
    BY HistoryAssumption
  <2> QED BY <1>1, <2>1 DEF FilingUpTo
<1>3. filing = <<first>> /\ filing \in Seq(FilingUpTo(0)) /\ Len(filing) = 1
  BY <1>1, <1>2 DEF HistoryInit
<1>4. /\ rows = {} /\ oldRows = {} /\ parses = {} /\ oldParses = {} /\ now = 0 /\ days = <<>> /\ shownAt = <<>>
      /\ baseline.rows = {} /\ baseline.parses = {}
  BY DEF HistoryInit
<1>5. /\ days \in Seq(Nat) /\ shownAt \in Seq(SUBSET RowUpTo(now, Newest)) /\ Len(days) = 0 /\ Len(shownAt) = 0
      /\ DOMAIN days = {}
  BY <1>4, EmptySeq
<1>6. HistoryTypes
  BY <1>3, <1>4, <1>5, FS_EmptySet, HistoryAssumption DEF HistoryTypes
<1> QED BY <1>4, <1>5, <1>6 DEF HistoryInv, RowsStored, Distinct, RowsAreCovered, PastIsFixed

LEMMA ReadingIs ==
  ASSUME NEW reading \in HouseReading \cup Reading \cup {<<>>}
  PROVE  \E n \in Nat : reading \in [1 .. n -> Said] /\ (n = 0 <=> reading = <<>>)
<1>1. CASE reading \in Reading
  <2>1. PICK n \in 1 .. MaxKey : reading \in [1 .. n -> Content]
    BY <1>1 DEF Reading
  <2>2. n \in Nat /\ n # 0 /\ reading \in [1 .. n -> Said]
    BY <2>1, HistoryAssumption DEF Said
  <2>3. reading # <<>>
    <3>1. DOMAIN reading = 1 .. n /\ 1 \in DOMAIN reading
      BY <2>1, <2>2
    <3>2. DOMAIN <<>> = {}
      OBVIOUS
    <3> QED BY <3>1, <3>2
  <2> QED BY <2>2, <2>3
<1>2. CASE reading = <<Undated>> \/ reading = <<Bad>>
  <2>1. reading \in [1 .. 1 -> Said] /\ reading # <<>>
    BY <1>2 DEF Said
  <2> QED BY <2>1
<1>3. CASE reading = <<>>
  <2>1. reading \in [1 .. 0 -> Said]
    BY <1>3
  <2> QED BY <1>3, <2>1
<1> QED BY <1>1, <1>2, <1>3 DEF HouseReading

ReadRows(g, source, reading, keys, created) == {NewRow(g, source, k, reading[k], created) : k \in keys}

LEMMA NewRowsAre ==
  ASSUME HistoryTypes, NEW g \in 1 .. Newest, NEW source \in Source,
         NEW reading \in HouseReading \cup Reading \cup {<<>>}, NEW K \in SUBSET DOMAIN reading,
         NEW created \in {Start, Wall}, NEW new, new = ReadRows(g, source, reading, K, created)
  PROVE  /\ new \subseteq RowUpTo(now + 2, Newest) /\ IsFiniteSet(new)
         /\ \A t \in new : t.gen = g /\ t.source = source /\ t.created = created /\ t.key \in K
         /\ \A t, u \in new : t.key = u.key => t = u
         /\ K # {} => new # {}
<1>1. PICK n \in Nat : reading \in [1 .. n -> Said] /\ K \in SUBSET (1 .. n)
  <2>1. PICK n \in Nat : reading \in [1 .. n -> Said]
    BY ReadingIs
  <2> QED BY <2>1
<1>2. created \in 0 .. now + 2 /\ Start \in Nat
  BY Moments
<1> DEFINE row == [k \in K |-> NewRow(g, source, k, reading[k], created)]
<1>3. ASSUME NEW k \in K
      PROVE  /\ row[k] \in RowUpTo(now + 2, Newest)
             /\ row[k].gen = g /\ row[k].source = source /\ row[k].created = created /\ row[k].key = k
  <2>1. k \in Nat /\ reading[k] \in Said
    BY <1>1
  <2> QED BY <1>2, <2>1 DEF NewRow, RowUpTo
<1>4. new = {row[k] : k \in K}
  BY DEF ReadRows
<1>5. row \in Surjection(K, new)
  <2>1. row \in [K -> new]
    BY <1>4
  <2>2. \A t \in new : \E k \in K : row[k] = t
    BY <1>4
  <2> HIDE DEF row
  <2> QED BY <2>1, <2>2 DEF Surjection
<1> HIDE DEF row
<1>6. IsFiniteSet(new)
  <2>1. IsFiniteSet(1 .. n)
    BY FS_Interval
  <2>2. IsFiniteSet(K)
    BY <1>1, <2>1, FS_Subset
  <2> QED BY <1>5, <2>2, FS_Surjection
<1>7. ASSUME NEW t \in new PROVE t \in RowUpTo(now + 2, Newest) /\ t.gen = g /\ t.source = source
                                  /\ t.created = created /\ t.key \in K /\ t = row[t.key]
  <2>1. PICK k \in K : t = row[k]
    BY <1>4
  <2> QED BY <1>3, <2>1
<1>8. K # {} => new # {}
  BY <1>4
<1>9. \A t, u \in new : t.key = u.key => t = u
  BY <1>7
<1>10. new \subseteq RowUpTo(now + 2, Newest)
  BY <1>7
<1>11. \A t \in new : t.gen = g /\ t.source = source /\ t.created = created /\ t.key \in K
  BY <1>7
<1> QED BY <1>6, <1>8, <1>9, <1>10, <1>11

LEMMA RowsGrow ==
  ASSUME HistoryTypes
  PROVE  /\ RowUpTo(now, Newest) \subseteq RowUpTo(now + 2, Newest)
         /\ RunUpTo(now, Newest) \subseteq RunUpTo(now + 2, Newest)
         /\ parses \subseteq RunUpTo(now + 2, Newest) /\ rows \subseteq RowUpTo(now + 2, Newest)
<1>1. PICK later \in Nat : later = now + 2 /\ now <= later /\ now \in Nat /\ Newest \in Nat
  BY Moments
<1>2. RunUpTo(now, Newest) \subseteq RunUpTo(later, Newest) /\ RowUpTo(now, Newest) \subseteq RowUpTo(later, Newest)
  BY <1>1, UpToGrows
<1> QED BY <1>1, <1>2 DEF HistoryTypes

Corrects(t, says, created) == [t EXCEPT !.says = says, !.created = created]
Restores(t, created) == [t EXCEPT !.created = created]
Copies(t) == [t EXCEPT !.gen = Newest + 1, !.id = Start]

LEMMA RowSays ==
  ASSUME HistoryTypes, NEW t \in RowUpTo(now, Newest), NEW says \in Said, NEW created \in {Start, Wall},
         NEW u, u = Corrects(t, says, created)
  PROVE  /\ u \in RowUpTo(now + 2, Newest) /\ u.gen = t.gen /\ u.source = t.source /\ u.key = t.key
         /\ u.created = created
<1>1. t \in RowUpTo(now + 2, Newest) /\ created \in 0 .. now + 2
  BY RowsGrow, Moments
<1>2. PICK one : one = [t EXCEPT !.says = says]
  OBVIOUS
<1>3. one \in RowUpTo(now + 2, Newest) /\ one.gen = t.gen /\ one.source = t.source /\ one.key = t.key
  BY <1>1, <1>2 DEF RowUpTo
<1>4. u = [one EXCEPT !.created = created]
  BY <1>2 DEF Corrects
<1> QED BY <1>1, <1>3, <1>4 DEF RowUpTo

LEMMA RowCreated ==
  ASSUME HistoryTypes, NEW t \in RowUpTo(now, Newest), NEW created \in {Start, Wall},
         NEW u, u = Restores(t, created)
  PROVE  /\ u \in RowUpTo(now + 2, Newest) /\ u.gen = t.gen /\ u.source = t.source /\ u.key = t.key
         /\ u.created = created
<1>1. t \in RowUpTo(now + 2, Newest) /\ created \in 0 .. now + 2
  BY RowsGrow, Moments
<1> QED BY <1>1 DEF RowUpTo, Restores

LEMMA RowCopied ==
  ASSUME HistoryTypes, NEW t \in RowUpTo(now, Newest), NEW u, u = Copies(t)
  PROVE  /\ u \in RowUpTo(now + 2, Newest + 1) /\ u.gen = Newest + 1 /\ u.source = t.source /\ u.key = t.key
         /\ u.created = t.created
<1>1. PICK g \in Nat, id \in Nat : g = Newest + 1 /\ id = Start
  BY Moments
<1>2. t \in RowUpTo(now + 2, g)
  <2>1. PICK later \in Nat : later = now + 2 /\ now <= later /\ now \in Nat /\ Newest \in Nat /\ Newest <= g
    BY <1>1, Moments
  <2>2. RowUpTo(now, Newest) \subseteq RowUpTo(later, g)
    BY <1>1, <2>1, UpToGrows
  <2> QED BY <2>1, <2>2
<1>3. PICK one : one = [t EXCEPT !.gen = g]
  OBVIOUS
<1>4. g \in 1 .. g
  BY <1>1, Moments
<1>5. one \in RowUpTo(now + 2, g) /\ one.gen = g /\ one.source = t.source /\ one.key = t.key /\ one.created = t.created
  BY <1>2, <1>3, <1>4 DEF RowUpTo
<1>6. u = [one EXCEPT !.id = id]
  BY <1>1, <1>3 DEF Copies
<1> QED BY <1>1, <1>5, <1>6 DEF RowUpTo

-----------------------------------------------------------------------------
(* Commits that only take whole rowsets away.                              *)

LEMMA ParseIs ==
  ASSUME HistoryTypes, NEW recipe \in Recipe, NEW g \in 1 .. Newest, NEW status \in Status,
         NEW count \in Nat, status = "no_txs" => count = 0, NEW watermark \in Int
  PROVE  LET run == Parse(recipe, g, status, count, watermark)
         IN  /\ run \in RunUpTo(now + 2, Newest) /\ run.recipe = recipe /\ run.gen = g /\ run.status = status
             /\ run.count = count /\ run.watermark = watermark /\ run.parsed = now + 2
<1>1. Wall = now + 2 /\ Wall \in 0 .. now + 2
  BY Moments
<1> QED BY <1>1 DEF Parse, RunUpTo

LEMMA RemovalKeeps ==
  ASSUME HistoryInv, FilingGrows, Newest' = Newest, NEW gone \in SUBSET rows, NEW newRuns,
         NEW goneRuns \in SUBSET parses, Commit(rows \ gone, gone, newRuns, goneRuns),
         parses \ newRuns \subseteq goneRuns, newRuns \subseteq RunUpTo(now + 2, Newest),
         \A p \in newRuns \ parses : p.parsed > now /\ p.status # "success",
         \A t \in gone, u \in rows : t.gen = u.gen /\ t.source = u.source => u \in gone,
         \A q \in parses \ newRuns, u \in rows :
           q.status = "success" /\ u.gen = q.gen /\ u.source = Family(q) => u \in gone
  PROVE  HistoryInv' /\ ArchivesAll
<1>0. HistoryTypes
  BY DEF HistoryInv
<1>1. PICK newRows : newRows = rows \ gone
  OBVIOUS
<1>2. newRows \subseteq RowUpTo(now + 2, Newest') /\ IsFiniteSet(newRows) /\ Distinct(newRows)
  <2>1. RowUpTo(now, Newest) \subseteq RowUpTo(now + 2, Newest)
    <3>1. PICK later \in Nat : later = now + 2 /\ now <= later /\ now \in Nat /\ Newest \in Nat
      BY <1>0, Moments
    <3> QED BY <3>1, UpToGrows
  <2>2. IsFiniteSet(newRows)
    BY <1>0, <1>1, FS_Subset DEF HistoryTypes
  <2> QED BY <1>0, <1>1, <2>1, <2>2 DEF HistoryTypes, HistoryInv, RowsStored, Distinct
<1>3. ASSUME NEW p \in newRuns, p.status = "success", RowsOf(p, newRows) # {}
      PROVE  p \in parses /\ RowsetStays(p.gen, Family(p), newRows, gone, newRuns)
  <2>1. PICK u \in newRows : u.gen = p.gen /\ u.source = Family(p)
    BY <1>3 DEF RowsOf, Of
  <2>2. u \in rows /\ u \notin gone
    BY <1>1, <2>1
  <2>3. Of(gone, p.gen, Family(p)) = {}
    BY <2>1, <2>2 DEF Of
  <2>4. Of(newRows, p.gen, Family(p)) = Of(rows, p.gen, Family(p))
    BY <1>1, <2>3 DEF Of
  <2>5. \A q \in parses : q.gen = p.gen /\ Family(q) = Family(p) /\ q.status = "success" => q \in newRuns
    BY <2>1, <2>2
  <2> QED BY <1>3, <2>3, <2>4, <2>5 DEF RowsetStays
<1>4. Orderly(newRows, gone, newRuns, goneRuns)
  BY <1>1, <1>2, <1>3 DEF Orderly
<1> QED BY <1>4, OrderlyKeeps

LEMMA FailParseKeeps ==
  ASSUME HistoryInv, NEW g \in 1 .. Newest, FailParse(g)
  PROVE  HistoryInv' /\ ArchivesAll
<1>0. HistoryTypes
  BY DEF HistoryInv
<1>1. FilingGrows /\ Newest' = Newest
  BY <1>0, FilingStays DEF FailParse
<1>2. PICK old \in SUBSET parses : old = SameIdentity(HouseRecipe, g)
  BY DEF SameIdentity
<1>3. PICK watermark \in Int : watermark = MaxCreated(Of(rows, g, "house_pdf"))
  <2>1. Of(rows, g, "house_pdf") \in SUBSET RowUpTo(now, Newest)
    BY <1>0 DEF HistoryTypes, Of
  <2> QED BY <1>0, <2>1, MaxCreatedBounds, Moments
<1>4. PICK run : run = Parse(HouseRecipe, g, "error", 0, watermark)
  OBVIOUS
<1>5. run \in RunUpTo(now + 2, Newest) /\ run.status = "error" /\ run.parsed = now + 2
  <2>1. HouseRecipe \in Recipe /\ "error" \in Status /\ "error" # "no_txs" /\ watermark \in Int
    BY DEF Recipe, Status, NoInstant
  <2> QED BY <1>0, <1>4, <2>1, ParseIs
<1>6. PICK newRuns : newRuns = (parses \ old) \cup {run}
  OBVIOUS
<1>7. Commit(rows \ {}, {}, newRuns, old)
  BY <1>2, <1>3, <1>4, <1>6 DEF FailParse, Commit
<1>8. newRuns \subseteq RunUpTo(now + 2, Newest) /\ \A p \in newRuns \ parses : p.parsed > now /\ p.status # "success"
  BY <1>0, <1>5, <1>6, RowsGrow, Moments
<1>9. \A q \in parses \ newRuns : q.status # "success"
  BY <1>2, <1>6 DEF FailParse
<1> QED BY <1>1, <1>2, <1>6, <1>7, <1>8, <1>9, RemovalKeeps

LEMMA RejectReadingKeeps ==
  ASSUME HistoryInv, NEW g \in 1 .. Newest, NEW recipe \in OcrRecipe, RejectReading(g, recipe)
  PROVE  HistoryInv' /\ ArchivesAll
<1>0. HistoryTypes
  BY DEF HistoryInv
<1>1. FilingGrows /\ Newest' = Newest
  BY <1>0, FilingStays DEF RejectReading
<1>2. PICK old \in SUBSET parses : old = SameIdentity(recipe, g)
  BY DEF SameIdentity
<1>3. PICK gone \in SUBSET rows : gone = Of(rows, g, "gemini_ocr")
  BY DEF Of
<1>4. PICK run : run = Parse(recipe, g, "error", 0, NoInstant)
  OBVIOUS
<1>5. run \in RunUpTo(now + 2, Newest) /\ run.status = "error" /\ run.parsed = now + 2
  <2>1. recipe \in Recipe /\ "error" \in Status /\ "error" # "no_txs" /\ NoInstant \in Int
    BY DEF Recipe, Status, NoInstant
  <2> QED BY <1>0, <1>4, <2>1, ParseIs
<1>6. PICK newRuns : newRuns = (parses \ old) \cup {run}
  OBVIOUS
<1>7. Commit(rows \ gone, gone, newRuns, old)
  BY <1>2, <1>3, <1>4, <1>6 DEF RejectReading
<1>8. newRuns \subseteq RunUpTo(now + 2, Newest) /\ \A p \in newRuns \ parses : p.parsed > now /\ p.status # "success"
  BY <1>0, <1>5, <1>6, RowsGrow, Moments
<1>9. \A q \in parses \ newRuns : q.gen = g /\ Family(q) = "gemini_ocr"
  BY <1>2, <1>6, HistoryAssumption DEF SameIdentity, Family
<1>10. \A t \in gone, u \in rows : t.gen = u.gen /\ t.source = u.source => u \in gone
  BY <1>3 DEF Of
<1>11. \A q \in parses \ newRuns, u \in rows :
         q.status = "success" /\ u.gen = q.gen /\ u.source = Family(q) => u \in gone
  BY <1>3, <1>9 DEF Of
<1> QED BY <1>1, <1>2, <1>6, <1>7, <1>8, <1>10, <1>11, RemovalKeeps

LEMMA MarkInvalidKeeps ==
  ASSUME HistoryInv, NEW g \in 1 .. Newest, MarkInvalid(g)
  PROVE  HistoryInv' /\ ArchivesAll
<1>0. HistoryTypes
  BY DEF HistoryInv
<1>1. FilingGrows /\ Newest' = Newest
  BY <1>0, FilingStays DEF MarkInvalid
<1>2. PICK marked : marked = Parse(ManualReview, g, "invalid", 0, NoInstant)
  OBVIOUS
<1>3. marked \in RunUpTo(now + 2, Newest) /\ marked.status = "invalid"
  <2>1. ManualReview \in Recipe /\ "invalid" \in Status /\ "invalid" # "no_txs" /\ NoInstant \in Int
    BY DEF Recipe, Status, NoInstant
  <2> QED BY <1>0, <1>2, <2>1, ParseIs
<1>4. PICK start \in 0 .. now + 2 : start = Start /\ start > now
  BY <1>0, Moments
<1>5. PICK run : run = [marked EXCEPT !.parsed = start]
  OBVIOUS
<1>6. run \in RunUpTo(now + 2, Newest) /\ run.status = "invalid" /\ run.parsed = start
  BY <1>3, <1>5 DEF RunUpTo
<1>7. PICK newRuns : newRuns = parses \cup {run}
  OBVIOUS
<1>8. Commit(rows \ {}, {}, newRuns, {})
  BY <1>2, <1>4, <1>5, <1>7 DEF MarkInvalid, Commit
<1>9. newRuns \subseteq RunUpTo(now + 2, Newest) /\ \A p \in newRuns \ parses : p.parsed > now /\ p.status # "success"
  BY <1>0, <1>4, <1>6, <1>7, RowsGrow
<1> QED BY <1>1, <1>7, <1>8, <1>9, RemovalKeeps

LEMMA CompleteKeeps ==
  ASSUME HistoryInv, Complete
  PROVE  HistoryInv' /\ ArchivesAll
<1>0. HistoryTypes /\ filing \in Seq(FilingUpTo(now)) /\ Newest \in Nat /\ now \in Nat
  BY Moments DEF HistoryInv, HistoryTypes
<1>1. PICK g \in 1 .. Newest : g = Newest
  BY <1>0 DEF Complete
<1>2. PICK gone \in SUBSET rows :
        /\ gone = IF g > 1 /\ ~Listed(g) /\ Listed(g - 1) THEN {t \in rows : t.gen # g} ELSE {}
        /\ Commit(rows \ gone, gone, parses, {})
  BY <1>1 DEF Complete
<1>3. FilingGrows /\ Newest' = Newest
  <2>1. PICK old \in FilingUpTo(now) : old = filing[g]
    BY <1>0, <1>1 DEF Newest
  <2>2. PICK new : new = [old EXCEPT !.complete = TRUE]
    OBVIOUS
  <2>3. new \in FilingUpTo(now) /\ new.sha = old.sha /\ new.promoted = old.promoted
    BY <2>2 DEF FilingUpTo
  <2>4. filing' = [filing EXCEPT ![g] = new]
    BY <1>1, <2>1, <2>2 DEF Complete
  <2>5. /\ filing' \in Seq(FilingUpTo(now)) /\ Len(filing') = Len(filing)
        /\ \A h \in 1 .. Len(filing) : filing'[h] = IF h = g THEN new ELSE filing[h]
    BY <1>0, <2>3, <2>4, ExceptSeq DEF Newest
  <2>6. filing' \in Seq(FilingUpTo(now + 2))
    <3>1. PICK later \in Nat : later = now + 2
      BY <1>0
    <3>2. FilingUpTo(now) \subseteq FilingUpTo(later)
      BY <1>0, <3>1, UpToGrows
    <3> QED BY <2>5, <3>1, <3>2, SeqMonotonic
  <2>7. Newest' = Newest
    BY <2>5 DEF Newest
  <2>8. \A h \in 1 .. Newest : filing'[h].sha = filing[h].sha /\ filing'[h].promoted = filing[h].promoted
    BY <2>1, <2>3, <2>5 DEF Newest
  <2>9. ~\E h \in Newest + 1 .. Newest' : TRUE
    BY <1>0, <2>7
  <2> QED BY <1>0, <2>6, <2>7, <2>8, <2>9 DEF FilingGrows
<1>4. parses \subseteq RunUpTo(now + 2, Newest)
  BY <1>0, RowsGrow
<1>5. \A t \in gone, u \in rows : t.gen = u.gen /\ t.source = u.source => u \in gone
  BY <1>2
<1> QED BY <1>2, <1>3, <1>4, <1>5, RemovalKeeps

LEMMA PurgeKeeps ==
  ASSUME HistoryInv, PurgeUnaccepted
  PROVE  HistoryInv' /\ ArchivesAll
<1>0. HistoryTypes
  BY DEF HistoryInv
<1>1. FilingGrows /\ Newest' = Newest
  BY <1>0, FilingStays DEF PurgeUnaccepted
<1>2. PICK gone \in SUBSET rows : gone = Unaccepted
  BY DEF Unaccepted
<1>3. Commit(rows \ gone, gone, parses, {})
  BY <1>2 DEF PurgeUnaccepted
<1>4. ASSUME NEW t \in gone, NEW u \in rows, t.gen = u.gen, t.source = u.source PROVE u \in gone
  <2>1. Listed(u.gen)
    BY <1>2, <1>4 DEF Unaccepted
  <2>2. \A p \in parses : Binds(p, u, rows) => Binds(p, t, rows)
    BY <1>4 DEF Binds
  <2> QED BY <1>2, <2>1, <2>2 DEF Unaccepted
<1>5. parses \subseteq RunUpTo(now + 2, Newest)
  BY <1>0, RowsGrow
<1> QED BY <1>1, <1>2, <1>3, <1>4, <1>5, RemovalKeeps

-----------------------------------------------------------------------------
(* A reading is saved or admitted.                                         *)

(* The run that is recorded with the rows of its rowset covers them.       *)
LEMMA RecordedCovers ==
  ASSUME HistoryTypes, NEW recipe \in Recipe, NEW g \in 1 .. Newest,
         NEW new \in SUBSET RowUpTo(now + 2, Newest), IsFiniteSet(new),
         NEW run, run = Parse(recipe, g, IF new = {} THEN "no_txs" ELSE "success", Cardinality(new), MaxCreated(new)),
         NEW newRows, rows' = newRows, Of(newRows, g, Family(run)) = new
  PROVE  /\ run \in RunUpTo(now + 2, Newest) /\ run.parsed = now + 2 /\ run.gen = g /\ run.recipe = recipe
         /\ \A p : p.gen = g /\ Family(p) = Family(run) /\ RowsOf(p, newRows) # {} =>
              Vouches(run, p, newRows) /\ Covers(run)'
<1>1. PICK status \in Status : status = IF new = {} THEN "no_txs" ELSE "success"
  BY DEF Status
<1>2. PICK count \in Nat : count = Cardinality(new)
  BY FS_CardinalityType
<1>3. PICK watermark \in Int : watermark = MaxCreated(new)
  <2>1. PICK later \in Nat : later = now + 2
    BY Moments
  <2> QED BY <2>1, MaxCreatedBounds
<1>4. status = "no_txs" => count = 0
  BY <1>1, <1>2, FS_EmptySet
<1>5. run = Parse(recipe, g, status, count, watermark)
  BY <1>1, <1>2, <1>3
<1>6. /\ run \in RunUpTo(now + 2, Newest) /\ run.recipe = recipe /\ run.gen = g /\ run.status = status
      /\ run.count = count /\ run.watermark = watermark /\ run.parsed = now + 2
  BY <1>4, <1>5, ParseIs
<1>7. ASSUME NEW p, p.gen = g, Family(p) = Family(run), RowsOf(p, newRows) # {}
      PROVE  Vouches(run, p, newRows) /\ Covers(run)'
  <2>1. RowsOf(p, newRows) = new /\ RowsOf(run, newRows) = new /\ new # {}
    BY <1>6, <1>7 DEF RowsOf
  <2>2. Vouches(run, p, newRows)
    BY <1>1, <1>2, <1>6, <1>7, <2>1 DEF Vouches, Counted
  <2>3. watermark # NoInstant /\ \A t \in new : t.created <= watermark
    <3>1. PICK later \in Nat : later = now + 2
      BY Moments
    <3>2. MaxCreated(new) \in 0 .. later /\ \A t \in new : t.created <= MaxCreated(new)
      BY <2>1, <3>1, MaxCreatedBounds
    <3> QED BY <1>3, <3>2 DEF NoInstant
  <2>4. Covers(run)'
    BY <1>6, <2>1, <2>3 DEF Covers
  <2> QED BY <2>2, <2>4
<1> QED BY <1>6, <1>7

LEMMA SaveParseKeeps ==
  ASSUME HistoryInv, NEW g \in 1 .. Newest, NEW reading \in HouseReading \cup {<<>>}, SaveParse(g, reading)
  PROVE  HistoryInv' /\ ArchivesAll
<1>0. HistoryTypes /\ now \in Nat /\ Newest \in Nat /\ Wall = now + 2
  BY Moments DEF HistoryInv
<1>1. FilingGrows /\ Newest' = Newest
  BY <1>0, FilingStays DEF SaveParse
<1>2. PICK gone \in SUBSET rows : gone = Of(rows, g, "house_pdf")
  BY DEF Of
<1>3. PICK old \in SUBSET parses : old = SameIdentity(HouseRecipe, g)
  BY DEF SameIdentity
<1>4. PICK new : new = {NewRow(g, "house_pdf", k, reading[k], Wall) : k \in DOMAIN reading}
  OBVIOUS
<1>5. /\ new \subseteq RowUpTo(now + 2, Newest) /\ IsFiniteSet(new)
      /\ \A t \in new : t.gen = g /\ t.source = "house_pdf" /\ t.created = now + 2
      /\ \A t, u \in new : t.key = u.key => t = u
  <2>1. new = ReadRows(g, "house_pdf", reading, DOMAIN reading, Wall)
    BY <1>4 DEF ReadRows
  <2>2. "house_pdf" \in Source /\ Wall \in {Start, Wall} /\ DOMAIN reading \in SUBSET DOMAIN reading
    BY DEF Source
  <2> QED BY <1>0, <2>1, <2>2, NewRowsAre
<1>6. PICK run : run = Parse(HouseRecipe, g, IF new = {} THEN "no_txs" ELSE "success", Cardinality(new), MaxCreated(new))
  OBVIOUS
<1>7. PICK newRows : newRows = (rows \ gone) \cup new
  OBVIOUS
<1>8. PICK newRuns : newRuns = (parses \ old) \cup {run}
  OBVIOUS
<1>9. Commit(newRows, gone, newRuns, old)
  BY <1>2, <1>3, <1>4, <1>6, <1>7, <1>8 DEF SaveParse
<1>10. Family(run) = "house_pdf" /\ HouseRecipe \in Recipe
  BY <1>6 DEF Parse, Family, Recipe
<1>11. Of(newRows, g, "house_pdf") = new
  BY <1>2, <1>5, <1>7 DEF Of
<1>12. /\ run \in RunUpTo(now + 2, Newest) /\ run.parsed = now + 2 /\ run.gen = g /\ run.recipe = HouseRecipe
       /\ \A p : p.gen = g /\ Family(p) = "house_pdf" /\ RowsOf(p, newRows) # {} =>
            Vouches(run, p, newRows) /\ Covers(run)'
  <2>1. rows' = newRows
    BY <1>9 DEF Commit
  <2> QED BY <1>0, <1>5, <1>6, <1>10, <1>11, <2>1, RecordedCovers
<1>13. newRows \subseteq RowUpTo(now + 2, Newest') /\ IsFiniteSet(newRows) /\ newRuns \subseteq RunUpTo(now + 2, Newest')
  <2>1. IsFiniteSet(rows \ gone)
    BY <1>0, FS_Subset DEF HistoryTypes
  <2>2. IsFiniteSet(newRows)
    BY <1>5, <1>7, <2>1, FS_Union
  <2> QED BY <1>0, <1>1, <1>5, <1>7, <1>8, <1>12, <2>2, RowsGrow
<1>14. Distinct(newRows)
  <2> SUFFICES ASSUME NEW t \in newRows, NEW u \in newRows, t.gen = u.gen, t.source = u.source, t.key = u.key
               PROVE  t = u
    BY DEF Distinct
  <2>1. CASE t \in new /\ u \in new
    BY <1>5, <2>1
  <2>2. CASE t \notin new /\ u \notin new
    BY <1>7, <2>2 DEF HistoryInv, RowsStored
  <2>3. CASE t \in new /\ u \notin new
    BY <1>2, <1>5, <1>7, <2>3 DEF Of
  <2>4. CASE t \notin new /\ u \in new
    BY <1>2, <1>5, <1>7, <2>4 DEF Of
  <2> QED BY <2>1, <2>2, <2>3, <2>4
<1>15. ASSUME NEW p \in newRuns, p.status = "success", RowsOf(p, newRows) # {}
       PROVE  \/ \E q \in newRuns : Vouches(q, p, newRows) /\ Covers(q)'
              \/ p \in parses /\ RowsetStays(p.gen, Family(p), newRows, gone, newRuns)
  <2>1. CASE p.gen = g /\ Family(p) = "house_pdf"
    BY <1>8, <1>12, <1>15, <2>1
  <2>2. CASE ~(p.gen = g /\ Family(p) = "house_pdf")
    <3>1. p \in parses
      BY <1>8, <1>10, <1>12, <2>2
    <3>2. Of(newRows, p.gen, Family(p)) = Of(rows, p.gen, Family(p)) /\ Of(gone, p.gen, Family(p)) = {}
      BY <1>2, <1>5, <1>7, <2>2 DEF Of
    <3>3. \A q \in parses : q.gen = p.gen /\ Family(q) = Family(p) => q \in newRuns
      BY <1>3, <1>8, <2>2 DEF SameIdentity, Family
    <3> QED BY <3>1, <3>2, <3>3 DEF RowsetStays
  <2> QED BY <2>1, <2>2
<1>16. /\ \A t \in newRows \ rows : t.created > now
       /\ \A p \in newRuns \ parses : p.parsed > now
  BY <1>0, <1>5, <1>7, <1>8, <1>12
<1>17. /\ gone \subseteq rows /\ rows \ newRows \subseteq gone
       /\ old \subseteq parses /\ parses \ newRuns \subseteq old
  BY <1>7, <1>8
<1>18. Orderly(newRows, gone, newRuns, old)
  BY <1>9, <1>13, <1>14, <1>15, <1>16, <1>17 DEF Orderly
<1> QED BY <1>1, <1>18, OrderlyKeeps

LEMMA CorrectedAre ==
  ASSUME HistoryInv, NEW g \in 1 .. Newest, NEW reading \in Reading \cup {<<>>}, NEW new, new = Corrected(g, reading)
  PROVE  /\ new \subseteq RowUpTo(now + 2, Newest) /\ IsFiniteSet(new)
         /\ \A t \in new : /\ t.gen = g /\ t.source = "gemini_ocr" /\ t.created = now + 2
                           /\ t.key \in {m.key : m \in Matched(g, reading)}
         /\ \A t, u \in new : t.key = u.key => t = u
<1>0. HistoryTypes /\ Wall = now + 2
  BY Moments DEF HistoryInv
<1>1. PICK matched \in SUBSET rows : matched = Matched(g, reading)
  BY DEF Matched, Ocr
<1>2. \A t \in matched : t.gen = g /\ t.source = "gemini_ocr" /\ t.key \in DOMAIN reading
  BY <1>1 DEF Matched, Ocr
<1>3. PICK n \in Nat : reading \in [1 .. n -> Said]
  BY ReadingIs
<1> DEFINE f == [t \in matched |-> [t EXCEPT !.says = reading[t.key], !.created = Wall]]
<1>4. new = {f[t] : t \in matched}
  BY <1>1 DEF Corrected
<1>5. ASSUME NEW t \in matched
      PROVE  /\ f[t] \in RowUpTo(now + 2, Newest)
             /\ f[t].gen = t.gen /\ f[t].source = t.source /\ f[t].key = t.key /\ f[t].created = Wall
  <2>1. PICK says \in Said : says = reading[t.key]
    BY <1>2, <1>3
  <2>2. t \in RowUpTo(now, Newest)
    BY <1>0 DEF HistoryTypes
  <2>3. Wall \in {Start, Wall} /\ f[t] = Corrects(t, says, Wall)
    BY <2>1 DEF Corrects
  <2> HIDE DEF f
  <2> QED BY <1>0, <2>2, <2>3, RowSays
<1>6. IsFiniteSet(new)
  <2>1. IsFiniteSet(matched)
    BY <1>0, FS_Subset DEF HistoryTypes
  <2>2. f \in Surjection(matched, new)
    <3>1. f \in [matched -> new] /\ \A u \in new : \E t \in matched : f[t] = u
      BY <1>4
    <3> HIDE DEF f
    <3> QED BY <3>1 DEF Surjection
  <2> QED BY <2>1, <2>2, FS_Surjection
<1> HIDE DEF f
<1>7. ASSUME NEW u \in new
      PROVE  \E t \in matched : /\ u = f[t] /\ u \in RowUpTo(now + 2, Newest) /\ u.gen = g /\ u.source = "gemini_ocr"
                                /\ u.created = now + 2 /\ u.key = t.key
  BY <1>0, <1>2, <1>4, <1>5
<1>8. \A t, u \in matched : t.key = u.key => t = u
  BY <1>2 DEF HistoryInv, RowsStored
<1>9. \A t, u \in new : t.key = u.key => t = u
  BY <1>7, <1>8
<1> QED BY <1>1, <1>6, <1>7, <1>9

LEMMA InvalidatedAre ==
  ASSUME HistoryTypes, NEW void \in SUBSET parses
  PROVE  \A p \in Invalidated(void) : p \in RunUpTo(now + 2, Newest) /\ p.status = "invalidated" /\ p.parsed = now + 2
<1> SUFFICES ASSUME NEW q \in void, NEW p, p = [q EXCEPT !.status = "invalidated", !.count = 0, !.parsed = Wall]
             PROVE  p \in RunUpTo(now + 2, Newest) /\ p.status = "invalidated" /\ p.parsed = now + 2
  BY DEF Invalidated
<1>1. q \in RunUpTo(now + 2, Newest)
  BY RowsGrow
<1>2. PICK wall \in 0 .. now + 2 : wall = Wall /\ wall = now + 2
  BY Moments
<1>3. PICK one : one = [q EXCEPT !.status = "invalidated"]
  OBVIOUS
<1>4. one \in RunUpTo(now + 2, Newest) /\ one.status = "invalidated"
  BY <1>1, <1>3 DEF RunUpTo, Status
<1>5. PICK two : two = [one EXCEPT !.count = 0]
  OBVIOUS
<1>6. two \in RunUpTo(now + 2, Newest) /\ two.status = "invalidated"
  BY <1>4, <1>5 DEF RunUpTo
<1>7. p = [two EXCEPT !.parsed = wall]
  BY <1>2, <1>3, <1>5
<1> QED BY <1>2, <1>6, <1>7 DEF RunUpTo

LEMMA AdmitReadingKeeps ==
  ASSUME HistoryInv, NEW g \in 1 .. Newest, NEW recipe \in OcrRecipe, NEW reading \in Reading \cup {<<>>},
         AdmitReading(g, recipe, reading)
  PROVE  HistoryInv' /\ ArchivesAll
<1>0. HistoryTypes /\ now \in Nat /\ Newest \in Nat /\ Wall = now + 2 /\ Start = now + 1
  BY Moments DEF HistoryInv
<1>1. FilingGrows /\ Newest' = Newest
  BY <1>0, FilingStays DEF AdmitReading
<1>2. PICK corrected : corrected = Corrected(g, reading)
  OBVIOUS
<1>3. PICK added : added = Added(g, reading)
  OBVIOUS
<1>4. PICK keys \in SUBSET DOMAIN reading : keys = DOMAIN reading \ {t.key : t \in Matched(g, reading)}
  OBVIOUS
<1>5. /\ added \subseteq RowUpTo(now + 2, Newest) /\ IsFiniteSet(added)
      /\ \A t \in added : t.gen = g /\ t.source = "gemini_ocr" /\ t.created = now + 1 /\ t.key \in keys
      /\ \A t, u \in added : t.key = u.key => t = u
  <2>1. added = ReadRows(g, "gemini_ocr", reading, keys, Start)
    BY <1>3, <1>4 DEF Added, ReadRows
  <2>2. "gemini_ocr" \in Source /\ Start \in {Start, Wall}
    BY DEF Source
  <2> QED BY <1>0, <2>1, <2>2, NewRowsAre
<1>6. /\ corrected \subseteq RowUpTo(now + 2, Newest) /\ IsFiniteSet(corrected)
      /\ \A t \in corrected : t.gen = g /\ t.source = "gemini_ocr" /\ t.created = now + 2 /\ t.key \notin keys
      /\ \A t, u \in corrected : t.key = u.key => t = u
  BY <1>2, <1>4, CorrectedAre
<1>7. PICK new : new = corrected \cup added
  OBVIOUS
<1>8. /\ new \subseteq RowUpTo(now + 2, Newest) /\ IsFiniteSet(new)
      /\ \A t \in new : t.gen = g /\ t.source = "gemini_ocr" /\ t.created > now
      /\ \A t, u \in new : t.key = u.key => t = u
  <2>1. IsFiniteSet(new)
    BY <1>5, <1>6, <1>7, FS_Union
  <2> QED BY <1>0, <1>5, <1>6, <1>7, <2>1
<1>9. PICK house : house = IF reading = <<>> THEN {} ELSE RetiredHouse(g)
  OBVIOUS
<1>10. house = {} \/ house = Of(rows, g, "house_pdf")
  BY <1>9 DEF RetiredHouse
<1>11. PICK void : void = IF reading = <<>> THEN {} ELSE RetiredParses(g)
  OBVIOUS
<1>12. void \in SUBSET parses /\ \A q \in void : house # {} /\ q.gen = g /\ Family(q) = "house_pdf"
  BY <1>9, <1>11 DEF RetiredParses
<1>13. PICK old \in SUBSET parses : old = SameIdentity(recipe, g)
  BY DEF SameIdentity
<1>14. PICK run : run = Parse(recipe, g, IF new = {} THEN "no_txs" ELSE "success", Cardinality(new), MaxCreated(new))
  OBVIOUS
<1>15. PICK gone \in SUBSET rows : gone = Ocr \cup house
  BY <1>10 DEF Ocr, Of
<1>16. PICK newRows : newRows = (rows \ gone) \cup new
  OBVIOUS
<1>17. PICK newRuns : newRuns = (parses \ (void \cup old)) \cup Invalidated(void) \cup {run}
  OBVIOUS
<1>18. Commit(newRows, gone, newRuns, void \cup old)
  BY <1>2, <1>3, <1>7, <1>9, <1>11, <1>13, <1>14, <1>15, <1>16, <1>17 DEF AdmitReading
<1>19. Family(run) = "gemini_ocr" /\ recipe \in Recipe
  BY <1>14, HistoryAssumption DEF Parse, Family, Recipe
<1>20. \A q \in old : q.gen = g /\ Family(q) = "gemini_ocr"
  BY <1>13, HistoryAssumption DEF SameIdentity, Family
<1>21. Of(newRows, g, "gemini_ocr") = new
  BY <1>8, <1>15, <1>16 DEF Of, Ocr
<1>22. /\ run \in RunUpTo(now + 2, Newest) /\ run.parsed = now + 2 /\ run.gen = g /\ run.recipe = recipe
       /\ \A p : p.gen = g /\ Family(p) = "gemini_ocr" /\ RowsOf(p, newRows) # {} =>
            Vouches(run, p, newRows) /\ Covers(run)'
  <2>1. rows' = newRows
    BY <1>18 DEF Commit
  <2> QED BY <1>0, <1>8, <1>14, <1>19, <1>21, <2>1, RecordedCovers
<1>23. \A p \in Invalidated(void) : p \in RunUpTo(now + 2, Newest) /\ p.status = "invalidated" /\ p.parsed = now + 2
  BY <1>0, <1>12, InvalidatedAre
<1>24. newRows \subseteq RowUpTo(now + 2, Newest') /\ IsFiniteSet(newRows) /\ newRuns \subseteq RunUpTo(now + 2, Newest')
  <2>1. IsFiniteSet(rows \ gone)
    BY <1>0, FS_Subset DEF HistoryTypes
  <2>2. IsFiniteSet(newRows)
    BY <1>8, <1>16, <2>1, FS_Union
  <2>3. newRows \subseteq RowUpTo(now + 2, Newest)
    BY <1>0, <1>8, <1>16, RowsGrow
  <2>4. newRuns \subseteq RunUpTo(now + 2, Newest)
    BY <1>0, <1>17, <1>22, <1>23, RowsGrow
  <2> QED BY <1>1, <2>2, <2>3, <2>4
<1>25. Distinct(newRows)
  <2> SUFFICES ASSUME NEW t \in newRows, NEW u \in newRows, t.gen = u.gen, t.source = u.source, t.key = u.key
               PROVE  t = u
    BY DEF Distinct
  <2>1. CASE t \in new /\ u \in new
    BY <1>8, <2>1
  <2>2. CASE t \notin new /\ u \notin new
    BY <1>16, <2>2 DEF HistoryInv, RowsStored
  <2>3. CASE t \in new /\ u \notin new
    BY <1>8, <1>15, <1>16, <2>3 DEF Ocr
  <2>4. CASE t \notin new /\ u \in new
    BY <1>8, <1>15, <1>16, <2>4 DEF Ocr
  <2> QED BY <2>1, <2>2, <2>3, <2>4
<1>26. ASSUME NEW p \in newRuns, p.status = "success", RowsOf(p, newRows) # {}
       PROVE  \/ \E q \in newRuns : Vouches(q, p, newRows) /\ Covers(q)'
              \/ p \in parses /\ RowsetStays(p.gen, Family(p), newRows, gone, newRuns)
  <2>1. CASE p.gen = g /\ Family(p) = "gemini_ocr"
    BY <1>17, <1>22, <1>26, <2>1
  <2>2. CASE p.gen # g /\ Family(p) = "gemini_ocr"
    BY <1>8, <1>15, <1>16, <1>26, <2>2 DEF RowsOf, Of, Ocr
  <2>3. CASE Family(p) = "house_pdf"
    <3>1. p \in parses
      BY <1>17, <1>19, <1>23, <1>26, <2>3
    <3>2. PICK u \in newRows : u.gen = p.gen /\ u.source = "house_pdf"
      BY <1>26, <2>3 DEF RowsOf, Of
    <3>3. u \in rows /\ u \notin house
      BY <1>8, <1>15, <1>16, <3>2
    <3>4. house = {} \/ p.gen # g
      BY <1>10, <3>2, <3>3 DEF Of
    <3>5. Of(newRows, p.gen, Family(p)) = Of(rows, p.gen, Family(p)) /\ Of(gone, p.gen, Family(p)) = {}
      BY <1>8, <1>10, <1>15, <1>16, <2>3, <3>4 DEF Of, Ocr
    <3>6. \A q \in parses : q.gen = p.gen /\ Family(q) = Family(p) => q \in newRuns
      BY <1>12, <1>17, <1>20, <2>3, <3>4
    <3> QED BY <3>1, <3>5, <3>6 DEF RowsetStays
  <2>4. Family(p) \in {"house_pdf", "gemini_ocr"}
    BY DEF Family
  <2> QED BY <2>1, <2>2, <2>3, <2>4
<1>27. /\ \A t \in newRows \ rows : t.created > now
       /\ \A p \in newRuns \ parses : p.parsed > now
  BY <1>0, <1>8, <1>16, <1>17, <1>22, <1>23
<1>28. /\ gone \subseteq rows /\ rows \ newRows \subseteq gone
       /\ void \cup old \subseteq parses /\ parses \ newRuns \subseteq void \cup old
  BY <1>12, <1>16, <1>17
<1>29. Orderly(newRows, gone, newRuns, void \cup old)
  BY <1>18, <1>24, <1>25, <1>26, <1>27, <1>28 DEF Orderly
<1> QED BY <1>1, <1>29, OrderlyKeeps

-----------------------------------------------------------------------------
(* Runs that are advanced, copied or restored.                             *)

Advances(p, after) == [p EXCEPT !.parsed = Start, !.watermark = Start, !.count = Cardinality(RowsOf(p, after))]
CopiesRun(p) == [p EXCEPT !.gen = Newest + 1, !.parsed = Start, !.watermark = NoInstant]
RestoresRun(p) == [p EXCEPT !.recipe = Restored, !.parsed = Start, !.watermark = Start]

LEMMA RunAdvanced ==
  ASSUME HistoryTypes, NEW p \in RunUpTo(now, Newest), p.status = "success",
         NEW after, IsFiniteSet(after), NEW q, q = Advances(p, after)
  PROVE  /\ q \in RunUpTo(now + 2, Newest) /\ q.gen = p.gen /\ Family(q) = Family(p)
         /\ q.parsed = now + 1 /\ q.watermark = now + 1
<1>1. p \in RunUpTo(now + 2, Newest)
  BY RowsGrow
<1>2. PICK start \in 0 .. now + 2 : start = Start /\ start = now + 1 /\ start \in Int
  BY Moments
<1>3. PICK count \in Nat : count = Cardinality(RowsOf(p, after))
  <2>1. IsFiniteSet(RowsOf(p, after))
    BY FS_Subset DEF RowsOf, Of
  <2> QED BY <2>1, FS_CardinalityType
<1>4. PICK one : one = [p EXCEPT !.parsed = start]
  OBVIOUS
<1>5. /\ one \in RunUpTo(now + 2, Newest) /\ one.status = "success" /\ one.gen = p.gen /\ one.recipe = p.recipe
      /\ one.parsed = start
  BY <1>1, <1>2, <1>4 DEF RunUpTo
<1>6. PICK two : two = [one EXCEPT !.watermark = start]
  OBVIOUS
<1>7. /\ two \in RunUpTo(now + 2, Newest) /\ two.status = "success" /\ two.gen = p.gen /\ two.recipe = p.recipe
      /\ two.parsed = start /\ two.watermark = start
  BY <1>2, <1>5, <1>6 DEF RunUpTo
<1>8. q = [two EXCEPT !.count = count]
  BY <1>2, <1>3, <1>4, <1>6 DEF Advances
<1>9. /\ q \in RunUpTo(now + 2, Newest) /\ q.gen = p.gen /\ q.recipe = p.recipe
      /\ q.parsed = start /\ q.watermark = start
  BY <1>3, <1>7, <1>8 DEF RunUpTo
<1> QED BY <1>2, <1>9 DEF Family

LEMMA RunCopied ==
  ASSUME HistoryTypes, NEW p \in RunUpTo(now, Newest), NEW q, q = CopiesRun(p)
  PROVE  /\ q \in RunUpTo(now + 2, Newest + 1) /\ q.gen = Newest + 1 /\ q.parsed = now + 1
         /\ q.watermark = NoInstant
<1>1. PICK g \in Nat, start \in 0 .. now + 2 : g = Newest + 1 /\ start = Start /\ start = now + 1
  BY Moments
<1>2. p \in RunUpTo(now + 2, g)
  <2>1. PICK later \in Nat : later = now + 2 /\ now <= later /\ now \in Nat /\ Newest \in Nat /\ Newest <= g
    BY <1>1, Moments
  <2>2. RunUpTo(now, Newest) \subseteq RunUpTo(later, g)
    BY <1>1, <2>1, UpToGrows
  <2> QED BY <2>1, <2>2
<1>3. g \in 1 .. g /\ NoInstant \in Int
  BY <1>1, Moments DEF NoInstant
<1>4. PICK one : one = [p EXCEPT !.gen = g]
  OBVIOUS
<1>5. one \in RunUpTo(now + 2, g) /\ one.gen = g
  BY <1>2, <1>3, <1>4 DEF RunUpTo
<1>6. PICK two : two = [one EXCEPT !.parsed = start]
  OBVIOUS
<1>7. two \in RunUpTo(now + 2, g) /\ two.gen = g /\ two.parsed = start
  BY <1>1, <1>5, <1>6 DEF RunUpTo
<1>8. q = [two EXCEPT !.watermark = NoInstant]
  BY <1>1, <1>4, <1>6 DEF CopiesRun
<1>9. q \in RunUpTo(now + 2, g) /\ q.gen = g /\ q.parsed = start /\ q.watermark = NoInstant
  BY <1>3, <1>7, <1>8 DEF RunUpTo
<1> QED BY <1>1, <1>9

LEMMA RunRestored ==
  ASSUME HistoryTypes, NEW p \in RunUpTo(now, Newest), NEW q, q = RestoresRun(p)
  PROVE  /\ q \in RunUpTo(now + 2, Newest) /\ q.gen = p.gen /\ Family(q) = "gemini_ocr"
         /\ q.parsed = now + 1 /\ q.watermark = now + 1
<1>1. p \in RunUpTo(now + 2, Newest)
  BY RowsGrow
<1>2. PICK start \in 0 .. now + 2 : start = Start /\ start = now + 1 /\ start \in Int
  BY Moments
<1>3. Restored \in Recipe /\ Restored # HouseRecipe /\ Restored # ManualReview
  BY HistoryAssumption DEF Recipe
<1>4. PICK one : one = [p EXCEPT !.recipe = Restored]
  OBVIOUS
<1>5. one \in RunUpTo(now + 2, Newest) /\ one.gen = p.gen /\ one.recipe = Restored
  BY <1>1, <1>3, <1>4 DEF RunUpTo
<1>6. PICK two : two = [one EXCEPT !.parsed = start]
  OBVIOUS
<1>7. two \in RunUpTo(now + 2, Newest) /\ two.gen = p.gen /\ two.recipe = Restored /\ two.parsed = start
  BY <1>2, <1>5, <1>6 DEF RunUpTo
<1>8. q = [two EXCEPT !.watermark = start]
  BY <1>2, <1>4, <1>6 DEF RestoresRun
<1>9. /\ q \in RunUpTo(now + 2, Newest) /\ q.gen = p.gen /\ q.recipe = Restored
      /\ q.parsed = start /\ q.watermark = start
  BY <1>2, <1>7, <1>8 DEF RunUpTo
<1> QED BY <1>2, <1>3, <1>9 DEF Family

-----------------------------------------------------------------------------
(* A row is repaired, and the acceptances of its rowset advance with it.   *)

LEMMA RepairKeeps ==
  ASSUME HistoryInv, NEW t \in rows, NEW left \in SUBSET RowUpTo(now + 2, Newest), IsFiniteSet(left),
         \A u \in left : u.gen = t.gen /\ u.source = t.source /\ u.key = t.key /\ u.created = now + 1,
         \A u, v \in left : u = v, Repair({t}, left)
  PROVE  HistoryInv' /\ ArchivesAll
<1>0. HistoryTypes /\ now \in Nat /\ Newest \in Nat
  BY Moments DEF HistoryInv
<1>1. FilingGrows /\ Newest' = Newest
  BY <1>0, FilingStays DEF Repair
<1>2. PICK newRows : newRows = (rows \ {t}) \cup left
  OBVIOUS
<1>3. PICK advanced \in SUBSET parses : advanced = RepairedParses({t})
  BY DEF RepairedParses
<1>4. \A p : p \in advanced <=> p \in parses /\ p.status = "success" /\ p.gen = t.gen /\ Family(p) = t.source
  BY <1>3 DEF RepairedParses, RowsOf, Of
<1>5. PICK moved : moved = {Advances(p, newRows) : p \in advanced}
  OBVIOUS
<1>6. PICK newRuns : newRuns = (parses \ advanced) \cup moved
  OBVIOUS
<1>7. Commit(newRows, {t}, newRuns, advanced)
  BY <1>2, <1>3, <1>5, <1>6 DEF Repair, Advances
<1>8. newRows \subseteq RowUpTo(now + 2, Newest) /\ IsFiniteSet(newRows)
  <2>1. IsFiniteSet(rows \ {t})
    BY <1>0, FS_Subset DEF HistoryTypes
  <2>2. IsFiniteSet(newRows)
    BY <1>2, <2>1, FS_Union
  <2> QED BY <1>0, <1>2, <2>2, RowsGrow
<1>9. ASSUME NEW q \in moved
      PROVE  /\ q \in RunUpTo(now + 2, Newest) /\ q.gen = t.gen /\ Family(q) = t.source
             /\ q.parsed = now + 1 /\ q.watermark = now + 1
  <2>1. PICK p \in advanced : q = Advances(p, newRows)
    BY <1>5
  <2>2. p \in RunUpTo(now, Newest) /\ p.status = "success" /\ p.gen = t.gen /\ Family(p) = t.source
    BY <1>0, <1>4 DEF HistoryTypes
  <2> QED BY <1>0, <1>8, <2>1, <2>2, RunAdvanced
<1>10. newRuns \subseteq RunUpTo(now + 2, Newest)
  BY <1>0, <1>6, <1>9, RowsGrow
<1>11. Distinct(newRows)
  <2> SUFFICES ASSUME NEW u \in newRows, NEW v \in newRows, u.gen = v.gen, u.source = v.source, u.key = v.key
               PROVE  u = v
    BY DEF Distinct
  <2>1. CASE u \in left /\ v \in left
    BY <2>1
  <2>2. CASE u \notin left /\ v \notin left
    BY <1>2, <2>2 DEF HistoryInv, RowsStored
  <2>3. CASE u \in left /\ v \notin left
    BY <1>2, <2>3 DEF HistoryInv, RowsStored
  <2>4. CASE u \notin left /\ v \in left
    BY <1>2, <2>4 DEF HistoryInv, RowsStored
  <2> QED BY <2>1, <2>2, <2>3, <2>4
<1>12. \A u \in newRows : u.created \in Int /\ u.created <= now + 1
  <2>1. \A u \in rows : u.created \in 0 .. now
    BY <1>0, RowFields DEF HistoryTypes
  <2> QED BY <1>0, <1>2, <2>1
<1>13. ASSUME NEW p \in newRuns, p.status = "success", Counted(p, newRows)
       PROVE  \/ \E q \in newRuns : Vouches(q, p, newRows) /\ Covers(q)'
              \/ p \in parses /\ RowsetStays(p.gen, Family(p), newRows, {t}, newRuns)
  <2>1. CASE p \in moved
    <3>1. Covers(p)'
      <4>1. rows' = newRows
        BY <1>7 DEF Commit
      <4>2. p.watermark # NoInstant /\ \A u \in RowsOf(p, newRows) : u.created <= p.watermark
        BY <1>0, <1>9, <1>12, <2>1 DEF NoInstant, RowsOf, Of
      <4> QED BY <4>1, <4>2 DEF Covers
    <3> QED BY <1>13, <3>1 DEF Vouches
  <2>2. CASE p \notin moved
    <3>1. p \in parses /\ ~(p.gen = t.gen /\ Family(p) = t.source)
      BY <1>4, <1>6, <1>13, <2>2
    <3>2. Of(newRows, p.gen, Family(p)) = Of(rows, p.gen, Family(p)) /\ Of({t}, p.gen, Family(p)) = {}
      BY <1>2, <3>1 DEF Of
    <3>3. \A q \in parses : q.gen = p.gen /\ Family(q) = Family(p) => q \in newRuns
      BY <1>4, <1>6, <3>1
    <3> QED BY <3>1, <3>2, <3>3 DEF RowsetStays
  <2> QED BY <2>1, <2>2
<1>14. /\ \A u \in newRows \ rows : u.created > now
       /\ \A p \in newRuns \ parses : p.parsed > now
  BY <1>0, <1>2, <1>6, <1>9
<1>15. {t} \subseteq rows /\ rows \ newRows \subseteq {t} /\ parses \ newRuns \subseteq advanced
  BY <1>2, <1>6
<1>16. Orderly(newRows, {t}, newRuns, advanced)
  BY <1>1, <1>7, <1>8, <1>10, <1>11, <1>13, <1>14, <1>15 DEF Orderly
<1> QED BY <1>1, <1>16, OrderlyKeeps

LEMMA DeleteRowKeeps ==
  ASSUME HistoryInv, NEW t \in rows, DeleteRow(t)
  PROVE  HistoryInv' /\ ArchivesAll
  BY RepairKeeps, FS_EmptySet DEF DeleteRow

LEMMA RewriteKeeps ==
  ASSUME HistoryInv, NEW t \in rows, NEW says \in Content, Rewrite(t, says)
  PROVE  HistoryInv' /\ ArchivesAll
<1>1. PICK u : u = Corrects(t, says, Start)
  OBVIOUS
<1>2. /\ u \in RowUpTo(now + 2, Newest) /\ u.gen = t.gen /\ u.source = t.source /\ u.key = t.key
      /\ u.created = now + 1
  <2>1. t \in RowUpTo(now, Newest) /\ says \in Said /\ Start \in {Start, Wall}
    BY DEF HistoryInv, HistoryTypes, Said
  <2>2. HistoryTypes /\ Start = now + 1
    BY Moments DEF HistoryInv
  <2> QED BY <1>1, <2>1, <2>2, RowSays
<1>3. Repair({t}, {u})
  BY <1>1 DEF Rewrite, Corrects
<1>4. IsFiniteSet({u})
  BY FS_Singleton
<1> QED BY <1>2, <1>3, <1>4, RepairKeeps

-----------------------------------------------------------------------------
(* A promotion carries the rows and the runs of an unchanged filing.       *)

LEMMA FilingPromoted ==
  ASSUME HistoryTypes, NEW sha \in Sha \cup {NotListed},
         filing' = Append(filing, [sha |-> sha, promoted |-> Start, complete |-> FALSE])
  PROVE  FilingGrows /\ Newest' = Newest + 1
<1>1. PICK later \in Nat, start \in Nat :
        later = now + 2 /\ start = Start /\ start = now + 1 /\ now \in Nat /\ start \in 0 .. later
  BY Moments
<1>2. PICK new : new = [sha |-> sha, promoted |-> start, complete |-> FALSE]
  OBVIOUS
<1>3. new \in FilingUpTo(later) /\ new.promoted = start
  BY <1>1, <1>2 DEF FilingUpTo
<1>4. filing \in Seq(FilingUpTo(later))
  <2>1. FilingUpTo(now) \subseteq FilingUpTo(later)
    BY <1>1, UpToGrows
  <2> QED BY <2>1, SeqMonotonic DEF HistoryTypes
<1>5. filing' = Append(filing, new)
  BY <1>1, <1>2
<1>6. /\ filing' \in Seq(FilingUpTo(later)) /\ Len(filing') = Len(filing) + 1
      /\ \A g \in 1 .. Len(filing) : filing'[g] = filing[g]
      /\ filing'[Len(filing) + 1] = new
  BY <1>3, <1>4, <1>5, AppendProperties
<1>7. Newest' = Newest + 1 /\ Newest \in Nat
  BY <1>6, Moments DEF Newest
<1>8. \A g \in Newest + 1 .. Newest' : filing'[g].promoted \in Nat /\ filing'[g].promoted >= now + 1
  <2>1. \A g \in Newest + 1 .. Newest' : g = Len(filing) + 1
    BY <1>7 DEF Newest
  <2> QED BY <1>1, <1>3, <1>6, <2>1
<1>9. \A g \in 1 .. Newest : filing'[g].sha = filing[g].sha /\ filing'[g].promoted = filing[g].promoted
  BY <1>6 DEF Newest
<1>10. filing' \in Seq(FilingUpTo(now + 2))
  BY <1>1, <1>6
<1>11. Newest' \in Nat /\ Newest' >= Newest
  BY <1>7
<1> QED BY <1>7, <1>8, <1>9, <1>10, <1>11 DEF FilingGrows

LEMMA PromoteKeeps ==
  ASSUME HistoryInv, NEW sha \in Sha \cup {NotListed}, Promote(sha)
  PROVE  HistoryInv' /\ ArchivesAll
<1>0. HistoryTypes /\ now \in Nat /\ Newest \in Nat
  BY Moments DEF HistoryInv
<1>1. FilingGrows /\ Newest' = Newest + 1
  BY <1>0, FilingPromoted DEF Promote
<1>2. PICK from : from = CarriesFrom(sha) /\ \A g, h \in from : g = h
  <2>1. \A g \in CarriesFrom(sha) : g = Max(CompleteGenerations)
    BY DEF CarriesFrom
  <2> QED BY <2>1
<1>3. PICK carried \in SUBSET rows : carried = {x \in rows : x.gen \in from}
  OBVIOUS
<1>4. PICK copied : copied = {Copies(t) : t \in carried}
  OBVIOUS
<1>5. PICK carriedRuns \in SUBSET parses : carriedRuns = {x \in parses : x.gen \in from}
  OBVIOUS
<1>6. PICK copiedRuns : copiedRuns = {CopiesRun(p) : p \in carriedRuns}
  OBVIOUS
<1>7. PICK newRows : newRows = rows \cup copied
  OBVIOUS
<1>8. PICK newRuns : newRuns = parses \cup copiedRuns
  OBVIOUS
<1>9. Commit(newRows, {}, newRuns, {})
  BY <1>2, <1>3, <1>4, <1>5, <1>6, <1>7, <1>8 DEF Promote, Copies, CopiesRun
<1>10. ASSUME NEW t \in rows PROVE t.gen \in 1 .. Newest /\ t.gen # Newest + 1 /\ t.created \in 0 .. now
  BY <1>0, RowFields DEF HistoryTypes
<1> DEFINE f == [t \in carried |-> Copies(t)]
<1>11. ASSUME NEW t \in carried
       PROVE  /\ f[t] \in RowUpTo(now + 2, Newest + 1) /\ f[t].gen = Newest + 1 /\ f[t].source = t.source
              /\ f[t].key = t.key /\ f[t].created = t.created
  <2>1. t \in RowUpTo(now, Newest) /\ f[t] = Copies(t)
    BY <1>0 DEF HistoryTypes
  <2> HIDE DEF f
  <2> QED BY <1>0, <2>1, RowCopied
<1>12. copied = {f[t] : t \in carried}
  BY <1>4
<1>13. IsFiniteSet(copied)
  <2>1. IsFiniteSet(carried)
    BY <1>0, FS_Subset DEF HistoryTypes
  <2>2. f \in Surjection(carried, copied)
    <3>1. f \in [carried -> copied] /\ \A u \in copied : \E t \in carried : f[t] = u
      BY <1>12
    <3> HIDE DEF f
    <3> QED BY <3>1 DEF Surjection
  <2> QED BY <2>1, <2>2, FS_Surjection
<1> HIDE DEF f
<1>14. ASSUME NEW u \in copied
       PROVE  /\ u \in RowUpTo(now + 2, Newest + 1) /\ u.gen = Newest + 1 /\ u.created \in 0 .. now
              /\ \E t \in carried : u = f[t] /\ u.source = t.source /\ u.key = t.key
  <2>1. PICK t \in carried : u = f[t]
    BY <1>12
  <2> QED BY <1>10, <1>11, <2>1
<1>15. ASSUME NEW p \in copiedRuns
       PROVE  p \in RunUpTo(now + 2, Newest + 1) /\ p.gen = Newest + 1 /\ p.parsed = now + 1 /\ p.watermark = NoInstant
  <2>1. PICK q \in carriedRuns : p = CopiesRun(q)
    BY <1>6
  <2>2. q \in RunUpTo(now, Newest)
    BY <1>0 DEF HistoryTypes
  <2> QED BY <1>0, <2>1, <2>2, RunCopied
<1>16. ASSUME NEW p \in parses PROVE p.gen \in 1 .. Newest /\ p.gen # Newest + 1
  BY <1>0, RunFields DEF HistoryTypes
<1>17. newRows \subseteq RowUpTo(now + 2, Newest') /\ IsFiniteSet(newRows) /\ newRuns \subseteq RunUpTo(now + 2, Newest')
  <2>1. PICK later \in Nat, more \in Nat : later = now + 2 /\ more = Newest + 1 /\ now <= later /\ Newest <= more
    BY <1>0
  <2>2. RowUpTo(now, Newest) \subseteq RowUpTo(later, more) /\ RunUpTo(now, Newest) \subseteq RunUpTo(later, more)
    BY <1>0, <2>1, UpToGrows
  <2>3. IsFiniteSet(newRows)
    BY <1>0, <1>7, <1>13, FS_Union DEF HistoryTypes
  <2> QED BY <1>0, <1>1, <1>7, <1>8, <1>14, <1>15, <2>1, <2>2, <2>3 DEF HistoryTypes
<1>18. Distinct(newRows)
  <2> SUFFICES ASSUME NEW u \in newRows, NEW v \in newRows, u.gen = v.gen, u.source = v.source, u.key = v.key
               PROVE  u = v
    BY DEF Distinct
  <2>1. CASE u \in copied /\ v \in copied
    <3>1. PICK t \in carried : u = f[t] /\ u.source = t.source /\ u.key = t.key
      BY <1>14, <2>1
    <3>2. PICK x \in carried : v = f[x] /\ v.source = x.source /\ v.key = x.key
      BY <1>14, <2>1
    <3>3. t.gen = x.gen
      BY <1>2, <1>3
    <3>4. t = x
      BY <3>1, <3>2, <3>3 DEF HistoryInv, RowsStored
    <3> QED BY <3>1, <3>2, <3>4
  <2>2. CASE u \notin copied /\ v \notin copied
    BY <1>7, <2>2 DEF HistoryInv, RowsStored
  <2>3. CASE ~(u \in copied <=> v \in copied)
    BY <1>7, <1>10, <1>14, <2>3
  <2> QED BY <2>1, <2>2, <2>3
<1>19. ASSUME NEW p \in newRuns, p.status = "success", Counted(p, newRows)
       PROVE  \/ \E q \in newRuns : Vouches(q, p, newRows) /\ Covers(q)'
              \/ p \in parses /\ RowsetStays(p.gen, Family(p), newRows, {}, newRuns)
  <2>1. CASE p \in parses
    <3>1. Of(newRows, p.gen, Family(p)) = Of(rows, p.gen, Family(p)) /\ Of({}, p.gen, Family(p)) = {}
      BY <1>7, <1>14, <1>16, <2>1 DEF Of
    <3> QED BY <1>8, <2>1, <3>1 DEF RowsetStays
  <2>2. CASE p \in copiedRuns
    <3>1. rows' = newRows /\ oldRows' = oldRows
      BY <1>9 DEF Commit, Archived
    <3>2. ASSUME NEW u \in RowsOf(p, newRows) PROVE u.created <= p.parsed
      <4>1. u \in rows \/ u \in copied
        BY <1>7 DEF RowsOf, Of
      <4>2. u.created \in 0 .. now
        BY <1>10, <1>14, <4>1
      <4> QED BY <1>0, <1>15, <2>2, <4>2
    <3>3. RepairsOf(p)' = {}
      <4>1. \A o \in oldRows : o.was.gen # p.gen
        <5>1. \A o \in oldRows : o.was.gen \in 1 .. Newest
          BY <1>0, RowFields DEF HistoryTypes, Retired
        <5> QED BY <1>0, <1>15, <2>2, <5>1
      <4> QED BY <3>1, <4>1 DEF RepairsOf
    <3>4. Covers(p)'
      BY <1>15, <2>2, <3>1, <3>2, <3>3 DEF Covers
    <3> QED BY <1>19, <3>4 DEF Vouches
  <2> QED BY <1>8, <2>1, <2>2
<1>20. /\ \A t \in newRows \ rows : t.gen > Newest
       /\ \A p \in newRuns \ parses : p.parsed > now
  BY <1>0, <1>7, <1>8, <1>14, <1>15
<1>21. {} \subseteq rows /\ rows \ newRows \subseteq {} /\ {} \subseteq parses /\ parses \ newRuns \subseteq {}
  BY <1>7, <1>8
<1>22. Orderly(newRows, {}, newRuns, {})
  BY <1>9, <1>17, <1>18, <1>19, <1>20, <1>21 DEF Orderly
<1> QED BY <1>1, <1>22, OrderlyKeeps

-----------------------------------------------------------------------------
(* An admission is quarantined.                                            *)

LEMMA QuarantineKeeps ==
  ASSUME HistoryInv, QuarantineAdmission
  PROVE  HistoryInv' /\ ArchivesAll
<1>0. HistoryTypes /\ now \in Nat /\ Newest \in Nat /\ Start = now + 1
  BY Moments DEF HistoryInv
<1>1. FilingGrows /\ Newest' = Newest
  BY <1>0, FilingStays DEF QuarantineAdmission
<1>2. PICK earlier \in SUBSET baseline.rows : earlier = {x \in baseline.rows : x.source = "gemini_ocr"}
  OBVIOUS
<1>3. PICK back : back = {Restores(t, Start) : t \in earlier}
  OBVIOUS
<1>4. PICK gone \in SUBSET rows : gone = Ocr
  BY DEF Ocr
<1>5. PICK current \in SUBSET parses : current = OcrParses(parses)
  BY DEF OcrParses
<1>6. PICK earlierRuns \in SUBSET baseline.parses : earlierRuns = OcrParses(baseline.parses)
  BY DEF OcrParses
<1>7. PICK backRuns : backRuns = {RestoresRun(p) : p \in earlierRuns}
  OBVIOUS
<1>8. PICK newRows : newRows = (rows \ gone) \cup back
  OBVIOUS
<1>9. PICK newRuns : newRuns = (parses \ current) \cup backRuns
  OBVIOUS
<1>10. Commit(newRows, gone, newRuns, current)
  BY <1>2, <1>3, <1>4, <1>5, <1>6, <1>7, <1>8, <1>9 DEF QuarantineAdmission, Restores, RestoresRun
<1> DEFINE f == [t \in earlier |-> Restores(t, Start)]
<1>11. ASSUME NEW t \in earlier
       PROVE  /\ f[t] \in RowUpTo(now + 2, Newest) /\ f[t].gen = t.gen /\ f[t].source = t.source
              /\ f[t].key = t.key /\ f[t].created = Start
  <2>1. t \in RowUpTo(now, Newest) /\ f[t] = Restores(t, Start) /\ Start \in {Start, Wall}
    BY <1>0 DEF HistoryTypes
  <2> HIDE DEF f
  <2> QED BY <1>0, <2>1, RowCreated
<1>12. back = {f[t] : t \in earlier}
  BY <1>3
<1>13. IsFiniteSet(back)
  <2>1. IsFiniteSet(earlier)
    BY <1>0, FS_Subset DEF HistoryTypes
  <2>2. f \in Surjection(earlier, back)
    <3>1. f \in [earlier -> back] /\ \A u \in back : \E t \in earlier : f[t] = u
      BY <1>12
    <3> HIDE DEF f
    <3> QED BY <3>1 DEF Surjection
  <2> QED BY <2>1, <2>2, FS_Surjection
<1> HIDE DEF f
<1>14. ASSUME NEW u \in back
       PROVE  /\ u \in RowUpTo(now + 2, Newest) /\ u.source = "gemini_ocr" /\ u.created = now + 1
              /\ \E t \in earlier : u = f[t] /\ u.gen = t.gen /\ u.source = t.source /\ u.key = t.key
  <2>1. PICK t \in earlier : u = f[t]
    BY <1>12
  <2>2. t.source = "gemini_ocr"
    BY <1>2
  <2> QED BY <1>0, <1>11, <2>1, <2>2
<1>15. ASSUME NEW p \in backRuns
       PROVE  p \in RunUpTo(now + 2, Newest) /\ Family(p) = "gemini_ocr" /\ p.parsed = now + 1 /\ p.watermark = now + 1
  <2>1. PICK q \in earlierRuns : p = RestoresRun(q)
    BY <1>7
  <2>2. q \in RunUpTo(now, Newest)
    BY <1>0 DEF HistoryTypes
  <2> QED BY <1>0, <2>1, <2>2, RunRestored
<1>16. newRows \subseteq RowUpTo(now + 2, Newest) /\ IsFiniteSet(newRows) /\ newRuns \subseteq RunUpTo(now + 2, Newest)
  <2>1. IsFiniteSet(rows \ gone)
    BY <1>0, FS_Subset DEF HistoryTypes
  <2>2. IsFiniteSet(newRows)
    BY <1>8, <1>13, <2>1, FS_Union
  <2>3. newRows \subseteq RowUpTo(now + 2, Newest)
    BY <1>0, <1>8, <1>14, RowsGrow
  <2>4. newRuns \subseteq RunUpTo(now + 2, Newest)
    BY <1>0, <1>9, <1>15, RowsGrow
  <2> QED BY <2>2, <2>3, <2>4
<1>17. \A u \in newRows : u.source = "gemini_ocr" <=> u \in back
  BY <1>4, <1>8, <1>14 DEF Ocr
<1>18. Distinct(newRows)
  <2> SUFFICES ASSUME NEW u \in newRows, NEW v \in newRows, u.gen = v.gen, u.source = v.source, u.key = v.key
               PROVE  u = v
    BY DEF Distinct
  <2>1. CASE u \in back
    <3>1. v \in back
      BY <1>17, <2>1
    <3>2. PICK t \in earlier : u = f[t] /\ u.gen = t.gen /\ u.source = t.source /\ u.key = t.key
      BY <1>14, <2>1
    <3>3. PICK x \in earlier : v = f[x] /\ v.gen = x.gen /\ v.source = x.source /\ v.key = x.key
      BY <1>14, <3>1
    <3>4. t = x
      BY <3>2, <3>3 DEF HistoryInv, Distinct
    <3> QED BY <3>2, <3>3, <3>4
  <2>2. CASE u \notin back
    BY <1>8, <1>17, <2>2 DEF HistoryInv, RowsStored
  <2> QED BY <2>1, <2>2
<1>19. ASSUME NEW p \in newRuns, p.status = "success", Counted(p, newRows)
       PROVE  \/ \E q \in newRuns : Vouches(q, p, newRows) /\ Covers(q)'
              \/ p \in parses /\ RowsetStays(p.gen, Family(p), newRows, gone, newRuns)
  <2>1. CASE p \in backRuns
    <3>1. rows' = newRows
      BY <1>10 DEF Commit
    <3>2. ASSUME NEW u \in RowsOf(p, newRows) PROVE u.created <= p.watermark
      <4>1. u \in newRows /\ u.source = "gemini_ocr"
        BY <1>15, <2>1 DEF RowsOf, Of
      <4>2. u \in back
        BY <1>17, <4>1
      <4> QED BY <1>0, <1>14, <1>15, <2>1, <4>2
    <3>3. Covers(p)'
      BY <1>0, <1>15, <2>1, <3>1, <3>2 DEF Covers, NoInstant
    <3> QED BY <1>19, <3>3 DEF Vouches
  <2>2. CASE p \notin backRuns
    <3>1. p \in parses /\ Family(p) = "house_pdf"
      BY <1>5, <1>9, <2>2 DEF OcrParses, Family
    <3>2. Of(newRows, p.gen, Family(p)) = Of(rows, p.gen, Family(p)) /\ Of(gone, p.gen, Family(p)) = {}
      BY <1>4, <1>8, <1>14, <3>1 DEF Of, Ocr
    <3>3. \A q \in parses : q.gen = p.gen /\ Family(q) = Family(p) => q \in newRuns
      BY <1>5, <1>9, <3>1 DEF OcrParses
    <3> QED BY <3>1, <3>2, <3>3 DEF RowsetStays
  <2> QED BY <2>1, <2>2
<1>20. /\ \A t \in newRows \ rows : t.created > now
       /\ \A p \in newRuns \ parses : p.parsed > now
  BY <1>0, <1>8, <1>9, <1>14, <1>15
<1>21. /\ gone \subseteq rows /\ rows \ newRows \subseteq gone
       /\ current \subseteq parses /\ parses \ newRuns \subseteq current
  BY <1>8, <1>9
<1>22. Orderly(newRows, gone, newRuns, current)
  BY <1>1, <1>10, <1>16, <1>18, <1>19, <1>20, <1>21 DEF Orderly
<1> QED BY <1>1, <1>22, OrderlyKeeps

-----------------------------------------------------------------------------
(* A copy is published, and a day ends.                                    *)

LEMMA BaselineKeeps ==
  ASSUME HistoryInv, TakeBaseline
  PROVE  HistoryInv' /\ ArchivesAll
<1>1. /\ UNCHANGED <<filing, rows, oldRows, parses, oldParses, now, days, shownAt>>
      /\ baseline'.rows = rows /\ baseline'.parses = parses
  BY DEF TakeBaseline, tables
<1>2. Newest' = Newest
  BY <1>1 DEF Newest
<1>3. HistoryTypes'
  BY <1>1, <1>2 DEF HistoryInv, HistoryTypes
<1>4. RowsStored' /\ Distinct(baseline.rows)'
  BY <1>1 DEF HistoryInv, RowsStored, Distinct
<1>5. RowsAreCovered'
  BY <1>1 DEF HistoryInv, RowsAreCovered, Vouches, Counted, Covers, RowsOf, RepairsOf
<1>6. ASSUME NEW c PROVE AsOf(c)' = AsOf(c)
  BY <1>1, <1>2 DEF AsOf, RowsAt, ParsesAt, ActedOn, Watermark, EndOfDay, RepairsOf, StoodAt, RowsOf,
                    View, Admissible, AcceptedGenerations, Listed
<1>7. PastIsFixed'
  <2> SUFFICES ASSUME NEW d \in DOMAIN days, NEW c, c = days[d]
               PROVE  AsOf(c)' = shownAt[d]
    BY <1>1 DEF PastIsFixed, AsOf, RowsAt, ParsesAt
  <2> QED BY <1>6 DEF HistoryInv, PastIsFixed
<1>8. ArchivesAll
  BY <1>1 DEF ArchivesAll
<1> QED BY <1>3, <1>4, <1>5, <1>7, <1>8 DEF HistoryInv

LEMMA DayLengthens ==
  ASSUME HistoryTypes, EndDay
  PROVE  /\ HistoryTypes' /\ Len(days') = Len(days) + 1 /\ Len(days) \in Nat
         /\ \A d \in 1 .. Len(days) : days'[d] = days[d] /\ shownAt'[d] = shownAt[d]
         /\ days'[Len(days) + 1] = now + 1 /\ shownAt'[Len(days) + 1] = Live
<1>1. UNCHANGED <<filing, rows, oldRows, parses, oldParses, baseline, now>>
  BY DEF EndDay, tables
<1>2. Newest' = Newest /\ now \in Nat /\ Newest \in Nat
  BY <1>1, Moments DEF Newest
<1>3. PICK end \in Nat : end = now + 1
  BY <1>2
<1>4. PICK live \in SUBSET RowUpTo(now, Newest) : live = Live
  BY DEF Live, View, Admissible, HistoryTypes
<1>5. PICK views : views = SUBSET RowUpTo(now, Newest)
  OBVIOUS
<1>6. /\ days \in Seq(Nat) /\ shownAt \in Seq(views) /\ days' = Append(days, end) /\ shownAt' = Append(shownAt, live)
      /\ live \in views /\ Len(shownAt) = Len(days) /\ Len(days) \in Nat
  BY <1>3, <1>4, <1>5, LenProperties DEF EndDay, HistoryTypes
<1>7. /\ days' \in Seq(Nat) /\ Len(days') = Len(days) + 1
      /\ \A d \in 1 .. Len(days) : days'[d] = days[d]
      /\ days'[Len(days) + 1] = end
  BY <1>6, AppendProperties
<1>8. /\ shownAt' \in Seq(views) /\ Len(shownAt') = Len(days) + 1
      /\ \A d \in 1 .. Len(days) : shownAt'[d] = shownAt[d]
      /\ shownAt'[Len(days) + 1] = live
  BY <1>6, AppendProperties
<1>9. \A d \in 1 .. Len(days) : days[d] \in Nat /\ days[d] <= now
  <2> SUFFICES ASSUME NEW d \in 1 .. Len(days) PROVE days[d] \in Nat /\ days[d] <= now
    OBVIOUS
  <2>1. days[d] \in Nat /\ days[Len(days)] \in Nat /\ days[Len(days)] <= now
    <3>1. days # <<>> /\ Len(days) \in 1 .. Len(days)
      BY <1>6
    <3> QED BY <1>6, <3>1 DEF EndDay
  <2>2. CASE d = Len(days)
    BY <2>1, <2>2
  <2>3. CASE d # Len(days)
    <3>1. Len(days) \in d + 1 .. Len(days)
      BY <1>6, <2>3
    <3>2. days[d] < days[Len(days)]
      BY <3>1 DEF HistoryTypes
    <3> QED BY <1>2, <2>1, <3>2
  <2> QED BY <2>2, <2>3
<1>10. ASSUME NEW d \in 1 .. Len(days')
       PROVE  days'[d] <= now + 1 /\ \A e \in d + 1 .. Len(days') : days'[d] < days'[e]
  <2>1. CASE d = Len(days) + 1
    BY <1>2, <1>3, <1>6, <1>7, <2>1
  <2>2. CASE d # Len(days) + 1
    <3>1. d \in 1 .. Len(days)
      BY <1>6, <1>7, <2>2
    <3>2. days'[d] = days[d] /\ days[d] \in Nat /\ days[d] <= now
      BY <1>7, <1>9, <3>1
    <3>3. ASSUME NEW e \in d + 1 .. Len(days') PROVE days'[d] < days'[e]
      <4>1. CASE e = Len(days) + 1
        BY <1>2, <1>3, <1>7, <3>2, <4>1
      <4>2. CASE e # Len(days) + 1
        <5>1. e \in d + 1 .. Len(days) /\ e \in 1 .. Len(days)
          BY <1>6, <1>7, <3>1, <4>2
        <5>2. days[d] < days[e]
          BY <3>1, <5>1 DEF HistoryTypes
        <5> QED BY <1>7, <3>2, <5>1, <5>2
      <4> QED BY <4>1, <4>2
    <3> QED BY <1>2, <3>2, <3>3
  <2> QED BY <2>1, <2>2
<1>11. HistoryTypes'
  <2>1. RowUpTo(now, Newest)' = RowUpTo(now, Newest) /\ RunUpTo(now, Newest)' = RunUpTo(now, Newest)
    BY <1>1, <1>2 DEF RowUpTo, RunUpTo
  <2> QED BY <1>1, <1>2, <1>5, <1>7, <1>8, <1>10, <2>1 DEF HistoryTypes
<1> QED BY <1>3, <1>4, <1>6, <1>7, <1>8, <1>11

(* What a row recorded by now is to a watermark does not change when the   *)
(* day ends: the end is later than the row.                                *)
LEMMA EndIsLater ==
  ASSUME HistoryTypes, EndDay, NEW instant \in 0 .. now
  PROVE  /\ EndOfDay(instant)' \in Nat /\ EndOfDay(instant) \in Nat
         /\ \A n \in 0 .. now : n <= EndOfDay(instant)' <=> n <= EndOfDay(instant)
<1>0. now \in Nat /\ Never > now /\ Never \in Nat /\ EndOfDay(instant) \in Nat
  BY Moments, DayEnds
<1>1. Ends' = Ends \cup {now + 1} /\ Ends \subseteq Nat
  <2>1. DOMAIN days = 1 .. Len(days) /\ DOMAIN days' = 1 .. Len(days) + 1
    BY DayLengthens DEF HistoryTypes
  <2>2. Ends' \subseteq Ends \cup {now + 1}
    BY <2>1, DayLengthens DEF Ends
  <2>3. Ends \subseteq Ends'
    <3>1. \A d \in DOMAIN days : d \in DOMAIN days' /\ days'[d] = days[d]
      BY <2>1, DayLengthens
    <3> QED BY <3>1 DEF Ends
  <2>4. now + 1 \in Ends'
    <3>1. Len(days) + 1 \in DOMAIN days' /\ days'[Len(days) + 1] = now + 1
      BY <2>1, DayLengthens
    <3> QED BY <3>1 DEF Ends
  <2> QED BY <2>2, <2>3, <2>4, EndsAreNatural
<1>2. PICK later : later = {e \in Ends : e > instant}
  OBVIOUS
<1>3. PICK after : after = {e \in Ends' : e > instant}
  OBVIOUS
<1>4. after = later \cup {now + 1} /\ later \in SUBSET Nat /\ after \in SUBSET Nat
  <2>1. now + 1 \in Nat /\ now + 1 > instant
    BY <1>0
  <2>2. after = later \cup {now + 1}
    BY <1>1, <1>2, <1>3, <2>1
  <2>3. later \in SUBSET Nat
    BY <1>1, <1>2
  <2> QED BY <2>1, <2>2, <2>3
<1>5. EndOfDay(instant)' = Min(after) - 1
  <2>1. \E e \in Ends' : e > instant
    BY <1>3, <1>4
  <2> QED BY <1>3, <2>1 DEF EndOfDay, Ends, Min
<1>6. Min(after) \in after /\ \A e \in after : Min(after) <= e
  BY <1>4, LeastOf
<1>7. CASE later = {}
  <2>1. EndOfDay(instant) = Never
    BY <1>2, <1>7 DEF EndOfDay, Ends
  <2>2. EndOfDay(instant)' = now
    BY <1>0, <1>4, <1>5, <1>6, <1>7
  <2> QED BY <1>0, <2>1, <2>2
<1>8. CASE later # {}
  <2>1. EndOfDay(instant) = Min(later) - 1
    <3>1. \E e \in Ends : e > instant
      BY <1>2, <1>8
    <3> QED BY <1>2, <3>1 DEF EndOfDay, Ends
  <2>2. Min(later) \in later /\ \A e \in later : Min(later) <= e
    BY <1>4, <1>8, LeastOf
  <2>3. Min(later) <= now + 1
    <3>1. \A d \in DOMAIN days : days[d] <= now + 1
      BY DEF HistoryTypes
    <3> QED BY <1>2, <2>2, <3>1 DEF Ends
  <2>4. Min(after) = Min(later)
    <3>1. Min(after) \in Nat /\ Min(later) \in Nat
      BY <1>4, <1>6, <2>2
    <3>2. Min(after) <= Min(later)
      BY <1>4, <1>6, <2>2
    <3>3. Min(later) <= Min(after)
      BY <1>0, <1>4, <1>6, <2>2, <2>3
    <3> QED BY <3>1, <3>2, <3>3
  <2> QED BY <1>0, <1>5, <2>1, <2>4
<1> QED BY <1>7, <1>8

LEMMA WatermarkReaches ==
  ASSUME HistoryTypes, EndDay, NEW p \in RunUpTo(now, Newest), NEW n \in 0 .. now
  PROVE  n <= Watermark(p)' <=> n <= Watermark(p)
<1>0. UNCHANGED <<filing, rows, oldRows, parses, oldParses, baseline, now>>
  BY DEF EndDay, tables
<1>1. RepairsOf(p)' = RepairsOf(p) /\ \A r : StoodAt(p, r)' = StoodAt(p, r)
  BY <1>0 DEF RepairsOf, StoodAt, RowsOf
<1>2. PICK before \in Nat, after \in Nat :
        /\ before = EndOfDay(p.parsed) /\ after = EndOfDay(p.parsed)'
        /\ n <= after <=> n <= before
  <2>1. p.parsed \in 0 .. now
    BY RunFields
  <2> QED BY <2>1, EndIsLater
<1>3. CASE p.watermark # NoInstant
  BY <1>3 DEF Watermark
<1>4. CASE p.watermark = NoInstant /\ RepairsOf(p) = {}
  BY <1>1, <1>2, <1>4 DEF Watermark
<1>5. CASE p.watermark = NoInstant /\ RepairsOf(p) # {}
  <2>1. PICK r : r = Min(RepairsOf(p))
    OBVIOUS
  <2>2. StoodAt(p, r) \in SUBSET RowUpTo(now, Newest)
    BY DEF StoodAt, RowsOf, Of, HistoryTypes, Retired
  <2>3. PICK last \in Int : last = MaxCreated(StoodAt(p, r))
    BY <2>2, MaxCreatedBounds, Moments
  <2>4. Watermark(p) = Min({before, last})
    BY <1>2, <1>5, <2>1, <2>3 DEF Watermark
  <2>5. Watermark(p)' = Min({after, last})
    <3>1. RepairsOf(p)' # {} /\ Min(RepairsOf(p)') = r /\ MaxCreated(StoodAt(p, r)') = last
      BY <1>1, <1>5, <2>1, <2>3
    <3>2. Watermark(p)' = Min({EndOfDay(p.parsed)', MaxCreated(StoodAt(p, r)')})
      BY <1>5, <3>1 DEF Watermark, Min, MaxCreated
    <3> QED BY <1>2, <3>1, <3>2
  <2> QED BY <1>2, <2>3, <2>4, <2>5, LeastOfTwo
<1> QED BY <1>3, <1>4, <1>5

LEMMA EndKeepsViews ==
  ASSUME HistoryTypes, EndDay, NEW c
  PROVE  AsOf(c)' = AsOf(c)
<1>0. UNCHANGED <<filing, rows, oldRows, parses, oldParses, baseline, now>> /\ Newest' = Newest
  BY DEF EndDay, tables, Newest
<1>1. PICK table : table = RowsAt(c)
  OBVIOUS
<1>2. RowsAt(c)' = table /\ table \subseteq RowUpTo(now, Newest)
  BY <1>0, <1>1 DEF RowsAt, HistoryTypes, Retired
<1>3. ParsesAt(c)' = ParsesAt(c) /\ ParsesAt(c) \subseteq RunUpTo(now, Newest)
  BY <1>0 DEF ParsesAt, HistoryTypes, Retired
<1>4. ASSUME NEW p \in ParsesAt(c) PROVE ActedOn(p, table, c)' <=> ActedOn(p, table, c)
  <2>1. \A t \in RowsOf(p, table) : t.created \in 0 .. now
    BY <1>2, RowFields DEF RowsOf, Of
  <2>2. \A t \in RowsOf(p, table) : t.created <= Watermark(p)' <=> t.created <= Watermark(p)
    BY <1>3, <2>1, WatermarkReaches
  <2> QED BY <2>2 DEF ActedOn, RowsOf
<1>5. PICK decisions : decisions = {p \in ParsesAt(c) : ActedOn(p, table, c)}
  OBVIOUS
<1>6. decisions = {p \in ParsesAt(c) : ActedOn(p, table, c)}'
  BY <1>3, <1>4, <1>5
<1>7. PICK generations : generations = {g \in 1 .. Newest : filing[g].promoted < c}
  OBVIOUS
<1>8. AsOf(c) = View(table, decisions, generations)
  BY <1>1, <1>5, <1>7 DEF AsOf
<1>9. AsOf(c)' = View(table, decisions, generations)'
  BY <1>0, <1>2, <1>6, <1>7 DEF AsOf
<1> QED BY <1>0, <1>8, <1>9 DEF View, Admissible, AcceptedGenerations, Listed

LEMMA EndDayKeeps ==
  ASSUME HistoryInv, EndDay
  PROVE  HistoryInv' /\ ArchivesAll
<1>0. HistoryTypes /\ UNCHANGED <<filing, rows, oldRows, parses, oldParses, baseline, now>>
  BY DEF HistoryInv, EndDay, tables
<1>1. HistoryTypes'
  BY <1>0, DayLengthens
<1>2. RowsStored' /\ Distinct(baseline.rows)'
  BY <1>0 DEF HistoryInv, RowsStored, Distinct
<1>3. RowsAreCovered'
  BY <1>0 DEF HistoryInv, RowsAreCovered, Vouches, Counted, Covers, RowsOf, RepairsOf
<1>4. PICK end \in Nat : end = now + 1 /\ end > now
  BY <1>0, Moments
<1>5. AsOf(end) = Live
  BY <1>0, <1>4, ViewIsLive DEF HistoryInv
<1>6. PastIsFixed'
  <2>1. DOMAIN days' = 1 .. Len(days) + 1 /\ DOMAIN days = 1 .. Len(days)
    BY <1>0, <1>1, DayLengthens DEF HistoryTypes
  <2> SUFFICES ASSUME NEW d \in DOMAIN days', NEW c, c = days'[d]
               PROVE  AsOf(c)' = shownAt'[d]
    BY DEF PastIsFixed, AsOf, RowsAt, ParsesAt
  <2>2. AsOf(c)' = AsOf(c)
    BY <1>0, EndKeepsViews
  <2>3. CASE d = Len(days) + 1
    <3>1. c = end /\ shownAt'[d] = Live
      BY <1>0, <1>4, <2>3, DayLengthens
    <3> QED BY <1>5, <2>2, <3>1
  <2>4. CASE d # Len(days) + 1
    <3>1. d \in DOMAIN days
      BY <1>0, <2>1, <2>4, DayLengthens
    <3>2. c = days[d] /\ shownAt'[d] = shownAt[d]
      BY <1>0, <2>1, <3>1, DayLengthens
    <3>3. AsOf(c) = shownAt[d]
      BY <3>1, <3>2 DEF HistoryInv, PastIsFixed
    <3> QED BY <2>2, <3>2, <3>3
  <2> QED BY <2>3, <2>4
<1>7. ArchivesAll
  BY <1>0 DEF ArchivesAll
<1> QED BY <1>1, <1>2, <1>3, <1>6, <1>7 DEF HistoryInv

-----------------------------------------------------------------------------

LEMMA HistoryStands ==
  ASSUME HistoryInv, UNCHANGED historyVars
  PROVE  HistoryInv' /\ ArchivesAll
<1>1. UNCHANGED <<filing, rows, oldRows, parses, oldParses, baseline, now, days, shownAt>> /\ Newest' = Newest
  BY DEF historyVars, tables, Newest
<1>2. HistoryTypes'
  BY <1>1 DEF HistoryInv, HistoryTypes
<1>3. RowsStored' /\ Distinct(baseline.rows)'
  BY <1>1 DEF HistoryInv, RowsStored, Distinct
<1>4. RowsAreCovered'
  BY <1>1 DEF HistoryInv, RowsAreCovered, Vouches, Counted, Covers, RowsOf, RepairsOf
<1>5. ASSUME NEW c PROVE AsOf(c)' = AsOf(c)
  BY <1>1 DEF AsOf, RowsAt, ParsesAt, ActedOn, Watermark, EndOfDay, RepairsOf, StoodAt, RowsOf,
              View, Admissible, AcceptedGenerations, Listed
<1>6. PastIsFixed'
  <2> SUFFICES ASSUME NEW d \in DOMAIN days, NEW c, c = days[d]
               PROVE  AsOf(c)' = shownAt[d]
    BY <1>1 DEF PastIsFixed, AsOf, RowsAt, ParsesAt
  <2> QED BY <1>5 DEF HistoryInv, PastIsFixed
<1> QED BY <1>1, <1>2, <1>3, <1>4, <1>6 DEF HistoryInv, ArchivesAll

LEMMA HistorySteps ==
  ASSUME HistoryInv, [HistoryNext]_historyVars
  PROVE  HistoryInv' /\ ArchivesAll
<1>1. CASE \E sha \in Sha \cup {NotListed} : Promote(sha)
  BY <1>1, PromoteKeeps
<1>2. CASE Complete
  BY <1>2, CompleteKeeps
<1>3. CASE SettleFiling
  <2>1. PICK g \in 1 .. Newest :
          \/ \E reading \in HouseReading \cup {<<>>} : SaveParse(g, reading)
          \/ FailParse(g) \/ MarkInvalid(g)
          \/ \E recipe \in OcrRecipe :
               RejectReading(g, recipe) \/ \E reading \in Reading \cup {<<>>} : AdmitReading(g, recipe, reading)
    BY <1>3 DEF SettleFiling
  <2> QED BY <2>1, SaveParseKeeps, FailParseKeeps, MarkInvalidKeeps, RejectReadingKeeps, AdmitReadingKeeps
<1>4. CASE Maintain
  <2>1. CASE \E t \in rows : DeleteRow(t)
    BY <2>1, DeleteRowKeeps
  <2>2. CASE \E t \in rows, says \in Content : Rewrite(t, says)
    BY <2>2, RewriteKeeps
  <2> QED BY <1>4, <2>1, <2>2, PurgeKeeps, QuarantineKeeps, BaselineKeeps DEF Maintain
<1>5. CASE EndDay
  BY <1>5, EndDayKeeps
<1>6. CASE UNCHANGED historyVars
  BY <1>6, HistoryStands
<1> QED BY <1>1, <1>2, <1>3, <1>4, <1>5, <1>6 DEF HistoryNext

(* canonical_as_of keeps its word: whatever is parsed, admitted, repaired, *)
(* quarantined or purged later, the view of a day that has ended is what   *)
(* canonical_transactions showed when it ended, today's view is the live   *)
(* one, and no two rows of a generation have the same key.                 *)
THEOREM HistoryIsKept == HistorySpec => []HistoryIsFaithful
<1>1. HistoryInv /\ [HistoryNext]_historyVars => HistoryInv'
  BY HistorySteps
<1>2. HistoryInv => HistoryIsFaithful
  <2> SUFFICES ASSUME HistoryInv PROVE TodayAgrees
    BY DEF HistoryInv, HistoryIsFaithful
  <2>1. HistoryTypes /\ Never \in Nat /\ Never > now
    BY Moments DEF HistoryInv
  <2> QED BY <2>1, ViewIsLive DEF HistoryInv, TodayAgrees
<1> QED BY <1>1, <1>2, HistoryStarts, PTL DEF HistorySpec

(* A writer archives what it retires: a row that leaves `transactions` is  *)
(* in transaction_versions, a run that leaves pdf_parse_runs is in         *)
(* parse_run_versions, and neither history loses an entry.                 *)
THEOREM RowsAndRunsAreArchived == HistorySpec => NothingIsLost
<1>1. HistoryInv /\ [HistoryNext]_historyVars => HistoryInv' /\ [ArchivesAll]_historyVars
  BY HistorySteps
<1>2. HistorySpec => [][ArchivesAll]_historyVars
  BY <1>1, HistoryStarts, PTL DEF HistorySpec
<1> QED BY <1>2 DEF NothingIsLost, ArchivesAll
=============================================================================
