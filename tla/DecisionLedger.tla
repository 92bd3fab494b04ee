--------------------------- MODULE DecisionLedger ---------------------------
(***************************************************************************)
(* Publication of decision receipts (decision_snapshot.py).                *)
(*                                                                         *)
(* A decision is the hash of its content, so a receipt's name, its content *)
(* and its line in the ledger are one value.  Publishers serialise on a    *)
(* lock beside the ledger; any of them may be killed, a write may be short *)
(* and the machine may lose what was not flushed.  The hash of a line      *)
(* depends on all the lines before it, hence stands here as the sequence   *)
(* of the decisions up to that line.  A name is taken to be as durable as  *)
(* the directory or file last flushed below it.                            *)
(***************************************************************************)
EXTENDS Naturals, Sequences, SequencesExt

CONSTANTS Decision, Publisher, Nobody

ASSUME LedgerAssumption == Nobody \notin Publisher \union Decision

VARIABLES
  ledger,     (* receipts.log, line by line                                *)
  flushed,    (* how many of its lines are on the disk                     *)
  receipts,   (* the receipt files that can be read                        *)
  kept,       (* those whose directory entry is on the disk                *)
  holder,     (* who holds the lock                                        *)
  pub,        (* the publishers                                            *)
  served,     (* history: decisions printed after their publication        *)
  torn,       (* history: a line was not written whole                     *)
  doubtful    (* history: visible, but its publisher died before the flush *)

ledgerVars == <<ledger, flushed, receipts, kept, holder, pub, served, torn, doubtful>>
files == <<ledger, flushed, receipts, kept>>
history == <<served, torn, doubtful>>

Unreadable == [decision |-> Nobody, prev |-> <<>>]
Entry == [decision : Decision, prev : Seq(Decision)]
Line == [entry : Entry \union {Unreadable}, ended : BOOLEAN]
Stage == {"idle", "waiting", "loaded", "linked", "anchored", "appended", "written"}
Idle == [at |-> "idle", decision |-> Nobody, seen |-> <<>>]

LedgerTypeOK ==
  /\ ledger \in Seq(Line)
  /\ flushed \in 0 .. Len(ledger)
  /\ kept \subseteq receipts /\ receipts \subseteq Decision
  /\ holder \in Publisher \union {Nobody}
  /\ pub \in [Publisher -> [at : Stage, decision : Decision \union {Nobody},
                            seen : Seq(Decision)]]
  /\ served \subseteq Decision /\ doubtful \subseteq Decision /\ torn \in BOOLEAN
  /\ \A p \in Publisher : holder = p <=> pub[p].at \notin {"idle", "waiting"}

(* _load_ledger: every line parses and names the hash of the one before.   *)
Decisions == [i \in 1 .. Len(ledger) |-> ledger[i].entry.decision]
Readable ==
  \A i \in 1 .. Len(ledger) :
    /\ ledger[i].entry # Unreadable
    /\ ledger[i].entry.prev = SubSeq(Decisions, 1, i - 1)

(* verify_decision                                                         *)
Verifies(d) == d \in receipts /\ Readable /\ d \in Range(Decisions)

-----------------------------------------------------------------------------
Move(p, stage) == pub' = [pub EXCEPT ![p].at = stage]
Give(p) == holder' = Nobody /\ pub' = [pub EXCEPT ![p] = Idle]

Decide(p, d) ==
  /\ pub[p].at = "idle"
  /\ pub' = [pub EXCEPT ![p] = [at |-> "waiting", decision |-> d, seen |-> <<>>]]
  /\ UNCHANGED <<files, holder, history>>

(* The lock is taken and the whole chain is read under it.                 *)
Enter(p) ==
  /\ pub[p].at = "waiting" /\ holder = Nobody /\ Readable
  /\ holder' = p
  /\ pub' = [pub EXCEPT ![p].at = "loaded", ![p].seen = Decisions]
  /\ UNCHANGED <<files, history>>

EnterRefused(p) ==
  /\ pub[p].at = "waiting" /\ holder = Nobody /\ ~Readable
  /\ Give(p)
  /\ UNCHANGED <<files, history>>

(* A complete temporary file is linked under the decision's name ...       *)
Link(p) ==
  /\ pub[p].at = "loaded" /\ pub[p].decision \notin receipts
  /\ receipts' = receipts \union {pub[p].decision}
  /\ Move(p, "linked")
  /\ UNCHANGED <<ledger, flushed, kept, holder, history>>

(* Mutant: the directory entry is left to the kernel.                      *)
FlushReceiptLazily(p) ==
  /\ pub[p].at = "linked"
  /\ Move(p, "anchored")
  /\ UNCHANGED <<ledger, flushed, kept, receipts, holder, history>>

(* ... and its directory is flushed; a file that exists is left as it is.  *)
FlushReceipt(p) ==
  /\ pub[p].at = "linked"
  /\ kept' = kept \union {pub[p].decision}
  /\ Move(p, "anchored")
  /\ UNCHANGED <<ledger, flushed, receipts, holder, history>>

Found(p) ==
  /\ pub[p].at = "loaded" /\ pub[p].decision \in receipts
  /\ Move(p, "anchored")
  /\ UNCHANGED <<files, holder, history>>

Already(p) == pub[p].decision \in Range(pub[p].seen)

Repeat(p) ==
  /\ pub[p].at = "anchored" /\ Already(p)
  /\ Move(p, "written")
  /\ UNCHANGED <<files, holder, history>>

(* Bytes added to a text whose last line has no end continue that line.    *)
Written(line) ==
  IF ledger # <<>> /\ ~Last(ledger).ended
  THEN Append(Front(ledger), [entry |-> Unreadable, ended |-> line.ended])
  ELSE Append(ledger, line)

NewLine(p) == [entry |-> [decision |-> pub[p].decision, prev |-> pub[p].seen], ended |-> TRUE]
Cut(line) == {[entry |-> Unreadable, ended |-> FALSE], [line EXCEPT !.ended = FALSE]}

AppendLine(p) ==
  /\ pub[p].at = "anchored" /\ ~Already(p)
  /\ ledger' = Written(NewLine(p))
  /\ Move(p, "appended")
  /\ UNCHANGED <<flushed, receipts, kept, holder, history>>

(* The disk is full: os.write returns a smaller count and nobody looks.    *)
ShortWrite(p) ==
  /\ pub[p].at = "anchored" /\ ~Already(p)
  /\ \E line \in Cut(NewLine(p)) : ledger' = Written(line)
  /\ torn' = TRUE
  /\ Move(p, "appended")
  /\ UNCHANGED <<flushed, receipts, kept, holder, served, doubtful>>

FlushLedger(p) ==
  /\ pub[p].at = "appended"
  /\ flushed' = Len(ledger)
  /\ Move(p, "written")
  /\ UNCHANGED <<ledger, receipts, kept, holder, history>>

(* The publication is verified under the lock; only then it is printed.    *)
Serve(p) ==
  /\ pub[p].at = "written" /\ Verifies(pub[p].decision)
  /\ served' = served \union {pub[p].decision}
  /\ Give(p)
  /\ UNCHANGED <<files, torn, doubtful>>

Refuse(p) ==
  /\ pub[p].at = "written" /\ ~Verifies(pub[p].decision)
  /\ Give(p)
  /\ UNCHANGED <<files, history>>

(* The kernel closes the descriptor of a dead publisher and its lock.      *)
Kill(p) ==
  /\ pub[p].at # "idle"
  /\ holder' = IF holder = p THEN Nobody ELSE holder
  /\ pub' = [pub EXCEPT ![p] = Idle]
  /\ doubtful' = IF pub[p].at \in {"linked", "appended"} THEN doubtful \union {pub[p].decision} ELSE doubtful
  /\ UNCHANGED <<files, served, torn>>

(* What was not flushed is there, is not there, or is there in part.       *)
PowerLoss ==
  /\ \E n \in flushed .. Len(ledger) :
       LET whole == SubSeq(ledger, 1, n) IN
       \/ ledger' = whole /\ torn' = torn
       \/ /\ n < Len(ledger)
          /\ \E line \in Cut(ledger[n + 1]) : ledger' = Append(whole, line)
          /\ torn' = TRUE
  /\ \E some \in SUBSET receipts : receipts' = kept \union some
  /\ flushed' = Len(ledger') /\ kept' = receipts'
  /\ holder' = Nobody
  /\ pub' = [p \in Publisher |-> Idle]
  /\ UNCHANGED <<served, doubtful>>

LedgerInit ==
  /\ ledger = <<>> /\ flushed = 0
  /\ receipts = {} /\ kept = {}
  /\ holder = Nobody
  /\ pub = [p \in Publisher |-> Idle]
  /\ served = {} /\ torn = FALSE /\ doubtful = {}

Publish(p) ==
  \/ Enter(p) \/ EnterRefused(p)
  \/ Link(p) \/ FlushReceipt(p) \/ Found(p) \/ Repeat(p)
  \/ AppendLine(p) \/ ShortWrite(p) \/ FlushLedger(p)
  \/ Serve(p) \/ Refuse(p)

LedgerNext ==
  \/ \E p \in Publisher : Publish(p) \/ Kill(p) \/ \E d \in Decision : Decide(p, d)
  \/ PowerLoss

LedgerSpec == LedgerInit /\ [][LedgerNext]_ledgerVars

-----------------------------------------------------------------------------
(* Whatever writers overlap or die, each line extends the one before: the  *)
(* ledger becomes unreadable only by a write that was not whole.           *)
OneChain == ~torn => Readable

(* Every decision has one line, however often it is published again after  *)
(* kills and losses.                                                       *)
RecordedOnce ==
  Readable => \A i, j \in 1 .. Len(ledger) : Decisions[i] = Decisions[j] => i = j

(* A line without a receipt is a decision nobody can check: it never       *)
(* exists, not even after a loss of power.                                 *)
LinesHaveReceipts == Readable => Range(Decisions) \subseteq receipts \union doubtful

(* A decision that was printed stays on record through kills and losses.   *)
ServedIsAnchored ==
  Readable => \A d \in served \ doubtful : Verifies(d)

(* The ledger can be trusted after any order of publications, kills and    *)
(* losses of power: it is one chain, without repetition, every line has a  *)
(* receipt, and what was printed is in it.                                 *)
LedgerIsSound ==
  LedgerTypeOK /\ OneChain /\ RecordedOnce /\ LinesHaveReceipts /\ ServedIsAnchored
=============================================================================
