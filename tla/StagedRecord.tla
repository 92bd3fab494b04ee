---------------------------- MODULE StagedRecord ----------------------------
(***************************************************************************)
(* What the audit relies on about the live staging records, whoever writes *)
(* them: a record changes only while the lock of its document is held, it  *)
(* disappears before a later reading takes its name, and readings are      *)
(* never taken back.                                                       *)
(***************************************************************************)
EXTENDS Naturals

CONSTANTS Doc, MaxReadings

ASSUME RecordAssumption == MaxReadings \in Nat

VARIABLES
  live,     (* the reading in the live record of a document, 0 if none     *)
  busy,     (* documents whose lock a stager holds                         *)
  count     (* readings published so far                                   *)

recordVars == <<live, busy, count>>

Reading == 1 .. MaxReadings

RecordTypeOK ==
  /\ live \in [Doc -> 0 .. MaxReadings]
  /\ busy \subseteq Doc
  /\ count \in 0 .. MaxReadings

RecordInit == live = [d \in Doc |-> 0] /\ busy = {} /\ count = 0

Seize(d) ==
  /\ d \notin busy
  /\ busy' = busy \union {d}
  /\ UNCHANGED <<live, count>>

Clear(d) ==
  /\ d \in busy
  /\ live' = [live EXCEPT ![d] = 0]
  /\ UNCHANGED <<busy, count>>

Write(d) ==
  /\ d \in busy /\ live[d] = 0 /\ count < MaxReadings
  /\ count' = count + 1
  /\ live' = [live EXCEPT ![d] = count + 1]
  /\ busy' = busy \ {d}

(* The lock is given up without a new record, or dies with its process.    *)
Release(d) ==
  /\ d \in busy
  /\ busy' = busy \ {d}
  /\ UNCHANGED <<live, count>>

RecordNext == \E d \in Doc : Seize(d) \/ Clear(d) \/ Write(d) \/ Release(d)

RecordSpec == RecordInit /\ [][RecordNext]_recordVars

(* Readings of a document only become newer: no stager brings an older one *)
(* back over the reading that an audit has seen.                           *)
ReadingsAdvance ==
  [][\A d \in Doc : live'[d] \in {0, live[d]} \/ live'[d] > count]_recordVars
=============================================================================
